------------------------------ MODULE CanonicalJson ------------------------------
(***************************************************************************)
(* normalizeJson (canonical.ts): the walk over a value that every          *)
(* specification, configuration and fingerprint starts with.  A value is a *)
(* graph of arrays and objects; a program may use one object in several    *)
(* places, and only a cycle has no JSON.  The walk keeps the objects it is *)
(* inside of.  Scalars and the order of keys are left to CanonicalText.    *)
(***************************************************************************)
EXTENDS Integers, Sequences, FiniteSets

CONSTANTS Nodes, Root,
  MaxChildren    \* children of one object

ASSUME WalkAssumption == Root \in Nodes /\ MaxChildren \in Nat

VARIABLES
  children,     \* what each object holds, in order
  aliens,       \* what has no JSON: functions, dates, unpaired surrogates, infinite numbers
  stack,        \* [node, visited]: the open calls of normalize, and how many children each has visited
  ancestors,
  verdict       \* "walking", "normalized" or "refused"

walkVars == <<children, aliens, stack, ancestors, verdict>>

Top == stack[Len(stack)]
Rest == SubSeq(stack, 1, Len(stack) - 1)
Call(node, visited) == [node |-> node, visited |-> visited]

Walking == verdict = "walking" /\ stack # <<>>

Open(node, callers) ==
  IF node \in aliens \cup ancestors
    THEN verdict' = "refused" /\ UNCHANGED <<stack, ancestors>>
    ELSE /\ stack' = Append(callers, Call(node, 0))
         /\ ancestors' = ancestors \cup {node}
         /\ UNCHANGED verdict

Start ==
  /\ verdict = "walking" /\ stack = <<>>
  /\ Open(Root, <<>>)
  /\ UNCHANGED <<children, aliens>>

Visit ==
  /\ Walking /\ Top.visited < Len(children[Top.node])
  /\ Open(children[Top.node][Top.visited + 1], Append(Rest, Call(Top.node, Top.visited + 1)))
  /\ UNCHANGED <<children, aliens>>

\* An object that stays marked once it was visited.
LeaveMarked ==
  /\ Walking /\ Top.visited = Len(children[Top.node])
  /\ stack' = Rest /\ verdict' = IF Rest = <<>> THEN "normalized" ELSE verdict
  /\ UNCHANGED <<children, aliens, ancestors>>

Leave ==
  /\ Walking /\ Top.visited = Len(children[Top.node])
  /\ stack' = Rest /\ ancestors' = ancestors \ {Top.node}
  /\ verdict' = IF Rest = <<>> THEN "normalized" ELSE verdict
  /\ UNCHANGED <<children, aliens>>

WalkInit ==
  /\ children \in [Nodes -> UNION {[1..n -> Nodes] : n \in 0..MaxChildren}]
  /\ aliens \in {{}} \cup {{n} : n \in Nodes}
  /\ stack = <<>> /\ ancestors = {} /\ verdict = "walking"
WalkNext == Start \/ Visit \/ Leave
WalkSpec == WalkInit /\ [][WalkNext]_walkVars

-----------------------------------------------------------------------------
(* Properties.                                                             *)
ChildrenOf(n) == {children[n][i] : i \in DOMAIN children[n]}
Reached ==
  LET closed == {S \in SUBSET Nodes : Root \in S /\ \A n \in S : ChildrenOf(n) \subseteq S}
  IN  {n \in Nodes : \A S \in closed : n \in S}
Cyclic == \E S \in SUBSET Reached : S # {} /\ \A n \in S : ChildrenOf(n) \cap S # {}

\* The walk is inside exactly the objects of its open calls, and in none of them twice, so its
\* depth is bounded by their number.
WalkTypeOK ==
  /\ verdict \in {"walking", "normalized", "refused"}
  /\ ancestors = {stack[i].node : i \in DOMAIN stack}
  /\ Cardinality(ancestors) = Len(stack)

\* A value is refused exactly when it holds a cycle or something that has no JSON, and is not
\* refused for using one object in two places; the walk over it is bounded.
RefusedRightly ==
  /\ WalkTypeOK
  /\ verdict = "refused" => Cyclic \/ aliens \cap Reached # {}
  /\ verdict = "normalized" => ~Cyclic /\ aliens \cap Reached = {}
=============================================================================
