------------------------------ MODULE DocumentProofs ------------------------------
(***************************************************************************)
(* What is judged, sorted and fingerprinted outside of a deployment plan.  *)
(*                                                                         *)
(* The walk of normalizeJson is right about every graph of objects, with   *)
(* any number of nodes and children: it refuses exactly the values that    *)
(* hold a cycle or something that has no JSON.  An object in two places is *)
(* walked twice, and nothing is remembered of the first time: that its     *)
(* children are sound is remembered by the proof, as membership in Good.   *)
(* A text tells the members of its document because its keys are a         *)
(* function of their set, and a job's specification its work because its   *)
(* sorted lists are a function of theirs.  A report that passed for one    *)
(* profile cannot pass for another because it would have the roles of      *)
(* both.                                                                   *)
(***************************************************************************)
EXTENDS CanonicalJson, CanonicalText, LifecycleJob, Conformance, RankTheorems, SequenceTheorems

-----------------------------------------------------------------------------
(* The walk.                                                               *)
\* A set without aliens or cycles that nothing leads out of.
Soundly(S) ==
  /\ \A n \in S : n \notin aliens /\ ChildrenOf(n) \subseteq S
  /\ \A T \in SUBSET S : (\A n \in T : ChildrenOf(n) \cap T # {}) => T = {}
Good == UNION {S \in SUBSET Nodes : Soundly(S)}

\* The stack is a path from the root, without repetition.
Frames == [node : Nodes, visited : Nat]
TypeInv == children \in [Nodes -> Seq(Nodes)] /\ stack \in Seq(Frames)
FromRoot == stack # <<>> => stack[1].node = Root
Bounded == \A i \in 1..Len(stack) : stack[i].visited <= Len(children[stack[i].node])
Linked ==
  \A i \in 1..(Len(stack) - 1) :
    stack[i].visited # 0 /\ children[stack[i].node][stack[i].visited] = stack[i + 1].node
Marked == ancestors = {stack[i].node : i \in 1..Len(stack)}
Counted == IsFiniteSet(ancestors) /\ Cardinality(ancestors) = Len(stack)
Single == \A i, j \in 1..Len(stack) : stack[i].node = stack[j].node => i = j

\* What a call has visited is sound, but for the child it is in.
ReachedInv == \A i \in 1..Len(stack) : stack[i].node \in Reached /\ stack[i].node \notin aliens
SoundInv ==
  \A i \in 1..Len(stack) : \A k \in 1..stack[i].visited :
    children[stack[i].node][k] \in Good \/ (i # Len(stack) /\ k = stack[i].visited)

VerdictInv ==
  /\ verdict \in {"walking", "normalized", "refused"}
  /\ verdict = "refused" => Cyclic \/ aliens \cap Reached # {}
  /\ verdict = "normalized" => Root \in Good

WalkInv ==
  /\ TypeInv /\ FromRoot /\ Bounded /\ Linked /\ Marked /\ Counted /\ Single
  /\ ReachedInv /\ SoundInv /\ VerdictInv

-----------------------------------------------------------------------------
(* Graphs.                                                                 *)
LEMMA ReachedClosed ==
  ASSUME Root \in Nodes, children \in [Nodes -> Seq(Nodes)]
  PROVE  /\ Reached \subseteq Nodes /\ Root \in Reached
         /\ \A n \in Reached : ChildrenOf(n) \subseteq Reached
<1>1. Reached \subseteq Nodes /\ Root \in Reached
  BY DEF Reached
<1>2. ASSUME NEW n \in Reached, NEW c \in ChildrenOf(n) PROVE c \in Reached
  <2>1. n \in Nodes
    BY <1>1
  <2>2. c \in Nodes
    BY <2>1 DEF ChildrenOf
  <2> QED BY <2>2, <1>2 DEF Reached
<1> QED BY <1>1, <1>2

\* A cycle in the sound nodes would be one in a sound set.
LEMMA GoodIsSound == Soundly(Good)
<1>1. ASSUME NEW n \in Good PROVE n \notin aliens /\ ChildrenOf(n) \subseteq Good
  BY DEF Good, Soundly
<1>2. ASSUME NEW T \in SUBSET Good, \A n \in T : ChildrenOf(n) \cap T # {}, NEW x \in T PROVE FALSE
  <2>1. PICK S \in SUBSET Nodes : Soundly(S) /\ x \in S
    BY DEF Good
  <2>2. \A n \in T \cap S : ChildrenOf(n) \cap (T \cap S) # {}
    BY <1>2, <2>1 DEF Soundly
  <2>3. T \cap S = {}
    BY <2>1, <2>2 DEF Soundly
  <2> QED BY <2>1, <2>3
<1> QED BY <1>1, <1>2 DEF Soundly

\* A node all of whose children are sound is sound.
LEMMA GoodGrows ==
  ASSUME NEW n \in Nodes, n \notin aliens, ChildrenOf(n) \subseteq Good
  PROVE  n \in Good
<1> DEFINE S == Good \cup {n}
<1>1. Soundly(Good) /\ Good \subseteq Nodes
  BY GoodIsSound DEF Good
<1>2. \A m \in S : m \notin aliens /\ ChildrenOf(m) \subseteq S
  BY <1>1 DEF Soundly
<1>3. ASSUME NEW T \in SUBSET S, \A m \in T : ChildrenOf(m) \cap T # {} PROVE T = {}
  <2>1. \A m \in T : ChildrenOf(m) \subseteq Good
    BY <1>1 DEF Soundly
  <2>2. \A m \in T \cap Good : ChildrenOf(m) \cap (T \cap Good) # {}
    BY <1>3, <2>1
  <2>3. T \cap Good = {}
    BY <1>1, <2>2 DEF Soundly
  <2> QED BY <1>3, <2>1, <2>3
<1>4. Soundly(S)
  BY <1>2, <1>3 DEF Soundly
<1> QED BY <1>1, <1>4 DEF Good

\* What is reached from a sound root is sound, so that it holds no cycle and no alien.
LEMMA GoodRoot ==
  ASSUME Root \in Nodes, Root \in Good
  PROVE  ~Cyclic /\ aliens \cap Reached = {}
<1>1. Soundly(Good) /\ Good \in SUBSET Nodes
  BY GoodIsSound DEF Good
<1>2. Reached \subseteq Good
  BY <1>1 DEF Reached, Soundly
<1>3. ASSUME NEW S \in SUBSET Reached, \A n \in S : ChildrenOf(n) \cap S # {} PROVE S = {}
  BY <1>1, <1>2, <1>3 DEF Soundly
<1> QED BY <1>1, <1>2, <1>3 DEF Soundly, Cyclic

\* The graph does not change.
LEMMA SameGraph ==
  ASSUME UNCHANGED <<children, aliens>>
  PROVE  Reached' = Reached /\ Good' = Good /\ Cyclic' = Cyclic
BY DEF Reached, Good, Cyclic, Soundly, ChildrenOf

-----------------------------------------------------------------------------
(* Steps.                                                                  *)
LEMMA InitWalk ==
  ASSUME Root \in Nodes, MaxChildren \in Nat
  PROVE  WalkInit => WalkInv
<1> SUFFICES ASSUME WalkInit PROVE WalkInv
  OBVIOUS
<1>1. stack = <<>> /\ ancestors = {} /\ verdict = "walking"
  BY DEF WalkInit
<1>2. TypeInv
  <2>1. \A n \in Nat : [1..n -> Nodes] \subseteq Seq(Nodes)
    OBVIOUS
  <2> QED BY <1>1, <2>1 DEF WalkInit, TypeInv
<1>3. Marked /\ Counted
  BY <1>1, FS_EmptySet DEF Marked, Counted
<1>4. FromRoot /\ Bounded /\ Linked /\ Single /\ ReachedInv /\ SoundInv
  BY <1>1 DEF FromRoot, Bounded, Linked, Single, ReachedInv, SoundInv
<1> QED BY <1>1, <1>2, <1>3, <1>4 DEF WalkInv, VerdictInv

\* A value that is refused leaves the walk where it is.
LEMMA RefuseWalk ==
  ASSUME WalkInv, UNCHANGED <<children, aliens, stack, ancestors>>, verdict' = "refused",
         Cyclic \/ aliens \cap Reached # {}
  PROVE  WalkInv'
<1>1. Reached' = Reached /\ Good' = Good /\ Cyclic' = Cyclic
  BY SameGraph
<1>2. (TypeInv /\ FromRoot /\ Bounded /\ Linked /\ Marked /\ Counted /\ Single)'
  BY DEF WalkInv, TypeInv, FromRoot, Bounded, Linked, Marked, Counted, Single
<1>3. (ReachedInv /\ SoundInv)'
  BY <1>1 DEF WalkInv, ReachedInv, SoundInv
<1> QED BY <1>1, <1>2, <1>3 DEF WalkInv, VerdictInv

\* The first call.
LEMMA StartWalk ==
  ASSUME Root \in Nodes, WalkInv, Start
  PROVE  WalkInv'
<1>1. /\ stack = <<>> /\ ancestors = {} /\ children' = children /\ aliens' = aliens
      /\ verdict = "walking" /\ children \in [Nodes -> Seq(Nodes)]
  <2>1. ancestors = {}
    BY DEF Start, WalkInv, Marked
  <2> QED BY <2>1 DEF Start, WalkInv, TypeInv
<1>2. Reached' = Reached /\ Good' = Good /\ Cyclic' = Cyclic
  BY <1>1, SameGraph
<1>3. Root \in Reached
  BY <1>1, ReachedClosed
<1>4. CASE Root \in aliens
  <2>1. verdict' = "refused" /\ stack' = stack /\ ancestors' = ancestors
    BY <1>1, <1>4 DEF Start, Open
  <2> QED BY <1>1, <1>3, <1>4, <2>1, RefuseWalk
<1>5. CASE Root \notin aliens
  <2>1. stack' = <<[node |-> Root, visited |-> 0]>> /\ ancestors' = {Root} /\ verdict' = verdict
    BY <1>1, <1>5 DEF Start, Open, Call
  <2>2. Len(stack') = 1 /\ stack'[1].node = Root /\ stack'[1].visited = 0
    BY <2>1
  <2>3. TypeInv'
    BY <1>1, <2>1 DEF TypeInv, Frames
  <2>4. (FromRoot /\ Linked /\ Single)'
    BY <2>2 DEF FromRoot, Linked, Single
  <2>5. Bounded'
    BY <1>1, <2>2 DEF Bounded
  <2>6. (Marked /\ Counted)'
    <3>1. 1..Len(stack') = {1}
      BY <2>2
    <3>2. Marked'
      BY <2>1, <2>2, <3>1 DEF Marked
    <3>3. Counted'
      BY <2>1, <2>2, FS_Singleton DEF Counted
    <3> QED BY <3>2, <3>3
  <2>7. (ReachedInv /\ SoundInv)'
    BY <1>1, <1>2, <1>3, <1>5, <2>2 DEF ReachedInv, SoundInv
  <2>8. VerdictInv'
    BY <1>1, <2>1 DEF VerdictInv
  <2> QED BY <2>3, <2>4, <2>5, <2>6, <2>7, <2>8 DEF WalkInv
<1> QED BY <1>4, <1>5

\* What is known of the top of the stack.
LEMMA TopOfStack ==
  ASSUME WalkInv, Walking
  PROVE  /\ Len(stack) \in Nat \ {0} /\ Top = stack[Len(stack)] /\ Top \in Frames
         /\ Top.node \in Nodes /\ Top.visited \in Nat
         /\ children[Top.node] \in Seq(Nodes) /\ Top.visited <= Len(children[Top.node])
<1>1. stack \in Seq(Frames) /\ stack # <<>> /\ children \in [Nodes -> Seq(Nodes)]
  BY DEF WalkInv, TypeInv, Walking
<1>2. Len(stack) \in Nat \ {0} /\ Top = stack[Len(stack)] /\ Top \in Frames
  BY <1>1 DEF Top
<1>3. Top.node \in Nodes /\ Top.visited \in Nat
  BY <1>2 DEF Frames
<1>4. Top.visited <= Len(children[Top.node])
  BY <1>2 DEF WalkInv, Bounded
<1> QED BY <1>1, <1>2, <1>3, <1>4

\* From an ancestor down the stack and back to it.
LEMMA AncestorIsCycle ==
  ASSUME WalkInv, Walking, Top.visited < Len(children[Top.node]),
         children[Top.node][Top.visited + 1] \in ancestors
  PROVE  Cyclic
<1> DEFINE n == Len(stack)
<1>1. n \in Nat \ {0} /\ Top = stack[n] /\ Top.visited \in Nat /\ children[Top.node] \in Seq(Nodes)
  BY TopOfStack
<1>2. PICK j \in 1..n : stack[j].node = children[Top.node][Top.visited + 1]
  BY DEF WalkInv, Marked
<1> DEFINE S == {stack[i].node : i \in j..n}
<1>3. S \subseteq Reached
  BY <1>1, <1>2 DEF WalkInv, ReachedInv
<1>4. stack[j].node \in S
  BY <1>1, <1>2
<1>5. ASSUME NEW i \in j..n PROVE ChildrenOf(stack[i].node) \cap S # {}
  <2>1. CASE i = n
    <3>1. Top.visited + 1 \in DOMAIN children[Top.node]
      BY <1>1
    <3>2. stack[j].node \in ChildrenOf(Top.node)
      BY <1>2, <3>1 DEF ChildrenOf
    <3> QED BY <1>1, <1>4, <2>1, <3>2
  <2>2. CASE i # n
    <3>1. i \in 1..n /\ i \in 1..(n - 1) /\ i + 1 \in j..n
      BY <1>1, <1>2, <2>2
    <3>2. stack \in Seq(Frames) /\ children \in [Nodes -> Seq(Nodes)]
      BY DEF WalkInv, TypeInv
    <3>3. stack[i].node \in Nodes /\ stack[i].visited \in Nat
      <4>1. stack[i] \in Frames
        BY <3>1, <3>2
      <4> QED BY <4>1 DEF Frames
    <3>4. stack[i].visited \in DOMAIN children[stack[i].node]
      <4>1. stack[i].visited # 0
        BY <3>1 DEF WalkInv, Linked
      <4>2. stack[i].visited <= Len(children[stack[i].node])
        BY <3>1 DEF WalkInv, Bounded
      <4> QED BY <3>2, <3>3, <4>1, <4>2
    <3>5. children[stack[i].node][stack[i].visited] = stack[i + 1].node
      BY <3>1 DEF WalkInv, Linked
    <3>6. stack[i + 1].node \in ChildrenOf(stack[i].node)
      BY <3>4, <3>5 DEF ChildrenOf
    <3>7. stack[i + 1].node \in S
      BY <3>1
    <3> QED BY <3>6, <3>7
  <2> QED BY <2>1, <2>2
<1>6. \A m \in S : ChildrenOf(m) \cap S # {}
  BY <1>5
<1> HIDE DEF S
<1> QED BY <1>3, <1>4, <1>6 DEF Cyclic
\* What is there after a return.
LEMMA Popped ==
  ASSUME NEW S, NEW s \in Seq(S), s # <<>>
  PROVE  /\ SubSeq(s, 1, Len(s) - 1) \in Seq(S) /\ Len(SubSeq(s, 1, Len(s) - 1)) = Len(s) - 1
         /\ \A i \in 1..(Len(s) - 1) : SubSeq(s, 1, Len(s) - 1)[i] = s[i]
<1> DEFINE m == Len(s) - 1
           p == SubSeq(s, 1, m)
<1>1. m \in Nat
  OBVIOUS
<1>2. \A i \in 1..m : s[i] \in S
  OBVIOUS
<1>3. /\ p \in Seq(S) /\ Len(p) = IF 1 <= m THEN m - 1 + 1 ELSE 0
      /\ \A i \in 1..(m - 1 + 1) : p[i] = s[1 + i - 1]
  <2> HIDE DEF m
  <2> QED BY <1>1, <1>2, SubSeqProperties
<1> HIDE DEF m, p
<1>4. Len(p) = m /\ \A i \in 1..m : p[i] = s[i]
  BY <1>1, <1>3
<1> QED BY <1>3, <1>4 DEF m, p

\* The call of a child that is neither an alien nor an ancestor.
LEMMA DescendWalk ==
  ASSUME Root \in Nodes, WalkInv, Walking, Top.visited < Len(children[Top.node]),
         NEW child \in Reached, child = children[Top.node][Top.visited + 1],
         child \notin aliens, child \notin ancestors,
         stack' = Append(Append(Rest, Call(Top.node, Top.visited + 1)), Call(child, 0)),
         ancestors' = ancestors \cup {child}, UNCHANGED <<children, aliens, verdict>>
  PROVE  WalkInv'
<1> DEFINE n == Len(stack)
           here == [node |-> Top.node, visited |-> Top.visited + 1]
           below == [node |-> child, visited |-> 0]
<1>0. stack \in Seq(Frames) /\ children \in [Nodes -> Seq(Nodes)]
  BY DEF WalkInv, TypeInv
<1>1. n \in Nat \ {0} /\ Top.node \in Nodes /\ Top.visited \in Nat
  BY TopOfStack
<1>t. Top = stack[n] /\ children[Top.node] \in Seq(Nodes)
  BY TopOfStack
<1>2. Reached' = Reached /\ Good' = Good /\ Cyclic' = Cyclic
  BY SameGraph
<1>3. child \in Nodes
  BY <1>0, ReachedClosed
<1>4. here \in Frames /\ below \in Frames
  BY <1>1, <1>3 DEF Frames
<1>5. /\ stack' \in Seq(Frames) /\ Len(stack') = n + 1
      /\ \A i \in 1..(n - 1) : stack'[i] = stack[i]
      /\ stack'[n] = here /\ stack'[n + 1] = below
  <2>1. Rest \in Seq(Frames) /\ Len(Rest) = n - 1 /\ \A i \in 1..(n - 1) : Rest[i] = stack[i]
    BY <1>0, Popped DEF Rest, Walking
  <2>2. stack' = Append(Append(Rest, here), below)
    BY DEF Call
  <2> HIDE DEF here, below, n
  <2> DEFINE s == Append(Rest, here)
  <2>3. s \in Seq(Frames) /\ Len(s) = n /\ s[n] = here /\ \A i \in 1..(n - 1) : s[i] = stack[i]
    <3>1. s \in Seq(Frames) /\ Len(s) = Len(Rest) + 1 /\ s[Len(Rest) + 1] = here
          /\ \A i \in 1..Len(Rest) : s[i] = Rest[i]
      BY <1>4, <2>1, AppendProperties
    <3>2. Len(Rest) + 1 = n
      BY <1>1, <2>1
    <3> QED BY <2>1, <3>1, <3>2
  <2>4. /\ stack' \in Seq(Frames) /\ Len(stack') = Len(s) + 1 /\ stack'[Len(s) + 1] = below
        /\ \A i \in 1..Len(s) : stack'[i] = s[i]
    <3> HIDE DEF s
    <3>1. s \in Seq(Frames) /\ below \in Frames
      BY <1>4, <2>3
    <3>2. /\ Append(s, below) \in Seq(Frames) /\ Len(Append(s, below)) = Len(s) + 1
          /\ Append(s, below)[Len(s) + 1] = below
          /\ \A i \in 1..Len(s) : Append(s, below)[i] = s[i]
      BY <3>1, AppendProperties
    <3>3. stack' = Append(s, below)
      BY <2>2 DEF s
    <3> QED BY <3>2, <3>3
  <2> HIDE DEF s
  <2>5. stack'[n + 1] = below /\ Len(stack') = n + 1 /\ \A i \in 1..n : stack'[i] = s[i]
    BY <2>3, <2>4
  <2>6. n \in 1..n /\ \A i \in 1..(n - 1) : i \in 1..n
    BY <1>1
  <2>7. \A i \in 1..(n - 1) : stack'[i] = stack[i]
    BY <2>3, <2>5, <2>6
  <2>8. stack'[n] = here
    BY <2>3, <2>5, <2>6
  <2> QED BY <2>4, <2>5, <2>7, <2>8
<1>6. /\ stack'[n].node = Top.node /\ stack'[n].visited = Top.visited + 1
      /\ stack'[n + 1].node = child /\ stack'[n + 1].visited = 0
  BY <1>5
<1> HIDE DEF here, below, n
<1>7. \A i \in 1..n : stack'[i].node = stack[i].node
  BY <1>t, <1>1, <1>5, <1>6
<1>8. 1..(n + 1) = 1..n \cup {n + 1} /\ 1..n = 1..(n - 1) \cup {n} /\ n \in 1..n
  BY <1>1
<1>9. TypeInv'
  BY <1>0, <1>5 DEF TypeInv
<1>10. FromRoot'
  <2>1. stack[1].node = Root
    BY DEF WalkInv, FromRoot, Walking
  <2> QED BY <1>1, <1>7, <2>1 DEF FromRoot
<1>11. Bounded'
  <2>1. ASSUME NEW i \in 1..(n - 1) PROVE stack'[i].visited <= Len(children[stack'[i].node])
    BY <1>5, <1>8 DEF WalkInv, Bounded, n
  <2>2. stack'[n].visited <= Len(children[stack'[n].node])
    <3>1. Len(children[Top.node]) \in Nat
      BY <1>t
    <3>2. Top.visited + 1 <= Len(children[Top.node])
      BY <1>1, <3>1
    <3> QED BY <1>6, <3>2
  <2>3. stack'[n + 1].visited <= Len(children[stack'[n + 1].node])
    <3>1. children[child] \in Seq(Nodes)
      BY <1>0, <1>3
    <3>2. 0 <= Len(children[child])
      BY <3>1
    <3> QED BY <1>6, <3>2
  <2> QED BY <1>5, <1>8, <2>1, <2>2, <2>3 DEF Bounded
<1>12. Linked'
  <2>1. ASSUME NEW i \in 1..(n - 1)
        PROVE  stack'[i].visited # 0 /\ children[stack'[i].node][stack'[i].visited] = stack'[i + 1].node
    <3>1. stack[i].visited # 0 /\ children[stack[i].node][stack[i].visited] = stack[i + 1].node
      BY DEF WalkInv, Linked, n
    <3>2. i + 1 \in 1..n
      BY <1>1
    <3> QED BY <1>5, <1>7, <3>1, <3>2
  <2>2. stack'[n].visited # 0 /\ children[stack'[n].node][stack'[n].visited] = stack'[n + 1].node
    <3>1. Top.visited + 1 # 0
      BY <1>1
    <3> QED BY <1>6, <3>1
  <2>3. Len(stack') - 1 = n
    BY <1>1, <1>5
  <2> QED BY <1>8, <2>1, <2>2, <2>3 DEF Linked
<1>13. Marked'
  BY <1>5, <1>6, <1>7, <1>8 DEF WalkInv, Marked, n
<1>14. Counted'
  <2>1. IsFiniteSet(ancestors) /\ Cardinality(ancestors) = n
    BY DEF WalkInv, Counted, n
  <2>2. IsFiniteSet(ancestors') /\ Cardinality(ancestors') = n + 1
    BY <2>1, FS_AddElement
  <2> QED BY <1>5, <2>2 DEF Counted
<1>15. Single'
  <2>1. \A i \in 1..n : stack'[i].node # child
    BY <1>7 DEF WalkInv, Marked, n
  <2>2. \A i, j \in 1..n : stack'[i].node = stack'[j].node => i = j
    BY <1>7 DEF WalkInv, Single, n
  <2> QED BY <1>5, <1>6, <1>8, <2>1, <2>2 DEF Single
<1>16. ReachedInv'
  <2>1. \A i \in 1..n : stack'[i].node \in Reached /\ stack'[i].node \notin aliens
    BY <1>7 DEF WalkInv, ReachedInv, n
  <2> QED BY <1>2, <1>5, <1>6, <1>8, <2>1 DEF ReachedInv
<1>17. SoundInv'
  <2>1. ASSUME NEW i \in 1..(n - 1), NEW k \in 1..stack'[i].visited
        PROVE  children[stack'[i].node][k] \in Good \/ (i # n + 1 /\ k = stack'[i].visited)
    <3>1. i # n + 1 /\ i \in 1..n /\ stack'[i] = stack[i]
      BY <1>1, <1>5
    <3>2. k \in 1..stack[i].visited
      BY <3>1
    <3>3. children[stack[i].node][k] \in Good \/ k = stack[i].visited
      BY <3>1, <3>2 DEF WalkInv, SoundInv, n
    <3> QED BY <3>1, <3>3
  <2>2. ASSUME NEW k \in 1..stack'[n].visited
        PROVE  children[stack'[n].node][k] \in Good \/ (n # n + 1 /\ k = stack'[n].visited)
    <3>1. k \in 1..(Top.visited + 1)
      BY <1>6
    <3>2. k \in 1..Top.visited \/ k = Top.visited + 1
      BY <1>1, <3>1
    <3>3. \A m \in 1..Top.visited : children[Top.node][m] \in Good
      BY <1>t, <1>8 DEF WalkInv, SoundInv, n
    <3>4. n # n + 1
      BY <1>1
    <3> QED BY <1>6, <3>2, <3>3, <3>4
  <2>3. \A k \in 1..stack'[n + 1].visited : FALSE
    <3>1. 1..0 = {}
      OBVIOUS
    <3> QED BY <1>6, <3>1
  <2> QED BY <1>2, <1>5, <1>8, <2>1, <2>2, <2>3 DEF SoundInv
<1>18. VerdictInv'
  BY <1>2 DEF WalkInv, VerdictInv
<1> QED BY <1>9, <1>10, <1>11, <1>12, <1>13, <1>14, <1>15, <1>16, <1>17, <1>18 DEF WalkInv

LEMMA VisitWalk ==
  ASSUME Root \in Nodes, WalkInv, Visit
  PROVE  WalkInv'
<1> DEFINE child == children[Top.node][Top.visited + 1]
<1>1. Walking /\ Top.visited < Len(children[Top.node]) /\ UNCHANGED <<children, aliens>>
  BY DEF Visit
<1>2. child \in Reached
  <2>1. children[Top.node] \in Seq(Nodes) /\ Top.visited \in Nat /\ children \in [Nodes -> Seq(Nodes)]
    BY <1>1, TopOfStack DEF WalkInv, TypeInv
  <2>2. Top.visited + 1 \in DOMAIN children[Top.node]
    BY <1>1, <2>1
  <2>3. child \in ChildrenOf(Top.node)
    BY <2>2 DEF ChildrenOf
  <2>4. Top.node \in Reached
    BY <1>1, TopOfStack DEF WalkInv, ReachedInv
  <2> QED BY <2>1, <2>3, <2>4, ReachedClosed
<1>3. CASE child \in aliens \cup ancestors
  <2>1. verdict' = "refused" /\ stack' = stack /\ ancestors' = ancestors
    BY <1>3 DEF Visit, Open
  <2>2. Cyclic \/ aliens \cap Reached # {}
    BY <1>1, <1>2, <1>3, AncestorIsCycle
  <2> QED BY <1>1, <2>1, <2>2, RefuseWalk
<1>4. CASE child \notin aliens \cup ancestors
  <2>1. /\ stack' = Append(Append(Rest, Call(Top.node, Top.visited + 1)), Call(child, 0))
        /\ ancestors' = ancestors \cup {child} /\ verdict' = verdict
    BY <1>4 DEF Visit, Open
  <2> HIDE DEF child
  <2>2. child = children[Top.node][Top.visited + 1]
    BY DEF child
  <2> QED BY <1>1, <1>2, <1>4, <2>1, <2>2, DescendWalk
<1> QED BY <1>3, <1>4

\* A call returns when all its children are sound, and then its object is.
LEMMA LeaveWalk ==
  ASSUME Root \in Nodes, WalkInv, Leave
  PROVE  WalkInv'
<1> DEFINE n == Len(stack)
<1>1. /\ n \in Nat \ {0} /\ Top = stack[n] /\ Top.node \in Nodes /\ Top.visited = Len(children[Top.node])
      /\ children[Top.node] \in Seq(Nodes) /\ stack \in Seq(Frames) /\ children \in [Nodes -> Seq(Nodes)]
  BY TopOfStack DEF WalkInv, TypeInv, Leave
<1>2. Reached' = Reached /\ Good' = Good /\ Cyclic' = Cyclic
  BY SameGraph DEF Leave
<1>3. 1..n = 1..(n - 1) \cup {n} /\ n \in 1..n
  BY <1>1
<1>4. Top.node \in Good
  <2>1. \A k \in 1..Len(children[Top.node]) : children[Top.node][k] \in Good
    BY <1>1, <1>3 DEF WalkInv, SoundInv
  <2>2. DOMAIN children[Top.node] = 1..Len(children[Top.node])
    BY <1>1
  <2>3. ChildrenOf(Top.node) \subseteq Good
    BY <2>1, <2>2 DEF ChildrenOf
  <2>4. Top.node \notin aliens
    BY <1>1, <1>3 DEF WalkInv, ReachedInv
  <2> QED BY <1>1, <2>3, <2>4, GoodGrows
<1>5. /\ stack' \in Seq(Frames) /\ Len(stack') = n - 1
      /\ \A i \in 1..(n - 1) : stack'[i] = stack[i]
  <2>1. stack' = SubSeq(stack, 1, n - 1)
    BY DEF Leave, Rest
  <2> QED BY <1>1, <2>1, Popped DEF Leave, Walking
<1>6. ancestors' = ancestors \ {Top.node} /\ children' = children /\ aliens' = aliens /\ verdict = "walking"
  BY DEF Leave, Walking
<1>7. TypeInv'
  BY <1>1, <1>5, <1>6 DEF TypeInv
<1>8. FromRoot'
  <2>1. stack[1].node = Root
    BY DEF WalkInv, FromRoot, Leave, Walking
  <2>2. stack' # <<>> => 1 \in 1..(n - 1)
    BY <1>1, <1>5
  <2> QED BY <1>5, <2>1, <2>2 DEF FromRoot
<1>9. Bounded'
  BY <1>3, <1>5, <1>6 DEF WalkInv, Bounded
<1>10. Linked'
  <2>1. ASSUME NEW i \in 1..(n - 2)
        PROVE  stack'[i].visited # 0 /\ children[stack'[i].node][stack'[i].visited] = stack'[i + 1].node
    <3>1. i \in 1..(n - 1) /\ i + 1 \in 1..(n - 1)
      BY <1>1
    <3> QED BY <1>5, <3>1 DEF WalkInv, Linked
  <2>2. Len(stack') - 1 = n - 2
    BY <1>1, <1>5
  <2> QED BY <1>6, <2>1, <2>2 DEF Linked
<1>11. Marked'
  <2>1. ASSUME NEW i \in 1..(n - 1) PROVE stack[i].node # stack[n].node
    <3>1. i # n /\ i \in 1..n
      BY <1>1
    <3> QED BY <1>3, <3>1 DEF WalkInv, Single
  <2>2. ancestors = {stack[i].node : i \in 1..n}
    BY DEF WalkInv, Marked
  <2>3. ancestors' = {stack[i].node : i \in 1..(n - 1)}
    <3> HIDE DEF n
    <3> QED BY <1>1, <1>3, <1>6, <2>1, <2>2
  <2>4. {stack[i].node : i \in 1..(n - 1)} = {stack'[i].node : i \in 1..(n - 1)}
    BY <1>5
  <2> QED BY <1>5, <2>3, <2>4 DEF Marked
<1>12. Counted'
  <2>1. Top.node \in ancestors
    BY <1>1, <1>3 DEF WalkInv, Marked
  <2>2. IsFiniteSet(ancestors) /\ Cardinality(ancestors) = n
    BY DEF WalkInv, Counted
  <2>3. IsFiniteSet(ancestors') /\ Cardinality(ancestors') = n - 1
    BY <1>6, <2>1, <2>2, FS_RemoveElement
  <2> QED BY <1>5, <2>3 DEF Counted
<1>13. Single'
  BY <1>3, <1>5 DEF WalkInv, Single
<1>14. ReachedInv'
  BY <1>2, <1>3, <1>5, <1>6 DEF WalkInv, ReachedInv
<1>15. SoundInv'
  <2>1. ASSUME NEW i \in 1..(n - 1), NEW k \in 1..stack[i].visited
        PROVE  children[stack[i].node][k] \in Good \/ (i # n - 1 /\ k = stack[i].visited)
    <3>1. children[stack[i].node][k] \in Good \/ (i # n /\ k = stack[i].visited)
      BY <1>3 DEF WalkInv, SoundInv
    <3>2. children[stack[i].node][stack[i].visited] = stack[i + 1].node
      BY DEF WalkInv, Linked
    <3>3. i = n - 1 => stack[i + 1].node \in Good
      BY <1>1, <1>4
    <3> QED BY <3>1, <3>2, <3>3
  <2> QED BY <1>2, <1>5, <1>6, <2>1 DEF SoundInv
<1>16. VerdictInv'
  <2>1. CASE Rest = <<>>
    <3>1. n = 1
      BY <1>1, <1>5, <2>1 DEF Leave
    <3>2. Top.node = Root
      BY <1>1, <3>1 DEF WalkInv, FromRoot, Leave, Walking
    <3> QED BY <1>2, <1>4, <2>1, <3>2 DEF Leave, VerdictInv
  <2>2. CASE Rest # <<>>
    BY <1>6, <2>2 DEF Leave, VerdictInv
  <2> QED BY <2>1, <2>2
<1> QED BY <1>7, <1>8, <1>9, <1>10, <1>11, <1>12, <1>13, <1>14, <1>15, <1>16 DEF WalkInv

-----------------------------------------------------------------------------
(* Theorems.                                                               *)

\* The walk is where its stack says, and what it has left behind is sound.
THEOREM WalkInvariant == WalkSpec => []WalkInv
<1>1. ASSUME WalkInv, UNCHANGED walkVars PROVE WalkInv'
  <2>1. Reached' = Reached /\ Good' = Good /\ Cyclic' = Cyclic
    BY <1>1, SameGraph DEF walkVars
  <2>2. (TypeInv /\ FromRoot /\ Bounded /\ Linked /\ Marked /\ Counted /\ Single)'
    BY <1>1 DEF walkVars, WalkInv, TypeInv, FromRoot, Bounded, Linked, Marked, Counted, Single
  <2>3. (ReachedInv /\ SoundInv /\ VerdictInv)'
    BY <1>1, <2>1 DEF walkVars, WalkInv, ReachedInv, SoundInv, VerdictInv
  <2> QED BY <2>2, <2>3 DEF WalkInv
<1>2. WalkInv /\ [WalkNext]_walkVars => WalkInv'
  BY <1>1, WalkAssumption, StartWalk, VisitWalk, LeaveWalk DEF WalkNext
<1> QED BY <1>2, InitWalk, WalkAssumption, PTL DEF WalkSpec

\* The walk is inside exactly the objects of its open calls, each once, so that its depth is
\* bounded by the number of objects (normalizeJson, its ancestors).
LEMMA WalkIsTyped == WalkInv => WalkTypeOK
<1> SUFFICES ASSUME WalkInv PROVE WalkTypeOK
  OBVIOUS
<1>1. DOMAIN stack = 1..Len(stack)
  BY DEF WalkInv, TypeInv
<1> QED BY <1>1 DEF WalkInv, Marked, Counted, VerdictInv, WalkTypeOK

\* Whatever graph a value is, it is refused exactly if it holds a cycle or something that has no
\* JSON; using one object in two places is no cycle (normalizeJson).
THEOREM RefusalIsRight == WalkSpec => []RefusedRightly
<1>1. WalkInv => RefusedRightly
  BY GoodRoot, WalkIsTyped, WalkAssumption DEF WalkInv, VerdictInv, RefusedRightly
<1> QED BY <1>1, WalkInvariant, PTL

-----------------------------------------------------------------------------
(* Texts: keys and their orders.                                           *)
\* The keys of a set by a rank are those keys, each once.
LEMMA RankedKeys ==
  ASSUME NEW keys, IsFiniteSet(keys), NEW rank, KeysDiffer(rank, keys)
  PROVE  /\ KeysOf(Ranked(keys, rank)) = keys /\ Ranked(keys, rank) \in Seq(keys)
         /\ \A j, k \in DOMAIN Ranked(keys, rank) : Ranked(keys, rank)[j] = Ranked(keys, rank)[k] => j = k
<1> DEFINE upTo(key) == Cardinality({x \in keys : rank[x] <= rank[key]})
           below(key) == Cardinality({x \in keys : rank[x] < rank[key]})
           n == Cardinality(keys)
           sorted == [k \in 1..n |-> CHOOSE key \in keys : upTo(key) = k]
<1>1. ASSUME NEW key \in keys PROVE upTo(key) = below(key) + 1 /\ below(key) \in Nat
  <2> DEFINE B == {x \in keys : rank[x] < rank[key]}
  <2>1. {x \in keys : rank[x] <= rank[key]} = B \cup {key}
    BY DEF KeysDiffer
  <2>2. key \notin B
    BY DEF KeysDiffer
  <2>3. IsFiniteSet(B) /\ Cardinality(B) \in Nat
    <3>1. B \in SUBSET keys
      OBVIOUS
    <3> HIDE DEF B
    <3> QED BY <3>1, FS_Subset, FS_CardinalityType
  <2>4. Cardinality(B \cup {key}) = Cardinality(B) + 1
    <3> HIDE DEF B
    <3> QED BY <2>2, <2>3, FS_AddElement
  <2> QED BY <2>1, <2>3, <2>4
<1>2. ASSUME NEW k \in 1..n PROVE sorted[k] = CHOOSE x \in keys : KeyRank(rank, keys, x) = k - 1
  <2>1. \A x \in keys : upTo(x) = k <=> below(x) = k - 1
    <3> SUFFICES ASSUME NEW x \in keys PROVE upTo(x) = k <=> below(x) = k - 1
      OBVIOUS
    <3>1. upTo(x) = below(x) + 1 /\ below(x) \in Nat /\ k \in Int
      BY <1>1
    <3> HIDE DEF upTo, below
    <3> QED BY <3>1
  <2>2. sorted[k] = CHOOSE x \in keys : upTo(x) = k
    OBVIOUS
  <2>3. \A x \in keys : KeyRank(rank, keys, x) = below(x)
    BY DEF KeyRank
  <2> HIDE DEF upTo, below, sorted
  <2> QED BY <2>1, <2>2, <2>3
<1>3. Ranked(keys, rank) = sorted
  BY DEF Ranked
<1>4. n \in Nat /\ DOMAIN sorted = 1..n /\ sorted = [k \in 1..n |-> sorted[k]]
  BY FS_CardinalityType
<1> HIDE DEF sorted
<1>5. Arranges(sorted, keys)
  <2>1. PicksByKey(sorted, rank, keys)
    BY <1>2, <1>4 DEF PicksByKey
  <2> QED BY <2>1, SortByKey
<1>6. KeysOf(sorted) = keys
  BY <1>5 DEF Arranges, KeysOf
<1>7. sorted \in [1..n -> keys]
  BY <1>4, <1>5 DEF Arranges
<1> HIDE DEF n
<1>8. sorted \in Seq(keys)
  BY <1>4, <1>7
<1> QED BY <1>3, <1>5, <1>6, <1>8 DEF Arranges

LEMMA SortedKeys ==
  ASSUME NEW keys \in SUBSET Keys, IsFiniteSet(keys)
  PROVE  /\ KeysOf(ByCodeUnit(keys)) = keys /\ ByCodeUnit(keys) \in Seq(keys)
         /\ \A i, j \in DOMAIN ByCodeUnit(keys) : ByCodeUnit(keys)[i] = ByCodeUnit(keys)[j] => i = j
         /\ KeysOf(ByCodePoint(keys)) = keys /\ ByCodePoint(keys) \in Seq(keys)
<1>1. KeysDiffer(CodeUnits, keys) /\ KeysDiffer(CodePoints, keys)
  BY TextAssumption DEF KeysDiffer
<1> QED BY <1>1, RankedKeys DEF ByCodeUnit, ByCodePoint

\* One list after another holds the keys of both.
LEMMA ListedKeys ==
  ASSUME NEW S, NEW T, NEW a \in Seq(S), NEW b \in Seq(T)
  PROVE  KeysOf(a \o b) = KeysOf(a) \cup KeysOf(b)
<1> DEFINE m == Len(a)
           n == Len(b)
<1>1. m \in Nat /\ n \in Nat /\ DOMAIN a = 1..m /\ DOMAIN b = 1..n
  OBVIOUS
<1>2. /\ DOMAIN (a \o b) = 1..(m + n)
      /\ \A i \in 1..(m + n) : (a \o b)[i] = IF i <= m THEN a[i] ELSE b[i - m]
  OBVIOUS
<1> DEFINE s == a \o b
<1> HIDE DEF m, n, s
<1>3. ASSUME NEW i \in DOMAIN s PROVE s[i] \in KeysOf(a) \cup KeysOf(b)
  <2>1. CASE i <= m
    <3>1. i \in 1..m /\ s[i] = a[i]
      BY <1>1, <1>2, <2>1 DEF s
    <3> QED BY <1>1, <3>1 DEF KeysOf
  <2>2. CASE ~(i <= m)
    <3>1. i - m \in 1..n /\ s[i] = b[i - m]
      BY <1>1, <1>2, <2>2 DEF s
    <3> QED BY <1>1, <3>1 DEF KeysOf
  <2> QED BY <2>1, <2>2
<1>4. ASSUME NEW i \in 1..m PROVE a[i] \in KeysOf(s)
  <2>1. i \in DOMAIN s /\ s[i] = a[i]
    BY <1>1, <1>2 DEF s
  <2> QED BY <2>1 DEF KeysOf
<1>5. ASSUME NEW i \in 1..n PROVE b[i] \in KeysOf(s)
  <2>1. m + i \in DOMAIN s /\ s[m + i] = b[i]
    <3>1. m + i \in 1..(m + n) /\ ~(m + i <= m) /\ (m + i) - m = i
      BY <1>1
    <3> QED BY <1>2, <3>1 DEF s
  <2> QED BY <2>1 DEF KeysOf
<1>6. KeysOf(s) = KeysOf(a) \cup KeysOf(b)
  BY <1>1, <1>3, <1>4, <1>5 DEF KeysOf
<1> QED BY <1>6 DEF s

\* An object enumerates the keys it has been given.
LEMMA EnumeratedKeys ==
  ASSUME NEW keys \in SUBSET Keys, IsFiniteSet(keys)
  PROVE  /\ KeysOf(Enumerated(ByCodeUnit(keys))) = keys
         /\ Enumerated(ByCodeUnit(keys)) \in Seq(keys)
<1> DEFINE o == ByCodeUnit(keys)
           indices == {k \in KeysOf(o) : Index[k] # None}
           names == KeysOf(o) \ indices
           position == [k \in names |-> PositionOf(o, k)]
<1>1. KeysOf(o) = keys /\ o \in Seq(keys) /\ \A i, j \in DOMAIN o : o[i] = o[j] => i = j
  BY SortedKeys
<1>2. IsFiniteSet(indices) /\ IsFiniteSet(names)
  BY <1>1, FS_Subset
<1>3. KeysDiffer(Index, indices)
  BY <1>1, TextAssumption DEF KeysDiffer
<1>4. KeysDiffer(position, names)
  <2>1. ASSUME NEW k \in names PROVE PositionOf(o, k) \in DOMAIN o /\ o[PositionOf(o, k)] = k
    BY DEF KeysOf, PositionOf
  <2>2. \A i \in DOMAIN o : i \in Int
    BY <1>1
  <2> HIDE DEF o, names
  <2> QED BY <2>1, <2>2 DEF KeysDiffer
<1>5. Enumerated(o) = Ranked(indices, Index) \o Ranked(names, position)
  BY DEF Enumerated
<1>6. indices \cup names = keys
  BY <1>1
<1> HIDE DEF o, indices, names, position
<1>7. KeysOf(Ranked(indices, Index)) = indices /\ Ranked(indices, Index) \in Seq(indices)
  BY <1>2, <1>3, RankedKeys
<1>8. KeysOf(Ranked(names, position)) = names /\ Ranked(names, position) \in Seq(names)
  BY <1>2, <1>4, RankedKeys
<1>9. KeysOf(Ranked(indices, Index) \o Ranked(names, position))
      = KeysOf(Ranked(indices, Index)) \cup KeysOf(Ranked(names, position))
  BY <1>7, <1>8, ListedKeys
<1>10. Ranked(indices, Index) \o Ranked(names, position) \in Seq(keys)
  <2>1. Ranked(indices, Index) \in Seq(keys) /\ Ranked(names, position) \in Seq(keys)
    BY <1>6, <1>7, <1>8
  <2> QED BY <2>1
<1> QED BY <1>5, <1>6, <1>7, <1>8, <1>9, <1>10 DEF o

-----------------------------------------------------------------------------
(* Texts: what they tell.                                                  *)
LEMMA DocumentFacts ==
  ASSUME NEW d \in Documents
  PROVE  /\ KeysOf(d[2]) \in SUBSET Keys /\ IsFiniteSet(KeysOf(d[2]))
         /\ \A k \in KeysOf(d[2]) : ValueAt(d, k) \in Scalars
<1>1. PICK o \in Orders : d \in [1..Len(o) -> Scalars] \X {o}
  BY DEF Documents
<1>2. PICK n \in 0..MaxMembers : o \in [1..n -> Keys]
  BY <1>1 DEF Orders
<1>3. n \in Nat /\ Len(o) = n /\ d[2] = o /\ d[1] \in [1..n -> Scalars]
  BY <1>1, <1>2, TextAssumption
<1>4. KeysOf(o) = {o[i] : i \in 1..n}
  BY <1>2 DEF KeysOf
<1>5. IsFiniteSet(KeysOf(o))
  <2> DEFINE T == KeysOf(o)
  <2>1. IsFiniteSet(1..n)
    BY <1>3, CountTo
  <2>2. o \in [1..n -> T] /\ \A t \in T : \E i \in 1..n : o[i] = t
    BY <1>2, <1>4
  <2> HIDE DEF T
  <2>3. o \in Surjection(1..n, T)
    BY <2>2 DEF Surjection
  <2>4. IsFiniteSet(T)
    BY <2>1, <2>3, FS_Surjection
  <2> QED BY <2>4 DEF T
<1>6. KeysOf(o) \subseteq Keys
  BY <1>2, <1>4
<1>7. ASSUME NEW k \in KeysOf(o) PROVE PositionOf(o, k) \in 1..n
  BY <1>2 DEF KeysOf, PositionOf
<1>8. \A k \in KeysOf(o) : ValueAt(d, k) = d[1][PositionOf(o, k)]
  BY <1>3 DEF ValueAt
<1> QED BY <1>3, <1>5, <1>6, <1>7, <1>8

LEMMA KeptFacts ==
  ASSUME NEW d \in Documents
  PROVE  /\ KeptKeys(d) \in SUBSET Keys /\ IsFiniteSet(KeptKeys(d))
         /\ AllKeys(d) \in SUBSET Keys /\ IsFiniteSet(AllKeys(d)) /\ KeptKeys(d) \in SUBSET AllKeys(d)
         /\ \A k \in KeptKeys(d) : ValueAt(d, k) \in Scalars
BY DocumentFacts, FS_Subset DEF KeptKeys, AllKeys

\* The members of a document that normalize keeps.
MembersOf(d) == {<<key, Meaning[ValueAt(d, key)]>> : key \in KeptKeys(d)}

\* Written in an order that follows from its keys, only what has the same members has the same text.
LEMMA WrittenTells ==
  ASSUME NEW d \in Documents, NEW e \in Documents, NEW o, NEW p,
         KeysOf(o) = KeptKeys(d), KeysOf(p) = KeptKeys(e), KeysOf(o) = KeysOf(p) => o = p,
         o = [i \in DOMAIN o |-> o[i]], p = [i \in DOMAIN p |-> p[i]]
  PROVE  Written(d, o, JsText) = Written(e, p, JsText) <=> MembersOf(d) = MembersOf(e)
<1> DEFINE K == KeptKeys(d)
           L == KeptKeys(e)
           dv == [k \in K |-> ValueAt(d, k)]
           ev == [k \in L |-> ValueAt(e, k)]
<1>1. (\A k \in K : dv[k] \in Scalars) /\ \A k \in L : ev[k] \in Scalars
  BY KeptFacts
<1>2. MembersOf(d) = {<<k, Meaning[dv[k]]>> : k \in K} /\ MembersOf(e) = {<<k, Meaning[ev[k]]>> : k \in L}
  BY DEF MembersOf
<1>3. (\A i \in DOMAIN o : o[i] \in K) /\ \A i \in DOMAIN p : p[i] \in L
  BY DEF KeysOf
<1>4. /\ Written(d, o, JsText) = [i \in DOMAIN o |-> <<o[i], JsText[dv[o[i]]]>>]
      /\ Written(e, p, JsText) = [i \in DOMAIN p |-> <<p[i], JsText[ev[p[i]]]>>]
  BY <1>3 DEF Written
<1>5. (\A k \in K : \E i \in DOMAIN o : o[i] = k) /\ K = KeysOf(o) /\ L = KeysOf(p)
  BY DEF KeysOf
<1>6. \A s, t \in Scalars : JsText[s] = JsText[t] <=> Meaning[s] = Meaning[t]
  BY TextAssumption
<1> HIDE DEF K, L, dv, ev
<1>7. ASSUME Written(d, o, JsText) = Written(e, p, JsText) PROVE MembersOf(d) = MembersOf(e)
  <2>1. DOMAIN o = DOMAIN p
    BY <1>4, <1>7
  <2>2. \A i \in DOMAIN o : o[i] = p[i] /\ JsText[dv[o[i]]] = JsText[ev[p[i]]]
    <3>1. \A i \in DOMAIN o : <<o[i], JsText[dv[o[i]]]>> = <<p[i], JsText[ev[p[i]]]>>
      BY <1>4, <1>7, <2>1
    <3> QED BY <3>1
  <2>3. K = L
    BY <1>5, <2>1, <2>2 DEF KeysOf
  <2>4. \A k \in K : Meaning[dv[k]] = Meaning[ev[k]]
    BY <1>1, <1>5, <1>6, <2>2, <2>3
  <2> QED BY <1>2, <2>3, <2>4
<1>8. ASSUME MembersOf(d) = MembersOf(e) PROVE Written(d, o, JsText) = Written(e, p, JsText)
  <2>1. ASSUME NEW k \in K PROVE k \in L /\ Meaning[dv[k]] = Meaning[ev[k]]
    <3>1. <<k, Meaning[dv[k]]>> \in {<<x, Meaning[ev[x]]>> : x \in L}
      BY <1>2, <1>8
    <3> QED BY <3>1
  <2>2. ASSUME NEW k \in L PROVE k \in K
    <3>1. <<k, Meaning[ev[k]]>> \in {<<x, Meaning[dv[x]]>> : x \in K}
      BY <1>2, <1>8
    <3> QED BY <3>1
  <2>3. o = p
    BY <1>5, <2>1, <2>2
  <2>4. \A i \in DOMAIN o : JsText[dv[o[i]]] = JsText[ev[o[i]]]
    BY <1>1, <1>3, <1>6, <2>1
  <2> QED BY <1>4, <2>3, <2>4
<1> QED BY <1>7, <1>8

\* A canonical text tells the members of the document.
LEMMA CanonicalTells ==
  ASSUME NEW d \in Documents, NEW e \in Documents
  PROVE  CanonicalJson(d) = CanonicalJson(e) <=> MembersOf(d) = MembersOf(e)
<1> DEFINE o == Enumerated(ByCodeUnit(KeptKeys(d)))
           p == Enumerated(ByCodeUnit(KeptKeys(e)))
<1>1. KeysOf(o) = KeptKeys(d) /\ KeysOf(p) = KeptKeys(e)
  BY KeptFacts, EnumeratedKeys
<1>2. KeysOf(o) = KeysOf(p) => o = p
  BY <1>1
<1>3. o = [i \in DOMAIN o |-> o[i]] /\ p = [i \in DOMAIN p |-> p[i]]
  BY KeptFacts, EnumeratedKeys
<1>4. CanonicalJson(d) = Written(d, o, JsText) /\ CanonicalJson(e) = Written(e, p, JsText)
  BY DEF CanonicalJson
<1> HIDE DEF o, p
<1> QED BY <1>1, <1>2, <1>3, <1>4, WrittenTells

\* So does a public text, of a document it does not refuse.
LEMMA PublicTells ==
  ASSUME NEW d \in Documents, NEW e \in Documents, PublicCanonicalJson(d) # None, PublicCanonicalJson(e) # None
  PROVE  PublicCanonicalJson(d) = PublicCanonicalJson(e) <=> MembersOf(d) = MembersOf(e)
<1> DEFINE o == ByCodePoint(KeptKeys(d))
           p == ByCodePoint(KeptKeys(e))
<1>1. KeysOf(o) = KeptKeys(d) /\ KeysOf(p) = KeptKeys(e)
  BY KeptFacts, SortedKeys
<1>2. KeysOf(o) = KeysOf(p) => o = p
  BY <1>1
<1>3. o = [i \in DOMAIN o |-> o[i]] /\ p = [i \in DOMAIN p |-> p[i]]
  BY KeptFacts, SortedKeys
<1>4. PublicCanonicalJson(d) = Written(d, o, JsText) /\ PublicCanonicalJson(e) = Written(e, p, JsText)
  BY DEF PublicCanonicalJson
<1> HIDE DEF o, p
<1> QED BY <1>1, <1>2, <1>3, <1>4, WrittenTells

\* What Python computes of a public document is its text, exactly when every member is kept.
LEMMA PublicIsPython ==
  ASSUME NEW d \in Documents, PublicCanonicalJson(d) # None
  PROVE  PythonJson(d, AllKeys(d)) = PublicCanonicalJson(d) <=> AllKeys(d) = KeptKeys(d)
<1> DEFINE o == ByCodePoint(KeptKeys(d))
           p == ByCodePoint(AllKeys(d))
<1>1. /\ \A k \in KeptKeys(d) : ValueAt(d, k) \in SafeIntegers
      /\ PublicCanonicalJson(d) = Written(d, o, JsText) /\ PythonJson(d, AllKeys(d)) = Written(d, p, PyText)
  BY DEF PublicCanonicalJson, IsExact, PythonJson
<1>2. KeysOf(o) = KeptKeys(d) /\ KeysOf(p) = AllKeys(d) /\ (AllKeys(d) = KeptKeys(d) => o = p)
  BY KeptFacts, SortedKeys
<1> HIDE DEF o, p
<1>3. ASSUME AllKeys(d) = KeptKeys(d), NEW i \in DOMAIN o PROVE PyText[ValueAt(d, o[i])] = JsText[ValueAt(d, o[i])]
  <2>1. o[i] \in KeptKeys(d)
    BY <1>2 DEF KeysOf
  <2>2. ValueAt(d, o[i]) \in Scalars \cap SafeIntegers
    BY <1>1, <2>1, KeptFacts
  <2> QED BY <2>2, TextAssumption
<1>4. AllKeys(d) = KeptKeys(d) => Written(d, p, PyText) = Written(d, o, JsText)
  BY <1>2, <1>3 DEF Written
<1>5. ASSUME Written(d, p, PyText) = Written(d, o, JsText) PROVE AllKeys(d) = KeptKeys(d)
  <2>1. /\ Written(d, p, PyText) = [i \in DOMAIN p |-> <<p[i], PyText[ValueAt(d, p[i])]>>]
        /\ Written(d, o, JsText) = [i \in DOMAIN o |-> <<o[i], JsText[ValueAt(d, o[i])]>>]
    BY DEF Written
  <2>2. DOMAIN p = DOMAIN o
    BY <1>5, <2>1
  <2>3. ASSUME NEW i \in DOMAIN o PROVE p[i] = o[i]
    <3>1. <<p[i], PyText[ValueAt(d, p[i])]>> = <<o[i], JsText[ValueAt(d, o[i])]>>
      BY <1>5, <2>1, <2>2
    <3> QED BY <3>1
  <2>4. KeysOf(p) = KeysOf(o)
    BY <2>2, <2>3 DEF KeysOf
  <2> QED BY <1>2, <2>4
<1> QED BY <1>1, <1>4, <1>5

-----------------------------------------------------------------------------
(* Texts: those that were authored and those computed again.               *)
TextOf(public, document) == IF public THEN PublicCanonicalJson(document) ELSE CanonicalJson(document)
TextInv ==
  /\ IsFiniteSet(authored) /\ Cardinality(authored) <= MaxDocuments
  /\ \A a \in authored :
       a.document \in Documents /\ a.public \in BOOLEAN /\ a.text = TextOf(a.public, a.document)
  /\ \A c \in checked : \E a \in authored :
       a.text # None /\ c = Computed(a)

\* The texts are those of documents, and what was computed again is what one of them says
\* (canonicalJson, publicCanonicalJson, validate_job).
THEOREM TextInvariant == TextSpec => []TextInv
<1>1. TextInit => TextInv
  BY FS_EmptySet, TextAssumption DEF TextInit, TextInv
<1>2. TextInv /\ [TextNext]_textVars => TextInv'
  <2> SUFFICES ASSUME TextInv, [TextNext]_textVars PROVE TextInv'
    OBVIOUS
  <2>1. ASSUME NEW public \in BOOLEAN, Author(public) PROVE TextInv'
    <3>1. PICK document \in Documents :
            authored' = authored \cup
              {[document |-> document, public |-> public, text |-> TextOf(public, document)]}
      BY <2>1 DEF Author, TextOf
    <3> DEFINE a == [document |-> document, public |-> public, text |-> TextOf(public, document)]
    <3>2. a.document \in Documents /\ a.public \in BOOLEAN /\ a.text = TextOf(a.public, a.document)
      OBVIOUS
    <3> HIDE DEF a
    <3>3. IsFiniteSet(authored') /\ Cardinality(authored') <= Cardinality(authored) + 1
      <4>1. authored' = authored \cup {a} /\ IsFiniteSet(authored)
        BY <3>1 DEF TextInv, a
      <4>2. IsFiniteSet(authored \cup {a}) /\ Cardinality(authored) \in Nat
        BY <4>1, FS_AddElement, FS_CardinalityType
      <4>3. Cardinality(authored \cup {a}) <= Cardinality(authored) + 1
        BY <4>1, <4>2, FS_AddElement
      <4> QED BY <4>1, <4>2, <4>3
    <3>4. Cardinality(authored') <= MaxDocuments
      BY <2>1, <3>3, FS_CardinalityType, TextAssumption DEF TextInv, Author
    <3>5. checked' = checked
      BY <2>1 DEF Author
    <3> QED BY <3>1, <3>2, <3>3, <3>4, <3>5 DEF TextInv, a
  <2>2. CASE Recompute
    BY <2>2 DEF Recompute, TextInv
  <2>3. CASE UNCHANGED textVars
    BY <2>3 DEF textVars, TextInv
  <2> QED BY <2>1, <2>2, <2>3 DEF TextNext
<1> QED BY <1>1, <1>2, PTL DEF TextSpec

\* Two documents have one fingerprint exactly when they have the same members, a member "__proto__"
\* apart, and the identity of a public layout is the one its compiler computes, exactly when it has no
\* such member (canonicalJson, publicCanonicalJson).
THEOREM TextsAreMembers == TextSpec => []TextIsMembers
<1>1. TextInv => TextIsMembers
  <2> SUFFICES ASSUME TextInv PROVE TextIsMembers
    OBVIOUS
  <2>1. TextTypeOK
    <3>1. ASSUME NEW a \in authored, a.text = None PROVE a.public
      <4>1. a.document \in Documents /\ a.public \in BOOLEAN /\ a.text = TextOf(a.public, a.document)
        BY DEF TextInv
      <4> QED BY <3>1, <4>1, TextAssumption DEF TextOf
    <3>2. ASSUME NEW c \in checked PROVE \E a \in authored : a.public = c.public
      BY DEF TextInv, Computed
    <3> QED BY <3>1, <3>2 DEF TextInv, TextTypeOK
  <2>2. FingerprintTellsMembers
    <3>1. ASSUME NEW a \in authored, NEW b \in authored, a.public = b.public, a.text # None, b.text # None
          PROVE  (a.text = b.text) = (Members(a) = Members(b))
      <4>1. /\ a.document \in Documents /\ a.public \in BOOLEAN /\ a.text = TextOf(a.public, a.document)
            /\ b.document \in Documents /\ b.text = TextOf(b.public, b.document)
        BY DEF TextInv
      <4>2. Members(a) = MembersOf(a.document) /\ Members(b) = MembersOf(b.document)
        BY DEF Members, MembersOf
      <4>3. CASE a.public
        <5>1. a.text = PublicCanonicalJson(a.document) /\ b.text = PublicCanonicalJson(b.document)
          BY <3>1, <4>1, <4>3 DEF TextOf
        <5> QED BY <3>1, <4>1, <4>2, <5>1, PublicTells
      <4>4. CASE ~a.public
        <5>1. a.text = CanonicalJson(a.document) /\ b.text = CanonicalJson(b.document)
          BY <3>1, <4>1, <4>4 DEF TextOf
        <5> QED BY <4>1, <4>2, <5>1, CanonicalTells
      <4> QED BY <4>3, <4>4
    <3> QED BY <3>1 DEF FingerprintTellsMembers
  <2>3. LayoutIdentityAgrees
    <3>1. ASSUME NEW c \in checked, c.public PROVE c.agrees <=> c.whole
      <4>1. PICK a \in authored : a.text # None /\ c = Computed(a)
        BY DEF TextInv
      <4>2. c.public = a.public /\ c.whole = (ReadKeys(a) = KeptKeys(a.document))
            /\ c.agrees = (PythonJson(a.document, ReadKeys(a)) = a.text)
        BY <4>1 DEF Computed
      <4>3. a.document \in Documents /\ a.public /\ a.text = TextOf(a.public, a.document)
        BY <3>1, <4>2 DEF TextInv
      <4>4. a.text = PublicCanonicalJson(a.document) /\ ReadKeys(a) = AllKeys(a.document)
        BY <4>3 DEF TextOf, ReadKeys
      <4>5. PythonJson(a.document, ReadKeys(a)) = a.text <=> ReadKeys(a) = KeptKeys(a.document)
        BY <4>1, <4>3, <4>4, PublicIsPython
      <4> QED BY <4>2, <4>5, Zenon
    <3> QED BY <3>1 DEF LayoutIdentityAgrees
  <2> QED BY <2>1, <2>2, <2>3 DEF TextIsMembers
<1> QED BY <1>1, TextInvariant, PTL

-----------------------------------------------------------------------------
(* Lists.                                                                  *)
LEMMA ListSize ==
  ASSUME NEW list, IsList(list)
  PROVE  /\ Len(list) \in Nat /\ DOMAIN list = 1..Len(list)
         /\ IsFiniteSet(Elements(list)) /\ Cardinality(Elements(list)) <= Len(list)
<1> DEFINE T == Elements(list)
           n == Len(list)
<1>1. list \in Seq(T)
  BY DEF IsList
<1>2. n \in Nat /\ DOMAIN list = 1..n /\ list \in [1..n -> T]
  BY <1>1
<1>3. \A t \in T : \E i \in 1..n : list[i] = t
  BY <1>2 DEF Elements
<1> HIDE DEF T, n
<1>4. list \in Surjection(1..n, T)
  BY <1>2, <1>3 DEF Surjection
<1>5. IsFiniteSet(1..n) /\ Cardinality(1..n) = n
  BY <1>2, FS_Interval
<1>6. IsFiniteSet(T) /\ Cardinality(T) <= Cardinality(1..n)
  BY <1>4, <1>5, FS_Surjection
<1> QED BY <1>2, <1>5, <1>6 DEF T, n

-----------------------------------------------------------------------------
(* Jobs: sorted lists.                                                     *)
Weighs(weight, list) == \A x \in Elements(list) : weight[x] \in Int

\* The sort takes, at each place, the element of that rank.
LEMMA SortRanks ==
  ASSUME NEW list, IsList(list), NEW weight, Weighs(weight, list), NEW n, n = Len(list),
         NEW place, place = [i \in 1..n |-> weight[list[i]]]
  PROVE  /\ n \in Nat /\ DOMAIN list = 1..n /\ place \in [1..n -> Int]
         /\ DOMAIN StableSorted(list, weight) = 1..n
         /\ \A k \in 1..n : StableSorted(list, weight)[k] = list[AtRank(place, n, k)]
<1>1. n \in Nat /\ DOMAIN list = 1..n /\ \A i \in 1..n : list[i] \in Elements(list)
  <2>1. Len(list) \in Nat /\ DOMAIN list = 1..Len(list)
    BY ListSize
  <2> QED BY <2>1 DEF Elements
<1>2. place \in [1..n -> Int]
  BY <1>1 DEF Weighs, Elements
<1> DEFINE p(j) == Cardinality({i \in 1..n : weight[list[i]] < weight[list[j]]
                                              \/ (weight[list[i]] = weight[list[j]] /\ i <= j)})
           q(j) == StableRank(place, n, j)
<1>3. StableSorted(list, weight) = [k \in 1..n |-> list[CHOOSE j \in 1..n : p(j) = k]]
  BY <1>1 DEF StableSorted
<1>4. ASSUME NEW j \in 1..n PROVE p(j) = q(j)
  <2>1. {i \in 1..n : weight[list[i]] < weight[list[j]] \/ (weight[list[i]] = weight[list[j]] /\ i <= j)}
        = {i \in 1..n : place[i] < place[j] \/ (place[i] = place[j] /\ i <= j)}
    OBVIOUS
  <2> QED BY <2>1 DEF StableRank
<1> HIDE DEF p, q
<1>5. ASSUME NEW k \in 1..n PROVE (CHOOSE j \in 1..n : p(j) = k) = AtRank(place, n, k)
  <2>1. (CHOOSE j \in 1..n : p(j) = k) = (CHOOSE j \in 1..n : q(j) = k)
    BY <1>4
  <2> QED BY <2>1 DEF AtRank, q
<1>6. /\ DOMAIN StableSorted(list, weight) = 1..n
      /\ \A k \in 1..n : StableSorted(list, weight)[k] = list[AtRank(place, n, k)]
  BY <1>3, <1>5
<1> QED BY <1>1, <1>2, <1>6

\* A sorted list has the elements of the list, as many of them, in the order of their weights.
LEMMA SortKeeps ==
  ASSUME NEW list, IsList(list), NEW weight, Weighs(weight, list), NEW s, s = StableSorted(list, weight)
  PROVE  /\ IsList(s) /\ Len(s) = Len(list) /\ Elements(s) = Elements(list)
         /\ \A j, k \in 1..Len(list) : j < k => weight[s[j]] <= weight[s[k]]
<1> DEFINE n == Len(list)
           place == [i \in 1..n |-> weight[list[i]]]
<1>0. n = Len(list) /\ place = [i \in 1..n |-> weight[list[i]]] /\ \A i \in 1..n : place[i] = weight[list[i]]
  OBVIOUS
<1> HIDE DEF n, place
<1>1. n \in Nat /\ DOMAIN list = 1..n /\ place \in [1..n -> Int] /\ DOMAIN s = 1..n
  BY <1>0, SortRanks
<1>2. InOrderOf(s, list, place)
  <2>1. \A k \in 1..n : s[k] = list[AtRank(place, n, k)]
    BY <1>0, SortRanks
  <2> QED BY <1>1, <2>1, SortedList
<1>3. PICK pick \in [1..n -> 1..n] :
        /\ \A k \in 1..n : s[k] = list[pick[k]]
        /\ \A j \in 1..n : \E k \in 1..n : pick[k] = j
        /\ \A j, k \in 1..n : j < k => place[pick[j]] <= place[pick[k]]
  BY <1>1, <1>2 DEF InOrderOf
<1>4. Elements(s) = Elements(list)
  BY <1>1, <1>3 DEF Elements
<1>5. s = [k \in 1..n |-> s[k]]
  <2>1. s = [k \in DOMAIN s |-> s[k]]
    BY DEF StableSorted
  <2> QED BY <1>1, <2>1
<1>6. s \in Seq(Elements(s)) /\ Len(s) = n
  <2>1. \A k \in 1..n : s[k] \in Elements(s)
    BY <1>1 DEF Elements
  <2>2. s \in [1..n -> Elements(s)]
    BY <1>5, <2>1
  <2> QED BY <1>1, <2>2
<1>7. \A j, k \in 1..n : j < k => weight[s[j]] <= weight[s[k]]
  <2>1. \A k \in 1..n : place[pick[k]] = weight[s[k]]
    BY <1>0, <1>3
  <2> QED BY <1>3, <2>1
<1> QED BY <1>0, <1>4, <1>6, <1>7 DEF IsList

\* A sorted list stays as it is.
LEMMA SortIsStable ==
  ASSUME NEW s, IsList(s), NEW weight, Weighs(weight, s),
         \A j, k \in 1..Len(s) : j < k => weight[s[j]] <= weight[s[k]]
  PROVE  StableSorted(s, weight) = s
<1> DEFINE n == Len(s)
           kept == [i \in 1..n |-> weight[s[i]]]
           t == StableSorted(s, weight)
<1>0. n = Len(s) /\ kept = [i \in 1..n |-> weight[s[i]]] /\ \A i \in 1..n : kept[i] = weight[s[i]]
  OBVIOUS
<1>1. t = [k \in DOMAIN s |-> t[k]]
  BY DEF StableSorted
<1>2. t = StableSorted(s, weight)
  OBVIOUS
<1> HIDE DEF n, kept, t
<1>3. n \in Nat /\ DOMAIN s = 1..n /\ kept \in [1..n -> Int]
  BY <1>0, SortRanks
<1>4. \A j, k \in 1..n : j < k => kept[j] <= kept[k]
  BY <1>0
<1>5. \A k \in 1..n : t[k] = s[k]
  <2>1. \A k \in 1..n : t[k] = s[AtRank(kept, n, k)]
    BY <1>0, <1>2, SortRanks
  <2> QED BY <1>3, <1>4, <2>1, SortedStays
<1>6. s = [k \in DOMAIN s |-> s[k]]
  BY DEF IsList
<1>7. t = s
  BY <1>1, <1>3, <1>5, <1>6
<1> QED BY <1>2, <1>7

LEMMA SortTwice ==
  ASSUME NEW list, IsList(list), NEW weight, Weighs(weight, list), NEW s, s = StableSorted(list, weight)
  PROVE  IsList(s) /\ Len(s) = Len(list) /\ Elements(s) = Elements(list) /\ StableSorted(s, weight) = s
<1>1. /\ IsList(s) /\ Len(s) = Len(list) /\ Elements(s) = Elements(list)
      /\ \A j, k \in 1..Len(list) : j < k => weight[s[j]] <= weight[s[k]]
  BY SortKeeps
<1>2. Weighs(weight, s)
  BY <1>1 DEF Weighs
<1>3. StableSorted(s, weight) = s
  BY <1>1, <1>2, SortIsStable
<1> QED BY <1>1, <1>3

\* A list without repetition is as long as it has elements, and the other way round.
LEMMA Unrepeated ==
  ASSUME NEW list, IsList(list), \A i, j \in DOMAIN list : list[i] = list[j] => i = j
  PROVE  Cardinality(Elements(list)) = Len(list)
<1> DEFINE T == Elements(list)
           n == Len(list)
<1>1. n \in Nat /\ DOMAIN list = 1..n
  BY ListSize
<1>2. list \in [1..n -> T] /\ \A t \in T : \E i \in 1..n : list[i] = t
  <2>1. list \in Seq(T)
    BY DEF IsList
  <2> HIDE DEF T, n
  <2>2. list \in [1..n -> T]
    BY <1>1, <2>1
  <2> QED BY <1>1, <2>2 DEF T, Elements
<1> HIDE DEF T, n
<1>3. list \in Bijection(1..n, T)
  BY <1>1, <1>2 DEF Bijection, Injection, Surjection, IsInjective
<1>4. IsFiniteSet(1..n) /\ Cardinality(1..n) = n - 1 + 1
  BY <1>1, FS_Interval
<1>5. ExistsBijection(1..n, T)
  BY <1>3 DEF ExistsBijection
<1>6. Cardinality(T) = Cardinality(1..n)
  BY <1>4, <1>5, FS_Bijection
<1>7. n - 1 + 1 = n
  BY <1>1
<1> QED BY <1>4, <1>6, <1>7 DEF T, n

LEMMA NotTwice ==
  ASSUME NEW list, IsList(list), Cardinality(Elements(list)) = Len(list)
  PROVE  \A i, j \in DOMAIN list : list[i] = list[j] => i = j
<1> DEFINE n == Len(list)
<1>1. n \in Nat /\ DOMAIN list = 1..n
  BY ListSize
<1>2. Cardinality({list[i] : i \in 1..n}) = n
  BY <1>1 DEF Elements
<1> HIDE DEF n
<1> QED BY <1>1, <1>2, DistinctKeys

\* In the order of their weights the elements increase, when no two have one weight.
LEMMA StrictlySorted ==
  ASSUME NEW s, IsList(s), NEW n, Len(s) = n, Cardinality(Elements(s)) = n, NEW weight, Weighs(weight, s),
         \A x, y \in Elements(s) : weight[x] = weight[y] => x = y,
         \A j, k \in 1..n : j < k => weight[s[j]] <= weight[s[k]]
  PROVE  Increasing(s, n, weight)
<1>1. n \in Nat /\ DOMAIN s = 1..n /\ \A i, j \in 1..n : s[i] = s[j] => i = j
  BY ListSize, NotTwice
<1>2. \A k \in 1..n : s[k] \in Elements(s) /\ weight[s[k]] \in Int
  BY <1>1 DEF Elements, Weighs
<1>3. ASSUME NEW j \in 1..n, NEW k \in 1..n, j < k PROVE weight[s[j]] < weight[s[k]]
  <2>1. weight[s[j]] # weight[s[k]]
    BY <1>1, <1>2, <1>3
  <2> QED BY <1>2, <1>3, <2>1
<1> QED BY <1>2, <1>3 DEF Increasing

\* Lists of the same elements, none of them twice or of the weight of another, are sorted alike.
LEMMA SortedAlike ==
  ASSUME NEW a, IsList(a), NEW b, IsList(b), Elements(a) = Elements(b), NEW weight, Weighs(weight, a),
         \A i, j \in DOMAIN a : a[i] = a[j] => i = j, \A i, j \in DOMAIN b : b[i] = b[j] => i = j,
         \A x, y \in Elements(a) : weight[x] = weight[y] => x = y
  PROVE  StableSorted(a, weight) = StableSorted(b, weight)
<1> DEFINE s == StableSorted(a, weight)
           t == StableSorted(b, weight)
           n == Len(a)
<1>1. Weighs(weight, b) /\ s = StableSorted(a, weight) /\ t = StableSorted(b, weight) /\ n = Len(a)
  BY DEF Weighs
<1> HIDE DEF s, t, n
<1>2. Cardinality(Elements(a)) = n /\ Len(b) = n
  BY <1>1, Unrepeated
<1>3. /\ IsList(s) /\ Len(s) = n /\ Elements(s) = Elements(a)
      /\ \A j, k \in 1..n : j < k => weight[s[j]] <= weight[s[k]]
  BY <1>1, SortKeeps
<1>4. /\ IsList(t) /\ Len(t) = n /\ Elements(t) = Elements(a)
      /\ \A j, k \in 1..n : j < k => weight[t[j]] <= weight[t[k]]
  BY <1>1, <1>2, SortKeeps
<1>5. Weighs(weight, s) /\ Weighs(weight, t)
  BY <1>3, <1>4 DEF Weighs
<1>6. Increasing(s, n, weight)
  BY <1>2, <1>3, <1>5, StrictlySorted
<1>7. Increasing(t, n, weight)
  BY <1>2, <1>4, <1>5, StrictlySorted
<1>8. n \in Nat /\ DOMAIN s = 1..n /\ DOMAIN t = 1..n
  BY <1>3, <1>4, ListSize
<1>9. Held(s, n) = Held(t, n)
  BY <1>3, <1>4, <1>8 DEF Elements, Held
<1>10. \A k \in 1..n : s[k] = t[k]
  BY <1>6, <1>7, <1>8, <1>9, OneOrder
<1>11. s = [k \in 1..n |-> s[k]] /\ t = [k \in 1..n |-> t[k]]
  <2>1. s = [k \in DOMAIN s |-> s[k]] /\ t = [k \in DOMAIN t |-> t[k]]
    BY <1>3, <1>4 DEF IsList
  <2> QED BY <1>8, <2>1
<1>12. s = t
  BY <1>10, <1>11
<1> QED BY <1>1, <1>12

\* No key is at two places of a list that has as many keys.
LEMMA KeyedOnce ==
  ASSUME NEW list, IsList(list), NEW key, NEW T, T = {key[x] : x \in Elements(list)}, Cardinality(T) = Len(list)
  PROVE  \A i, j \in DOMAIN list : key[list[i]] = key[list[j]] => i = j
<1> DEFINE n == Len(list)
           at == [i \in 1..n |-> key[list[i]]]
<1>1. n \in Nat /\ DOMAIN list = 1..n
  BY ListSize
<1>2. DOMAIN at = 1..n /\ {at[i] : i \in 1..n} = T
  <2>1. T = {key[list[i]] : i \in 1..n}
    BY <1>1 DEF Elements
  <2> QED BY <2>1
<1>3. \A i \in 1..n : at[i] = key[list[i]]
  OBVIOUS
<1>4. Cardinality({at[i] : i \in 1..n}) = n
  BY <1>2
<1> HIDE DEF at, n
<1>5. \A i, j \in 1..n : at[i] = at[j] => i = j
  BY <1>1, <1>2, <1>4, DistinctKeys
<1> QED BY <1>1, <1>3, <1>5

-----------------------------------------------------------------------------
(* Jobs: what is sorted in a specification.                                *)
Listed(list, S) == IsList(list) /\ Elements(list) \subseteq S
KeysOnce(list) == Cardinality({SelectorKey(r) : r \in Elements(list)}) = Len(list)
SecretsOnce(list) == Cardinality({SecretKey(ref) : ref \in Elements(list)}) = Len(list)
Sorted(s, list) == IsList(s) /\ Len(s) = Len(list) /\ Elements(s) = Elements(list)

LEMMA SelectorsSorted ==
  ASSUME NEW list, Listed(list, Selectors)
  PROVE  Sorted(ByKey(list), list) /\ ByKey(ByKey(list)) = ByKey(list)
<1> DEFINE weight == [r \in Elements(list) |-> Place[SelectorKey(r)]]
           s == ByKey(list)
<1>1. IsList(list) /\ s = StableSorted(list, weight)
  BY DEF Listed, ByKey
<1>2. \A r \in Elements(list) : weight[r] \in Int
  BY JobAssumption DEF Listed
<1>3. Elements(s) = Elements(list) => ByKey(s) = StableSorted(s, weight)
  BY DEF ByKey
<1> HIDE DEF weight, s
<1>4. Weighs(weight, list)
  BY <1>2 DEF Weighs
<1>5. Sorted(s, list) /\ StableSorted(s, weight) = s
  BY <1>1, <1>4, SortTwice DEF Sorted
<1> QED BY <1>3, <1>5 DEF s, Sorted

LEMMA NamesSorted ==
  ASSUME NEW list, Listed(list, Names)
  PROVE  Sorted(ByName(list), list) /\ ByName(ByName(list)) = ByName(list)
<1> DEFINE weight == [d \in Elements(list) |-> Place[d]]
           s == ByName(list)
<1>1. IsList(list) /\ s = StableSorted(list, weight)
  BY DEF Listed, ByName
<1>2. \A d \in Elements(list) : weight[d] \in Int
  BY JobAssumption DEF Listed
<1>3. Elements(s) = Elements(list) => ByName(s) = StableSorted(s, weight)
  BY DEF ByName
<1> HIDE DEF weight, s
<1>4. Weighs(weight, list)
  BY <1>2 DEF Weighs
<1>5. Sorted(s, list) /\ StableSorted(s, weight) = s
  BY <1>1, <1>4, SortTwice DEF Sorted
<1> QED BY <1>3, <1>5 DEF s, Sorted

LEMMA ReferencesSorted ==
  ASSUME NEW list, Listed(list, References)
  PROVE  Sorted(ByReference(list), list) /\ ByReference(ByReference(list)) = ByReference(list)
<1> DEFINE weight == [ref \in Elements(list) |-> Place[ref.provider \o ref.reference]]
           s == ByReference(list)
<1>1. IsList(list) /\ s = StableSorted(list, weight)
  BY DEF Listed, ByReference
<1>2. \A ref \in Elements(list) : weight[ref] \in Int
  BY JobAssumption DEF Listed
<1>3. Elements(s) = Elements(list) => ByReference(s) = StableSorted(s, weight)
  BY DEF ByReference
<1> HIDE DEF weight, s
<1>4. Weighs(weight, list)
  BY <1>2 DEF Weighs
<1>5. Sorted(s, list) /\ StableSorted(s, weight) = s
  BY <1>1, <1>4, SortTwice DEF Sorted
<1> QED BY <1>3, <1>5 DEF s, Sorted

\* Whatever order its author wrote a list in, it is sorted alike.
LEMMA SelectorsAlike ==
  ASSUME NEW a, Listed(a, Selectors), KeysOnce(a), NEW b, Listed(b, Selectors),
         KeysOnce(b), Elements(a) = Elements(b)
  PROVE  ByKey(a) = ByKey(b)
<1> DEFINE E == Elements(a)
           weight == [r \in E |-> Place[SelectorKey(r)]]
           key == [r \in E |-> SelectorKey(r)]
           T == {key[r] : r \in E}
<1>1. IsList(a) /\ IsList(b) /\ E = Elements(a) /\ E = Elements(b) /\ T = {key[r] : r \in E}
  BY DEF Listed
<1>2. Cardinality(T) = Len(a) /\ Cardinality(T) = Len(b)
  <2>1. T = {SelectorKey(r) : r \in Elements(a)} /\ T = {SelectorKey(r) : r \in Elements(b)}
    OBVIOUS
  <2> QED BY <2>1 DEF KeysOnce, SecretsOnce
<1>3. ByKey(a) = StableSorted(a, weight) /\ ByKey(b) = StableSorted(b, weight)
  BY DEF ByKey
<1>4. \A r \in E : weight[r] \in Int
  BY JobAssumption DEF Listed
<1>5. \A r, q \in E : weight[r] = weight[q] => key[r] = key[q]
  BY JobAssumption DEF Listed
<1> HIDE DEF E, weight, key, T
<1>6. /\ \A i, j \in DOMAIN a : key[a[i]] = key[a[j]] => i = j
      /\ \A i, j \in DOMAIN b : key[b[i]] = key[b[j]] => i = j
  BY <1>1, <1>2, KeyedOnce
<1>7. \A x, y \in Elements(a) : weight[x] = weight[y] => x = y
  BY <1>1, <1>5, <1>6 DEF Elements
<1>8. Weighs(weight, a)
  BY <1>1, <1>4 DEF Weighs
<1> QED BY <1>1, <1>3, <1>6, <1>7, <1>8, SortedAlike

LEMMA NamesAlike ==
  ASSUME NEW a, Listed(a, Names), Distinct(a), NEW b, Listed(b, Names), Distinct(b), Elements(a) = Elements(b)
  PROVE  ByName(a) = ByName(b)
<1> DEFINE E == Elements(a)
           weight == [d \in E |-> Place[d]]
<1>1. IsList(a) /\ IsList(b) /\ E = Elements(a) /\ E = Elements(b)
  BY DEF Listed
<1>2. ByName(a) = StableSorted(a, weight) /\ ByName(b) = StableSorted(b, weight)
  BY DEF ByName
<1>3. \A d, e \in E : weight[d] \in Int /\ (weight[d] = weight[e] => d = e)
  BY JobAssumption DEF Listed
<1> HIDE DEF E, weight
<1>4. (\A i, j \in DOMAIN a : a[i] = a[j] => i = j) /\ \A i, j \in DOMAIN b : b[i] = b[j] => i = j
  BY <1>1, NotTwice DEF Distinct
<1>5. Weighs(weight, a) /\ \A x, y \in Elements(a) : weight[x] = weight[y] => x = y
  BY <1>1, <1>3 DEF Weighs
<1> QED BY <1>1, <1>2, <1>4, <1>5, SortedAlike

LEMMA ReferencesAlike ==
  ASSUME NEW a, Listed(a, References), SecretsOnce(a), NEW b, Listed(b, References),
         SecretsOnce(b), Elements(a) = Elements(b),
         \A r, q \in Elements(a) : r # q => Place[r.provider \o r.reference] # Place[q.provider \o q.reference]
  PROVE  ByReference(a) = ByReference(b)
<1> DEFINE E == Elements(a)
           weight == [ref \in E |-> Place[ref.provider \o ref.reference]]
           key == [ref \in E |-> SecretKey(ref)]
           T == {key[ref] : ref \in E}
<1>1. IsList(a) /\ IsList(b) /\ E = Elements(a) /\ E = Elements(b) /\ T = {key[ref] : ref \in E}
  BY DEF Listed
<1>2. Cardinality(T) = Len(a) /\ Cardinality(T) = Len(b)
  <2>1. T = {SecretKey(ref) : ref \in Elements(a)} /\ T = {SecretKey(ref) : ref \in Elements(b)}
    OBVIOUS
  <2> QED BY <2>1 DEF KeysOnce, SecretsOnce
<1>3. ByReference(a) = StableSorted(a, weight) /\ ByReference(b) = StableSorted(b, weight)
  BY DEF ByReference
<1>4. \A ref \in E : weight[ref] \in Int
  BY JobAssumption DEF Listed
<1>5. \A r, q \in E : weight[r] = weight[q] => r = q
  OBVIOUS
<1> HIDE DEF E, weight, key, T
<1>6. /\ \A i, j \in DOMAIN a : key[a[i]] = key[a[j]] => i = j
      /\ \A i, j \in DOMAIN b : key[b[i]] = key[b[j]] => i = j
  BY <1>1, <1>2, KeyedOnce
<1>7. (\A i, j \in DOMAIN a : a[i] = a[j] => i = j) /\ \A i, j \in DOMAIN b : b[i] = b[j] => i = j
  BY <1>6
<1>8. Weighs(weight, a) /\ \A x, y \in Elements(a) : weight[x] = weight[y] => x = y
  BY <1>1, <1>4, <1>5 DEF Weighs
<1> QED BY <1>1, <1>3, <1>7, <1>8, SortedAlike

-----------------------------------------------------------------------------
(* Jobs: specifications and declarations.                                  *)
\* What an author can have declared.
InputListed(input) ==
  Listed(input.resources, Selectors) /\ Listed(input.secrets, References) /\ Listed(input.dependsOn, Names)

\* Sorting repeats nothing, and loses nothing.
LEMMA KeptDistinct ==
  ASSUME NEW s, NEW list, Sorted(s, list)
  PROVE  /\ KeysOnce(list) => KeysOnce(s)
         /\ SecretsOnce(list) => SecretsOnce(s)
         /\ Distinct(list) => Distinct(s)
         /\ IsList(list) /\ list # <<>> => s # <<>>
<1>1. Len(s) = Len(list) /\ Elements(s) = Elements(list)
  BY DEF Sorted
<1>2. KeysOnce(list) => KeysOnce(s)
  <2>1. {SelectorKey(x) : x \in Elements(s)} = {SelectorKey(x) : x \in Elements(list)}
    BY <1>1
  <2> QED BY <1>1, <2>1 DEF KeysOnce, SecretsOnce
<1>3. SecretsOnce(list) => SecretsOnce(s)
  <2>1. {SecretKey(x) : x \in Elements(s)} = {SecretKey(x) : x \in Elements(list)}
    BY <1>1
  <2> QED BY <1>1, <2>1 DEF KeysOnce, SecretsOnce
<1>4. Distinct(list) => Distinct(s)
  BY <1>1 DEF Distinct
<1>5. IsList(list) /\ list # <<>> => s # <<>>
  BY <1>1 DEF IsList
<1> QED BY <1>2, <1>3, <1>4, <1>5

\* What an input is that fits.
LimitsFit(input) ==
  /\ input.kind \in Kinds /\ IsPinnedImage(input.image)
  /\ input.operation.keys # {} /\ ~HoldsSecret(input.operation.keys) /\ ~HoldsSecret(input.extensions)
  /\ input.timeout \in 1..MaxTimeoutSeconds /\ input.attempts \in 1..20
ListsFit(input) ==
  /\ input.resources # <<>> /\ KeysOnce(input.resources)
  /\ Distinct(input.dependsOn) /\ \A d \in Elements(input.dependsOn) : IsIdentifier(d)
  /\ SecretsOnce(input.secrets) /\ \A ref \in Elements(input.secrets) : IsReference(ref)
LEMMA FitsFacts ==
  ASSUME NEW input
  PROVE  InputFits(input) <=> LimitsFit(input) /\ ListsFit(input)
BY DEF InputFits, LimitsFit, ListsFit, DistinctBy, KeysOnce, SecretsOnce

\* A specification would pass as an input, and would come out as it is.
LEMMA SpecIsSpec ==
  ASSUME NEW input, InputListed(input), InputFits(input)
  PROVE  InputFits(SpecOf(input)) /\ SpecOf(SpecOf(input)) = SpecOf(input)
<1> DEFINE s == SpecOf(input)
<1>1. /\ s.kind = input.kind /\ s.image = input.image /\ s.operation = input.operation
      /\ s.timeout = input.timeout /\ s.attempts = input.attempts /\ s.extensions = input.extensions
      /\ s.resources = ByKey(input.resources) /\ s.secrets = ByReference(input.secrets)
      /\ s.dependsOn = ByName(input.dependsOn)
  BY DEF SpecOf, SpecWith
<1>2. /\ Sorted(ByKey(input.resources), input.resources) /\ ByKey(s.resources) = s.resources
      /\ Sorted(ByReference(input.secrets), input.secrets) /\ ByReference(s.secrets) = s.secrets
      /\ Sorted(ByName(input.dependsOn), input.dependsOn) /\ ByName(s.dependsOn) = s.dependsOn
  BY <1>1, SelectorsSorted, ReferencesSorted, NamesSorted DEF InputListed
<1>3. s = [kind |-> s.kind, image |-> s.image, resources |-> s.resources, operation |-> s.operation,
           secrets |-> s.secrets, dependsOn |-> s.dependsOn, timeout |-> s.timeout, attempts |-> s.attempts,
           extensions |-> s.extensions]
  BY DEF SpecOf, SpecWith
<1>4. SpecOf(s) = [kind |-> s.kind, image |-> s.image, resources |-> ByKey(s.resources), operation |-> s.operation,
                   secrets |-> ByReference(s.secrets), dependsOn |-> ByName(s.dependsOn), timeout |-> s.timeout,
                   attempts |-> s.attempts, extensions |-> s.extensions]
  BY DEF SpecOf, SpecWith
<1> HIDE DEF s
<1>5. SpecOf(s) = s
  BY <1>2, <1>3, <1>4
<1>6. InputFits(s)
  <2>1. LimitsFit(input) /\ ListsFit(input)
    BY FitsFacts
  <2>2. LimitsFit(s)
    BY <1>1, <2>1 DEF LimitsFit
  <2>3. /\ Sorted(s.resources, input.resources) /\ Sorted(s.secrets, input.secrets)
        /\ Sorted(s.dependsOn, input.dependsOn)
    BY <1>1, <1>2
  <2>4. IsList(input.resources)
    BY DEF InputListed, Listed
  <2>5. s.resources # <<>> /\ KeysOnce(s.resources) /\ SecretsOnce(s.secrets) /\ Distinct(s.dependsOn)
    BY <2>1, <2>3, <2>4, KeptDistinct DEF ListsFit
  <2>6. Elements(s.secrets) = Elements(input.secrets) /\ Elements(s.dependsOn) = Elements(input.dependsOn)
    BY <2>3 DEF Sorted
  <2>7. ListsFit(s)
    BY <2>1, <2>5, <2>6 DEF ListsFit
  <2> QED BY <2>2, <2>7, FitsFacts
<1> QED BY <1>5, <1>6 DEF s

\* Only the builders of a projection and of a cache warming give a job a way, from one Resource to another.
Paired(input) == Directed(input) => \E r, q \in Selectors : input.resources = <<r, q>>

\* Two lists of the same two Resources are one list or turned round.
LEMMA SameOrTurned ==
  ASSUME NEW r, NEW q, NEW s, NEW t, r # q, Elements(<<r, q>>) = Elements(<<s, t>>)
  PROVE  <<r, q>> = <<s, t>> \/ <<r, q>> = <<t, s>>
<1>1. Elements(<<r, q>>) = {r, q} /\ Elements(<<s, t>>) = {s, t}
  BY DEF Elements
<1> QED BY <1>1

\* A declaration is of an input that fits, and its specification is made of it.
Accepted(d) == InputListed(d.input) /\ Paired(d.input) /\ InputFits(d.input) /\ d.spec = SpecOf(d.input)
JobInv ==
  /\ JobTypeOK
  /\ declared # None => Accepted(declared)
  /\ earlier # None => Accepted(earlier)

LEMMA DeclareStep ==
  ASSUME JobInv, count < MaxDeclarations, NEW input, InputListed(input), Paired(input), NEW fits, Declare(input, fits)
  PROVE  JobInv'
<1>1. count \in 0..MaxDeclarations /\ MaxDeclarations \in Nat /\ count' = count + 1 /\ started' = started
  BY JobAssumption DEF JobInv, JobTypeOK, Declare
<1>2. CASE fits /\ InputFits(input)
  <2>1. declared' = [input |-> input, spec |-> SpecOf(input)] /\ earlier' = declared /\ refused' = FALSE
    BY <1>2 DEF Declare
  <2>2. Accepted([input |-> input, spec |-> SpecOf(input)])
    BY <1>2 DEF Accepted
  <2>3. JobTypeOK'
    <3>1. (declared # None => count >= 1) /\ \A s \in started : InputFits(s) /\ SpecOf(s) = s
      BY DEF JobInv, JobTypeOK
    <3>2. count' \in 0..MaxDeclarations /\ count' >= 1 /\ (earlier' # None => count' >= 2)
      BY <1>1, <2>1, <3>1
    <3> QED BY <1>1, <2>1, <3>1, <3>2 DEF JobTypeOK
  <2>4. (declared # None => Accepted(declared))' /\ (earlier # None => Accepted(earlier))'
    BY <2>1, <2>2 DEF JobInv, Accepted
  <2> QED BY <2>3, <2>4 DEF JobInv
<1>3. CASE ~(fits /\ InputFits(input))
  <2>1. declared' = declared /\ earlier' = earlier /\ refused' = TRUE
    BY <1>3 DEF Declare
  <2>2. JobTypeOK'
    BY <1>1, <2>1 DEF JobInv, JobTypeOK
  <2> QED BY <2>1, <2>2 DEF JobInv, Accepted
<1> QED BY <1>2, <1>3

LEMMA ListedChoices ==
  /\ \A list \in Resources : Listed(list, Selectors)
  /\ \A list \in Secrets : Listed(list, References)
  /\ \A custom \in CustomInputs : Listed(custom.secrets, References) /\ Listed(custom.dependsOn, Names)
  /\ \A S : Listed(<<>>, S)
  /\ \A r, q \in Selectors : Listed(<<r, q>>, Selectors)
  /\ UNION {Elements(list) : list \in Resources} = Selectors
<1>1. \A list \in Resources : Listed(list, Selectors)
  BY JobAssumption DEF Listed, Selectors
<1>2. \A list \in Secrets : Listed(list, References)
  BY JobAssumption DEF Listed, References
<1>3. \A custom \in CustomInputs : Listed(custom.secrets, References) /\ Listed(custom.dependsOn, Names)
  BY JobAssumption DEF Listed, References, Names
<1>4. \A S : Listed(<<>>, S)
  <2>1. Elements(<<>>) = {}
    BY DEF Elements
  <2> QED BY <2>1 DEF Listed, IsList
<1>5. ASSUME NEW r \in Selectors, NEW q \in Selectors PROVE Listed(<<r, q>>, Selectors)
  <2>1. Elements(<<r, q>>) = {r, q}
    BY DEF Elements
  <2> QED BY <2>1 DEF Listed, IsList
<1> QED BY <1>1, <1>2, <1>3, <1>4, <1>5 DEF Selectors

\* The builders put what their callers give them into the lists of an input.
LEMMA BuiltListed ==
  ASSUME NEW kind, NEW image, NEW resources, Listed(resources, Selectors), NEW contract, NEW value,
         NEW secrets, Listed(secrets, References)
  PROVE  InputListed(Input(kind, image, resources, contract, value, secrets))
BY ListedChoices DEF InputListed, Input

\* The last two declarations that were accepted are of inputs that fit, and each has the specification of its
\* input (createLifecycleJobSpec and the builders).
THEOREM JobsInvariant == JobSpec => []JobInv
<1>1. JobInit => JobInv
  <2>1. MaxDeclarations \in Nat
    BY JobAssumption
  <2> SUFFICES ASSUME JobInit PROVE JobInv
    OBVIOUS
  <2>2. count = 0 /\ refused = FALSE /\ declared = None /\ earlier = None /\ started = {}
    BY DEF JobInit
  <2>3. count \in 0..MaxDeclarations
    BY <2>1, <2>2
  <2>4. JobTypeOK
    BY <2>2, <2>3 DEF JobTypeOK
  <2> QED BY <2>2, <2>4 DEF JobInv
<1>2. JobInv /\ [JobNext]_jobVars => JobInv'
  <2> SUFFICES ASSUME JobInv, [JobNext]_jobVars PROVE JobInv'
    OBVIOUS
  <2>1. CASE MigrationJob
    <3>1. PICK image \in Images, resources \in Resources, from \in Pins, to \in Pins, secrets \in Secrets :
            Declare(Input("migration", image, resources, "meridian.migration.apply", <<from, to>>, secrets),
                    IsFingerprint(from) /\ IsFingerprint(to))
      BY <2>1 DEF MigrationJob
    <3>2. InputListed(Input("migration", image, resources, "meridian.migration.apply", <<from, to>>, secrets)) /\ Paired(Input("migration", image, resources, "meridian.migration.apply", <<from, to>>, secrets))
      BY ListedChoices, BuiltListed DEF Paired, Directed, Input, Operation
    <3>3. count < MaxDeclarations
      BY <2>1 DEF MigrationJob
    <3> QED BY <3>1, <3>2, <3>3, DeclareStep
  <2>2. CASE ProjectionJob
    <3>1. PICK image \in Images, source \in Selectors, target \in Selectors, pin \in Pins :
            Declare(Input("projection", image, <<source, target>>, "meridian.projection.rebuild", <<pin>>, <<>>),
                    IsFingerprint(pin))
      BY <2>2, ListedChoices DEF ProjectionJob
    <3>2. InputListed(Input("projection", image, <<source, target>>, "meridian.projection.rebuild", <<pin>>, <<>>)) /\ Paired(Input("projection", image, <<source, target>>, "meridian.projection.rebuild", <<pin>>, <<>>))
      BY ListedChoices, BuiltListed DEF Paired, Directed, Input, Operation
    <3>3. count < MaxDeclarations
      BY <2>2 DEF ProjectionJob
    <3> QED BY <3>1, <3>2, <3>3, DeclareStep
  <2>3. CASE CacheWarmJob
    <3>1. PICK image \in Images, source \in Selectors, cache \in Selectors, generation \in Texts :
            Declare(Input("cache-warm", image, <<source, cache>>, "meridian.cache.warm", <<generation>>, <<>>),
                    IsText(generation, 512))
      BY <2>3, ListedChoices DEF CacheWarmJob
    <3>2. InputListed(Input("cache-warm", image, <<source, cache>>, "meridian.cache.warm", <<generation>>, <<>>)) /\ Paired(Input("cache-warm", image, <<source, cache>>, "meridian.cache.warm", <<generation>>, <<>>))
      BY ListedChoices, BuiltListed DEF Paired, Directed, Input, Operation
    <3>3. count < MaxDeclarations
      BY <2>3 DEF CacheWarmJob
    <3> QED BY <3>1, <3>2, <3>3, DeclareStep
  <2>4. CASE StreamingBootstrapJob
    <3>1. PICK image \in Images, resources \in Resources, pin \in Pins :
            Declare(Input("streaming-bootstrap", image, resources, "meridian.streaming.bootstrap", <<pin>>, <<>>),
                    IsFingerprint(pin))
      BY <2>4 DEF StreamingBootstrapJob
    <3>2. InputListed(Input("streaming-bootstrap", image, resources, "meridian.streaming.bootstrap", <<pin>>, <<>>)) /\ Paired(Input("streaming-bootstrap", image, resources, "meridian.streaming.bootstrap", <<pin>>, <<>>))
      BY ListedChoices, BuiltListed DEF Paired, Directed, Input, Operation
    <3>3. count < MaxDeclarations
      BY <2>4 DEF StreamingBootstrapJob
    <3> QED BY <3>1, <3>2, <3>3, DeclareStep
  <2>5. CASE BackupJob
    <3>1. PICK image \in Images, resources \in Resources, policy \in Texts :
            Declare(Input("backup", image, resources, "meridian.recovery.backup", <<policy>>, <<>>),
                    IsText(policy, 2048))
      BY <2>5 DEF BackupJob
    <3>2. InputListed(Input("backup", image, resources, "meridian.recovery.backup", <<policy>>, <<>>)) /\ Paired(Input("backup", image, resources, "meridian.recovery.backup", <<policy>>, <<>>))
      BY ListedChoices, BuiltListed DEF Paired, Directed, Input, Operation
    <3>3. count < MaxDeclarations
      BY <2>5 DEF BackupJob
    <3> QED BY <3>1, <3>2, <3>3, DeclareStep
  <2>6. CASE RestoreJob
    <3>1. PICK image \in Images, resources \in Resources, point \in Texts :
            Declare(Input("restore", image, resources, "meridian.recovery.restore", <<point>>, <<>>),
                    IsText(point, 2048))
      BY <2>6 DEF RestoreJob
    <3>2. InputListed(Input("restore", image, resources, "meridian.recovery.restore", <<point>>, <<>>)) /\ Paired(Input("restore", image, resources, "meridian.recovery.restore", <<point>>, <<>>))
      BY ListedChoices, BuiltListed DEF Paired, Directed, Input, Operation
    <3>3. count < MaxDeclarations
      BY <2>6 DEF RestoreJob
    <3> QED BY <3>1, <3>2, <3>3, DeclareStep
  <2>7. CASE ValidationJob
    <3>1. PICK image \in Images, resources \in Resources, pin \in Pins :
            Declare(Input("validation", image, resources, "meridian.deployment.validate", <<pin>>, <<>>),
                    IsFingerprint(pin))
      BY <2>7 DEF ValidationJob
    <3>2. InputListed(Input("validation", image, resources, "meridian.deployment.validate", <<pin>>, <<>>)) /\ Paired(Input("validation", image, resources, "meridian.deployment.validate", <<pin>>, <<>>))
      BY ListedChoices, BuiltListed DEF Paired, Directed, Input, Operation
    <3>3. count < MaxDeclarations
      BY <2>7 DEF ValidationJob
    <3> QED BY <3>1, <3>2, <3>3, DeclareStep
  <2>8. CASE CustomJob
    <3> DEFINE two(list) == Len(list) = 2 /\ DistinctBy(list, SelectorKey)
               built(custom) ==
                 [kind |-> custom.kind, image |-> CHOOSE i \in Images : IsPinnedImage(i),
                  resources |-> CHOOSE list \in Resources : two(list),
                  operation |-> [contract |-> "meridian.migration.apply", keys |-> custom.keys, value |-> <<>>],
                  secrets |-> custom.secrets, dependsOn |-> custom.dependsOn, timeout |-> custom.timeout,
                  attempts |-> custom.attempts, extensions |-> custom.extensions]
    <3>1. PICK custom \in CustomInputs : Declare(built(custom), TRUE)
      BY <2>8 DEF CustomJob
    <3>2. \E list \in Resources : two(list)
      BY JobAssumption
    <3>3. InputListed(built(custom))
      <4> HIDE DEF two
      <4>1. built(custom).resources \in Resources
        BY <3>2
      <4>2. built(custom).secrets = custom.secrets /\ built(custom).dependsOn = custom.dependsOn
        OBVIOUS
      <4> HIDE DEF built
      <4> QED BY <4>1, <4>2, ListedChoices DEF InputListed
    <3>4. count < MaxDeclarations
      BY <2>8 DEF CustomJob
    <3>5. Paired(built(custom))
      BY DEF Paired, Directed
    <3> HIDE DEF built
    <3> QED BY <3>1, <3>3, <3>4, <3>5, DeclareStep
  <2>9. CASE Provision
    <3>1. declared # None /\ UNCHANGED <<declared, earlier, refused, count>>
      BY <2>9 DEF Provision
    <3>2. started' \subseteq started \cup {declared.spec}
      BY <2>9 DEF Provision
    <3>3. InputFits(declared.spec) /\ SpecOf(declared.spec) = declared.spec
      BY <3>1, SpecIsSpec DEF JobInv, Accepted
    <3>4. JobTypeOK'
      BY <3>1, <3>2, <3>3 DEF JobInv, JobTypeOK
    <3> QED BY <3>1, <3>4 DEF JobInv, Accepted
  <2>10. CASE UNCHANGED jobVars
    BY <2>10 DEF jobVars, JobInv, JobTypeOK, Accepted
  <2> QED BY <2>1, <2>2, <2>3, <2>4, <2>5, <2>6, <2>7, <2>8, <2>9, <2>10 DEF JobNext
<1> QED BY <1>1, <1>2, PTL DEF JobSpec

\* References to secrets that read alike apart, two declarations have one fingerprint exactly when they
\* ask for the same work, in whatever order its lists were written, or are a projection (a cache warming)
\* and its opposite, which the code does not tell apart (createLifecycleJobSpec and the builders).
THEOREM FingerprintsAreWork == JobSpec => []FingerprintIsWork
<1>1. JobInv => FingerprintIsWork
  <2> SUFFICES ASSUME JobInv PROVE FingerprintIsWork
    OBVIOUS
  <2>1. ASSUME Both
        PROVE  /\ declared.spec = earlier.spec => Work(declared) = Work(earlier) \/ Opposite(declared, earlier)
               /\ (Work(declared) = Work(earlier) \/ Opposite(declared, earlier)) /\ ~ReadAlike(declared)
                    => declared.spec = earlier.spec
    <3> DEFINE a == declared.input
               b == earlier.input
    <3>1. /\ InputListed(a) /\ Paired(a) /\ InputFits(a) /\ declared.spec = SpecOf(a)
          /\ InputListed(b) /\ Paired(b) /\ InputFits(b) /\ earlier.spec = SpecOf(b)
      BY <2>1 DEF Both, JobInv, Accepted
    <3>2. /\ Asked(declared) = <<a.kind, a.image, Elements(a.resources), a.operation, Elements(a.secrets),
                                 Elements(a.dependsOn), a.timeout, a.attempts, a.extensions>>
          /\ Asked(earlier) = <<b.kind, b.image, Elements(b.resources), b.operation, Elements(b.secrets),
                                Elements(b.dependsOn), b.timeout, b.attempts, b.extensions>>
      BY DEF Asked
    <3>3. ReadAlike(declared) <=>
            \E r, q \in Elements(a.secrets) :
              r # q /\ Place[r.provider \o r.reference] = Place[q.provider \o q.reference]
      BY DEF ReadAlike
    <3>9. /\ Way(declared) = (IF Directed(a) THEN a.resources ELSE <<>>)
          /\ Way(earlier) = (IF Directed(b) THEN b.resources ELSE <<>>)
          /\ Work(declared) = <<Asked(declared), Way(declared)>>
          /\ Work(earlier) = <<Asked(earlier), Way(earlier)>>
          /\ Opposite(declared, earlier) <=>
               Asked(declared) = Asked(earlier) /\ Directed(a)
                 /\ Way(declared) = <<Way(earlier)[2], Way(earlier)[1]>>
      BY DEF Way, Work, Opposite
    <3> HIDE DEF a, b
    <3>4. /\ Elements(ByKey(a.resources)) = Elements(a.resources)
          /\ Elements(ByReference(a.secrets)) = Elements(a.secrets)
          /\ Elements(ByName(a.dependsOn)) = Elements(a.dependsOn)
          /\ Elements(ByKey(b.resources)) = Elements(b.resources)
          /\ Elements(ByReference(b.secrets)) = Elements(b.secrets)
          /\ Elements(ByName(b.dependsOn)) = Elements(b.dependsOn)
      BY <3>1, SelectorsSorted, ReferencesSorted, NamesSorted DEF InputListed, Sorted
    <3>5. ASSUME SpecOf(a) = SpecOf(b) PROVE Work(declared) = Work(earlier) \/ Opposite(declared, earlier)
      <4>1. /\ a.kind = b.kind /\ a.image = b.image /\ a.operation = b.operation
            /\ a.timeout = b.timeout /\ a.attempts = b.attempts /\ a.extensions = b.extensions
            /\ ByKey(a.resources) = ByKey(b.resources) /\ ByReference(a.secrets) = ByReference(b.secrets)
            /\ ByName(a.dependsOn) = ByName(b.dependsOn)
        BY <3>5 DEF SpecOf, SpecWith
      <4>2. Asked(declared) = Asked(earlier)
        BY <3>2, <3>4, <4>1
      <4>3. Directed(a) <=> Directed(b)
        BY <4>1 DEF Directed
      <4>4. CASE ~Directed(a)
        BY <3>9, <4>2, <4>3, <4>4
      <4>5. CASE Directed(a)
        <5>1. PICK r, q \in Selectors : a.resources = <<r, q>>
          BY <3>1, <4>5 DEF Paired
        <5>2. PICK s, t \in Selectors : b.resources = <<s, t>>
          BY <3>1, <4>3, <4>5 DEF Paired
        <5>3. Elements(<<r, q>>) = Elements(<<s, t>>)
          BY <3>4, <4>1, <5>1, <5>2
        <5>4. r # q
          <6>1. KeysOnce(a.resources) /\ Listed(a.resources, Selectors)
            BY <3>1, FitsFacts DEF ListsFit, InputListed
          <6>2. Cardinality({SelectorKey(x) : x \in Elements(<<r, q>>)}) = 2
            BY <5>1, <6>1 DEF KeysOnce
          <6>3. {SelectorKey(x) : x \in Elements(<<r, q>>)} = {SelectorKey(r), SelectorKey(q)}
            BY DEF Elements
          <6>4. r = q => Cardinality({SelectorKey(r), SelectorKey(q)}) = 1
            BY FS_Singleton
          <6> QED BY <6>2, <6>3, <6>4
        <5>5. <<r, q>> = <<s, t>> \/ <<r, q>> = <<t, s>>
          BY <5>3, <5>4, SameOrTurned
        <5> QED BY <3>9, <4>2, <4>3, <4>5, <5>1, <5>2, <5>5
      <4> QED BY <4>4, <4>5
    <3>6. ASSUME Work(declared) = Work(earlier) \/ Opposite(declared, earlier), ~ReadAlike(declared)
          PROVE  SpecOf(a) = SpecOf(b)
      <4>1. /\ a.kind = b.kind /\ a.image = b.image /\ a.operation = b.operation
            /\ a.timeout = b.timeout /\ a.attempts = b.attempts /\ a.extensions = b.extensions
            /\ Elements(a.resources) = Elements(b.resources) /\ Elements(a.secrets) = Elements(b.secrets)
            /\ Elements(a.dependsOn) = Elements(b.dependsOn)
        BY <3>2, <3>6, <3>9
      <4>2. ByKey(a.resources) = ByKey(b.resources)
        <5>1. KeysOnce(a.resources) /\ KeysOnce(b.resources)
          BY <3>1, FitsFacts DEF ListsFit
        <5>2. Listed(a.resources, Selectors) /\ Listed(b.resources, Selectors)
          BY <3>1 DEF InputListed
        <5> QED BY <4>1, <5>1, <5>2, SelectorsAlike
      <4>3. ByName(a.dependsOn) = ByName(b.dependsOn)
        <5>1. Distinct(a.dependsOn) /\ Distinct(b.dependsOn)
          BY <3>1, FitsFacts DEF ListsFit
        <5>2. Listed(a.dependsOn, Names) /\ Listed(b.dependsOn, Names)
          BY <3>1 DEF InputListed
        <5> QED BY <4>1, <5>1, <5>2, NamesAlike
      <4>4. ByReference(a.secrets) = ByReference(b.secrets)
        <5>1. SecretsOnce(a.secrets) /\ SecretsOnce(b.secrets)
          BY <3>1, FitsFacts DEF ListsFit
        <5>2. Listed(a.secrets, References) /\ Listed(b.secrets, References)
          BY <3>1 DEF InputListed
        <5>3. \A r, q \in Elements(a.secrets) :
                r # q => Place[r.provider \o r.reference] # Place[q.provider \o q.reference]
          BY <3>3, <3>6
        <5> QED BY <4>1, <5>1, <5>2, <5>3, ReferencesAlike
      <4> QED BY <4>1, <4>2, <4>3, <4>4 DEF SpecOf, SpecWith
    <3> QED BY <3>1, <3>5, <3>6
  <2> QED BY <2>1 DEF JobInv, FingerprintIsWork, FingerprintTellsWork, WorkTellsFingerprint
<1> QED BY <1>1, JobsInvariant, PTL

-----------------------------------------------------------------------------
(* Conformance.                                                            *)
\* As many distinct roles as a list has, each of them in it, are the roles of the list.
LEMMA SameRoles ==
  ASSUME NEW observed, IsList(observed), NEW shown, IsList(shown), Distinct(observed),
         SameSet(observed, shown)
  PROVE  Elements(observed) = Elements(shown)
<1>1. /\ Elements(observed) \in SUBSET Elements(shown)
      /\ Cardinality(Elements(observed)) = Len(observed) /\ Len(observed) = Len(shown)
  BY DEF SameSet, NoStranger, Distinct
<1>2. IsFiniteSet(Elements(shown)) /\ Cardinality(Elements(shown)) <= Len(shown) /\ Len(shown) \in Nat
  BY ListSize
<1>3. Cardinality(Elements(shown)) \in Nat /\ Cardinality(Elements(observed)) <= Cardinality(Elements(shown))
  BY <1>1, <1>2, FS_Subset, FS_CardinalityType
<1>4. Cardinality(Elements(observed)) = Cardinality(Elements(shown))
  BY <1>1, <1>2, <1>3
<1> QED BY <1>1, <1>2, <1>4, FS_Subset

\* Every report that passed conforms to the profile it was judged for.
AllReports == UNION {Reports(p) : p \in Elements(LocalProfiles)}
SuiteInv ==
  /\ SuiteTypeOK /\ results \in Seq(AllReports)
  /\ outcome = "passed" => probed = Len(LocalProfiles)
  /\ \A i \in DOMAIN results :
       /\ i \in DOMAIN LocalProfiles /\ results[i] \in Reports(LocalProfiles[i])
       /\ Conforms(results[i], LocalProfiles[i])

LEMMA ProfileFacts ==
  ASSUME NEW i \in DOMAIN LocalProfiles
  PROVE  /\ LocalProfiles[i] \in Elements(LocalProfiles) /\ LocalProfiles[i] \in Elements(LocalClusterProfiles)
         /\ IsList(LocalProfiles[i].roles) /\ LocalProfiles[i].primaries \in {None, 1}
<1>1. LocalProfiles[i] \in Elements(LocalProfiles)
  BY DEF Elements
<1>2. LocalProfiles[i] \in Elements(LocalClusterProfiles)
  BY <1>1, SuiteAssumption
<1> QED BY <1>1, <1>2, SuiteAssumption

\* A run keeps one report that conforms for each profile it has been through
\* (runLocalClusterConformance).
THEOREM SuiteInvariant == SuiteSpec => []SuiteInv
<1> DEFINE n == Len(LocalProfiles)
<1>0. n \in Nat /\ DOMAIN LocalProfiles = 1..n
  BY SuiteAssumption, ListSize
<1>1. SuiteInit => SuiteInv
  BY <1>0 DEF SuiteInit, SuiteInv, SuiteTypeOK
<1>2. SuiteInv /\ [SuiteNext]_suiteVars => SuiteInv'
  <2> SUFFICES ASSUME SuiteInv, [SuiteNext]_suiteVars PROVE SuiteInv'
    OBVIOUS
  <2>1. CASE Probe
    <3> DEFINE p == LocalProfiles[probed + 1]
    <3>1. /\ outcome = "running" /\ probed < n /\ probed' = probed + 1
          /\ \E report \in Reports(p) :
               IF Conforms(report, p)
                 THEN results' = Append(results, report) /\ UNCHANGED outcome
                 ELSE outcome' = "failed" /\ UNCHANGED results
      BY <2>1 DEF Probe
    <3>2. probed \in Nat /\ Len(results) = probed /\ probed + 1 \in 1..n /\ results \in Seq(AllReports)
      BY <1>0, <3>1 DEF SuiteInv, SuiteTypeOK
    <3>3. PICK report \in Reports(p) :
            IF Conforms(report, p)
              THEN results' = Append(results, report) /\ UNCHANGED outcome
              ELSE outcome' = "failed" /\ UNCHANGED results
      BY <3>1
    <3>4. CASE ~Conforms(report, p)
      <4>1. outcome' = "failed" /\ results' = results
        BY <3>3, <3>4
      <4>2. SuiteTypeOK'
        BY <1>0, <3>1, <3>2, <4>1 DEF SuiteTypeOK
      <4> QED BY <4>1, <4>2 DEF SuiteInv
    <3>5. CASE Conforms(report, p)
      <4>1. outcome' = "running" /\ results' = Append(results, report)
        BY <3>1, <3>3, <3>5
      <4>2. report \in AllReports
        BY <1>0, <3>2, ProfileFacts DEF AllReports
      <4>3. /\ results' \in Seq(AllReports) /\ Len(results') = probed + 1
            /\ \A i \in 1..probed : results'[i] = results[i] /\ i \in DOMAIN results
            /\ results'[probed + 1] = report /\ DOMAIN results' = 1..(probed + 1)
        BY <3>2, <4>1, <4>2
      <4>4. SuiteTypeOK'
        BY <1>0, <3>1, <3>2, <4>1, <4>3 DEF SuiteTypeOK
      <4>5. ASSUME NEW i \in DOMAIN results'
            PROVE  /\ i \in DOMAIN LocalProfiles /\ results'[i] \in Reports(LocalProfiles[i])
                   /\ Conforms(results'[i], LocalProfiles[i])
        <5>1. CASE i = probed + 1
          BY <1>0, <3>2, <3>5, <4>3, <5>1
        <5>2. CASE i # probed + 1
          <6>1. i \in 1..probed
            BY <3>2, <4>3, <5>2
          <6>2. results'[i] = results[i] /\ i \in DOMAIN results
            BY <4>3, <6>1
          <6> QED BY <6>2 DEF SuiteInv
        <5> QED BY <5>1, <5>2
      <4> HIDE DEF p
      <4> QED BY <4>1, <4>3, <4>4, <4>5 DEF SuiteInv
    <3> QED BY <3>4, <3>5
  <2>2. CASE Finish
    <3>1. outcome = "running" /\ probed = n /\ outcome' = "passed" /\ probed' = probed /\ results' = results
      BY <2>2 DEF Finish
    <3>2. SuiteTypeOK'
      BY <3>1 DEF SuiteInv, SuiteTypeOK
    <3> QED BY <3>1, <3>2 DEF SuiteInv
  <2>3. CASE UNCHANGED suiteVars
    BY <2>3 DEF suiteVars, SuiteInv, SuiteTypeOK
  <2> QED BY <2>1, <2>2, <2>3 DEF SuiteNext
<1> QED BY <1>1, <1>2, PTL DEF SuiteSpec

\* A cluster that passed has every role of its profile and serves every operation that a plan may
\* require of it, and its report would pass for no other profile, as long as a harness names no
\* role twice (runLocalClusterConformance).
THEOREM PassedClustersServe == SuiteSpec => []PassedServes
<1>1. SuiteInv => PassedServes
  <2> SUFFICES ASSUME SuiteInv PROVE PassedServes
    OBVIOUS
  <2>1. ASSUME NEW i \in DOMAIN results
        PROVE  i \in DOMAIN LocalProfiles /\ Conforms(results[i], LocalProfiles[i])
               /\ IsList(results[i].roles) /\ results[i].passed \subseteq Stages
    <3>1. i \in DOMAIN LocalProfiles /\ results[i] \in Reports(LocalProfiles[i])
          /\ Conforms(results[i], LocalProfiles[i])
      BY DEF SuiteInv
    <3>2. LocalProfiles[i] \in Elements(LocalProfiles)
      BY <3>1, ProfileFacts
    <3> QED BY <3>1, <3>2, SuiteAssumption
  <2>2. ToldApart
    <3>1. ASSUME NEW i \in DOMAIN results, NEW j \in DOMAIN LocalProfiles, Distinct(results[i].roles),
                 i # j, Conforms(results[i], LocalProfiles[j])
          PROVE  FALSE
      <4> DEFINE p == LocalProfiles[i]
                 q == LocalProfiles[j]
                 r == results[i]
      <4>1. Conforms(r, p) /\ Conforms(r, q) /\ IsList(r.roles) /\ i \in DOMAIN LocalProfiles
        BY <2>1, <3>1
      <4>2. /\ p \in Elements(LocalClusterProfiles) /\ IsList(p.roles)
            /\ q \in Elements(LocalClusterProfiles) /\ IsList(q.roles)
        BY <4>1, ProfileFacts
      <4>3. p # q
        BY <3>1, <4>1, SuiteAssumption
      <4>4. /\ EngineProfiles[p.engine].id = EngineProfiles[q.engine].id
            /\ SameSet(r.roles, p.roles) /\ SameSet(r.roles, q.roles) /\ Distinct(r.roles)
        BY <3>1, <4>1 DEF Conforms
      <4> HIDE DEF p, q, r
      <4>5. Elements(r.roles) = Elements(p.roles) /\ Elements(r.roles) = Elements(q.roles)
        BY <4>1, <4>2, <4>4, SameRoles
      <4> QED BY <4>2, <4>3, <4>4, <4>5, SuiteAssumption
    <3> QED BY <3>1 DEF ToldApart
  <2>3. ServedByAll
    <3>1. ASSUME outcome = "passed", NEW i \in DOMAIN LocalProfiles, Distinct(results[i].roles)
          PROVE  Serves(results[i], LocalProfiles[i])
      <4> DEFINE p == LocalProfiles[i]
                 r == results[i]
      <4>1. DOMAIN LocalProfiles = 1..Len(LocalProfiles)
        BY SuiteAssumption, ListSize
      <4>2. i \in DOMAIN results
        <5>1. Len(results) = Len(LocalProfiles) /\ results \in Seq(AllReports)
          BY <3>1 DEF SuiteInv, SuiteTypeOK
        <5> QED BY <4>1, <5>1
      <4>3. Conforms(r, p) /\ IsList(r.roles) /\ r.passed \subseteq Stages
        BY <2>1, <4>2
      <4>4. IsList(p.roles) /\ p.primaries \in {None, 1} /\ Distinct(r.roles)
        BY <3>1, ProfileFacts
      <4> HIDE DEF p, r
      <4>5. Elements(r.roles) = Elements(p.roles)
        BY <4>3, <4>4, SameRoles DEF Conforms
      <4>6. p.primaries # None => r.primaries = 1
        BY <4>3, <4>4 DEF Conforms
      <4>7. \A contract \in DOMAIN EngineProfiles[p.engine].operations : contract \in r.operations
        BY <4>3 DEF Conforms
      <4>8. r.passed = Stages
        BY <4>3 DEF Conforms
      <4>9. Serves(r, p)
        BY <4>5, <4>6, <4>7, <4>8 DEF Serves
      <4> QED BY <4>9 DEF p, r
    <3> QED BY <3>1 DEF ServedByAll
  <2> QED BY <2>2, <2>3 DEF SuiteInv, PassedServes
<1> QED BY <1>1, SuiteInvariant, PTL
=============================================================================
