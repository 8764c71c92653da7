------------------------- MODULE VersionedProjection -------------------------
(***************************************************************************)
(* What a durable projection promises to the owner of the source and to    *)
(* the readers of the target, with no host, lease, batch or failure in     *)
(* sight: every committed mutation is an intent that stays open until it   *)
(* is completed or quarantined; a target row is written once per source    *)
(* version and never changes; only an intent whose row is stored completes *)
(* and moves the checkpoint.                                               *)
(***************************************************************************)
EXTENDS Integers

CONSTANTS Keys, MaxVersion

Versions == 1..MaxVersion
Ids == Keys \X Versions

VARIABLES
  kind,        \* kind[e]: mutation kind, "none" before the commit
  verdict,     \* verdict[e]: "none", "open", "completed" or "quarantined"
  rows,        \* rows[e]: stored content, "none" before it is written
  checkpoint   \* checkpoint[k]: last acknowledged source version

vars == <<kind, verdict, rows, checkpoint>>

Content(m) == IF m = "delete" THEN "tombstone" ELSE "live"

Init ==
  /\ kind = [e \in Ids |-> "none"]
  /\ verdict = [e \in Ids |-> "none"]
  /\ rows = [e \in Ids |-> "none"]
  /\ checkpoint = [k \in Keys |-> 0]

Commit(e, m) ==
  /\ verdict[e] = "none"
  /\ \A v \in 1..(e[2] - 1) : verdict[<<e[1], v>>] # "none"
  /\ kind' = [kind EXCEPT ![e] = m]
  /\ verdict' = [verdict EXCEPT ![e] = "open"]
  /\ UNCHANGED <<rows, checkpoint>>

Apply(e) ==
  /\ verdict[e] # "none" /\ rows[e] = "none"
  /\ rows' = [rows EXCEPT ![e] = Content(kind[e])]
  /\ UNCHANGED <<kind, verdict, checkpoint>>

Complete(e) ==
  /\ verdict[e] = "open" /\ rows[e] = Content(kind[e])
  /\ verdict' = [verdict EXCEPT ![e] = "completed"]
  /\ \E v \in Versions : /\ v \in {e[2], checkpoint[e[1]]} /\ v >= e[2]
                         /\ checkpoint' = [checkpoint EXCEPT ![e[1]] = v]
  /\ UNCHANGED <<kind, rows>>

Quarantine(e) ==
  /\ verdict[e] = "open"
  /\ verdict' = [verdict EXCEPT ![e] = "quarantined"]
  /\ UNCHANGED <<kind, rows, checkpoint>>

Next == \E e \in Ids :
          \/ \E m \in {"put", "delete"} : Commit(e, m)
          \/ Apply(e) \/ Complete(e) \/ Quarantine(e)

Spec == Init /\ [][Next]_vars
=============================================================================
