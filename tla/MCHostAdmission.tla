---------------------------- MODULE MCHostAdmission ----------------------------
(***************************************************************************)
(* What is decided before a host claims anything, for one run of TLC: the  *)
(* two gates of a job, and a cycle under the budgets they admit.  "part"   *)
(* says which; the variables of the other keep one value.                  *)
(***************************************************************************)
EXTENDS MCProjectionJob, CycleBudget

VARIABLE part   \* "gates" or "cycle"

admissionVars == <<part, vars, cycleVars>>

AdmissionInit == part \in {"gates", "cycle"} /\ Init /\ CycleInit
AdmissionNext ==
  \/ part = "gates" /\ Next /\ UNCHANGED <<part, cycleVars>>
  \/ part = "cycle" /\ CycleNext /\ UNCHANGED <<part, vars>>
AdmissionSpec == AdmissionInit /\ [][AdmissionNext]_admissionVars
=============================================================================
