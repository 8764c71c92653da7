------------------------------ MODULE CycleBudget ------------------------------
(***************************************************************************)
(* The admission arithmetic of a projection cycle (projectionCycleBudgetMs *)
(* in jobs/projection/index.ts, cycle_budget in assets/worker.py) against  *)
(* the elapsed time of the cycle the host runs: worker.py wraps every call *)
(* in a timer of calls[category] milliseconds (ProjectionWorker.call), so  *)
(* a call takes at most that long or ends the process with status 71.      *)
(* What runs between the calls is covered by overheadMs, which the         *)
(* deployment has to choose large enough: OwnTime models that obligation.  *)
(***************************************************************************)
EXTENDS Integers

CONSTANTS
  Claim, Load, Project, Target, Acknowledge, Complete, Release, Lag, Evidence,
  OverheadMs, Batch, DrainMs, LeaseMs, LeaseMarginMs, TerminationGraceMs,
  GraceReserve   \* 1000 ms in the code: hard termination and reaping

PerEvent == Load + Project + Target + Acknowledge + Complete + Release + 2 * Evidence

\* The conservative cycle; both implementations compute this sum.
CycleMs == Claim + Batch * PerEvent + Lag + Evidence + OverheadMs

\* The conditions of acceptance, the serialized cycleBudgetMs taken as equal.
Admissible ==
  /\ \A n \in {Claim, Load, Project, Target, Acknowledge, Complete, Release, Lag,
               Evidence, OverheadMs, Batch, DrainMs, LeaseMs, LeaseMarginMs,
               TerminationGraceMs, GraceReserve} : n \in Nat \ {0}
  /\ CycleMs <= DrainMs
  /\ CycleMs + LeaseMarginMs <= LeaseMs
  /\ TerminationGraceMs >= DrainMs + GraceReserve

ASSUME BudgetAssumption == Admissible

VARIABLES
  pc,        \* the next call of the cycle
  left,      \* events of the admitted batch not settled yet
  elapsed,   \* time since the cycle began
  age,       \* time since the database stamped the leases of the batch, 0 before that
  own        \* time spent outside the bounded calls

cycleVars == <<pc, left, elapsed, age, own>>

Stages == {"lag", "lagEvidence", "claim", "load", "project", "target",
           "acknowledge", "complete", "evidence", "release", "lastEvidence", "settled"}
Leased == {"load", "project", "target", "acknowledge", "complete", "evidence",
           "release", "lastEvidence"}

CycleInit == pc = "lag" /\ left = 0 /\ elapsed = 0 /\ age = 0 /\ own = 0

Pass(d) == /\ elapsed' = elapsed + d
           /\ age' = IF pc \in Leased THEN age + d ELSE age

\* A timer that fires one unit late.
LateCall(stage, limit, next) ==
  /\ pc = stage
  /\ \E d \in 0..(limit + 1) : Pass(d)
  /\ pc' = next
  /\ UNCHANGED <<left, own>>

(* A call of the host, answered within its limit.                          *)
Call(stage, limit, next) ==
  /\ pc = stage
  /\ \E d \in 0..limit : Pass(d)
  /\ pc' = next
  /\ UNCHANGED <<left, own>>

(* The claim admits up to Batch events; an empty claim ends the cycle.     *)
(* The database stamps the leases at some moment of the call: at the       *)
(* answer they may be as old as the whole call.                            *)
ClaimCall ==
  /\ pc = "claim"
  /\ \E d \in 0..Claim : elapsed' = elapsed + d /\ age' \in 0..d
  /\ \E n \in 0..Batch : /\ left' = n
                         /\ pc' = IF n = 0 THEN "settled" ELSE "load"
  /\ UNCHANGED own

(* The last call on an event, and the step to the next one.                *)
LastCall(stage, limit) ==
  /\ pc = stage
  /\ \E d \in 0..limit : Pass(d)
  /\ left' = left - 1
  /\ pc' = IF left = 1 THEN "settled" ELSE "load"
  /\ UNCHANGED own

(* Host scheduling between calls, within the overhead chosen for it.       *)
OwnTime ==
  /\ pc # "settled"
  /\ own < OverheadMs
  /\ own' = own + 1
  /\ Pass(1)
  /\ UNCHANGED <<pc, left>>

Calls == \/ Call("lag", Lag, "lagEvidence")
         \/ Call("lagEvidence", Evidence, "claim")
         \/ ClaimCall
         \/ Call("load", Load, "project")
         \/ Call("project", Project, "target")
         \/ Call("target", Target, "acknowledge")
         \/ Call("acknowledge", Acknowledge, "complete")
         \/ Call("complete", Complete, "evidence")

(* Any of the calls on an event may fail, and so may the evidence of a     *)
(* completion; the host then releases the intent and records that.         *)
Failures == \/ Call("load", Load, "release")
            \/ Call("project", Project, "release")
            \/ Call("target", Target, "release")
            \/ Call("acknowledge", Acknowledge, "release")
            \/ Call("complete", Complete, "release")
            \/ Call("evidence", Evidence, "release")
            \/ Call("release", Release, "lastEvidence")

Settle == LastCall("evidence", Evidence) \/ LastCall("lastEvidence", Evidence)

CycleNext == Calls \/ Failures \/ Settle \/ OwnTime

CycleSpec == CycleInit /\ [][CycleNext]_cycleVars

-----------------------------------------------------------------------------
CycleTypeOK ==
  /\ pc \in Stages
  /\ left \in 0..Batch
  /\ elapsed \in Nat /\ age \in Nat /\ own \in 0..OverheadMs

(* The whole cycle, failures included, ends within the computed budget, so *)
(* a stop at its start still drains before the supervisor's deadline.      *)
DrainsInTime == elapsed <= DrainMs

(* The lease taken by the claim, as old as its stamp in the database,      *)
(* outlasts every use of it by the margin.  (worker.py 66-103 and 337.)    *)
LeaseOutlastsCycle == age + LeaseMarginMs <= LeaseMs

-----------------------------------------------------------------------------
(* The time still reserved for the rest of the cycle at each stage.        *)
Tail(stage) ==
  CASE stage = "load" -> PerEvent
    [] stage = "project" -> PerEvent - Load
    [] stage = "target" -> PerEvent - Load - Project
    [] stage = "acknowledge" -> PerEvent - Load - Project - Target
    [] stage = "complete" -> Complete + Release + 2 * Evidence
    [] stage = "evidence" -> Release + 2 * Evidence
    [] stage = "release" -> Release + Evidence
    [] stage = "lastEvidence" -> Evidence
    [] OTHER -> 0

Reserved ==
  CASE pc = "lag" -> Lag + Evidence + Claim + Batch * PerEvent
    [] pc = "lagEvidence" -> Evidence + Claim + Batch * PerEvent
    [] pc = "claim" -> Claim + Batch * PerEvent
    [] pc = "settled" -> 0
    [] OTHER -> (left - 1) * PerEvent + Tail(pc)

(* Inductive strengthening: elapsed time, the reserve of the remaining     *)
(* calls and the unused overhead never exceed the budget together.         *)
BudgetInv ==
  /\ CycleTypeOK
  /\ pc \in Leased => left >= 1
  /\ age <= elapsed
  /\ elapsed + Reserved + (OverheadMs - own) <= CycleMs
=============================================================================
