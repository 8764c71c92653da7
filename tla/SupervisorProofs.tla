--------------------------- MODULE SupervisorProofs ---------------------------
(* The safety of the supervisor for every drain limit and time limit.      *)
EXTENDS Supervisor, TLAPS

\* The parts of the invariant by name, for the steps of the proof.
Positions ==
  /\ pc \in {"spawning", "forked"} => sinceStop <= sinceStart /\ sinceStart <= SpawnLimit
  /\ pc = "loop" /\ ~slept => sinceStop < DrainLimit
  /\ pc \in {"kill", "reap"} => sinceStop >= DrainLimit
  /\ pc # "exited" => (child = "none" <=> pc = "spawning")
  /\ pc \in {"report", "reap"} => child = "exited"
  /\ child = "exited" <=> code # NoCode
  /\ killed => pc \in {"reap", "exited"}
  /\ exit # NoCode => pc = "exited"

Numbers ==
  /\ pc \in Stages /\ child \in ChildStates
  /\ sinceStart \in 0..(TimeLimit + 1) /\ sinceStop \in NotStopped..(DrainLimit + 2)
  /\ code \in Codes \cup {NoCode} /\ terms \in 0..(HandlerLimit + 1) /\ open \in 0..HandlerLimit
  /\ exit \in {0, 1, 70, 71, 128 + SIGTERM, 128 + SIGKILL, NoCode}

Flags == /\ slept \in BOOLEAN /\ telling \in BOOLEAN /\ pending \in BOOLEAN /\ handled \in BOOLEAN
         /\ killed \in BOOLEAN /\ graceful \in BOOLEAN

Sent == /\ ~Stopped \/ ~ChildKnown => terms = 0 /\ ~telling
        /\ ~Returned => terms + open + (IF telling THEN 1 ELSE 0) <= HandlerLimit
        /\ pc = "unchecked" => terms <= HandlerLimit
        /\ pc \in {"kill", "reap", "exited"} => Returned

LEMMA Parts ==
  SupervisorInv <=> /\ Numbers /\ Flags /\ StopReachesChild /\ KilledOnlyAfterDrain
                    /\ ExitsWithinGrace /\ ZeroMeansSuccess /\ Positions /\ Sent
  BY Zenon DEF SupervisorInv, TypeOK, Numbers, Flags, Positions, Sent

LEMMA Limits == /\ DrainLimit \in Nat /\ DrainLimit > 0 /\ TimeLimit \in Nat
                /\ SpawnLimit \in Nat /\ SpawnLimit <= DrainLimit /\ SpawnLimit <= TimeLimit
                /\ HandlerLimit \in Nat /\ HandlerLimit > 0
  BY LimitAssumption

-----------------------------------------------------------------------------
(* The flags are only ever set to truth values.                            *)
LEMMA FlagsStep ==
  ASSUME Flags, [Next]_vars
  PROVE  Flags'
<1> USE DEF Flags
<1>a. Alive \in BOOLEAN
  BY DEF Alive
<1>p. ASSUME Forward PROVE pending' \in BOOLEAN /\ handled' = handled
  BY <1>p, <1>a, Zenon DEF Forward
<1>1. CASE Fork \/ ForkFails \/ Assign \/ Poll \/ CheckTimeLimit
  BY <1>1, Zenon DEF Fork, ForkFails, Assign, Poll, CheckTimeLimit, childVars, handlerVars
<1>2. CASE CheckStopped
  BY <1>2, <1>p, Zenon DEF CheckStopped, childVars, handlerVars
<1>3. CASE CheckDrain
  BY <1>3, Zenon DEF CheckDrain, DrainOver, childVars, handlerVars
<1>4. CASE Kill
  <2>1. handled' = handled /\ pending' \in BOOLEAN
    BY <1>4, Zenon DEF Kill, ChildExit, childVars
  <2>2. killed' \in BOOLEAN
    BY <1>4, <1>a, Zenon DEF Kill
  <2> QED
    BY <1>4, <2>1, <2>2, Zenon DEF Kill, handlerVars
<1>5. CASE ReportFailedDrain
  BY <1>5, Zenon DEF ReportFailedDrain, childVars, handlerVars
<1>6. CASE ReportHostExit
  BY <1>6, Zenon DEF ReportHostExit, childVars, handlerVars
<1>7. CASE SignalStop
  BY <1>7, Zenon DEF SignalStop, supervisorVars, childVars
<1>8. CASE Stamp
  <2>1. telling' \in BOOLEAN
    <3>1. telling' = (ChildKnown /\ Alive)
      BY <1>8 DEF Stamp
    <3> QED BY <3>1, <1>a, Zenon
  <2> QED BY <1>8, <2>1, Zenon DEF Stamp, supervisorVars, childVars
<1>9. CASE Tell
  BY <1>9, <1>p, Zenon DEF Tell, supervisorVars
<1>10. CASE Tick
  BY <1>10, Zenon DEF Tick, childVars, handlerVars
<1>11. CASE ChildBoots \/ ChildRunReturns
  BY <1>11, Zenon DEF ChildBoots, ChildRunReturns, ChildStep, supervisorVars, handlerVars
<1>12. CASE ChildEnds
  BY <1>12, Zenon DEF ChildEnds, ChildExit, supervisorVars, handlerVars
<1>13. CASE TermArrives
  BY <1>13, Zenon DEF TermArrives, ChildExit, supervisorVars, handlerVars
<1>14. CASE UNCHANGED vars
  BY <1>14, Zenon DEF vars, supervisorVars, childVars, handlerVars
<1> QED
  BY <1>1, <1>2, <1>3, <1>4, <1>5, <1>6, <1>7, <1>8, <1>9, <1>10, <1>11, <1>12, <1>13, <1>14
  DEF Next, SupervisorStep

LEMMA SupervisorInit == Init => SupervisorInv
<1> SUFFICES ASSUME Init PROVE SupervisorInv
  OBVIOUS
<1> USE Limits DEF Init, Stages, ChildStates, Codes, NoCode, NotStopped, SIGTERM, SIGKILL,
                   Stopped, ChildKnown, Alive, Returned
<1>1. Numbers
  BY DEF Numbers
<1>f. Flags
  BY Zenon DEF Flags
<1>2. StopReachesChild /\ KilledOnlyAfterDrain /\ ExitsWithinGrace /\ ZeroMeansSuccess
  BY DEF StopReachesChild, KilledOnlyAfterDrain, ExitsWithinGrace, ZeroMeansSuccess
<1>3. Positions /\ Sent
  BY DEF Positions, Sent
<1> QED
  BY <1>1, <1>f, <1>2, <1>3, Parts

(* Every step preserves the invariant.                                     *)
LEMMA SupervisorNext == SupervisorInv /\ [Next]_vars => SupervisorInv'
<1> SUFFICES ASSUME SupervisorInv, [Next]_vars PROVE SupervisorInv'
  OBVIOUS
<1>i. /\ Numbers /\ Flags /\ StopReachesChild /\ KilledOnlyAfterDrain
      /\ ExitsWithinGrace /\ ZeroMeansSuccess /\ Positions /\ Sent
  BY Parts
<1>s. SUFFICES /\ Numbers' /\ Positions' /\ Sent' /\ StopReachesChild'
               /\ KilledOnlyAfterDrain' /\ ExitsWithinGrace' /\ ZeroMeansSuccess'
  <2>1. Flags'
    BY <1>i, FlagsStep
  <2> QED
    BY <2>1, Zenon DEF SupervisorInv, TypeOK, Numbers, Flags, Positions, Sent
<1> USE <1>i, Limits
    DEF Stages, ChildStates, Codes, NoCode, NotStopped, SIGTERM, SIGKILL, Stopped, ChildKnown, Alive, Returned
<1>1. CASE Fork
  <2> USE <1>1 DEF Fork, clockVars, handlerVars
  <2>1. Numbers'
    BY DEF Numbers, Positions, Sent
  <2>2. Positions'
    BY DEF Numbers, Positions, Sent
  <2>3. Sent' /\ StopReachesChild'
    BY DEF Numbers, Positions, Sent, StopReachesChild
  <2>4. KilledOnlyAfterDrain' /\ ExitsWithinGrace' /\ ZeroMeansSuccess'
    BY DEF Numbers, Positions, Sent, KilledOnlyAfterDrain, ExitsWithinGrace, ZeroMeansSuccess
  <2> QED
    BY <2>1, <2>2, <2>3, <2>4
<1>2. CASE ForkFails
  <2> USE <1>2 DEF ForkFails, clockVars, childVars, handlerVars
  <2>1. Numbers'
    BY DEF Numbers, Positions, Sent
  <2>2. Positions'
    BY DEF Numbers, Positions, Sent
  <2>3. Sent' /\ StopReachesChild'
    BY DEF Numbers, Positions, Sent, StopReachesChild
  <2>4. KilledOnlyAfterDrain' /\ ExitsWithinGrace' /\ ZeroMeansSuccess'
    BY DEF Numbers, Positions, Sent, KilledOnlyAfterDrain, ExitsWithinGrace, ZeroMeansSuccess
  <2> QED
    BY <2>1, <2>2, <2>3, <2>4
<1>3. CASE Assign
  <2> USE <1>3 DEF Assign, clockVars, childVars, handlerVars
  <2>1. Numbers'
    BY DEF Numbers, Positions, Sent
  <2>2. Positions'
    BY DEF Numbers, Positions, Sent
  <2>3. Sent' /\ StopReachesChild'
    BY DEF Numbers, Positions, Sent, StopReachesChild
  <2>4. KilledOnlyAfterDrain' /\ ExitsWithinGrace' /\ ZeroMeansSuccess'
    BY DEF Numbers, Positions, Sent, KilledOnlyAfterDrain, ExitsWithinGrace, ZeroMeansSuccess
  <2> QED
    BY <2>1, <2>2, <2>3, <2>4
<1>4. CASE CheckStopped /\ Stopped
  <2> USE <1>4 DEF CheckStopped, Forward, clockVars, handlerVars
  <2>1. Numbers'
    BY DEF Numbers, Positions, Sent
  <2>2. Positions'
    BY DEF Numbers, Positions, Sent
  <2>3. Sent' /\ StopReachesChild'
    BY DEF Numbers, Positions, Sent, StopReachesChild
  <2>4. KilledOnlyAfterDrain' /\ ExitsWithinGrace' /\ ZeroMeansSuccess'
    BY DEF Numbers, Positions, Sent, KilledOnlyAfterDrain, ExitsWithinGrace, ZeroMeansSuccess
  <2> QED
    BY <2>1, <2>2, <2>3, <2>4
<1>5. CASE CheckStopped /\ ~Stopped
  <2> USE <1>5 DEF CheckStopped, clockVars, childVars, handlerVars
  <2>1. Numbers'
    BY DEF Numbers, Positions, Sent
  <2>2. Positions'
    BY DEF Numbers, Positions, Sent
  <2>3. Sent' /\ StopReachesChild'
    BY DEF Numbers, Positions, Sent, StopReachesChild
  <2>4. KilledOnlyAfterDrain' /\ ExitsWithinGrace' /\ ZeroMeansSuccess'
    BY DEF Numbers, Positions, Sent, KilledOnlyAfterDrain, ExitsWithinGrace, ZeroMeansSuccess
  <2> QED
    BY <2>1, <2>2, <2>3, <2>4
<1>6. CASE Poll
  <2> USE <1>6 DEF Poll, clockVars, childVars, handlerVars
  <2>1. Numbers'
    BY DEF Numbers, Positions, Sent
  <2>2. Positions'
    BY DEF Numbers, Positions, Sent
  <2>3. Sent' /\ StopReachesChild'
    BY DEF Numbers, Positions, Sent, StopReachesChild
  <2>4. KilledOnlyAfterDrain' /\ ExitsWithinGrace' /\ ZeroMeansSuccess'
    BY DEF Numbers, Positions, Sent, KilledOnlyAfterDrain, ExitsWithinGrace, ZeroMeansSuccess
  <2> QED
    BY <2>1, <2>2, <2>3, <2>4
<1>7. CASE CheckTimeLimit
  <2> USE <1>7 DEF CheckTimeLimit, clockVars, childVars
  <2>1. Numbers'
    BY DEF Numbers, Positions, Sent
  <2>2. Positions'
    BY DEF Numbers, Positions, Sent
  <2>3. Sent' /\ StopReachesChild'
    BY DEF Numbers, Positions, Sent, StopReachesChild
  <2>4. KilledOnlyAfterDrain' /\ ExitsWithinGrace' /\ ZeroMeansSuccess'
    BY DEF Numbers, Positions, Sent, KilledOnlyAfterDrain, ExitsWithinGrace, ZeroMeansSuccess
  <2> QED
    BY <2>1, <2>2, <2>3, <2>4
<1>8. CASE CheckDrain
  <2> USE <1>8 DEF CheckDrain, DrainOver, clockVars, childVars, handlerVars
  <2>1. Numbers'
    BY DEF Numbers, Positions, Sent
  <2>2. Positions'
    BY DEF Numbers, Positions, Sent
  <2>3. Sent' /\ StopReachesChild'
    BY DEF Numbers, Positions, Sent, StopReachesChild
  <2>4. KilledOnlyAfterDrain' /\ ExitsWithinGrace' /\ ZeroMeansSuccess'
    BY DEF Numbers, Positions, Sent, KilledOnlyAfterDrain, ExitsWithinGrace, ZeroMeansSuccess
  <2> QED
    BY <2>1, <2>2, <2>3, <2>4
<1>9. CASE Kill /\ Alive
  <2> USE <1>9 DEF Kill, ChildExit, clockVars, handlerVars
  <2>1. Numbers'
    BY DEF Numbers, Positions, Sent
  <2>2. Positions'
    BY DEF Numbers, Positions, Sent
  <2>3. Sent' /\ StopReachesChild'
    BY DEF Numbers, Positions, Sent, StopReachesChild
  <2>4. KilledOnlyAfterDrain' /\ ExitsWithinGrace' /\ ZeroMeansSuccess'
    BY DEF Numbers, Positions, Sent, KilledOnlyAfterDrain, ExitsWithinGrace, ZeroMeansSuccess
  <2> QED
    BY <2>1, <2>2, <2>3, <2>4
<1>10. CASE Kill /\ ~Alive
  <2> USE <1>10 DEF Kill, childVars, clockVars, handlerVars
  <2>1. Numbers'
    BY DEF Numbers, Positions, Sent
  <2>2. Positions'
    BY DEF Numbers, Positions, Sent
  <2>3. Sent' /\ StopReachesChild'
    BY DEF Numbers, Positions, Sent, StopReachesChild
  <2>4. KilledOnlyAfterDrain' /\ ExitsWithinGrace' /\ ZeroMeansSuccess'
    BY DEF Numbers, Positions, Sent, KilledOnlyAfterDrain, ExitsWithinGrace, ZeroMeansSuccess
  <2> QED
    BY <2>1, <2>2, <2>3, <2>4
<1>11. CASE ReportFailedDrain
  <2> USE <1>11 DEF ReportFailedDrain, clockVars, childVars, handlerVars
  <2>1. Numbers'
    BY DEF Numbers, Positions, Sent
  <2>2. Positions'
    BY DEF Numbers, Positions, Sent
  <2>3. Sent' /\ StopReachesChild'
    BY DEF Numbers, Positions, Sent, StopReachesChild
  <2>4. KilledOnlyAfterDrain' /\ ExitsWithinGrace' /\ ZeroMeansSuccess'
    BY DEF Numbers, Positions, Sent, KilledOnlyAfterDrain, ExitsWithinGrace, ZeroMeansSuccess
  <2> QED
    BY <2>1, <2>2, <2>3, <2>4
<1>12. CASE ReportHostExit
  <2> USE <1>12 DEF ReportHostExit, clockVars, childVars, handlerVars
  <2>1. Numbers'
    BY DEF Numbers, Positions, Sent
  <2>2. Positions'
    BY DEF Numbers, Positions, Sent
  <2>3. Sent' /\ StopReachesChild'
    BY DEF Numbers, Positions, Sent, StopReachesChild
  <2>4. KilledOnlyAfterDrain' /\ ExitsWithinGrace' /\ ZeroMeansSuccess'
    BY DEF Numbers, Positions, Sent, KilledOnlyAfterDrain, ExitsWithinGrace, ZeroMeansSuccess
  <2> QED
    BY <2>1, <2>2, <2>3, <2>4
<1>13. CASE SignalStop
  <2> USE <1>13 DEF SignalStop, supervisorVars, clockVars, childVars
  <2>1. Numbers'
    BY DEF Numbers, Positions, Sent
  <2>2. Positions'
    BY DEF Numbers, Positions, Sent
  <2>3. Sent' /\ StopReachesChild'
    BY DEF Numbers, Positions, Sent, StopReachesChild
  <2>4. KilledOnlyAfterDrain' /\ ExitsWithinGrace' /\ ZeroMeansSuccess'
    BY DEF Numbers, Positions, Sent, KilledOnlyAfterDrain, ExitsWithinGrace, ZeroMeansSuccess
  <2> QED
    BY <2>1, <2>2, <2>3, <2>4
<1>14. CASE Stamp
  <2> USE <1>14 DEF Stamp, supervisorVars, childVars
  <2>1. Numbers'
    BY DEF Numbers, Positions, Sent
  <2>2. Positions'
    BY DEF Numbers, Positions, Sent
  <2>3. Sent' /\ StopReachesChild'
    <3>1. telling' <=> ChildKnown /\ Alive
      BY Zenon
    <3>2. Sent'
      BY <3>1 DEF Numbers, Positions, Sent
    <3>3. StopReachesChild'
      BY <3>1 DEF Positions, StopReachesChild
    <3> QED BY <3>2, <3>3
  <2>4. KilledOnlyAfterDrain' /\ ExitsWithinGrace' /\ ZeroMeansSuccess'
    BY DEF Numbers, Positions, Sent, KilledOnlyAfterDrain, ExitsWithinGrace, ZeroMeansSuccess
  <2> QED
    BY <2>1, <2>2, <2>3, <2>4
<1>15. CASE Tell
  <2> USE <1>15 DEF Tell, Forward, supervisorVars, clockVars
  <2>1. Numbers'
    BY DEF Numbers, Positions, Sent
  <2>2. Positions'
    BY DEF Numbers, Positions, Sent
  <2>3. Sent' /\ StopReachesChild'
    BY DEF Numbers, Positions, Sent, StopReachesChild
  <2>4. KilledOnlyAfterDrain' /\ ExitsWithinGrace' /\ ZeroMeansSuccess'
    BY DEF Numbers, Positions, Sent, KilledOnlyAfterDrain, ExitsWithinGrace, ZeroMeansSuccess
  <2> QED
    BY <2>1, <2>2, <2>3, <2>4
<1>16. CASE Tick
  <2> USE <1>16 DEF Tick, childVars, handlerVars
  <2>1. Numbers'
    BY DEF Numbers, Positions, Sent
  <2>2. Positions'
    BY DEF Numbers, Positions, Sent
  <2>3. Sent' /\ StopReachesChild'
    BY DEF Numbers, Positions, Sent, StopReachesChild
  <2>4. KilledOnlyAfterDrain' /\ ExitsWithinGrace' /\ ZeroMeansSuccess'
    BY DEF Numbers, Positions, Sent, KilledOnlyAfterDrain, ExitsWithinGrace, ZeroMeansSuccess
  <2> QED
    BY <2>1, <2>2, <2>3, <2>4
<1>17. CASE ChildBoots \/ ChildRunReturns
  <2> USE <1>17 DEF ChildBoots, ChildRunReturns, ChildStep, supervisorVars, clockVars, handlerVars
  <2>1. Numbers'
    BY DEF Numbers, Positions, Sent
  <2>2. Positions'
    BY DEF Numbers, Positions, Sent
  <2>3. Sent' /\ StopReachesChild'
    BY DEF Numbers, Positions, Sent, StopReachesChild
  <2>4. KilledOnlyAfterDrain' /\ ExitsWithinGrace' /\ ZeroMeansSuccess'
    BY DEF Numbers, Positions, Sent, KilledOnlyAfterDrain, ExitsWithinGrace, ZeroMeansSuccess
  <2> QED
    BY <2>1, <2>2, <2>3, <2>4
<1>18. CASE TermArrives
  <2> USE <1>18 DEF TermArrives, ChildExit, supervisorVars, clockVars, handlerVars
  <2>1. Numbers'
    BY DEF Numbers, Positions, Sent
  <2>2. Positions'
    BY DEF Numbers, Positions, Sent
  <2>3. Sent' /\ StopReachesChild'
    BY DEF Numbers, Positions, Sent, StopReachesChild
  <2>4. KilledOnlyAfterDrain' /\ ExitsWithinGrace' /\ ZeroMeansSuccess'
    BY DEF Numbers, Positions, Sent, KilledOnlyAfterDrain, ExitsWithinGrace, ZeroMeansSuccess
  <2> QED
    BY <2>1, <2>2, <2>3, <2>4
<1>19. CASE ChildEnds
  <2> USE <1>19 DEF ChildEnds, ChildExit, supervisorVars, clockVars, handlerVars
  <2>1. Numbers'
    BY DEF Numbers, Positions, Sent
  <2>2. Positions'
    BY DEF Numbers, Positions, Sent
  <2>3. Sent' /\ StopReachesChild'
    BY DEF Numbers, Positions, Sent, StopReachesChild
  <2>4. KilledOnlyAfterDrain' /\ ExitsWithinGrace' /\ ZeroMeansSuccess'
    BY DEF Numbers, Positions, Sent, KilledOnlyAfterDrain, ExitsWithinGrace, ZeroMeansSuccess
  <2> QED
    BY <2>1, <2>2, <2>3, <2>4
<1>20. CASE UNCHANGED vars
  <2> USE <1>20 DEF vars, supervisorVars, clockVars, childVars, handlerVars
  <2>1. Numbers'
    BY DEF Numbers, Positions, Sent
  <2>2. Positions'
    BY DEF Numbers, Positions, Sent
  <2>3. Sent' /\ StopReachesChild'
    BY DEF Numbers, Positions, Sent, StopReachesChild
  <2>4. KilledOnlyAfterDrain' /\ ExitsWithinGrace' /\ ZeroMeansSuccess'
    BY DEF Numbers, Positions, Sent, KilledOnlyAfterDrain, ExitsWithinGrace, ZeroMeansSuccess
  <2> QED
    BY <2>1, <2>2, <2>3, <2>4
<1> QED
  BY <1>1, <1>2, <1>3, <1>4, <1>5, <1>6, <1>7, <1>8, <1>9, <1>10,
     <1>11, <1>12, <1>13, <1>14, <1>15, <1>16, <1>17, <1>18, <1>19, <1>20
  DEF Next, SupervisorStep, Numbers

(* The inductive invariant of the supervisor.                              *)
THEOREM SupervisorInvariant == Spec => []SupervisorInv
  BY SupervisorInit, SupervisorNext, PTL DEF Spec

(* No stop is lost between Popen and the poll loop, wherever the signal    *)
(* arrives.  (supervisor.py 27-45.)                                        *)
THEOREM StopsReachTheChild == Spec => []StopReachesChild
<1>1. SupervisorInv => StopReachesChild
  BY Parts
<1> QED BY <1>1, SupervisorInvariant, PTL

(* A child is killed only when its drain allowance is used up.             *)
(* (supervisor.py 47-55.)                                                  *)
THEOREM KillsAreDue == Spec => []KilledOnlyAfterDrain
<1>1. SupervisorInv => KilledOnlyAfterDrain
  BY Parts
<1> QED BY <1>1, SupervisorInvariant, PTL

(* The supervisor never outstays the drain limit.  (supervisor.py 46-67.)  *)
THEOREM GraceIsKept == Spec => []ExitsWithinGrace
<1>1. SupervisorInv => ExitsWithinGrace
  BY Parts
<1> QED BY <1>1, SupervisorInvariant, PTL

(* Only a child that ended with 0 reads as success.  (supervisor.py 66-81.) *)
THEOREM ZeroIsSuccess == Spec => []ZeroMeansSuccess
<1>1. SupervisorInv => ZeroMeansSuccess
  BY Parts
<1> QED BY <1>1, SupervisorInvariant, PTL

-----------------------------------------------------------------------------
(* The time limit and the handler of the child.                            *)
\* A run that nobody stopped is within its time limit; once the limit has been looked at, some of it
\* is left or the handler is open.
WithinLimit ==
  /\ ~Stopped => sinceStart <= TimeLimit
  /\ ~Stopped /\ (pc = "drain" \/ (pc = "loop" /\ ~slept)) => sinceStart < TimeLimit \/ open > 0

\* A forwarded SIGTERM is on its way to a living child or has run its stop handler; "graceful" is
\* said of a stopped run whose child ended by itself with code 0.
Handled == /\ terms > 0 /\ Alive => pending \/ handled
           /\ graceful => Stopped /\ code = 0 /\ ~killed /\ pc = "exited"

(* Time passes only while no handler is open and before the time limit is  *)
(* looked at, so the handler cannot let a run slip past it.                *)
LEMMA WithinLimitStep ==
  ASSUME SupervisorInv, WithinLimit, [Next]_vars
  PROVE  WithinLimit'
<1>1. Numbers /\ Positions /\ Sent
  BY Parts
<1> USE Limits DEF WithinLimit, Numbers, Stopped, NotStopped, Returned
<1>3. CASE Fork \/ ForkFails \/ Assign \/ CheckStopped \/ Poll \/ Kill \/ ReportFailedDrain \/ ReportHostExit
  <2>1. UNCHANGED <<clockVars, open>>
    BY <1>3 DEF Fork, ForkFails, Assign, CheckStopped, Poll, Kill, ReportFailedDrain, ReportHostExit, handlerVars
  <2>2. (pc' # "loop" \/ slept') /\ pc' # "drain"
    BY <1>3 DEF Fork, ForkFails, Assign, CheckStopped, Poll, Kill, ReportFailedDrain, ReportHostExit
  <2> QED BY <2>1, <2>2 DEF clockVars
<1>4. CASE CheckTimeLimit
  BY <1>1, <1>4 DEF CheckTimeLimit, clockVars
<1>8. CASE CheckDrain
  BY <1>1, <1>8 DEF CheckDrain, DrainOver, clockVars, handlerVars
<1>5. CASE SignalStop \/ Tell
  <2>1. UNCHANGED <<pc, slept, clockVars>> /\ (open' = open \/ open' = open + 1)
    BY <1>5 DEF SignalStop, Tell, supervisorVars
  <2> QED BY <1>1, <2>1 DEF clockVars
<1>9. CASE Stamp
  BY <1>1, <1>9 DEF Stamp
<1>6. CASE Tick
  <2>1. slept' /\ (Stopped => sinceStop' # NotStopped) /\ (~Stopped => sinceStart < TimeLimit \/ sinceStart < SpawnLimit)
    BY <1>1, <1>6 DEF Tick
  <2>2. sinceStart' = IF sinceStart > TimeLimit THEN sinceStart ELSE sinceStart + 1
    BY <1>6 DEF Tick
  <2>3. ~Stopped => sinceStart' <= TimeLimit
    BY <1>1, <2>1, <2>2
  <2>4. pc' # "drain"
    BY <1>6 DEF Tick
  <2> QED BY <2>1, <2>3, <2>4
<1>7. CASE ChildBoots \/ ChildRunReturns \/ TermArrives \/ ChildEnds \/ UNCHANGED vars
  <2>1. UNCHANGED <<supervisorVars, handlerVars, clockVars>>
    BY <1>7 DEF ChildBoots, ChildRunReturns, TermArrives, ChildEnds, ChildStep, vars
  <2> QED BY <2>1 DEF supervisorVars, clockVars, handlerVars
<1> QED BY <1>3, <1>4, <1>5, <1>6, <1>7, <1>8, <1>9 DEF Next, SupervisorStep

(* Only the arrival of the signal takes it away, and it runs the handler   *)
(* or ends the child.                                                      *)
LEMMA HandledStep ==
  ASSUME SupervisorInv, Handled, [Next]_vars
  PROVE  Handled'
<1>1. Numbers /\ Positions /\ Sent /\ (child = "exited" <=> code # NoCode)
  BY Parts DEF Positions
<1> DEFINE Told == terms > 0 /\ Alive => pending \/ handled
           Said == graceful => Stopped /\ code = 0 /\ ~killed /\ pc = "exited"
<1>2. CASE Fork \/ ForkFails \/ Assign \/ Poll \/ ReportFailedDrain \/ ReportHostExit \/ Kill
  <2>1. Told'
    <3>1. CASE Fork
      <4>1. ~ChildKnown /\ UNCHANGED terms
        BY <3>1 DEF Fork, ChildKnown
      <4> QED BY <1>1, <4>1 DEF Sent
    <3>2. CASE Kill
      BY <3>2 DEF Kill, ChildExit, Alive, childVars, Handled
    <3>3. CASE ForkFails \/ Assign \/ Poll \/ ReportFailedDrain \/ ReportHostExit
      BY <3>3 DEF ForkFails, Assign, Poll, ReportFailedDrain, ReportHostExit, Alive, childVars, Handled
    <3> QED BY <1>2, <3>1, <3>2, <3>3
  <2>2. Said'
    <3>1. CASE ReportHostExit
      <4>1. ~killed
        BY <1>1, <3>1 DEF ReportHostExit, Positions
      <4> QED BY <3>1, <4>1 DEF ReportHostExit, childVars, clockVars, Stopped
    <3>2. CASE ReportFailedDrain
      BY <3>2 DEF ReportFailedDrain
    <3>3. CASE Fork \/ ForkFails \/ Assign \/ Poll \/ Kill
      BY <3>3 DEF Fork, ForkFails, Assign, Poll, Kill, Handled
    <3> QED BY <1>2, <3>1, <3>2, <3>3
  <2> QED BY <2>1, <2>2 DEF Handled
<1>3. CASE CheckStopped \/ Tell
  <2>1. Told'
    BY <1>3 DEF CheckStopped, Tell, Forward, childVars, Handled, Alive
  <2>2. Said'
    BY <1>1, <1>3 DEF CheckStopped, Tell, Forward, childVars, clockVars, supervisorVars, Handled, Stopped
  <2> QED BY <2>1, <2>2 DEF Handled
<1>4. CASE CheckTimeLimit \/ CheckDrain \/ SignalStop \/ Stamp \/ Tick
  <2>1. UNCHANGED <<graceful, childVars, terms, killed>>
    BY <1>4 DEF CheckTimeLimit, CheckDrain, DrainOver, SignalStop, Stamp, Tick, supervisorVars
  <2>2. (pc # "exited" \/ UNCHANGED pc) /\ (Stopped => Stopped')
    BY <1>1, <1>4 DEF CheckTimeLimit, CheckDrain, DrainOver, SignalStop, Stamp, Tick, supervisorVars, clockVars,
                      Stopped, NotStopped, Numbers
  <2> QED BY <2>1, <2>2 DEF Handled, childVars, Alive
<1>6. CASE ChildBoots \/ ChildRunReturns
  BY <1>1, <1>6
  DEF ChildBoots, ChildRunReturns, ChildStep, supervisorVars, clockVars, Alive, Handled, Stopped, NoCode
<1>7. CASE ChildEnds \/ TermArrives
  BY <1>1, <1>7 DEF ChildEnds, TermArrives, ChildExit, supervisorVars, clockVars, Alive, Handled, Stopped, NoCode
<1>8. CASE UNCHANGED vars
  BY <1>8 DEF vars, supervisorVars, clockVars, childVars, Alive, Handled, Stopped
<1> QED BY <1>2, <1>3, <1>4, <1>6, <1>7, <1>8 DEF Next, SupervisorStep

\* With GraceIsKept: no run lasts longer than its time limit and its drain limit together, whatever
\* its child does.  A run past its time limit has been stopped, with or without a signal
\* (supervisor.py: time.monotonic() - started >= timeout).
THEOREM TimeLimitStops == Spec => [](sinceStart > TimeLimit => Stopped)
<1>1. Init => WithinLimit
  BY Limits DEF Init, WithinLimit
<1>2. SupervisorInv /\ WithinLimit => (sinceStart > TimeLimit => Stopped)
  <2>1. SupervisorInv => sinceStart \in Nat
    BY Limits, Parts DEF Numbers
  <2> QED BY <2>1, Limits DEF WithinLimit
<1> QED BY <1>1, <1>2, WithinLimitStep, SupervisorInvariant, PTL DEF Spec

\* A living child that is polled in a stopped run, once the handler of the supervisor has returned,
\* has run its own stop handler or has a SIGTERM on its way, which nothing but its arrival or the
\* end of the child takes away.  "graceful" is said only of a stop and a child that ended by itself
\* with code 0, not of one that was killed; that its stop handler ran is not said (GracefulMeansHandled
\* fails).  (supervisor.py 27-45, 66-76.)
DrainsWhenStopped ==
  /\ pc \in {"loop", "deadline", "drain", "kill"} /\ Stopped /\ Returned /\ Alive => pending \/ handled
  /\ graceful => Stopped /\ code = 0 /\ ~killed
THEOREM StoppedChildrenDrain == Spec => []DrainsWhenStopped
<1>1. Init => Handled
  BY DEF Init, Handled
<1>2. SupervisorInv /\ Handled => DrainsWhenStopped
  BY Parts DEF StopReachesChild, Handled, DrainsWhenStopped
<1> QED BY <1>1, <1>2, HandledStep, SupervisorInvariant, PTL DEF Spec

\* If no signal interrupts the handler, a stop is forwarded again at one place only: by the check
\* behind Popen, after the handler has forwarded it already (ForwardedOnce fails there).  Signals
\* that interrupt the handler between its test of stopped_at and the assignment forward the stop
\* once each, and then at most one more time behind Popen (TypeOK).  (supervisor.py 27-45.)
THEOREM ForwardedAgainBehindPopen ==
  ASSUME HandlerLimit = 1
  PROVE  Spec => [][terms' > terms => terms = 0 \/ pc = "unchecked"]_vars
<1>1. SupervisorInv /\ [Next]_vars => [terms' > terms => terms = 0 \/ pc = "unchecked"]_vars
  <2> SUFFICES ASSUME SupervisorInv, Next, terms' > terms, pc # "unchecked" PROVE terms = 0
    OBVIOUS
  <2>1. terms \in Nat /\ open \in Nat /\ Sent
    BY Limits, Parts DEF Numbers
  <2>2. CASE Tell
    BY <2>1, <2>2 DEF Sent, Tell, Returned
  <2>3. CASE ~Tell
    <3>1. UNCHANGED terms
      BY <2>3
      DEF Next, SupervisorStep, Fork, ForkFails, Assign, CheckStopped, Poll, CheckTimeLimit, CheckDrain, DrainOver,
          Kill, ReportFailedDrain, ReportHostExit, Stamp, SignalStop, Tick, ChildBoots, ChildRunReturns, TermArrives,
          ChildEnds, ChildStep
    <3> QED BY <2>1, <3>1
  <2> QED BY <2>2, <2>3
<1> QED BY <1>1, SupervisorInvariant, PTL DEF Spec
=============================================================================
