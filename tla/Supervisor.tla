------------------------------ MODULE Supervisor ------------------------------
(***************************************************************************)
(* The POSIX entrypoint jobs/projection/assets/supervisor.py: it starts    *)
(* the projection host as a child in its own session, forwards a stop,     *)
(* enforces the drain deadline and the time limit of the job from outside, *)
(* and reports how the child ended.                                        *)
(*                                                                         *)
(* Python runs a signal handler in the main thread between two bytecodes,  *)
(* so SignalStop interleaves with every step of supervise, the window      *)
(* between Popen and the check behind it included, and with the handler    *)
(* itself: a signal between its test of stopped_at and the assignment      *)
(* enters it again.  The interrupted code waits until the handler returns. *)
(* The child is the host of worker.py, or caller code that ends on its     *)
(* own; it may hang in any state, and a signal takes a while to reach it.  *)
(*                                                                         *)
(* Time is discrete: one unit stands for a poll period, and the main       *)
(* thread polls once per unit.  SIGKILL takes effect at once.              *)
(***************************************************************************)
EXTENDS Integers

CONSTANTS
  DrainLimit,   \* drainMs in time units
  TimeLimit,    \* timeoutSeconds in time units
  SpawnLimit,   \* bound: the longest Popen takes
  HandlerLimit  \* bound: how many calls of the handler are open at once

ASSUME LimitAssumption == /\ DrainLimit \in Nat \ {0}
                          /\ TimeLimit \in Nat \ {0}
                          /\ SpawnLimit \in 0..DrainLimit
                          /\ SpawnLimit <= TimeLimit
                          /\ HandlerLimit \in Nat \ {0}

VARIABLES
  pc,          \* main thread of supervise
  slept,       \* the sleep of the poll loop is over
  open,        \* calls of stop that read stopped_at as None and have not set it
  telling,     \* a call of stop has found the child alive and is about to signal it
  sinceStart,  \* time since "started" was read
  sinceStop,   \* time since stopped_at was set, NotStopped while it is None
  child,       \* the child process
  code,        \* return code of an exited child, negative for a signal
  pending,     \* a SIGTERM is on its way to the child
  handled,     \* the child's own stop handler ran
  terms,       \* how often SIGTERM was forwarded
  killed,      \* SIGKILL was sent to the child's process group
  graceful,    \* the "graceful" field of the report
  exit         \* exit status of the supervisor

supervisorVars == <<pc, slept, graceful, exit>>
handlerVars == <<open, telling>>
clockVars == <<sinceStart, sinceStop>>
childVars == <<child, code, pending, handled>>
vars == <<supervisorVars, handlerVars, clockVars, childVars, terms, killed>>

NotStopped == -1
NoCode == 999
SIGTERM == 15
SIGKILL == 9

Stages == {"spawning", "forked", "unchecked", "loop", "deadline", "drain", "kill", "reap",
           "report", "exited"}
ChildStates == {"none", "booting", "running", "draining", "closing", "exited"}
Codes == {0, 1, 71, -SIGTERM, -SIGKILL}
Alive == child \in {"booting", "running", "draining", "closing"}
Stopped == sinceStop # NotStopped
ChildKnown == pc \notin {"spawning", "forked"}

\* No call of the handler is open: the main thread goes on.
Returned == open = 0 /\ ~telling

-----------------------------------------------------------------------------
Init ==
  /\ pc = "spawning" /\ slept = FALSE
  /\ open = 0 /\ telling = FALSE
  /\ sinceStart = 0 /\ sinceStop = NotStopped
  /\ child = "none" /\ code = NoCode /\ pending = FALSE /\ handled = FALSE
  /\ terms = 0 /\ killed = FALSE
  /\ graceful = FALSE /\ exit = NoCode

ChildExit(c) ==
  /\ child' = "exited"
  /\ code' = c
  /\ pending' = FALSE
  /\ UNCHANGED handled

(* killpg SIGTERM: it reaches a living child in its own time.              *)
Forward ==
  /\ terms' = terms + 1
  /\ pending' = (pending \/ Alive)
  /\ UNCHANGED <<child, code, handled>>

-----------------------------------------------------------------------------
(* stop(signum, frame).                                                    *)

\* A handler that takes the time of every signal: each restarts the drain allowance.
SignalRestarting ==
  /\ pc # "exited" /\ open < HandlerLimit
  /\ IF Stopped THEN sinceStop' = 0 /\ UNCHANGED open
                ELSE open' = open + 1 /\ UNCHANGED sinceStop
  /\ UNCHANGED <<supervisorVars, telling, sinceStart, childVars, terms, killed>>

(* SIGTERM or SIGINT from the provisioner, at any point of supervise and   *)
(* of the handler, which finds stopped_at unset.  Later ones do nothing.   *)
SignalStop ==
  /\ pc # "exited" /\ ~Stopped /\ open < HandlerLimit
  /\ open' = open + 1
  /\ UNCHANGED <<supervisorVars, telling, clockVars, childVars, terms, killed>>

(* The innermost open call sets stopped_at and polls the child, if known.  *)
Stamp ==
  /\ open > 0 /\ ~telling
  /\ open' = open - 1
  /\ sinceStop' = 0
  /\ telling' = (ChildKnown /\ Alive)
  /\ UNCHANGED <<supervisorVars, sinceStart, childVars, terms, killed>>

(* It signals the child, which may have ended since, and returns.          *)
Tell ==
  /\ telling
  /\ telling' = FALSE
  /\ Forward
  /\ UNCHANGED <<supervisorVars, open, clockVars, killed>>

-----------------------------------------------------------------------------
(* Popen: the child runs before the assignment to "child" is made.         *)
Fork ==
  /\ pc = "spawning" /\ Returned
  /\ pc' = "forked"
  /\ child' = "booting"
  /\ UNCHANGED <<slept, graceful, exit, handlerVars, clockVars, code, pending, handled, terms, killed>>

(* Popen raises: the command cannot be executed.                           *)
ForkFails ==
  /\ pc = "spawning" /\ Returned
  /\ pc' = "exited"
  /\ exit' = 1
  /\ UNCHANGED <<slept, graceful, handlerVars, clockVars, childVars, terms, killed>>

Assign ==
  /\ pc = "forked" /\ Returned
  /\ pc' = "unchecked"
  /\ UNCHANGED <<slept, graceful, exit, handlerVars, clockVars, childVars, terms, killed>>

\* Entering the loop without a look at stops that came during Popen.
EnterLoopUnchecked ==
  /\ pc = "unchecked" /\ Returned
  /\ pc' = "loop" /\ slept' = TRUE
  /\ UNCHANGED <<graceful, exit, handlerVars, clockVars, childVars, terms, killed>>

(* A stop that arrived while "child" was None is forwarded now.            *)
CheckStopped ==
  /\ pc = "unchecked" /\ Returned
  /\ pc' = "loop" /\ slept' = TRUE
  /\ IF Stopped THEN Forward ELSE UNCHANGED <<childVars, terms>>
  /\ UNCHANGED <<graceful, exit, handlerVars, clockVars, killed>>

(* while child.poll() is None                                              *)
Poll ==
  /\ pc = "loop" /\ slept /\ Returned
  /\ pc' = IF child = "exited" THEN "report" ELSE "deadline"
  /\ UNCHANGED <<slept, graceful, exit, handlerVars, clockVars, childVars, terms, killed>>

\* A loop without a time limit.
NoTimeLimit ==
  /\ pc = "deadline" /\ Returned
  /\ pc' = "drain"
  /\ UNCHANGED <<slept, graceful, exit, handlerVars, clockVars, childVars, terms, killed>>

(* The time limit of the job calls stop like a signal.                     *)
CheckTimeLimit ==
  /\ pc = "deadline" /\ Returned
  /\ pc' = "drain"
  /\ open' = IF sinceStart >= TimeLimit /\ ~Stopped THEN 1 ELSE 0
  /\ UNCHANGED <<slept, graceful, exit, telling, clockVars, childVars, terms, killed>>

(* The end of the loop's body: "over" says that the allowance is used up.  *)
DrainOver(over) ==
  /\ pc = "drain" /\ Returned
  /\ IF Stopped /\ over THEN pc' = "kill" /\ UNCHANGED slept
                        ELSE pc' = "loop" /\ slept' = FALSE
  /\ UNCHANGED <<graceful, exit, handlerVars, clockVars, childVars, terms, killed>>

\* The allowance is tested one period late, or counted from the start of the run.
LateDrain == DrainOver(sinceStop > DrainLimit)
EarlyDrain == DrainOver(sinceStart >= DrainLimit)

(* A stop whose drain allowance is used up leads to the kill; or sleep.    *)
CheckDrain == DrainOver(sinceStop >= DrainLimit)

(* killpg SIGKILL; the child may have ended by itself since the poll.      *)
Kill ==
  /\ pc = "kill" /\ Returned
  /\ pc' = "reap"
  /\ killed' = Alive
  /\ IF Alive THEN ChildExit(-SIGKILL) ELSE UNCHANGED childVars
  /\ UNCHANGED <<slept, graceful, exit, handlerVars, clockVars, terms>>

(* wait, report failed-drain, return 70.                                   *)
ReportFailedDrain ==
  /\ pc = "reap" /\ child = "exited" /\ Returned
  /\ graceful' = FALSE
  /\ exit' = 70
  /\ pc' = "exited"
  /\ UNCHANGED <<slept, handlerVars, clockVars, childVars, terms, killed>>

ReportSignalAsZero ==
  /\ pc = "report" /\ Returned
  /\ graceful' = (Stopped /\ code = 0)
  /\ exit' = IF code >= 0 THEN code ELSE 0
  /\ pc' = "exited"
  /\ UNCHANGED <<slept, handlerVars, clockVars, childVars, terms, killed>>

(* report host-exit, return the child's code as a shell would see it.      *)
ReportHostExit ==
  /\ pc = "report" /\ Returned
  /\ graceful' = (Stopped /\ code = 0)
  /\ exit' = IF code >= 0 THEN code ELSE 128 - code
  /\ pc' = "exited"
  /\ UNCHANGED <<slept, handlerVars, clockVars, childVars, terms, killed>>

(* A poll period passes while the main thread sleeps or is inside Popen.   *)
(* Clocks stop at the first value that no longer makes a difference.       *)
Tick ==
  /\ \/ pc \in {"spawning", "forked"} /\ sinceStart < SpawnLimit
     \/ pc = "loop" /\ ~slept
  /\ Returned
  /\ sinceStart' = IF sinceStart > TimeLimit THEN sinceStart ELSE sinceStart + 1
  /\ sinceStop' = IF Stopped /\ sinceStop <= DrainLimit + 1 THEN sinceStop + 1
                                                            ELSE sinceStop
  /\ slept' = TRUE
  /\ UNCHANGED <<pc, graceful, exit, handlerVars, childVars, terms, killed>>

-----------------------------------------------------------------------------
(* The child.                                                              *)
ChildStep(from, to) ==
  /\ child = from
  /\ child' = to
  /\ UNCHANGED <<supervisorVars, handlerVars, clockVars, code, pending, handled, terms, killed>>

ChildBoots == ChildStep("booting", "running")

(* run() returns after a drain, or because the application stopped itself. *)
ChildRunReturns == ChildStep("draining", "closing") \/ ChildStep("running", "closing")

(* SIGTERM arrives: the host's handler sets its stop Event; before run()   *)
(* installs it and after run() restores the default disposition the signal *)
(* ends the process.                                                       *)
TermArrives ==
  /\ pending
  /\ \/ child \in {"booting", "closing"} /\ ChildExit(-SIGTERM)
     \/ /\ child \in {"running", "draining"}
        /\ child' = "draining" /\ handled' = TRUE /\ pending' = FALSE
        /\ UNCHANGED code
  /\ UNCHANGED <<supervisorVars, handlerVars, clockVars, terms, killed>>

(* close() succeeds or raises; or an error, a call timer, the kernel's     *)
(* memory killer ends the child earlier.                                   *)
ChildEnds ==
  /\ Alive
  /\ \E c \in Codes \ {-SIGTERM} : (c = 0 => child = "closing") /\ ChildExit(c)
  /\ UNCHANGED <<supervisorVars, handlerVars, clockVars, terms, killed>>

-----------------------------------------------------------------------------
SupervisorStep == Fork \/ ForkFails \/ Assign \/ CheckStopped \/ Poll \/ CheckTimeLimit
                  \/ CheckDrain \/ Kill \/ ReportFailedDrain \/ ReportHostExit \/ Stamp \/ Tell

Next == SupervisorStep \/ SignalStop \/ Tick
        \/ ChildBoots \/ ChildRunReturns \/ TermArrives \/ ChildEnds

Spec == Init /\ [][Next]_vars

\* The supervisor's thread runs and time passes; nothing is assumed of the
\* child or of the senders of signals.
FairSpec == Spec /\ WF_vars(SupervisorStep) /\ WF_vars(Tick)

-----------------------------------------------------------------------------
TypeOK ==
  /\ pc \in Stages /\ slept \in BOOLEAN
  /\ open \in 0..HandlerLimit /\ telling \in BOOLEAN
  /\ sinceStart \in 0..(TimeLimit + 1)
  /\ sinceStop \in NotStopped..(DrainLimit + 2)
  /\ child \in ChildStates /\ code \in Codes \cup {NoCode}
  /\ pending \in BOOLEAN /\ handled \in BOOLEAN
  /\ terms \in 0..(HandlerLimit + 1) /\ killed \in BOOLEAN /\ graceful \in BOOLEAN
  /\ exit \in {0, 1, 70, 71, 128 + SIGTERM, 128 + SIGKILL, NoCode}

(* No stop is lost: once the poll loop runs and the handler has returned,  *)
(* a living child has been told of every stop, also of one that arrived    *)
(* inside Popen when there was no child to tell.  (supervisor.py 27-45.)   *)
StopReachesChild ==
  pc \in {"loop", "deadline", "drain", "kill"} /\ Stopped /\ Returned /\ Alive => terms > 0

(* The child is killed only when its whole drain allowance is used up      *)
(* (drain_seconds since stopped_at), never because of an early time limit. *)
KilledOnlyAfterDrain == killed => sinceStop >= DrainLimit

(* The supervisor never outstays the drain limit by more than one poll     *)
(* period, whatever the child does; terminationGraceMs >= drainMs + 1000   *)
(* in cycle_budget relies on it.                                           *)
ExitsWithinGrace ==
  pc # "exited" /\ ChildKnown => sinceStop <= DrainLimit

(* A zero exit status means that the child itself ended with code 0; no    *)
(* kill, no signal and no failure reads as success to the provisioner.     *)
ZeroMeansSuccess == exit = 0 => code = 0 /\ ~killed

(* Inductive strengthening: how far the clocks are at each position, and   *)
(* what is settled about the child there.                                  *)
SupervisorInv ==
  /\ TypeOK /\ StopReachesChild /\ KilledOnlyAfterDrain /\ ExitsWithinGrace /\ ZeroMeansSuccess
  /\ pc \in {"spawning", "forked"} => sinceStop <= sinceStart /\ sinceStart <= SpawnLimit
  /\ pc = "loop" /\ ~slept => sinceStop < DrainLimit
  /\ pc \in {"kill", "reap"} => sinceStop >= DrainLimit
  /\ pc # "exited" => (child = "none" <=> pc = "spawning")
  /\ pc \in {"report", "reap"} => child = "exited"
  /\ child = "exited" <=> code # NoCode
  /\ killed => pc \in {"reap", "exited"}
  /\ exit # NoCode => pc = "exited"
  /\ ~Stopped \/ ~ChildKnown => terms = 0 /\ ~telling
  /\ ~Returned => terms + open + (IF telling THEN 1 ELSE 0) <= HandlerLimit
  /\ pc = "unchecked" => terms <= HandlerLimit
  /\ pc \in {"kill", "reap", "exited"} => Returned

(* A stop ends the supervisor even if the child hangs.                     *)
StopEnds == Stopped ~> pc = "exited"

(* The time limit of the job ends every run, also with no signal at all.   *)
RunEnds == <>(pc = "exited")

(* supervisor.py 4: "Forwards stop once"; docs/projection-jobs.md:         *)
(* "SIGTERM/SIGINT is forwarded once to the worker".                       *)
ForwardedOnce == terms <= 1

(* supervisor.py 69: "Child exit alone is not proof of graceful drain      *)
(* unless it handled stop and returned success".                           *)
GracefulMeansHandled == graceful => handled
=============================================================================
