--------------------------- MODULE ProjectionHost ---------------------------
(***************************************************************************)
(* The durable projection host of jobs/projection/assets/worker.py, run by *)
(* the released ProjectionRunner against the released PostgreSQLOutbox.    *)
(*                                                                         *)
(* A source transaction stores a new version of a source identity together *)
(* with one outbox intent.  Host attempts claim batches of intents under a *)
(* lease, project each one to a version-addressed row of the target, check *)
(* the version the target acknowledges, and only then complete the intent  *)
(* and advance the checkpoint.  A host may die between any two steps, may  *)
(* be told to stop, may outlive its lease, and may lose the reply of a     *)
(* call that took effect.                                                  *)
(*                                                                         *)
(* An event and its target row share one identity <<key, version>>: the    *)
(* code derives the row id as fingerprint([source_key, version]), which is *)
(* taken to be injective.  Payloads are abstracted to put or delete.       *)
(*                                                                         *)
(* A statement of a killed process that the server applies after the kill  *)
(* is the same behaviour as the kill one step later: nothing here observes *)
(* the death itself.                                                       *)
(***************************************************************************)
EXTENDS Integers, FiniteSets

CONSTANTS
  Keys,             \* source identities
  MaxVersion,       \* bound: versions committed per source identity
  Hosts,            \* host attempts; each has its own "host-" + uuid4 owner
  Steady,           \* host attempts that are neither killed nor stopped
  Overrun,          \* host attempts that may outlive their lease (a pause)
  BatchSize,        \* budgets.batchSize
  PoisonThreshold,  \* budgets.poisonThreshold
  NoHost, NoEvent, NoExpr

Versions == 1..MaxVersion
Ids == Keys \X Versions

ASSUME KeysAssumption == Keys # {} /\ IsFiniteSet(Keys)
ASSUME BoundAssumption == /\ MaxVersion \in Nat \ {0}
                          /\ BatchSize \in Nat \ {0}
                          /\ PoisonThreshold \in Nat \ {0}
ASSUME HostAssumption == /\ Steady \subseteq Hosts
                         /\ Overrun \subseteq Hosts
                         /\ NoHost \notin Hosts
ASSUME NullAssumption == NoEvent \notin Ids

VARIABLES
  source,      \* source[k]: latest committed version of k, 0 before the first
  kind,        \* kind[e]: mutation kind of the intent, "none" before commit
  status,      \* status[e]: outbox state of the intent
  lease,       \* lease[e]: owner recorded on the intent
  live,        \* live[e]: the lease has not reached its expiry
  attempts,    \* attempts[e]: attempt_count, saturated at PoisonThreshold
  checkpoint,  \* checkpoint[k]: source version of the durable checkpoint
  rows,        \* rows[id]: content of the version-addressed target row
  pc,          \* pc[h]: where the host attempt is in its cycle
  stop,        \* stop[h]: the worker's stop Event
  batch,       \* batch[h]: admitted events not taken up yet
  work         \* work[h]: the event in hand and what is known of it

sourceVars == <<source, kind>>
outboxVars == <<status, lease, live, attempts, checkpoint>>
hostVars == <<pc, stop, batch, work>>
vars == <<sourceVars, outboxVars, rows, hostVars>>

-----------------------------------------------------------------------------
Mutations == {"put", "delete"}
Final == {"COMPLETED", "QUARANTINED"}
Statuses == {"ABSENT", "PENDING", "LEASED", "RETRYABLE"} \cup Final
Faults == {"retryable", "poison"}
Contents == {"live", "tombstone"}
Stages == {"new", "idle", "observed", "ready", "loaded", "projected", "written",
           "acknowledged", "completed", "failing", "released", "drained", "dead"}
Ended == {"drained", "dead"}
Running(h) == pc[h] \notin {"new"} \cup Ended

\* A write expression returned by a projector: put(mode, data).
Expressions == [mode: {"upsert", "if_absent"}, id: Ids, sourceKey: Keys,
                sourceVersion: Versions, deleted: BOOLEAN]

NoWork == [event |-> NoEvent, expr |-> NoExpr, result |-> 0, fault |-> "none"]
Works == [event: Ids \cup {NoEvent}, expr: Expressions \cup {NoExpr},
          result: 0..MaxVersion, fault: Faults \cup {"none"}]

Event(h) == work[h].event
\* The mutation kind stored in place of the deleted flag.
ContentOfMutation(x) == IF x.deleted THEN "delete" ELSE "put"
ContentOf(x) == IF x.deleted THEN "tombstone" ELSE "live"

\* What a projector may return, make_projector's row among it.  A projector
\* is a pure function of the source, so a row is deleted exactly when its
\* source says so; "delete" stands for a deletion and for a put of a source
\* that marks itself deleted.
Proposed(e) == {x \in Expressions : x.deleted => kind[e] = "delete"}

\* Weaker checks: a row id of any version, any source key, a deletion that
\* stores no tombstone.
AdmittedAnyId(e, x) == /\ x.mode = "upsert" /\ x.sourceVersion = e[2]
                       /\ x.sourceKey = e[1]
                       /\ kind[e] = "delete" => x.deleted
AdmittedAnyDelete(e, x) == /\ x.mode = "upsert" /\ x.sourceVersion = e[2]
                           /\ x.sourceKey = e[1] /\ x.id = e

\* guarded_project: upsert of this very version, key and derived row id, and
\* a deletion keeps a tombstone.
Admitted(e, x) ==
  /\ x.mode = "upsert"
  /\ x.sourceVersion = e[2]
  /\ x.sourceKey = e[1]
  /\ x.id = <<x.sourceKey, e[2]>>
  /\ kind[e] = "delete" => x.deleted

-----------------------------------------------------------------------------
Init ==
  /\ source = [k \in Keys |-> 0]
  /\ kind = [e \in Ids |-> "none"]
  /\ status = [e \in Ids |-> "ABSENT"]
  /\ lease = [e \in Ids |-> NoHost]
  /\ live = [e \in Ids |-> FALSE]
  /\ attempts = [e \in Ids |-> 0]
  /\ checkpoint = [k \in Keys |-> 0]
  /\ rows = [e \in Ids |-> "none"]
  /\ pc = [h \in Hosts |-> "new"]
  /\ stop = [h \in Hosts |-> FALSE]
  /\ batch = [h \in Hosts |-> {}]
  /\ work = [h \in Hosts |-> NoWork]

(* The business write: source row and intent commit in one transaction.    *)
SourceCommit(k, m) ==
  LET e == <<k, source[k] + 1>> IN
  /\ source[k] < MaxVersion
  /\ source' = [source EXCEPT ![k] = @ + 1]
  /\ kind' = [kind EXCEPT ![e] = m]
  /\ status' = [status EXCEPT ![e] = "PENDING"]
  /\ UNCHANGED <<lease, live, attempts, checkpoint, rows, hostVars>>

(* The host is constructed, started and enters run_until_stopped.          *)
Start(h) ==
  /\ pc[h] = "new"
  /\ pc' = [pc EXCEPT ![h] = "idle"]
  /\ UNCHANGED <<sourceVars, outboxVars, rows, stop, batch, work>>

(* SIGTERM or SIGINT reaches the worker: its handler sets the stop Event.  *)
StopSignal(h) ==
  /\ h \notin Steady
  /\ Running(h) /\ ~stop[h]
  /\ stop' = [stop EXCEPT ![h] = TRUE]
  /\ UNCHANGED <<sourceVars, outboxVars, rows, pc, batch, work>>

(* A kill, a crash, an escaping error, or SystemExit(71) of a call timer.  *)
Die(h) ==
  /\ h \notin Steady
  /\ Running(h)
  /\ pc' = [pc EXCEPT ![h] = "dead"]
  /\ batch' = [batch EXCEPT ![h] = {}]
  /\ work' = [work EXCEPT ![h] = NoWork]
  /\ UNCHANGED <<sourceVars, outboxVars, rows, stop>>

\* Stopping between two events of an admitted batch.
DrainMidBatch(h) ==
  /\ pc[h] \in {"idle", "ready"} /\ stop[h]
  /\ pc' = [pc EXCEPT ![h] = "drained"]
  /\ UNCHANGED <<sourceVars, outboxVars, rows, stop, batch, work>>

(* run_until_stopped returns once the admitted batch is settled; the host  *)
(* emits "drained" and exits.                                              *)
Drain(h) ==
  /\ pc[h] = "idle" /\ stop[h]
  /\ pc' = [pc EXCEPT ![h] = "drained"]
  /\ UNCHANGED <<sourceVars, outboxVars, rows, stop, batch, work>>

\* Cycling without a look at the stop Event.
BeginCycleAlways(h) ==
  /\ pc[h] = "idle"
  /\ pc' = [pc EXCEPT ![h] = "observed"]
  /\ UNCHANGED <<sourceVars, outboxVars, rows, stop, batch, work>>

(* A new cycle: read the lag and emit it, before anything is claimed.      *)
BeginCycle(h) ==
  /\ pc[h] = "idle" /\ ~stop[h]
  /\ pc' = [pc EXCEPT ![h] = "observed"]
  /\ UNCHANGED <<sourceVars, outboxVars, rows, stop, batch, work>>

Claimable(e) == \/ status[e] \in {"PENDING", "RETRYABLE"}
                \/ status[e] = "LEASED" /\ ~live[e]

(* atomic_claim: up to batchSize claimable intents, each with a new lease  *)
(* and one more attempt.                                                   *)
Claim(h) ==
  /\ pc[h] = "observed"
  /\ \E B \in SUBSET {e \in Ids : Claimable(e)} :
       /\ Cardinality(B) <= BatchSize
       /\ B = {} => \A e \in Ids : ~Claimable(e)
       /\ status' = [e \in Ids |-> IF e \in B THEN "LEASED" ELSE status[e]]
       /\ lease' = [e \in Ids |-> IF e \in B THEN h ELSE lease[e]]
       /\ live' = [e \in Ids |-> e \in B \/ live[e]]
       /\ attempts' = [e \in Ids |->
            IF e \in B /\ attempts[e] < PoisonThreshold THEN attempts[e] + 1
                                                        ELSE attempts[e]]
       /\ batch' = [batch EXCEPT ![h] = B]
       /\ pc' = [pc EXCEPT ![h] = IF B = {} THEN "idle" ELSE "ready"]
  /\ UNCHANGED <<sourceVars, checkpoint, rows, stop, work>>

\* A lease that need not outlast the cycle.
ExpireEarly(e) ==
  /\ status[e] = "LEASED" /\ live[e]
  /\ live' = [live EXCEPT ![e] = FALSE]
  /\ UNCHANGED <<sourceVars, status, lease, attempts, checkpoint, rows, hostVars>>

(* A lease of leaseMs reaches its expiry.  The admission budget keeps a    *)
(* working host inside its lease; only a host of Overrun may be paused     *)
(* past it.                                                                *)
Expire(e) ==
  /\ status[e] = "LEASED" /\ live[e]
  /\ lease[e] \in Overrun \/ pc[lease[e]] \in Ended
  /\ live' = [live EXCEPT ![e] = FALSE]
  /\ UNCHANGED <<sourceVars, status, lease, attempts, checkpoint, rows, hostVars>>

-----------------------------------------------------------------------------
(* Host steps on the event in hand.  Each may fail instead of succeeding.  *)

Fail(h, fault) ==
  /\ pc' = [pc EXCEPT ![h] = "failing"]
  /\ work' = [work EXCEPT ![h].fault = fault]

Load(h) ==
  /\ pc[h] = "ready"
  /\ \E e \in batch[h] :
       /\ batch' = [batch EXCEPT ![h] = @ \ {e}]
       /\ \/ /\ pc' = [pc EXCEPT ![h] = "loaded"]
             /\ work' = [work EXCEPT ![h].event = e]
          \/ \E fault \in Faults :
               /\ pc' = [pc EXCEPT ![h] = "failing"]
               /\ work' = [work EXCEPT ![h].event = e, ![h].fault = fault]
  /\ UNCHANGED <<sourceVars, outboxVars, rows, stop>>

Project(h) ==
  /\ pc[h] = "loaded"
  /\ \/ \E x \in Proposed(Event(h)) :
          IF Admitted(Event(h), x)
            THEN /\ pc' = [pc EXCEPT ![h] = "projected"]
                 /\ work' = [work EXCEPT ![h].expr = x]
            ELSE Fail(h, "poison")
     \/ \E fault \in Faults : Fail(h, fault)
  /\ UNCHANGED <<sourceVars, outboxVars, rows, stop, batch>>

(* The upsert.  A target that does not address rows by version may keep    *)
(* another version and say so; a call may fail before or after its effect. *)
Put(h) ==
  LET x == work[h].expr
      stored == [rows EXCEPT ![x.id] = ContentOf(x)]
  IN
  /\ pc[h] = "projected"
  /\ \/ /\ rows' = stored
        /\ work' = [work EXCEPT ![h].result = x.sourceVersion]
        /\ pc' = [pc EXCEPT ![h] = "written"]
     \/ /\ \E v \in 0..MaxVersion \ {x.sourceVersion} :
             work' = [work EXCEPT ![h].result = v]
        /\ pc' = [pc EXCEPT ![h] = "written"]
        /\ UNCHANGED rows
     \/ /\ rows' \in {rows, stored}
        /\ \E fault \in Faults : Fail(h, fault)
  /\ UNCHANGED <<sourceVars, outboxVars, stop, batch>>

\* Taking any reply of the target for an acknowledgement.
AcknowledgeAny(h) ==
  /\ pc[h] = "written"
  /\ pc' = [pc EXCEPT ![h] = "acknowledged"]
  /\ UNCHANGED <<sourceVars, outboxVars, rows, stop, batch, work>>

(* acknowledge: the target must report exactly the version of the source;  *)
(* how ProjectionRunner classes the error otherwise is its own.            *)
Acknowledge(h) ==
  /\ pc[h] = "written"
  /\ IF work[h].result = Event(h)[2]
       THEN /\ pc' = [pc EXCEPT ![h] = "acknowledged"]
            /\ UNCHANGED work
       ELSE \E fault \in Faults : Fail(h, fault)
  /\ UNCHANGED <<sourceVars, outboxVars, rows, stop, batch>>

\* The owner-only check of the outbox; the lease carries no generation.
Holds(h, e) == status[e] = "LEASED" /\ lease[e] = h

(* The intent of e leaves the lease in status s.                           *)
Settle(e, s) ==
  /\ status' = [status EXCEPT ![e] = s]
  /\ lease' = [lease EXCEPT ![e] = NoHost]
  /\ live' = [live EXCEPT ![e] = FALSE]
  /\ UNCHANGED attempts

(* complete: settle the intent and advance the checkpoint, or fail because *)
(* the lease is lost or the call failed, with its effect or without it.    *)
(* Whether an older version may move the checkpoint back is the outbox's.  *)
Complete(h) ==
  LET e == Event(h) IN
  /\ pc[h] = "acknowledged"
  /\ \/ /\ Holds(h, e)
        /\ Settle(e, "COMPLETED")
        /\ \E v \in {e[2], IF e[2] > checkpoint[e[1]] THEN e[2] ELSE checkpoint[e[1]]} :
             checkpoint' = [checkpoint EXCEPT ![e[1]] = v]
        /\ \/ /\ pc' = [pc EXCEPT ![h] = "completed"]
              /\ UNCHANGED work
           \/ \E fault \in Faults : Fail(h, fault)
     \/ /\ \E fault \in Faults : Fail(h, fault)
        /\ UNCHANGED outboxVars
  /\ UNCHANGED <<sourceVars, rows, stop, batch>>

(* The runner is done with the event in hand.                              *)
Advance(h) ==
  /\ pc' = [pc EXCEPT ![h] = IF batch[h] = {} THEN "idle" ELSE "ready"]
  /\ work' = [work EXCEPT ![h] = NoWork]

\* A retryable failure is retried until the poison threshold is reached.
Verdict(h) == IF work[h].fault = "retryable" /\ attempts[Event(h)] < PoisonThreshold
                THEN "RETRYABLE" ELSE "QUARANTINED"

\* A release that is not handed on to the outbox, or does not look at the lease.
ReleaseDropped(h) ==
  /\ pc[h] = "failing"
  /\ Advance(h)
  /\ UNCHANGED <<sourceVars, outboxVars, rows, stop, batch>>
ReleaseUnchecked(h) ==
  /\ pc[h] = "failing"
  /\ Settle(Event(h), Verdict(h))
  /\ pc' = [pc EXCEPT ![h] = "released"]
  /\ UNCHANGED <<sourceVars, checkpoint, rows, stop, batch, work>>

(* release: after a failure the intent is retried or quarantined; an       *)
(* intent this owner no longer holds is left as it is.  A release that     *)
(* fails on a held lease escapes the runner (see Die).                     *)
Release(h) ==
  LET e == Event(h) IN
  /\ pc[h] = "failing"
  /\ \/ /\ Holds(h, e)
        /\ Settle(e, Verdict(h))
        /\ pc' = [pc EXCEPT ![h] = "released"]
        /\ UNCHANGED <<checkpoint, work>>
     \/ /\ ~(Holds(h, e) /\ live[e])
        /\ Advance(h)
        /\ UNCHANGED outboxVars
  /\ UNCHANGED <<sourceVars, rows, stop, batch>>

(* Evidence.record prints the resulting state.  If that fails after a      *)
(* completion, the runner treats the event as failed and tries a release.  *)
Record(h) ==
  /\ \/ pc[h] \in {"completed", "released"} /\ Advance(h)
     \/ pc[h] = "completed" /\ \E fault \in Faults : Fail(h, fault)
  /\ UNCHANGED <<sourceVars, outboxVars, rows, stop, batch>>

HostStep(h) == \/ Start(h) \/ Drain(h) \/ BeginCycle(h) \/ Claim(h) \/ Load(h)
               \/ Project(h) \/ Put(h) \/ Acknowledge(h) \/ Complete(h)
               \/ Release(h) \/ Record(h)

Next == \/ \E k \in Keys, m \in Mutations : SourceCommit(k, m)
        \/ \E h \in Hosts : HostStep(h) \/ StopSignal(h) \/ Die(h)
        \/ \E e \in Ids : Expire(e)

Spec == Init /\ [][Next]_vars

\* Every call of a host is bounded by its own timer, so a living host keeps
\* moving, and the clock of the outbox keeps running.
Fairness == /\ \A h \in Hosts : WF_vars(HostStep(h))
            /\ \A e \in Ids : WF_vars(Expire(e))

FairSpec == Spec /\ Fairness

-----------------------------------------------------------------------------
TypeOK ==
  /\ source \in [Keys -> 0..MaxVersion]
  /\ kind \in [Ids -> Mutations \cup {"none"}]
  /\ status \in [Ids -> Statuses]
  /\ lease \in [Ids -> Hosts \cup {NoHost}]
  /\ live \in [Ids -> BOOLEAN]
  /\ attempts \in [Ids -> 0..PoisonThreshold]
  /\ checkpoint \in [Keys -> 0..MaxVersion]
  /\ rows \in [Ids -> Contents \cup {"none"}]
  /\ pc \in [Hosts -> Stages]
  /\ stop \in [Hosts -> BOOLEAN]
  /\ batch \in [Hosts -> SUBSET Ids]
  /\ work \in [Hosts -> Works]

(* The reader's view: latest_visible reduces all rows of a key to the      *)
(* highest version before it looks at the tombstone.                       *)
Stored(k) == {v \in Versions : rows[<<k, v>>] # "none"}
Latest(k) == {v \in Stored(k) : \A w \in Stored(k) : w <= v}
\* Filtering tombstones before reducing to the latest version.
VisibleFilterFirst(k) == \E v \in Stored(k) : rows[<<k, v>>] = "live"
Visible(k) == \E v \in Latest(k) : rows[<<k, v>>] = "live"

\* The content a faithful projection stores for e.
Content(e) == IF kind[e] = "delete" THEN "tombstone" ELSE "live"

-----------------------------------------------------------------------------
(* No invented progress: a completed intent has exactly its own row in the *)
(* target, and a checkpoint names a version whose intent completed, however *)
(* hosts died, lost replies or were overtaken on the way.  (worker.py      *)
(* acknowledge and guarded_project; "Neither path invents acknowledgement  *)
(* or checkpoint progress" in docs/projection-jobs.md.)                    *)
BackedProgress ==
  /\ \A e \in Ids : status[e] = "COMPLETED" => rows[e] = Content(e)
  /\ \A k \in Keys : checkpoint[k] > 0 => status[<<k, checkpoint[k]>>] = "COMPLETED"

(* Whatever a business projector proposes and however stale the host that  *)
(* writes it, a stored row belongs to a committed version and carries that *)
(* version's content.  (guarded_project, worker.py 365-394.)               *)
FaithfulRows ==
  \A e \in Ids : rows[e] # "none" => kind[e] # "none" /\ rows[e] = Content(e)

(* Once every mutation of a key is completed the reader sees the source:   *)
(* the key is visible exactly if its last mutation was not a deletion, in  *)
(* whatever order the versions were projected.                             *)
Converged ==
  \A k \in Keys :
    (source[k] > 0 /\ \A v \in 1..source[k] : status[<<k, v>>] = "COMPLETED")
      => (Visible(k) <=> kind[<<k, source[k]>>] = "put")

(* A completed deletion is never undone for the reader by a replay or a    *)
(* late write of an older version.  (Tombstone retention, worker.py 392 and *)
(* versioned_target.py latest_visible.)                                    *)
NoResurrection ==
  \A k \in Keys, v \in Versions :
    status[<<k, v>>] = "COMPLETED" /\ kind[<<k, v>>] = "delete" /\ Visible(k)
      => \E w \in (v + 1)..source[k] : kind[<<k, w>>] = "put" /\ rows[<<k, w>>] = "live"

(* A host that reports a graceful drain leaves no intent under its own     *)
(* unexpired lease: the admitted batch was settled, not abandoned.         *)
DrainedSettled ==
  \A h \in Hosts, e \in Ids : pc[h] = "drained" => ~(Holds(h, e) /\ live[e])

\* The admitted events h is not done with yet.
Handling == {"loaded", "projected", "written", "acknowledged", "completed", "failing"}
InHand(h) == batch[h] \cup (IF pc[h] \in Handling THEN {Event(h)} ELSE {})

(* While leases outlast the cycle, two hosts never work on one intent at   *)
(* the same time: nobody can claim what a living host has admitted.        *)
ExclusiveWork == \A g, h \in Hosts : g # h => InHand(g) \cap InHand(h) = {}

(* A stored version is immutable: replays and stale hosts store the same   *)
(* content again or nothing.                                               *)
VersionsImmutable == [][\A e \in Ids : rows[e] # "none" => rows'[e] = rows[e]]_vars

(* A completed or quarantined intent is never reopened or decided again,   *)
(* not by a failed evidence record after completion, not by a host whose   *)
(* lease was taken over.                                                   *)
SettledOnce == [][\A e \in Ids : status[e] \in Final => status'[e] = status[e]]_vars

(* Every committed mutation is eventually completed or quarantined while   *)
(* one host attempt survives.                                              *)
EventuallySettled == \A e \in Ids : status[e] # "ABSENT" ~> status[e] \in Final

(* A host told to stop eventually drains (or dies), whatever is waiting in *)
(* the outbox.                                                             *)
StopEndsHost == \A h \in Hosts : stop[h] ~> pc[h] \in Ended

-----------------------------------------------------------------------------
(* The inductive strengthening of the safety properties.                   *)

\* An intent exists exactly for the committed versions.
OutboxMirrorsSource ==
  \A k \in Keys, v \in Versions : /\ kind[<<k, v>>] = "none" <=> v > source[k]
                                  /\ status[<<k, v>>] = "ABSENT" <=> v > source[k]

\* What h has established of the event in hand at each stage.
Knows(h) ==
  /\ \A e \in batch[h] : kind[e] # "none"
  /\ pc[h] \in Handling \cup {"released"} => Event(h) \in Ids /\ kind[Event(h)] # "none"
  /\ pc[h] \in {"projected", "written"}
       => work[h].expr \in Proposed(Event(h)) /\ Admitted(Event(h), work[h].expr)
  /\ pc[h] = "acknowledged" \/ (pc[h] = "written" /\ work[h].result = Event(h)[2])
       => rows[Event(h)] = Content(Event(h))
  /\ pc[h] = "completed" => status[Event(h)] = "COMPLETED"

HostsKnow == \A h \in Hosts : Knows(h)

\* A living host has in hand whatever it holds under an unexpired lease.
Keeps(h) ==
  /\ pc[h] \in {"new", "idle", "observed", "drained"} => batch[h] = {}
  /\ \A e \in Ids : Holds(h, e) /\ live[e] => pc[h] = "dead" \/ e \in InHand(h)

LeasesKept == \A h \in Hosts : Keeps(h)

HostInv == /\ TypeOK
           /\ OutboxMirrorsSource
           /\ FaithfulRows
           /\ BackedProgress
           /\ HostsKnow
           /\ LeasesKept

\* While leases outlast the cycle, h holds whatever it has in hand, except
\* an intent it has completed.
Owns(h) ==
  /\ pc[h] \in Handling \cup {"released"} => Event(h) \notin batch[h]
  /\ pc[h] \in {"new", "idle", "observed"} \cup Ended => batch[h] = {}
  /\ \A e \in InHand(h) :
       \/ Holds(h, e) /\ live[e]
       \/ pc[h] \in {"completed", "failing"} /\ e = Event(h) /\ status[e] = "COMPLETED"

LeaseInv == ExclusiveWork /\ \A h \in Hosts : Owns(h)

-----------------------------------------------------------------------------
(* The host implements the promise of VersionedProjection.                 *)
Verdicts == [e \in Ids |-> CASE status[e] = "ABSENT" -> "none"
                             [] status[e] = "COMPLETED" -> "completed"
                             [] status[e] = "QUARANTINED" -> "quarantined"
                             [] OTHER -> "open"]

Promise == INSTANCE VersionedProjection WITH verdict <- Verdicts

PromiseKept == Promise!Spec
=============================================================================
