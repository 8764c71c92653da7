------------------------------ MODULE TelemetryRelay ------------------------------
(***************************************************************************)
(* The Collector that createClickHouseTelemetryPlan configures             *)
(* (exporters/clickhouse/index.ts), from the request of a client to the    *)
(* rows of a Resource.  The OTLP receiver hands a request to an exporter   *)
(* without a queue or a retry, which posts it over loopback and waits two  *)
(* seconds; the private receiver validates it and puts it in the one       *)
(* durable queue, from which a single consumer inserts.  An insert may     *)
(* fail after part of it was stored, or after all of it; it is tried until *)
(* it succeeds.  The stock components themselves are external: what is     *)
(* taken from the code is how they are put together and set.               *)
(*                                                                         *)
(* A call is one request on its way through the Collector: "posted" to the *)
(* private receiver, "blocked" at the queue until it has room, or "queued" with *)
(* its reply still to come.                                                *)
(***************************************************************************)
EXTENDS Integers, Sequences, FiniteSets

CONSTANTS
  Content, Malformed,    \* as in TelemetryChannel
  QueueRequests,         \* queue_size
  Calls,                 \* calls that one envelope may have open, those without a client included
  MaxFailures            \* crashes and outages

ASSUME RelayAssumption ==
  /\ QueueRequests \in Nat /\ Calls \in Nat /\ MaxFailures \in Nat
  /\ Malformed \subseteq DOMAIN Content

VARIABLES
  client,       \* "quiet", "sent", "acknowledged" or "refused", for each envelope
  calls,        \* the calls of each envelope, "none" where there is none
  waiting,      \* the call its client waits for, or 0
  queue,        \* envelopes on disk that the consumer has not taken
  taken,        \* the envelope the consumer is at, on disk as well, or <<>>
  rows,         \* [identity, record]: what a read with FINAL returns
  up, backend, failures

relayVars == <<client, calls, waiting, queue, taken, rows, up, backend, failures>>

Envelopes == DOMAIN Content
Records == UNION {Content[e] : e \in Envelopes}
Slots == 1..Calls

SetCall(e, n, stage) == calls' = [calls EXCEPT ![e][n] = stage]
Forget(e, state) == client' = [client EXCEPT ![e] = state] /\ waiting' = [waiting EXCEPT ![e] = 0]
HasClient(e, n) == waiting[e] = n

-----------------------------------------------------------------------------
(* A request is accepted.                                                  *)

\* A client sends, or sends again what was refused.
Send(e, n) ==
  /\ up /\ client[e] \in {"quiet", "refused"} /\ calls[e][n] = "none"
  /\ client' = [client EXCEPT ![e] = "sent"] /\ waiting' = [waiting EXCEPT ![e] = n]
  /\ SetCall(e, n, "posted")
  /\ UNCHANGED <<queue, taken, rows, up, backend, failures>>

\* An exporter with a queue of its own answers before the private receiver has seen the request.
AnsweredEarly(e, n) ==
  /\ up /\ calls[e][n] = "posted"
  /\ SetCall(e, n, IF e \in Malformed THEN "none" ELSE "blocked")
  /\ IF HasClient(e, n) THEN Forget(e, "acknowledged") ELSE UNCHANGED <<client, waiting>>
  /\ UNCHANGED <<queue, taken, rows, up, backend, failures>>

\* Validation comes before the queue; what it refuses goes back as an error.
Validate(e, n) ==
  /\ up /\ calls[e][n] = "posted"
  /\ IF e \in Malformed
       THEN SetCall(e, n, "none") /\ Forget(e, "refused")
       ELSE SetCall(e, n, "blocked") /\ UNCHANGED <<client, waiting>>
  /\ UNCHANGED <<queue, taken, rows, up, backend, failures>>

\* block_on_overflow: a call waits until the queue has room, and the request is on disk
\* (fsync) before it is answered.
Enqueue(e, n) ==
  /\ up /\ calls[e][n] = "blocked" /\ Len(queue) < QueueRequests
  /\ queue' = Append(queue, e)
  /\ SetCall(e, n, IF HasClient(e, n) THEN "queued" ELSE "none")
  /\ UNCHANGED <<client, waiting, taken, rows, up, backend, failures>>

Reply(e, n) ==
  /\ up /\ calls[e][n] = "queued" /\ HasClient(e, n)
  /\ SetCall(e, n, "none") /\ Forget(e, "acknowledged")
  /\ UNCHANGED <<queue, taken, rows, up, backend, failures>>

\* Two seconds have passed: the client has its 503.  A call that waits at the queue may end with
\* the connection or go on without it.
TimeOut(e, n) ==
  /\ up /\ HasClient(e, n) /\ calls[e][n] # "none"
  /\ Forget(e, "refused")
  /\ \/ SetCall(e, n, "none")
     \/ calls[e][n] = "blocked" /\ UNCHANGED calls
  /\ UNCHANGED <<queue, taken, rows, up, backend, failures>>

-----------------------------------------------------------------------------
(* A request is inserted.                                                  *)
Take ==
  /\ up /\ taken = <<>> /\ queue # <<>>
  /\ taken' = <<Head(queue)>> /\ queue' = Tail(queue)
  /\ UNCHANGED <<client, calls, waiting, rows, up, backend, failures>>

\* The evidence identity is taken of the record alone.
EvidenceIdentity(e, record) == record
RowsOf(e, records) == {[identity |-> EvidenceIdentity(e, r), record |-> r] : r \in records}

Insert ==
  /\ up /\ backend /\ taken # <<>>
  /\ rows' = rows \cup RowsOf(taken[1], Content[taken[1]])
  /\ taken' = <<>>
  /\ UNCHANGED <<client, calls, waiting, queue, up, backend, failures>>

\* A retry that ends after some time.
InsertGivesUp ==
  /\ up /\ taken # <<>>
  /\ \E stored \in SUBSET Content[taken[1]] :
       rows' = IF backend THEN rows \cup RowsOf(taken[1], stored) ELSE rows
  /\ taken' = <<>>
  /\ UNCHANGED <<client, calls, waiting, queue, up, backend, failures>>

\* The answer is an error or does not come within the timeout; max_elapsed_time 0 has no end.
InsertFails ==
  /\ up /\ backend /\ taken # <<>>
  /\ \E stored \in SUBSET Content[taken[1]] : rows' = rows \cup RowsOf(taken[1], stored)
  /\ UNCHANGED <<client, calls, waiting, queue, taken, up, backend, failures>>

-----------------------------------------------------------------------------
(* Failures.                                                               *)

\* file_storage: what the consumer was at goes to the end of what is on disk.
KeptOnDisk == queue \o taken

Crash ==
  /\ up /\ failures < MaxFailures /\ failures' = failures + 1
  /\ up' = FALSE
  /\ queue' = KeptOnDisk /\ taken' = <<>>
  /\ calls' = [e \in Envelopes |-> [n \in Slots |-> "none"]]
  /\ waiting' = [e \in Envelopes |-> 0]
  /\ client' = [e \in Envelopes |-> IF client[e] = "sent" THEN "refused" ELSE client[e]]
  /\ UNCHANGED <<rows, backend>>

Restart == ~up /\ up' = TRUE /\ UNCHANGED <<client, calls, waiting, queue, taken, rows, backend, failures>>

LoseBackend ==
  /\ backend /\ failures < MaxFailures /\ failures' = failures + 1
  /\ backend' = FALSE
  /\ UNCHANGED <<client, calls, waiting, queue, taken, rows, up>>
RecoverBackend ==
  /\ ~backend /\ backend' = TRUE
  /\ UNCHANGED <<client, calls, waiting, queue, taken, rows, up, failures>>

RelayInit ==
  /\ client = [e \in Envelopes |-> "quiet"]
  /\ calls = [e \in Envelopes |-> [n \in Slots |-> "none"]] /\ waiting = [e \in Envelopes |-> 0]
  /\ queue = <<>> /\ taken = <<>> /\ rows = {}
  /\ up = TRUE /\ backend = TRUE /\ failures = 0

RelayNext ==
  \/ \E e \in Envelopes, n \in Slots :
       Send(e, n) \/ Validate(e, n) \/ Enqueue(e, n) \/ Reply(e, n) \/ TimeOut(e, n)
  \/ Take \/ Insert \/ InsertFails
  \/ Crash \/ Restart \/ LoseBackend \/ RecoverBackend

RelaySpec == RelayInit /\ [][RelayNext]_relayVars

\* The consumer goes on, an insert that is tried without end succeeds when the backend stays,
\* and what has failed is restarted.
FairSpec ==
  /\ RelaySpec
  /\ WF_relayVars(Take) /\ WF_relayVars(Insert) /\ WF_relayVars(Restart) /\ WF_relayVars(RecoverBackend)

-----------------------------------------------------------------------------
(* Properties.                                                             *)
Stages == {"none", "posted", "blocked", "queued"}
Kept(e) == (\E i \in DOMAIN queue : queue[i] = e) \/ taken = <<e>>
Stored(e) == \A r \in Content[e] : \E row \in rows : row.record = r

\* A client waits for the one call it made; the queue holds what it may, and what a crash put
\* back.
RelayTypeOK ==
  /\ \A e \in Envelopes :
       /\ client[e] \in {"quiet", "sent", "acknowledged", "refused"}
       /\ calls[e] \in [Slots -> Stages] /\ waiting[e] \in Slots \cup {0}
       /\ (client[e] = "sent") = (waiting[e] # 0)
       /\ waiting[e] # 0 => calls[e][waiting[e]] # "none"
       /\ \A n \in Slots : calls[e][n] \in {"posted", "queued"} => HasClient(e, n)
  /\ Len(queue) <= QueueRequests + 1 /\ Len(taken) <= 1
  /\ failures \in 0..MaxFailures

\* An acknowledged request is on disk until every record of it can be read, through crashes of
\* the Collector and outages of the backend.
AcknowledgedKept == \A e \in Envelopes : client[e] = "acknowledged" => Kept(e) \/ Stored(e)

\* A request that was refused by validation leaves nothing in the queue or the Resource.
MalformedNowhere ==
  \A e \in Malformed :
    /\ ~Kept(e) /\ client[e] # "acknowledged"
    /\ \A row \in rows : \E wellFormed \in Envelopes \ Malformed : row.record \in Content[wellFormed]

\* No record is read twice: not after a retry of the consumer, a crash before it had removed
\* what it stored, a request sent again after a timeout, or in another envelope.
ReadOnce == \A a, b \in rows : a.record = b.record => a = b

\* All of these: an acknowledged request is on disk until every record of it can be read, a
\* malformed one leaves nothing, and no record is read twice, whatever is retried or crashes.
DeliveredOnce == RelayTypeOK /\ AcknowledgedKept /\ MalformedNowhere /\ ReadOnce

\* The Collector keeps the promise of TelemetryChannel.
Channel ==
  INSTANCE TelemetryChannel WITH
    promised <- {e \in Envelopes : client[e] = "acknowledged"},
    readings <- [r \in Records |-> Cardinality({row \in rows : row.record = r})]
KeepsPromise == Channel!Spec
=============================================================================
