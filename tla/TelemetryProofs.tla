--------------------------- MODULE TelemetryProofs ---------------------------
(***************************************************************************)
(* The safety of the Collector, for any envelopes and records, any queue,  *)
(* any number of open calls and failures: what was acknowledged is on disk *)
(* or can be read, what is malformed is nowhere, nothing is read twice,    *)
(* and every step is one of TelemetryChannel or a stutter.  And of what a  *)
(* record becomes, for any records: its row says what it said, and rows    *)
(* have one identity exactly if their records are equal.                   *)
(***************************************************************************)
EXTENDS TelemetryRelay, TelemetryRecords, RankTheorems, TLAPS, FiniteSetTheorems

WellFormed == Envelopes \ Malformed
Sound(records) == {[identity |-> r, record |-> r] : r \in records}

\* What is on disk, and its room.
DiskInv ==
  /\ queue \in Seq(WellFormed)
  /\ taken = <<>> \/ \E e \in WellFormed : taken = <<e>>

\* What each client and call says.
CallsInv ==
  /\ client \in [Envelopes -> {"quiet", "sent", "acknowledged", "refused"}]
  /\ waiting \in [Envelopes -> Slots \cup {0}]
  /\ calls \in [Envelopes -> [Slots -> Stages]]

\* A call past validation is well-formed, and one past the queue is on disk or stored.
StagesInv ==
  \A e \in Envelopes :
    /\ \A n \in Slots :
         /\ calls[e][n] \in {"blocked", "queued"} => e \in WellFormed
         /\ calls[e][n] = "queued" => Kept(e) \/ Stored(e)
    /\ client[e] = "acknowledged" => e \in WellFormed /\ (Kept(e) \/ Stored(e))

\* A client waits exactly when it has sent.
WaitingInv == \A e \in Envelopes : client[e] = "sent" <=> waiting[e] # 0

\* A call that has not passed the queue, and one that waits for its reply, has its client.
OpenInv ==
  \A e \in Envelopes :
    /\ waiting[e] # 0 => calls[e][waiting[e]] # "none"
    /\ \A n \in Slots : calls[e][n] \in {"posted", "queued"} => waiting[e] = n

\* The consumer makes room for what a crash puts back.
RoomInv == Len(queue) + Len(taken) <= QueueRequests + 1 /\ failures \in 0..MaxFailures

\* A row is a record under its own identity.
RowsInv == rows \subseteq Sound(UNION {Content[e] : e \in WellFormed})

RelayInv == DiskInv /\ CallsInv /\ StagesInv /\ RowsInv

-----------------------------------------------------------------------------
(* Lemmas.                                                                 *)

\* What is kept or stored stays so when the queue and the rows only grow and the consumer keeps
\* what it is at.
LEMMA GrowthKeeps ==
  ASSUME NEW e \in Envelopes, Kept(e) \/ Stored(e),
         rows \subseteq rows', taken' = taken,
         \A i \in DOMAIN queue : i \in DOMAIN queue' /\ queue'[i] = queue[i]
  PROVE  (Kept(e) \/ Stored(e))'
<1>1. CASE Kept(e)
  BY <1>1 DEF Kept
<1>2. CASE Stored(e)
  BY <1>2 DEF Stored
<1> QED BY <1>1, <1>2

\* Rows are only added, one of the records of the envelope that is inserted each.
LEMMA RowsAdded ==
  ASSUME NEW e \in Envelopes, NEW records
  PROVE  RowsOf(e, records) = Sound(records)
BY DEF RowsOf, EvidenceIdentity, Sound

\* The consumer takes the head of the queue, and the rest stays.
LEMMA TakeKeeps ==
  ASSUME RelayInv, Take, NEW e \in Envelopes, Kept(e)
  PROVE  Kept(e)'
<1>1. queue \in Seq(WellFormed) /\ queue # <<>> /\ taken = <<>>
  BY DEF RelayInv, DiskInv, Take
<1>2. queue' = Tail(queue) /\ taken' = <<Head(queue)>>
  BY DEF Take
<1>3. PICK i \in DOMAIN queue : queue[i] = e
  BY <1>1 DEF Kept
<1>4. CASE i = 1
  BY <1>1, <1>2, <1>3, <1>4 DEF Kept
<1>5. CASE i # 1
  <2>1. i - 1 \in DOMAIN Tail(queue) /\ Tail(queue)[i - 1] = e
    BY <1>1, <1>3, <1>5
  <2> QED BY <2>1, <1>2 DEF Kept
<1> QED BY <1>4, <1>5

\* What the consumer was at goes back to the queue.
LEMMA CrashKeeps ==
  ASSUME RelayInv, Crash, NEW e \in Envelopes, Kept(e)
  PROVE  Kept(e)'
<1>1. queue \in Seq(WellFormed)
  BY DEF RelayInv, DiskInv
<1>2. taken \in Seq(WellFormed)
  <2>1. CASE taken = <<>>
    BY <2>1
  <2>2. ASSUME NEW d \in WellFormed, taken = <<d>> PROVE taken \in Seq(WellFormed)
    BY <2>2
  <2> QED BY <2>1, <2>2 DEF RelayInv, DiskInv
<1>3. queue' = queue \o taken
  BY DEF Crash, KeptOnDisk
<1>4. CASE \E i \in DOMAIN queue : queue[i] = e
  <2>1. PICK i \in DOMAIN queue : queue[i] = e
    BY <1>4
  <2>2. i \in DOMAIN (queue \o taken) /\ (queue \o taken)[i] = e
    BY <2>1, <1>1, <1>2
  <2> QED BY <2>2, <1>3 DEF Kept
<1>5. CASE taken = <<e>>
  <2>1. Len(queue) + 1 \in DOMAIN (queue \o taken) /\ (queue \o taken)[Len(queue) + 1] = e
    BY <1>5, <1>1, <1>2
  <2> QED BY <2>1, <1>3 DEF Kept
<1> QED BY <1>4, <1>5 DEF Kept

\* An insert that is answered stores every record of what was taken.
LEMMA InsertStores ==
  ASSUME RelayInv, Insert, NEW e \in Envelopes, Kept(e) \/ Stored(e)
  PROVE  (Kept(e) \/ Stored(e))'
<1>1. queue' = queue /\ taken # <<>> /\ rows' = rows \cup Sound(Content[taken[1]])
  BY DEF Insert, RowsOf, EvidenceIdentity, Sound
<1>2. CASE \E i \in DOMAIN queue : queue[i] = e
  BY <1>1, <1>2 DEF Kept
<1>3. CASE taken = <<e>>
  <2>1. rows' = rows \cup Sound(Content[e])
    BY <1>1, <1>3
  <2>2. ASSUME NEW r \in Content[e] PROVE \E row \in rows' : row.record = r
    <3> DEFINE row == [identity |-> r, record |-> r]
    <3>1. row \in rows' /\ row.record = r
      BY <2>1 DEF Sound
    <3> QED BY <3>1
  <2> QED BY <2>2 DEF Stored
<1>4. CASE Stored(e)
  BY <1>1, <1>4 DEF Stored
<1> QED BY <1>2, <1>3, <1>4 DEF Kept

\* A request that got room is on disk.
LEMMA EnqueueKeeps ==
  ASSUME RelayInv, NEW e \in Envelopes, NEW n \in Slots, Enqueue(e, n)
  PROVE  /\ Kept(e)'
         /\ queue' \in Seq(WellFormed)
         /\ \A i \in DOMAIN queue : i \in DOMAIN queue' /\ queue'[i] = queue[i]
<1>1. queue \in Seq(WellFormed) /\ e \in WellFormed /\ queue' = Append(queue, e)
  BY DEF RelayInv, DiskInv, StagesInv, Enqueue
<1>2. Len(queue) + 1 \in DOMAIN queue' /\ queue'[Len(queue) + 1] = e
  BY <1>1
<1>3. \A i \in DOMAIN queue : i \in DOMAIN queue' /\ queue'[i] = queue[i]
  BY <1>1
<1> QED BY <1>1, <1>2, <1>3 DEF Kept

-----------------------------------------------------------------------------
(* The invariant.                                                          *)
LEMMA InitInv == RelayInit => RelayInv
<1> SUFFICES ASSUME RelayInit PROVE RelayInv
  OBVIOUS
<1>1. DiskInv
  BY DEF RelayInit, DiskInv
<1>2. CallsInv
  BY DEF RelayInit, CallsInv, Stages
<1>3. StagesInv
  BY DEF RelayInit, StagesInv
<1>4. RowsInv
  BY DEF RelayInit, RowsInv
<1> QED BY <1>1, <1>2, <1>3, <1>4 DEF RelayInv

\* Rows are only added, under the identity of their record.
LEMMA InsertsAreSound ==
  ASSUME RelayInv, Insert \/ InsertFails
  PROVE  /\ taken # <<>> /\ rows \subseteq rows' /\ RowsInv'
<1>1. PICK e \in WellFormed : taken = <<e>>
  BY DEF RelayInv, DiskInv, Insert, InsertFails
<1>2. PICK stored \in SUBSET Content[e] : rows' = rows \cup Sound(stored)
  <2>1. CASE Insert
    BY <2>1, <1>1 DEF Insert, RowsOf, EvidenceIdentity, Sound
  <2>2. CASE InsertFails
    BY <2>2, <1>1 DEF InsertFails, RowsOf, EvidenceIdentity, Sound
  <2> QED BY <2>1, <2>2
<1>3. Sound(stored) \subseteq Sound(UNION {Content[d] : d \in WellFormed})
  BY <1>2 DEF Sound
<1> QED BY <1>1, <1>2, <1>3 DEF RelayInv, RowsInv

LEMMA NextInv == RelayInv /\ [RelayNext]_relayVars => RelayInv'
<1> SUFFICES ASSUME RelayInv, [RelayNext]_relayVars PROVE RelayInv'
  OBVIOUS
<1>a. DiskInv /\ CallsInv /\ StagesInv /\ RowsInv
  BY DEF RelayInv
<1>1. ASSUME NEW e \in Envelopes, NEW n \in Slots, Send(e, n) PROVE RelayInv'
  <2>1. DiskInv' /\ RowsInv'
    BY <1>a, <1>1 DEF Send, DiskInv, RowsInv
  <2>2. CallsInv'
    BY <1>a, <1>1 DEF Send, SetCall, CallsInv, Stages
  <2>3. StagesInv'
    BY <1>a, <1>1 DEF Send, SetCall, CallsInv, StagesInv, Kept, Stored
  <2> QED BY <2>1, <2>2, <2>3 DEF RelayInv
<1>2. ASSUME NEW e \in Envelopes, NEW n \in Slots, Validate(e, n) PROVE RelayInv'
  <2>1. DiskInv' /\ RowsInv'
    BY <1>a, <1>2 DEF Validate, DiskInv, RowsInv
  <2>2. CallsInv'
    <3>1. \/ calls' = [calls EXCEPT ![e][n] = "none"]
          \/ calls' = [calls EXCEPT ![e][n] = "blocked"]
      BY <1>2 DEF Validate, SetCall
    <3>2. calls' \in [Envelopes -> [Slots -> Stages]]
      BY <1>a, <3>1 DEF CallsInv, Stages
    <3>3. \/ client' = [client EXCEPT ![e] = "refused"] /\ waiting' = [waiting EXCEPT ![e] = 0]
          \/ client' = client /\ waiting' = waiting
      BY <1>2 DEF Validate, Forget
    <3> QED BY <1>a, <3>2, <3>3 DEF CallsInv
  <2>3. StagesInv'
    BY <1>a, <1>2 DEF Validate, SetCall, Forget, CallsInv, StagesInv, Kept, Stored, WellFormed
  <2> QED BY <2>1, <2>2, <2>3 DEF RelayInv
<1>3. ASSUME NEW e \in Envelopes, NEW n \in Slots, Enqueue(e, n) PROVE RelayInv'
  <2>1. /\ Kept(e)' /\ queue' \in Seq(WellFormed)
        /\ \A i \in DOMAIN queue : i \in DOMAIN queue' /\ queue'[i] = queue[i]
    BY <1>3, EnqueueKeeps
  <2>2. DiskInv' /\ RowsInv'
    BY <1>a, <1>3, <2>1 DEF Enqueue, DiskInv, RowsInv
  <2>3. CallsInv'
    BY <1>a, <1>3 DEF Enqueue, SetCall, CallsInv, Stages
  <2>4. rows' = rows /\ taken' = taken
    BY <1>3 DEF Enqueue
  <2>5. \A d \in Envelopes : Kept(d) \/ Stored(d) => (Kept(d) \/ Stored(d))'
    BY <2>1, <2>4, GrowthKeeps
  <2>6. StagesInv'
    BY <1>a, <1>3, <2>1, <2>5 DEF Enqueue, SetCall, CallsInv, StagesInv
  <2> QED BY <2>2, <2>3, <2>6 DEF RelayInv
<1>4. ASSUME NEW e \in Envelopes, NEW n \in Slots, Reply(e, n) PROVE RelayInv'
  <2>1. DiskInv' /\ RowsInv'
    BY <1>a, <1>4 DEF Reply, DiskInv, RowsInv
  <2>2. CallsInv'
    BY <1>a, <1>4 DEF Reply, SetCall, Forget, CallsInv, Stages
  <2>3. StagesInv'
    BY <1>a, <1>4 DEF Reply, SetCall, Forget, CallsInv, StagesInv, Kept, Stored
  <2> QED BY <2>1, <2>2, <2>3 DEF RelayInv
<1>5. ASSUME NEW e \in Envelopes, NEW n \in Slots, TimeOut(e, n) PROVE RelayInv'
  <2>1. DiskInv' /\ RowsInv'
    BY <1>a, <1>5 DEF TimeOut, DiskInv, RowsInv
  <2>2. CallsInv'
    <3>1. client' = [client EXCEPT ![e] = "refused"] /\ waiting' = [waiting EXCEPT ![e] = 0]
      BY <1>5 DEF TimeOut, Forget
    <3>2. calls' = [calls EXCEPT ![e][n] = "none"] \/ calls' = calls
      BY <1>5 DEF TimeOut, SetCall
    <3>3. calls' \in [Envelopes -> [Slots -> Stages]]
      BY <1>a, <3>2 DEF CallsInv, Stages
    <3> QED BY <1>a, <3>1, <3>3 DEF CallsInv
  <2>3. StagesInv'
    BY <1>a, <1>5 DEF TimeOut, SetCall, Forget, CallsInv, StagesInv, Kept, Stored
  <2> QED BY <2>1, <2>2, <2>3 DEF RelayInv
<1>6. CASE Take
  <2>1. queue # <<>> /\ queue' = Tail(queue) /\ taken' = <<Head(queue)>> /\ rows' = rows
        /\ client' = client /\ calls' = calls /\ waiting' = waiting
    BY <1>6 DEF Take
  <2>2. DiskInv'
    BY <1>a, <2>1 DEF DiskInv
  <2>3. \A d \in Envelopes : Kept(d) \/ Stored(d) => (Kept(d) \/ Stored(d))'
    BY <1>6, <2>1, TakeKeeps DEF Stored
  <2> QED BY <1>a, <2>1, <2>2, <2>3 DEF RelayInv, CallsInv, StagesInv, RowsInv
<1>7. CASE Insert
  <2>1. queue' = queue /\ taken' = <<>> /\ client' = client /\ calls' = calls /\ waiting' = waiting
    BY <1>7 DEF Insert
  <2>2. DiskInv' /\ CallsInv'
    BY <1>a, <2>1 DEF DiskInv, CallsInv
  <2>3. \A d \in Envelopes : Kept(d) \/ Stored(d) => (Kept(d) \/ Stored(d))'
    BY <1>7, InsertStores
  <2>4. StagesInv'
    BY <1>a, <2>1, <2>3 DEF StagesInv
  <2> QED BY <2>2, <2>4, <1>7, InsertsAreSound DEF RelayInv
<1>8. CASE InsertFails
  <2>1. /\ queue' = queue /\ taken' = taken /\ client' = client /\ calls' = calls /\ waiting' = waiting
        /\ rows \subseteq rows' /\ RowsInv'
    BY <1>8, InsertsAreSound DEF InsertFails
  <2>2. DiskInv' /\ CallsInv'
    BY <1>a, <2>1 DEF DiskInv, CallsInv
  <2>3. \A d \in Envelopes : Kept(d) \/ Stored(d) => (Kept(d) \/ Stored(d))'
    BY <2>1, GrowthKeeps
  <2>4. StagesInv'
    BY <1>a, <2>1, <2>3 DEF StagesInv
  <2> QED BY <2>1, <2>2, <2>4 DEF RelayInv
<1>9. CASE Crash
  <2>1. /\ queue' = queue \o taken /\ taken' = <<>> /\ rows' = rows
        /\ calls' = [e \in Envelopes |-> [n \in Slots |-> "none"]]
        /\ waiting' = [e \in Envelopes |-> 0]
        /\ client' = [e \in Envelopes |-> IF client[e] = "sent" THEN "refused" ELSE client[e]]
    BY <1>9 DEF Crash, KeptOnDisk
  <2>2. DiskInv'
    <3>1. CASE taken = <<>>
      BY <1>a, <2>1, <3>1 DEF DiskInv
    <3>2. ASSUME NEW d \in WellFormed, taken = <<d>> PROVE DiskInv'
      BY <1>a, <2>1, <3>2 DEF DiskInv
    <3> QED BY <1>a, <3>1, <3>2 DEF DiskInv
  <2>3. CallsInv'
    BY <1>a, <2>1 DEF CallsInv, Stages
  <2>4. \A d \in Envelopes : Kept(d) \/ Stored(d) => (Kept(d) \/ Stored(d))'
    BY <1>9, <2>1, CrashKeeps DEF Stored
  <2>5. StagesInv'
    BY <1>a, <2>1, <2>4 DEF StagesInv, CallsInv
  <2> QED BY <1>a, <2>1, <2>2, <2>3, <2>5 DEF RelayInv, RowsInv
<1>10. CASE Restart \/ LoseBackend \/ RecoverBackend \/ UNCHANGED relayVars
  <2>1. UNCHANGED <<client, calls, waiting, queue, taken, rows>>
    BY <1>10 DEF Restart, LoseBackend, RecoverBackend, relayVars
  <2> QED BY <1>a, <2>1 DEF RelayInv, DiskInv, CallsInv, StagesInv, RowsInv, Kept, Stored
<1> QED
  BY <1>1, <1>2, <1>3, <1>4, <1>5, <1>6, <1>7, <1>8, <1>9, <1>10 DEF RelayNext

-----------------------------------------------------------------------------
(* Theorems.                                                               *)

\* The invariant holds of every Collector.
THEOREM RelayInvariant == RelaySpec => []RelayInv
<1>1. RelayInit => RelayInv
  BY InitInv
<1>2. RelayInv /\ [RelayNext]_relayVars => RelayInv'
  BY NextInv
<1> QED BY <1>1, <1>2, PTL DEF RelaySpec

-----------------------------------------------------------------------------
(* Clients and room.                                                       *)
LEMMA WaitingInit == RelayInit => WaitingInv
BY DEF RelayInit, WaitingInv

LEMMA WaitingNext == CallsInv /\ WaitingInv /\ [RelayNext]_relayVars => WaitingInv'
<1> SUFFICES ASSUME CallsInv, WaitingInv, [RelayNext]_relayVars PROVE WaitingInv'
  OBVIOUS
<1>1. ASSUME NEW e \in Envelopes, NEW n \in Slots, Send(e, n) PROVE WaitingInv'
  <2>1. n # 0
    BY DEF Slots
  <2> QED BY <1>1, <2>1 DEF Send, CallsInv, WaitingInv
<1>2. ASSUME NEW e \in Envelopes, NEW state \in {"refused", "acknowledged"}, Forget(e, state) PROVE WaitingInv'
  BY <1>2 DEF Forget, CallsInv, WaitingInv
<1>3. ASSUME NEW e \in Envelopes, NEW n \in Slots, Validate(e, n) \/ Reply(e, n) \/ TimeOut(e, n)
      PROVE  WaitingInv'
  <2>1. Forget(e, "refused") \/ Forget(e, "acknowledged") \/ UNCHANGED <<client, waiting>>
    BY <1>3 DEF Validate, Reply, TimeOut
  <2> QED BY <2>1, <1>2 DEF WaitingInv
<1>4. CASE Crash
  BY <1>4 DEF Crash, CallsInv, WaitingInv
<1>5. ASSUME UNCHANGED <<client, waiting>> PROVE WaitingInv'
  BY <1>5 DEF WaitingInv
<1>6. CASE \/ \E e \in Envelopes, n \in Slots : Enqueue(e, n)
           \/ Take \/ Insert \/ InsertFails \/ Restart \/ LoseBackend \/ RecoverBackend \/ UNCHANGED relayVars
  BY <1>5, <1>6 DEF Enqueue, Take, Insert, InsertFails, Restart, LoseBackend, RecoverBackend, relayVars
<1> QED BY <1>1, <1>3, <1>4, <1>6 DEF RelayNext

LEMMA OpenInit == RelayInit => OpenInv
BY DEF RelayInit, OpenInv

LEMMA OpenNext == CallsInv /\ WaitingInv /\ OpenInv /\ [RelayNext]_relayVars => OpenInv'
<1> SUFFICES ASSUME CallsInv, WaitingInv, OpenInv, [RelayNext]_relayVars PROVE OpenInv'
  OBVIOUS
<1>0. \A n \in Slots : n # 0
  BY DEF Slots
<1>1. ASSUME NEW e \in Envelopes, NEW n \in Slots, Send(e, n) PROVE OpenInv'
  <2>1. waiting[e] = 0
    BY <1>1 DEF Send, WaitingInv
  <2> QED BY <1>0, <1>1, <2>1 DEF Send, SetCall, CallsInv, OpenInv
<1>2. ASSUME NEW e \in Envelopes, NEW n \in Slots, Validate(e, n) PROVE OpenInv'
  <2>1. waiting[e] = n
    BY <1>2 DEF Validate, OpenInv
  <2>2. CASE e \in Malformed
    BY <1>0, <1>2, <2>1, <2>2 DEF Validate, SetCall, Forget, CallsInv, OpenInv
  <2>3. CASE e \notin Malformed
    BY <1>0, <1>2, <2>1, <2>3 DEF Validate, SetCall, CallsInv, OpenInv
  <2> QED BY <2>2, <2>3
<1>3. ASSUME NEW e \in Envelopes, NEW n \in Slots, Enqueue(e, n) PROVE OpenInv'
  BY <1>0, <1>3 DEF Enqueue, SetCall, HasClient, CallsInv, OpenInv
<1>4. ASSUME NEW e \in Envelopes, NEW n \in Slots, Reply(e, n) PROVE OpenInv'
  BY <1>0, <1>4 DEF Reply, SetCall, Forget, HasClient, CallsInv, OpenInv
<1>5. ASSUME NEW e \in Envelopes, NEW n \in Slots, TimeOut(e, n) PROVE OpenInv'
  <2>1. waiting[e] = n /\ waiting' = [waiting EXCEPT ![e] = 0]
    BY <1>5 DEF TimeOut, HasClient, Forget
  <2>2. CASE calls' = [calls EXCEPT ![e][n] = "none"]
    BY <1>0, <2>1, <2>2 DEF CallsInv, OpenInv
  <2>3. CASE calls[e][n] = "blocked" /\ calls' = calls
    BY <1>0, <2>1, <2>3 DEF CallsInv, OpenInv
  <2> QED BY <1>5, <2>2, <2>3 DEF TimeOut, SetCall
<1>6. CASE Crash
  BY <1>6 DEF Crash, OpenInv
<1>7. CASE Take \/ Insert \/ InsertFails \/ Restart \/ LoseBackend \/ RecoverBackend \/ UNCHANGED relayVars
  <2>1. UNCHANGED <<calls, waiting>>
    BY <1>7 DEF Take, Insert, InsertFails, Restart, LoseBackend, RecoverBackend, relayVars
  <2> QED BY <2>1 DEF OpenInv
<1> QED BY <1>1, <1>2, <1>3, <1>4, <1>5, <1>6, <1>7 DEF RelayNext

LEMMA RoomOfBoth ==
  ASSUME NEW m \in Nat, NEW n \in Nat, NEW room \in Nat, m + n <= room
  PROVE  m <= room /\ m + 0 <= room
OBVIOUS

LEMMA RoomInit == RelayInit => RoomInv
BY RelayAssumption DEF RelayInit, RoomInv

LEMMA RoomNext == DiskInv /\ RoomInv /\ [RelayNext]_relayVars => RoomInv'
<1> SUFFICES ASSUME DiskInv, RoomInv, [RelayNext]_relayVars PROVE RoomInv'
  OBVIOUS
<1>0. queue \in Seq(WellFormed) /\ taken \in Seq(WellFormed) /\ Len(taken) \in 0..1
  <2>1. ASSUME NEW e \in WellFormed, taken = <<e>> PROVE taken \in Seq(WellFormed) /\ Len(taken) = 1
    BY <2>1
  <2>2. CASE taken = <<>>
    BY <2>2 DEF DiskInv
  <2> QED BY <2>1, <2>2 DEF DiskInv
<1>1. ASSUME NEW e \in Envelopes, NEW n \in Slots, Enqueue(e, n) PROVE RoomInv'
  <2>1. queue' = Append(queue, e) /\ Len(queue) < QueueRequests /\ UNCHANGED <<taken, failures>>
    BY <1>1 DEF Enqueue
  <2> DEFINE m == Len(queue)
             p == Len(taken)
  <2>2. m \in Nat /\ p \in 0..1 /\ QueueRequests \in Nat /\ m < QueueRequests
    BY <1>0, <2>1, RelayAssumption
  <2>3. Len(queue') = m + 1 /\ Len(taken') = p
    BY <1>0, <2>1
  <2>4. Len(queue') + Len(taken') <= QueueRequests + 1
    <3> HIDE DEF m, p
    <3> QED BY <2>2, <2>3
  <2> QED BY <2>1, <2>4 DEF RoomInv
<1>2. CASE Take
  <2>1. queue # <<>> /\ taken = <<>> /\ queue' = Tail(queue) /\ taken' = <<Head(queue)>> /\ failures' = failures
    BY <1>2 DEF Take
  <2>2. Len(queue') = Len(queue) - 1 /\ Len(taken') = 1 /\ Len(taken) = 0
    BY <1>0, <2>1
  <2> QED BY <1>0, <2>1, <2>2, RelayAssumption DEF RoomInv
<1>3. CASE Insert
  <2>1. queue' = queue /\ taken' = <<>> /\ failures' = failures
    BY <1>3 DEF Insert
  <2> DEFINE m == Len(queue)
             n == Len(taken)
             room == QueueRequests + 1
  <2>2. m \in Nat /\ n \in Nat /\ room \in Nat /\ m + n <= room
    BY <1>0, RelayAssumption DEF RoomInv
  <2>3. m + 0 <= room
    <3> HIDE DEF m, n, room
    <3> QED BY <2>2, RoomOfBoth
  <2>4. Len(queue') = m /\ Len(taken') = 0
    BY <2>1
  <2> QED BY <2>1, <2>3, <2>4 DEF RoomInv
<1>4. CASE Crash
  <2>1. queue' = queue \o taken /\ taken' = <<>> /\ failures < MaxFailures /\ failures' = failures + 1
    BY <1>4 DEF Crash, KeptOnDisk
  <2> DEFINE m == Len(queue)
             n == Len(taken)
             room == QueueRequests + 1
  <2>2. m \in Nat /\ n \in Nat /\ room \in Nat /\ m + n <= room
    BY <1>0, RelayAssumption DEF RoomInv
  <2>3. Len(queue') = m + n /\ Len(taken') = 0
    BY <1>0, <2>1
  <2>4. Len(queue') + Len(taken') <= room
    <3> HIDE DEF m, n, room
    <3> QED BY <2>2, <2>3
  <2>5. failures' \in 0..MaxFailures
    BY <2>1, RelayAssumption DEF RoomInv
  <2> QED BY <2>4, <2>5 DEF RoomInv
<1>5. CASE LoseBackend
  BY <1>5, RelayAssumption DEF LoseBackend, RoomInv
<1>6. CASE \/ \E e \in Envelopes, n \in Slots : Send(e, n) \/ Validate(e, n) \/ Reply(e, n) \/ TimeOut(e, n)
           \/ InsertFails \/ Restart \/ RecoverBackend \/ UNCHANGED relayVars
  <2>1. UNCHANGED <<queue, taken, failures>>
    BY <1>6 DEF Send, Validate, Reply, TimeOut, InsertFails, Restart, RecoverBackend, relayVars
  <2> QED BY <2>1 DEF RoomInv
<1> QED BY <1>1, <1>2, <1>3, <1>4, <1>5, <1>6 DEF RelayNext

\* A client waits for the one call it made, and the queue holds no more than it may and what a
\* crash puts back.
LEMMA RelayTyped == RelayInv /\ WaitingInv /\ OpenInv /\ RoomInv => RelayTypeOK
<1> SUFFICES ASSUME RelayInv, WaitingInv, OpenInv, RoomInv PROVE RelayTypeOK
  OBVIOUS
<1>1. ASSUME NEW e \in Envelopes
      PROVE  /\ client[e] \in {"quiet", "sent", "acknowledged", "refused"}
             /\ calls[e] \in [Slots -> Stages] /\ waiting[e] \in Slots \cup {0}
             /\ (client[e] = "sent") = (waiting[e] # 0)
             /\ waiting[e] # 0 => calls[e][waiting[e]] # "none"
             /\ \A n \in Slots : calls[e][n] \in {"posted", "queued"} => HasClient(e, n)
  BY DEF RelayInv, CallsInv, WaitingInv, OpenInv, HasClient
<1>2. Len(queue) \in Nat /\ Len(taken) \in 0..1
  <2>1. queue \in Seq(WellFormed)
    BY DEF RelayInv, DiskInv
  <2>2. ASSUME NEW e \in WellFormed, taken = <<e>> PROVE Len(taken) = 1
    BY <2>2
  <2>3. CASE taken = <<>>
    BY <2>1, <2>3
  <2> QED BY <2>1, <2>2, <2>3 DEF RelayInv, DiskInv
<1>3. Len(queue) <= QueueRequests + 1 /\ Len(taken) <= 1 /\ failures \in 0..MaxFailures
  <2> DEFINE m == Len(queue)
             n == Len(taken)
             room == QueueRequests + 1
  <2>1. m \in Nat /\ n \in 0..1 /\ n \in Nat /\ room \in Nat /\ m + n <= room
    BY <1>2, RelayAssumption DEF RoomInv
  <2> HIDE DEF m, n, room
  <2>2. m <= room /\ n <= 1
    BY <2>1, RoomOfBoth
  <2> QED BY <2>2 DEF m, n, room, RoomInv
<1> QED BY <1>1, <1>3 DEF RelayTypeOK

-----------------------------------------------------------------------------
(* Delivery.                                                               *)

LEMMA MalformedNever == RelayInv => MalformedNowhere
<1> SUFFICES ASSUME RelayInv PROVE MalformedNowhere
  OBVIOUS
<1>1. ASSUME NEW e \in Malformed PROVE ~Kept(e)
  <2>1. \A i \in DOMAIN queue : queue[i] \in WellFormed
    BY DEF RelayInv, DiskInv
  <2>2. taken # <<e>>
    BY <1>1 DEF RelayInv, DiskInv, WellFormed
  <2> QED BY <1>1, <2>1, <2>2 DEF Kept, WellFormed
<1>2. ASSUME NEW e \in Malformed PROVE client[e] # "acknowledged"
  BY <1>2, RelayAssumption DEF RelayInv, StagesInv, CallsInv, WellFormed, Envelopes
<1>3. ASSUME NEW row \in rows PROVE \E e \in WellFormed : row.record \in Content[e]
  BY <1>3 DEF RelayInv, RowsInv, Sound
<1> QED BY <1>1, <1>2, <1>3 DEF MalformedNowhere, WellFormed

\* Whatever crashes, times out or is sent again, and however often: a client waits for the one
\* call it made; what was acknowledged is on disk until every record of it can be read; what
\* validation refuses is never acknowledged, queued or read; and no record is read twice
\* (exporters/clickhouse/index.ts, the durable queue and its retries).
THEOREM EveryRecordOnce == RelaySpec => []DeliveredOnce
<1>1. RelayInv => AcknowledgedKept /\ ReadOnce
  BY DEF RelayInv, StagesInv, RowsInv, Sound, AcknowledgedKept, ReadOnce
<1>2. RelayInv /\ WaitingInv /\ OpenInv /\ RoomInv => DeliveredOnce
  BY <1>1, MalformedNever, RelayTyped DEF DeliveredOnce
<1>3. RelayInv /\ WaitingInv /\ OpenInv /\ RoomInv /\ [RelayNext]_relayVars => WaitingInv' /\ OpenInv' /\ RoomInv'
  BY WaitingNext, OpenNext, RoomNext DEF RelayInv
<1> QED BY <1>2, <1>3, RelayInvariant, WaitingInit, OpenInit, RoomInit, PTL DEF RelaySpec

-----------------------------------------------------------------------------
(* Refinement.                                                             *)
Promised == {e \in Envelopes : client[e] = "acknowledged"}
ReadingsIn(S) == [r \in Records |-> Cardinality({row \in S : row.record = r})]

\* A record is read once if its row is there, and not at all otherwise.
LEMMA CountOfRows ==
  ASSUME NEW R, NEW S, S \subseteq Sound(R), NEW r
  PROVE  Cardinality({row \in S : row.record = r}) = IF [identity |-> r, record |-> r] \in S THEN 1 ELSE 0
<1> DEFINE mine == [identity |-> r, record |-> r]
<1>1. CASE mine \in S
  <2>1. {row \in S : row.record = r} = {mine}
    BY <1>1 DEF Sound
  <2> QED BY <1>1, <2>1, FS_Singleton
<1>2. CASE mine \notin S
  <2>1. {row \in S : row.record = r} = {}
    BY <1>2 DEF Sound
  <2> QED BY <1>2, <2>1, FS_EmptySet
<1> QED BY <1>1, <1>2

\* Records of a request that are stored can be read once, and the others as often as before.
LEMMA StoredIsShown ==
  ASSUME NEW R, NEW S, S \subseteq Sound(R), NEW stored \in SUBSET R
  PROVE  ReadingsIn(S \cup Sound(stored)) = [r \in Records |-> IF r \in stored THEN 1 ELSE ReadingsIn(S)[r]]
<1>1. S \cup Sound(stored) \subseteq Sound(R)
  BY DEF Sound
<1>2. ASSUME NEW r \in Records
      PROVE  Cardinality({row \in S \cup Sound(stored) : row.record = r})
               = IF r \in stored THEN 1 ELSE ReadingsIn(S)[r]
  <2> DEFINE mine == [identity |-> r, record |-> r]
  <2>1. mine \in Sound(stored) <=> r \in stored
    BY DEF Sound
  <2>2. ReadingsIn(S)[r] = IF mine \in S THEN 1 ELSE 0
    BY CountOfRows DEF ReadingsIn
  <2>3. \A T \in SUBSET Sound(R) : Cardinality({row \in T : row.record = r}) = IF mine \in T THEN 1 ELSE 0
    BY CountOfRows
  <2>4. Cardinality({row \in S \cup Sound(stored) : row.record = r}) = IF mine \in S \cup Sound(stored) THEN 1 ELSE 0
    BY <1>1, <2>3
  <2> QED BY <2>1, <2>2, <2>4
<1> QED BY <1>2 DEF ReadingsIn

\* An insert, whether it is answered or not, shows some records of the request that was taken.
LEMMA InsertShows ==
  ASSUME RelayInv, Insert \/ InsertFails
  PROVE  Channel!Next
<1>1. PICK e \in WellFormed : taken = <<e>>
  BY DEF RelayInv, DiskInv, Insert, InsertFails
<1>2. PICK stored \in SUBSET Content[e] : rows' = rows \cup Sound(stored)
  <2>1. CASE Insert
    BY <2>1, <1>1 DEF Insert, RowsOf, EvidenceIdentity, Sound
  <2>2. CASE InsertFails
    BY <2>2, <1>1 DEF InsertFails, RowsOf, EvidenceIdentity, Sound
  <2> QED BY <2>1, <2>2
<1> DEFINE R == UNION {Content[d] : d \in WellFormed}
<1>3. rows \subseteq Sound(R) /\ stored \in SUBSET R
  BY <1>2 DEF RelayInv, RowsInv
<1>4. ReadingsIn(rows') = [r \in Records |-> IF r \in stored THEN 1 ELSE ReadingsIn(rows)[r]]
  <2> HIDE DEF R
  <2>1. ReadingsIn(rows \cup Sound(stored)) = [r \in Records |-> IF r \in stored THEN 1 ELSE ReadingsIn(rows)[r]]
    BY <1>3, StoredIsShown
  <2> QED BY <2>1, <1>2
<1>5. Promised' = Promised
  BY DEF Insert, InsertFails, Promised
<1>6. Channel!Show(e)
  BY <1>1, <1>2, <1>4, <1>5
     DEF Channel!Show, Channel!WellFormed, Channel!Envelopes, Channel!Records, ReadingsIn, Promised, WellFormed,
         Envelopes, Records
<1> QED BY <1>6, <1>1 DEF Channel!Next, Channel!Envelopes, WellFormed, Envelopes

LEMMA ChannelInit == RelayInit => Channel!Init
<1> SUFFICES ASSUME RelayInit PROVE Channel!Init
  OBVIOUS
<1>1. \A r \in Records : Cardinality({row \in rows : row.record = r}) = 0
  BY FS_EmptySet DEF RelayInit
<1>2. Promised = {}
  BY DEF RelayInit, Promised
<1> QED BY <1>1, <1>2 DEF Channel!Init, Channel!Records, Channel!Envelopes, Promised, Records, Envelopes

LEMMA ChannelStep == RelayInv /\ WaitingInv /\ [RelayNext]_relayVars => [Channel!Next]_Channel!vars
<1> SUFFICES ASSUME RelayInv, WaitingInv, [RelayNext]_relayVars PROVE [Channel!Next]_Channel!vars
  OBVIOUS
<1>1. ASSUME Promised' = Promised, rows' = rows PROVE UNCHANGED Channel!vars
  BY <1>1 DEF Channel!vars, Promised, Records
<1>2. ASSUME NEW e \in Envelopes, NEW n \in Slots, Send(e, n) PROVE Promised' = Promised /\ rows' = rows
  BY <1>2 DEF Send, Promised, RelayInv, CallsInv
<1>3. ASSUME NEW e \in Envelopes, NEW n \in Slots, Validate(e, n) PROVE Promised' = Promised /\ rows' = rows
  BY <1>3 DEF Validate, Forget, Promised, RelayInv, CallsInv, StagesInv, WellFormed
<1>4. ASSUME NEW e \in Envelopes, NEW n \in Slots, TimeOut(e, n) PROVE Promised' = Promised /\ rows' = rows
  <2>1. n # 0
    BY DEF Slots
  <2>2. client[e] = "sent"
    BY <1>4, <2>1 DEF TimeOut, HasClient, WaitingInv
  <2> QED BY <1>4, <2>2 DEF TimeOut, Forget, Promised, RelayInv, CallsInv
<1>5. ASSUME NEW e \in Envelopes, NEW n \in Slots, Reply(e, n) PROVE Channel!Next
  <2>1. Promised' = Promised \cup {e} /\ rows' = rows
    BY <1>5 DEF Reply, Forget, Promised, RelayInv, CallsInv
  <2>2. e \in WellFormed
    BY <1>5 DEF Reply, RelayInv, StagesInv
  <2>3. Channel!Promise(e)
    BY <2>1, <2>2 DEF Channel!Promise, Channel!WellFormed, Channel!Envelopes, Promised, WellFormed, Envelopes, Records
  <2> QED BY <2>3, <2>2 DEF Channel!Next, Channel!Envelopes, WellFormed, Envelopes
<1>6. CASE Crash
  BY <1>6, <1>1 DEF Crash, Promised, RelayInv, CallsInv
<1>7. CASE \/ \E e \in Envelopes, n \in Slots : Enqueue(e, n)
           \/ Take \/ Restart \/ LoseBackend \/ RecoverBackend \/ UNCHANGED relayVars
  BY <1>7, <1>1 DEF Enqueue, Take, Restart, LoseBackend, RecoverBackend, relayVars, Promised
<1>8. CASE Insert \/ InsertFails
  BY <1>8, InsertShows
<1> QED BY <1>1, <1>2, <1>3, <1>4, <1>5, <1>6, <1>7, <1>8 DEF RelayNext

\* The Collector keeps the safe part of the promise of TelemetryChannel: it acknowledges only what
\* is well-formed and shows records once, whatever crashes, times out or is sent again.
THEOREM RelayKeepsThePromise == RelaySpec => Channel!Safely
<1>1. RelayInv /\ WaitingInv /\ [RelayNext]_relayVars => WaitingInv'
  BY WaitingNext DEF RelayInv
<1>2. RelayInv /\ WaitingInv /\ [RelayNext]_relayVars => [Channel!Next]_Channel!vars
  BY ChannelStep
<1> QED BY <1>1, <1>2, WaitingInit, ChannelInit, RelayInvariant, PTL DEF RelaySpec, Channel!Safely

-----------------------------------------------------------------------------
(***************************************************************************)
(* Records: sorted entries.  Entries with a key each, no two of one key,   *)
(* are sorted to one list, whatever their order was.                       *)
(***************************************************************************)
IsKeyed(list) ==
  /\ Len(list) \in Nat /\ DOMAIN list = 1..Len(list)
  /\ \A i \in DOMAIN list : list[i].key \in DOMAIN KeyPlace
  /\ \A i, j \in DOMAIN list : list[i].key = list[j].key => i = j
Weight(list) == [x \in Range(list) |-> KeyPlace[x.key]]

LEMMA KeySortedOrders ==
  ASSUME NEW list, IsKeyed(list), NEW s, s = KeySorted(list), NEW n, n = Len(list)
  PROVE  /\ n \in Nat /\ s = [k \in 1..n |-> s[k]]
         /\ Held(s, n) = Range(list) /\ Increasing(s, n, Weight(list))
<1>1. n \in Nat /\ DOMAIN list = 1..n
  BY DEF IsKeyed
<1> DEFINE place == [i \in 1..n |-> KeyPlace[list[i].key]]
           p(j) == Cardinality({i \in 1..n : \/ KeyPlace[list[i].key] < KeyPlace[list[j].key]
                                             \/ KeyPlace[list[i].key] = KeyPlace[list[j].key] /\ i <= j})
           q(j) == StableRank(place, n, j)
<1>2. place \in [1..n -> Int]
  BY <1>1, RecordsAssumption DEF IsKeyed
<1>3. s = [k \in 1..n |-> list[CHOOSE j \in 1..n : p(j) = k]]
  BY <1>1 DEF KeySorted
<1>4. ASSUME NEW j \in 1..n PROVE p(j) = q(j)
  <2>1. {i \in 1..n : \/ KeyPlace[list[i].key] < KeyPlace[list[j].key]
                      \/ KeyPlace[list[i].key] = KeyPlace[list[j].key] /\ i <= j}
        = {i \in 1..n : place[i] < place[j] \/ (place[i] = place[j] /\ i <= j)}
    OBVIOUS
  <2> QED BY <2>1 DEF StableRank
<1> HIDE DEF p, q
<1>5. \A k \in 1..n : (CHOOSE j \in 1..n : p(j) = k) = AtRank(place, n, k)
  <2> TAKE k \in 1..n
  <2>1. (CHOOSE j \in 1..n : p(j) = k) = (CHOOSE j \in 1..n : q(j) = k)
    BY <1>4
  <2> QED BY <2>1 DEF AtRank, q
<1>6. s = [k \in 1..n |-> s[k]] /\ \A k \in 1..n : s[k] = list[AtRank(place, n, k)]
  BY <1>3, <1>5
<1>7. \A i, j \in 1..n : place[i] = place[j] => i = j
  BY <1>1, RecordsAssumption DEF IsKeyed
<1>8. \A i \in 1..n : list[i] \in Range(list) /\ Weight(list)[list[i]] = place[i]
  BY <1>1 DEF Weight, Range
<1> HIDE DEF place
<1>9. InOrderOf(s, list, place)
  BY <1>1, <1>2, <1>6, SortedList
<1>10. PICK pick \in [1..n -> 1..n] :
         /\ \A k \in 1..n : s[k] = list[pick[k]]
         /\ \A j \in 1..n : \E k \in 1..n : pick[k] = j
         /\ \A j, k \in 1..n : j < k => place[pick[j]] <= place[pick[k]]
  <2>1. PICK pick \in [DOMAIN list -> DOMAIN list] :
          /\ \A k \in DOMAIN list : s[k] = list[pick[k]]
          /\ \A j \in DOMAIN list : \E k \in DOMAIN list : pick[k] = j
          /\ \A j, k \in DOMAIN list : j < k => place[pick[j]] <= place[pick[k]]
    BY <1>9 DEF InOrderOf
  <2>2. WITNESS pick \in [1..n -> 1..n]
  <2> QED BY <1>1, <2>1
<1>11. \A i, j \in 1..n : pick[i] = pick[j] => i = j
  <2>1. {pick[i] : i \in 1..n} = 1..n
    BY <1>10
  <2>2. Cardinality({pick[i] : i \in 1..n}) = n
    BY <1>1, <2>1, CountTo
  <2> QED BY <1>1, <2>2, DistinctKeys
<1>12. Held(s, n) = Range(list)
  <2>1. ASSUME NEW x \in Held(s, n) PROVE x \in Range(list)
    <3>1. PICK k \in 1..n : x = s[k]
      BY DEF Held
    <3> QED BY <1>8, <1>10, <3>1
  <2>2. ASSUME NEW x \in Range(list) PROVE x \in Held(s, n)
    <3>1. PICK j \in 1..n : x = list[j]
      BY <1>1 DEF Range
    <3>2. PICK k \in 1..n : pick[k] = j
      BY <1>10
    <3> QED BY <1>10, <3>1, <3>2 DEF Held
  <2> QED BY <2>1, <2>2
<1>13. \A k \in 1..n : pick[k] \in 1..n /\ Weight(list)[s[k]] = place[pick[k]]
  BY <1>8, <1>10
<1>14. Increasing(s, n, Weight(list))
  <2>1. \A k \in 1..n : Weight(list)[s[k]] \in Int
    BY <1>2, <1>13
  <2>2. ASSUME NEW j \in 1..n, NEW k \in 1..n, j < k PROVE Weight(list)[s[j]] < Weight(list)[s[k]]
    <3>1. place[pick[j]] <= place[pick[k]]
      BY <1>10, <2>2
    <3>2. pick[j] # pick[k]
      BY <1>1, <1>11, <2>2
    <3>3. place[pick[j]] # place[pick[k]]
      BY <1>7, <1>13, <3>2
    <3>4. place[pick[j]] \in Int /\ place[pick[k]] \in Int
      BY <1>2, <1>13
    <3> QED BY <1>13, <3>1, <3>3, <3>4
  <2> QED BY <2>1, <2>2 DEF Increasing
<1> QED BY <1>1, <1>6, <1>12, <1>14

\* Two lists are sorted alike exactly if they have the same entries.
LEMMA KeySortedAlike ==
  ASSUME NEW a, IsKeyed(a), NEW b, IsKeyed(b)
  PROVE  KeySorted(a) = KeySorted(b) <=> Range(a) = Range(b)
<1> DEFINE s == KeySorted(a)
           t == KeySorted(b)
           m == Len(a)
           n == Len(b)
<1>1. m \in Nat /\ s = [k \in 1..m |-> s[k]] /\ Held(s, m) = Range(a) /\ Increasing(s, m, Weight(a))
  BY KeySortedOrders
<1>2. n \in Nat /\ t = [k \in 1..n |-> t[k]] /\ Held(t, n) = Range(b) /\ Increasing(t, n, Weight(b))
  BY KeySortedOrders
<1>3. /\ DOMAIN a = 1..m /\ \A i, j \in 1..m : a[i] = a[j] => i = j
      /\ DOMAIN b = 1..n /\ \A i, j \in 1..n : b[i] = b[j] => i = j
  BY DEF IsKeyed
<1> HIDE DEF s, t, m, n
<1>4. Cardinality(Range(a)) = m /\ Cardinality(Range(b)) = n
  <2> DEFINE M == 1..m
             N == 1..n
  <2>1. /\ IsFiniteSet(M) /\ Cardinality(M) = m
        /\ IsFiniteSet(N) /\ Cardinality(N) = n
    BY <1>1, <1>2, CountTo
  <2>2. /\ DOMAIN a = M /\ \A i, j \in M : a[i] = a[j] => i = j
        /\ DOMAIN b = N /\ \A i, j \in N : b[i] = b[j] => i = j
    BY <1>3
  <2> HIDE DEF M, N
  <2>3. Cardinality({a[i] : i \in M}) = m
    BY <2>1, <2>2, ImageSize
  <2>4. Cardinality({b[i] : i \in N}) = n
    BY <2>1, <2>2, ImageSize
  <2> QED BY <2>2, <2>3, <2>4 DEF Range
<1>5. ASSUME s = t PROVE Range(a) = Range(b)
  <2>1. 1..m = 1..n
    BY <1>1, <1>2, <1>5
  <2> QED BY <1>1, <1>2, <1>5, <2>1 DEF Held
<1>6. ASSUME Range(a) = Range(b) PROVE s = t
  <2>1. m = n /\ Weight(a) = Weight(b)
    BY <1>4, <1>6 DEF Weight
  <2>2. \A k \in 1..m : s[k] = t[k]
    BY <1>1, <1>2, <1>6, <2>1, OneOrder
  <2> QED BY <1>1, <1>2, <2>1, <2>2
<1> QED BY <1>5, <1>6 DEF s, t

\* Entries of a list with fitting keys are keyed, whatever their texts are.
Texted(e, list, text) == e = [i \in DOMAIN list |-> [key |-> list[i].key, text |-> text[i]]]
Reads(e, list, text) ==
  /\ DOMAIN e = DOMAIN list
  /\ \A i \in DOMAIN list : e[i].key = list[i].key /\ e[i].text = text[i]
                           /\ e[i] = [key |-> e[i].key, text |-> e[i].text]
LEMMA KeyedEntries ==
  ASSUME NEW list, IsEntries(list), KeysFit(list), NEW text, NEW e, Texted(e, list, text)
  PROVE  IsKeyed(e) /\ Reads(e, list, text) /\ \A i \in DOMAIN list : list[i].key # ""
<1> DEFINE n == Len(list)
           key == [i \in 1..n |-> list[i].key]
<1>1. n \in Nat /\ DOMAIN list = 1..n
  BY DEF IsEntries
<1> HIDE DEF n
<1>2. DOMAIN e = 1..n /\ \A i \in 1..n : e[i] = [key |-> list[i].key, text |-> text[i]]
  BY <1>1 DEF Texted
<1>3. Len(e) = n
  BY <1>1, <1>2
<1>4. {key[i] : i \in 1..n} = {list[i].key : i \in DOMAIN list}
  BY <1>1
<1>5. Cardinality({key[i] : i \in 1..n}) = n
  BY <1>4 DEF KeysFit, KeysDistinct, n
<1>6. \A i, j \in 1..n : key[i] = key[j] => i = j
  <2> HIDE DEF key
  <2>1. DOMAIN key = 1..n
    BY DEF key
  <2> QED BY <1>1, <1>5, <2>1, DistinctKeys
<1>7. \A i \in 1..n : list[i].key \in DOMAIN KeyPlace /\ list[i].key # ""
  BY <1>1 DEF IsEntries, KeysFit, BadKeys
<1>8. \A i \in 1..n : e[i].key = list[i].key /\ e[i].text = text[i] /\ key[i] = list[i].key
  BY <1>2
<1>9. IsKeyed(e)
  BY <1>1, <1>2, <1>3, <1>6, <1>7, <1>8 DEF IsKeyed
<1>10. Reads(e, list, text)
  BY <1>1, <1>2, <1>8 DEF Reads
<1> QED BY <1>1, <1>7, <1>9, <1>10

LEMMA RangesAlike ==
  ASSUME NEW e, NEW f
  PROVE  Range(e) = Range(f) <=> /\ \A i \in DOMAIN e : \E j \in DOMAIN f : e[i] = f[j]
                                 /\ \A j \in DOMAIN f : \E i \in DOMAIN e : e[i] = f[j]
<1>1. ASSUME Range(e) = Range(f), NEW i \in DOMAIN e PROVE \E j \in DOMAIN f : e[i] = f[j]
  BY <1>1 DEF Range
<1>2. ASSUME Range(e) = Range(f), NEW j \in DOMAIN f PROVE \E i \in DOMAIN e : e[i] = f[j]
  <2>1. f[j] \in Range(e)
    BY <1>2 DEF Range
  <2> QED BY <2>1 DEF Range
<1>3. ASSUME /\ \A i \in DOMAIN e : \E j \in DOMAIN f : e[i] = f[j]
             /\ \A j \in DOMAIN f : \E i \in DOMAIN e : e[i] = f[j]
      PROVE  Range(e) = Range(f)
  BY <1>3 DEF Range
<1> QED BY <1>1, <1>2, <1>3

\* Of two lists, each entry of the first has one of the same key in the second, with what R relates.
Covers(x, t, y, u) == \A i \in DOMAIN x : \E j \in DOMAIN y : x[i].key = y[j].key /\ t[i] = u[j]
LEMMA EntriesAlike ==
  ASSUME NEW x, IsEntries(x), KeysFit(x), NEW t, NEW e, Texted(e, x, t),
         NEW y, IsEntries(y), KeysFit(y), NEW u, NEW f, Texted(f, y, u)
  PROVE  KeySorted(e) = KeySorted(f) <=> Covers(x, t, y, u) /\ Covers(y, u, x, t)
<1>1. IsKeyed(e) /\ Reads(e, x, t)
  BY KeyedEntries
<1>2. IsKeyed(f) /\ Reads(f, y, u)
  BY KeyedEntries
<1>3. \A i \in DOMAIN e, j \in DOMAIN f : e[i] = f[j] <=> x[i].key = y[j].key /\ t[i] = u[j]
  <2> SUFFICES ASSUME NEW i \in DOMAIN e, NEW j \in DOMAIN f
               PROVE  e[i] = f[j] <=> x[i].key = y[j].key /\ t[i] = u[j]
    OBVIOUS
  <2>1. /\ e[i].key = x[i].key /\ e[i].text = t[i] /\ e[i] = [key |-> e[i].key, text |-> e[i].text]
        /\ f[j].key = y[j].key /\ f[j].text = u[j] /\ f[j] = [key |-> f[j].key, text |-> f[j].text]
    BY <1>1, <1>2 DEF Reads
  <2> QED BY <2>1
<1>4. Range(e) = Range(f) <=> /\ \A i \in DOMAIN e : \E j \in DOMAIN f : e[i] = f[j]
                              /\ \A j \in DOMAIN f : \E i \in DOMAIN e : e[i] = f[j]
  BY RangesAlike
<1>5. Range(e) = Range(f) <=> Covers(x, t, y, u) /\ Covers(y, u, x, t)
  <2>1. (\A i \in DOMAIN e : \E j \in DOMAIN f : e[i] = f[j]) <=> Covers(x, t, y, u)
    BY <1>1, <1>2, <1>3 DEF Covers, Reads
  <2>2. (\A j \in DOMAIN f : \E i \in DOMAIN e : e[i] = f[j]) <=> Covers(y, u, x, t)
    BY <1>1, <1>2, <1>3 DEF Covers, Reads
  <2> QED BY <1>4, <2>1, <2>2
<1> QED BY <1>1, <1>2, <1>5, KeySortedAlike

-----------------------------------------------------------------------------
(***************************************************************************)
(* Records: what a canonical text tells of a value.                        *)
(***************************************************************************)
LEMMA ScalarTold ==
  ASSUME NEW v, IsScalar(v), NEW w, IsScalar(w)
  PROVE  WireScalar(v) = WireScalar(w) <=> v = w
<1>1. ASSUME WireScalar(v) = WireScalar(w) PROVE v = w
  <2>1. v.kind = w.kind
    BY <1>1 DEF WireScalar
  <2>2. v.token = w.token
    <3>1. CASE v.kind = "double"
      <4>1. FloatText[v.token] = FloatText[w.token]
        BY <1>1, <2>1, <3>1 DEF WireScalar, Float
      <4> QED BY <2>1, <3>1, <4>1, RecordsAssumption DEF IsScalar
    <3>2. CASE v.kind # "double"
      BY <1>1, <2>1, <3>2 DEF WireScalar
    <3> QED BY <3>1, <3>2
  <2> QED BY <2>1, <2>2 DEF IsScalar
<1> QED BY <1>1

\* The items of a list or map: entries with scalars.
IsItems(x) == IsEntries(x) /\ \A i \in DOMAIN x : IsScalar(x[i].value)
LEMMA ItemParts ==
  ASSUME NEW x, IsItems(x)
  PROVE  /\ Len(x) \in Nat /\ DOMAIN x = 1..Len(x)
         /\ \A i \in DOMAIN x : x[i] = [key |-> x[i].key, value |-> x[i].value] /\ IsScalar(x[i].value)
<1> DEFINE n == Len(x)
<1>1. n \in Nat /\ x = [i \in 1..n |-> [key |-> x[i].key, value |-> x[i].value]]
  BY DEF IsItems, IsEntries
<1> HIDE DEF n
<1>2. DOMAIN x = 1..n /\ \A i \in 1..n : x[i] = [key |-> x[i].key, value |-> x[i].value]
  BY <1>1
<1> QED BY <1>1, <1>2 DEF IsItems, n

\* Two lists are told apart by the texts of their items.
LEMMA ListTold ==
  ASSUME NEW x, IsItems(x), NEW y, IsItems(y)
  PROVE  Entries(x, WireScalar) = Entries(y, WireScalar) <=> x = y
<1>1. ASSUME Entries(x, WireScalar) = Entries(y, WireScalar) PROVE x = y
  <2> DEFINE e == Entries(x, WireScalar)
             f == Entries(y, WireScalar)
  <2>1. /\ DOMAIN e = DOMAIN x /\ \A i \in DOMAIN x : e[i].key = x[i].key /\ e[i].text = WireScalar(x[i].value)
        /\ DOMAIN f = DOMAIN y /\ \A i \in DOMAIN y : f[i].key = y[i].key /\ f[i].text = WireScalar(y[i].value)
    BY DEF Entries
  <2>2. e = f
    BY <1>1
  <2> HIDE DEF e, f
  <2>3. DOMAIN x = DOMAIN y
    BY <2>1, <2>2
  <2>4. ASSUME NEW i \in DOMAIN x PROVE x[i] = y[i]
    <3>1. x[i].key = y[i].key /\ WireScalar(x[i].value) = WireScalar(y[i].value)
      BY <2>1, <2>2, <2>3
    <3>2. x[i].value = y[i].value
      BY <2>3, <3>1, ItemParts, ScalarTold
    <3> QED BY <2>3, <3>1, <3>2, ItemParts
  <2>5. x = [i \in DOMAIN x |-> x[i]] /\ y = [i \in DOMAIN y |-> y[i]]
    BY DEF IsItems, IsEntries
  <2> QED BY <2>3, <2>4, <2>5
<1> QED BY <1>1

\* Two maps are told apart by their members, in any order.
LEMMA MapTold ==
  ASSUME NEW x, IsItems(x), KeysFit(x), NEW y, IsItems(y), KeysFit(y)
  PROVE  /\ KeySorted(Entries(x, WireScalar)) = KeySorted(Entries(y, WireScalar)) <=> Range(x) = Range(y)
         /\ Range(x) = Range(y)
              => KeySorted(Entries(x, DecodedScalar)) = KeySorted(Entries(y, DecodedScalar))
<1> DEFINE t == [i \in DOMAIN x |-> WireScalar(x[i].value)]
           u == [i \in DOMAIN y |-> WireScalar(y[i].value)]
           r == [i \in DOMAIN x |-> DecodedScalar(x[i].value)]
           s == [i \in DOMAIN y |-> DecodedScalar(y[i].value)]
<1>1. /\ Texted(Entries(x, WireScalar), x, t) /\ Texted(Entries(y, WireScalar), y, u)
      /\ Texted(Entries(x, DecodedScalar), x, r) /\ Texted(Entries(y, DecodedScalar), y, s)
  BY DEF Texted, Entries
<1>2. /\ \A i \in DOMAIN x : t[i] = WireScalar(x[i].value) /\ r[i] = DecodedScalar(x[i].value)
      /\ \A i \in DOMAIN y : u[i] = WireScalar(y[i].value) /\ s[i] = DecodedScalar(y[i].value)
  OBVIOUS
<1> HIDE DEF t, u, r, s
<1>3. IsEntries(x) /\ IsEntries(y)
  BY DEF IsItems
<1>4. KeySorted(Entries(x, WireScalar)) = KeySorted(Entries(y, WireScalar)) <=> Covers(x, t, y, u) /\ Covers(y, u, x, t)
  BY <1>1, <1>3, EntriesAlike
<1>5. KeySorted(Entries(x, DecodedScalar)) = KeySorted(Entries(y, DecodedScalar))
        <=> Covers(x, r, y, s) /\ Covers(y, s, x, r)
  BY <1>1, <1>3, EntriesAlike
<1>6. \A i \in DOMAIN x, j \in DOMAIN y : x[i] = y[j] <=> x[i].key = y[j].key /\ t[i] = u[j]
  <2> SUFFICES ASSUME NEW i \in DOMAIN x, NEW j \in DOMAIN y
               PROVE  x[i] = y[j] <=> x[i].key = y[j].key /\ t[i] = u[j]
    OBVIOUS
  <2>1. /\ x[i] = [key |-> x[i].key, value |-> x[i].value] /\ IsScalar(x[i].value)
        /\ y[j] = [key |-> y[j].key, value |-> y[j].value] /\ IsScalar(y[j].value)
    BY ItemParts
  <2>2. t[i] = u[j] <=> x[i].value = y[j].value
    BY <1>2, <2>1, ScalarTold
  <2> QED BY <2>1, <2>2
<1>7. Range(x) = Range(y) <=> /\ \A i \in DOMAIN x : \E j \in DOMAIN y : x[i] = y[j]
                              /\ \A j \in DOMAIN y : \E i \in DOMAIN x : x[i] = y[j]
  BY RangesAlike
<1>8. Range(x) = Range(y) <=> Covers(x, t, y, u) /\ Covers(y, u, x, t)
  BY <1>6, <1>7 DEF Covers
<1>9. ASSUME Range(x) = Range(y) PROVE Covers(x, r, y, s) /\ Covers(y, s, x, r)
  BY <1>2, <1>7, <1>9 DEF Covers
<1> QED BY <1>4, <1>5, <1>8, <1>9

\* A list is closed as it is, a map and attributes in the order of their keys.
LEMMA ListStays ==
  ASSUME NEW x, IsItems(x), \A i \in DOMAIN x : x[i].key = ""
  PROVE  Close("values", Entries(x, WireScalar)) = Entries(x, WireScalar)
<1> DEFINE e == Entries(x, WireScalar)
<1>1. e = [i \in DOMAIN x |-> e[i]] /\ \A i \in DOMAIN x : e[i].key = x[i].key
  BY DEF Entries
<1> HIDE DEF e
<1>2. CASE DOMAIN x = {}
  <2>1. KeySorted(e) = e
    BY <1>1, <1>2 DEF KeySorted
  <2> QED BY <2>1 DEF Close, e
<1>3. CASE DOMAIN x # {}
  <2>1. ~ \A i \in DOMAIN e : e[i].key # ""
    BY <1>1, <1>3
  <2> QED BY <2>1 DEF Close, e
<1> QED BY <1>2, <1>3

LEMMA EntriesClose ==
  ASSUME NEW x, KeysFit(x), NEW text, NEW e, Texted(e, x, text), NEW name \in SortedNames
  PROVE  Close(name, e) = KeySorted(e)
<1>1. DOMAIN e = DOMAIN x /\ \A i \in DOMAIN x : e[i].key = x[i].key
  BY DEF Texted
<1>2. \A i \in DOMAIN x : x[i].key # ""
  BY DEF KeysFit, BadKeys
<1> QED BY <1>1, <1>2 DEF Close

\* A value that was sent, and is admitted.
IsFit(v) == IsAnyValue(v) /\ AnyValueFits(v)
LEMMA FitParts ==
  ASSUME NEW v, IsFit(v)
  PROVE  /\ v.kind \in {"list", "map"} \/ (v.kind \in ScalarKinds /\ IsScalar(v) /\ v.kind \notin {"list", "map"})
         /\ v.kind = "list" => IsItems(v.items) /\ \A i \in DOMAIN v.items : v.items[i].key = ""
         /\ v.kind = "map" => IsItems(v.items) /\ KeysFit(v.items)
BY DEF IsFit, IsAnyValue, AnyValueFits, IsContainer, IsItems, IsScalar, ScalarKinds

LEMMA WireIsKinded == ASSUME NEW v PROVE WireValue(v)[1] = v.kind
BY DEF WireValue, WireScalar

\* The canonical text of a value tells what it says, and nothing else.
LEMMA ValueTold ==
  ASSUME NEW v, IsFit(v), NEW w, IsFit(w)
  PROVE  /\ WireValue(v) = WireValue(w) <=> Meaning(v) = Meaning(w)
         /\ Meaning(v) = Meaning(w) => Decoded(v) = Decoded(w)
<1>1. CASE v.kind # w.kind
  <2>1. Meaning(v)[1] = v.kind /\ Meaning(w)[1] = w.kind
    BY DEF Meaning
  <2> QED BY <1>1, <2>1, WireIsKinded
<1>2. CASE v.kind = "list" /\ w.kind = "list"
  <2>1. /\ IsItems(v.items) /\ \A i \in DOMAIN v.items : v.items[i].key = ""
        /\ IsItems(w.items) /\ \A i \in DOMAIN w.items : w.items[i].key = ""
    BY <1>2, FitParts
  <2>2. /\ WireValue(v) = <<"list", Entries(v.items, WireScalar)>>
        /\ WireValue(w) = <<"list", Entries(w.items, WireScalar)>>
    BY <1>2, <2>1, ListStays DEF WireValue
  <2>3. WireValue(v) = WireValue(w) <=> v.items = w.items
    <3>1. Entries(v.items, WireScalar) = Entries(w.items, WireScalar) <=> v.items = w.items
      BY <2>1, ListTold
    <3> QED BY <2>2, <3>1
  <2>4. Meaning(v) = <<"list", v.items>> /\ Meaning(w) = <<"list", w.items>>
    BY <1>2 DEF Meaning
  <2>5. Decoded(v) = <<"array", Entries(v.items, DecodedScalar)>> /\ Decoded(w) = <<"array", Entries(w.items, DecodedScalar)>>
    BY <1>2 DEF Decoded
  <2> QED BY <2>3, <2>4, <2>5 DEF Entries
<1>3. CASE v.kind = "map" /\ w.kind = "map"
  <2>1. IsItems(v.items) /\ KeysFit(v.items) /\ IsItems(w.items) /\ KeysFit(w.items)
    BY <1>3, FitParts
  <2>2. ASSUME NEW x, KeysFit(x) PROVE Close("values", Entries(x, WireScalar)) = KeySorted(Entries(x, WireScalar))
    <3> DEFINE t == [i \in DOMAIN x |-> WireScalar(x[i].value)]
    <3>1. Texted(Entries(x, WireScalar), x, t)
      BY DEF Texted, Entries
    <3> HIDE DEF t
    <3> QED BY <2>2, <3>1, EntriesClose DEF SortedNames
  <2>3. /\ WireValue(v) = <<"map", KeySorted(Entries(v.items, WireScalar))>>
        /\ WireValue(w) = <<"map", KeySorted(Entries(w.items, WireScalar))>>
    BY <1>3, <2>1, <2>2 DEF WireValue
  <2>4. /\ KeySorted(Entries(v.items, WireScalar)) = KeySorted(Entries(w.items, WireScalar)) <=> Range(v.items) = Range(w.items)
        /\ Range(v.items) = Range(w.items)
             => KeySorted(Entries(v.items, DecodedScalar)) = KeySorted(Entries(w.items, DecodedScalar))
    BY <2>1, MapTold
  <2>5. Meaning(v) = <<"map", Range(v.items)>> /\ Meaning(w) = <<"map", Range(w.items)>>
    BY <1>3 DEF Meaning
  <2>6. /\ Decoded(v) = <<"object", KeySorted(Entries(v.items, DecodedScalar))>>
        /\ Decoded(w) = <<"object", KeySorted(Entries(w.items, DecodedScalar))>>
    BY <1>3 DEF Decoded
  <2> QED BY <2>3, <2>4, <2>5, <2>6
<1>4. CASE v.kind \notin {"list", "map"} /\ v.kind = w.kind
  <2>1. IsScalar(v) /\ IsScalar(w)
    BY <1>4, FitParts
  <2>2. WireValue(v) = WireScalar(v) /\ WireValue(w) = WireScalar(w)
    BY <1>4 DEF WireValue
  <2>3. Meaning(v) = <<v.kind, v.token>> /\ Meaning(w) = <<w.kind, w.token>>
    BY <1>4 DEF Meaning
  <2>4. Meaning(v) = Meaning(w) <=> v = w
    BY <2>1, <2>3 DEF IsScalar
  <2> QED BY <2>1, <2>2, <2>4, ScalarTold
<1> QED BY <1>1, <1>2, <1>3, <1>4

\* The canonical text of attributes tells their members, in any order.
LEMMA AttributesTold ==
  ASSUME NEW x, IsEntries(x), AttributesFit(x), \A i \in DOMAIN x : IsAnyValue(x[i].value),
         NEW y, IsEntries(y), AttributesFit(y), \A i \in DOMAIN y : IsAnyValue(y[i].value)
  PROVE  /\ WireAttributes(x) = WireAttributes(y) <=> Meanings(x) = Meanings(y)
         /\ Meanings(x) = Meanings(y) => DecodedAttributes(x) = DecodedAttributes(y)
<1> DEFINE t == [i \in DOMAIN x |-> WireValue(x[i].value)]
           u == [i \in DOMAIN y |-> WireValue(y[i].value)]
           r == [i \in DOMAIN x |-> Decoded(x[i].value)]
           s == [i \in DOMAIN y |-> Decoded(y[i].value)]
<1>1. /\ Texted(Entries(x, WireValue), x, t) /\ Texted(Entries(y, WireValue), y, u)
      /\ Texted(Entries(x, Decoded), x, r) /\ Texted(Entries(y, Decoded), y, s)
  BY DEF Texted, Entries
<1>2. /\ \A i \in DOMAIN x : t[i] = WireValue(x[i].value) /\ r[i] = Decoded(x[i].value)
      /\ \A i \in DOMAIN y : u[i] = WireValue(y[i].value) /\ s[i] = Decoded(y[i].value)
  OBVIOUS
<1> HIDE DEF t, u, r, s
<1>3. KeysFit(x) /\ KeysFit(y)
  BY DEF AttributesFit
<1>4. /\ \A i \in DOMAIN x : IsFit(x[i].value)
      /\ \A i \in DOMAIN y : IsFit(y[i].value)
  BY DEF AttributesFit, IsFit
<1>5. WireAttributes(x) = KeySorted(Entries(x, WireValue)) /\ WireAttributes(y) = KeySorted(Entries(y, WireValue))
  BY <1>1, <1>3, EntriesClose DEF WireAttributes, SortedNames
<1>6. WireAttributes(x) = WireAttributes(y) <=> Covers(x, t, y, u) /\ Covers(y, u, x, t)
  BY <1>1, <1>3, <1>5, EntriesAlike
<1>7. DecodedAttributes(x) = DecodedAttributes(y) <=> Covers(x, r, y, s) /\ Covers(y, s, x, r)
  BY <1>1, <1>3, EntriesAlike DEF DecodedAttributes
<1>8. \A i \in DOMAIN x, j \in DOMAIN y :
         /\ t[i] = u[j] <=> Meaning(x[i].value) = Meaning(y[j].value)
         /\ Meaning(x[i].value) = Meaning(y[j].value) => r[i] = s[j]
  BY <1>2, <1>4, ValueTold
<1>9. Meanings(x) = Meanings(y) <=>
        /\ \A i \in DOMAIN x : \E j \in DOMAIN y : x[i].key = y[j].key /\ Meaning(x[i].value) = Meaning(y[j].value)
        /\ \A j \in DOMAIN y : \E i \in DOMAIN x : x[i].key = y[j].key /\ Meaning(x[i].value) = Meaning(y[j].value)
  <2> DEFINE a == [i \in DOMAIN x |-> <<x[i].key, Meaning(x[i].value)>>]
             b == [i \in DOMAIN y |-> <<y[i].key, Meaning(y[i].value)>>]
  <2>1. Meanings(x) = Range(a) /\ Meanings(y) = Range(b)
    BY DEF Meanings, Range
  <2>2. DOMAIN a = DOMAIN x /\ DOMAIN b = DOMAIN y
    OBVIOUS
  <2>3. \A i \in DOMAIN x, j \in DOMAIN y : a[i] = b[j] <=> x[i].key = y[j].key /\ Meaning(x[i].value) = Meaning(y[j].value)
    OBVIOUS
  <2> HIDE DEF a, b
  <2>4. Range(a) = Range(b) <=> /\ \A i \in DOMAIN a : \E j \in DOMAIN b : a[i] = b[j]
                                /\ \A j \in DOMAIN b : \E i \in DOMAIN a : a[i] = b[j]
    BY RangesAlike
  <2> QED BY <2>1, <2>2, <2>3, <2>4
<1>10. Meanings(x) = Meanings(y) <=> Covers(x, t, y, u) /\ Covers(y, u, x, t)
  BY <1>8, <1>9 DEF Covers
<1>11. ASSUME Meanings(x) = Meanings(y) PROVE Covers(x, r, y, s) /\ Covers(y, s, x, r)
  BY <1>8, <1>9, <1>11 DEF Covers
<1> QED BY <1>6, <1>7, <1>10, <1>11

-----------------------------------------------------------------------------
(***************************************************************************)
(* Records: one identity, and a whole row.                                 *)
(***************************************************************************)
IsGood(d) == IsRecord(d) /\ RecordFits(d)

LEMMA GoodParts ==
  ASSUME NEW d, IsGood(d)
  PROVE  /\ d.signal \in {"log", "span", "metric"} /\ DOMAIN d = WireFields[d.signal]
         /\ {"signal", "schemaUrl", "resource", "attributes"} \subseteq DOMAIN d
         /\ IsEntries(d.attributes) /\ AttributesFit(d.attributes)
         /\ \A i \in DOMAIN d.attributes : IsAnyValue(d.attributes[i].value)
         /\ d.signal = "log" => IsFit(d.body) /\ "body" \in DOMAIN d
         /\ d.signal # "log" => "body" \notin DOMAIN d
         /\ d.signal = "metric" => IsScalar(d.number) /\ "number" \in DOMAIN d
         /\ d.signal # "metric" => "number" \notin DOMAIN d
<1>1. d.signal \in {"log", "span", "metric"} /\ DOMAIN d = WireFields[d.signal]
  BY DEF IsGood, IsRecord
<1>2. /\ {"signal", "schemaUrl", "resource", "attributes"} \subseteq DOMAIN d
      /\ d.signal = "log" <=> "body" \in DOMAIN d
      /\ d.signal = "metric" <=> "number" \in DOMAIN d
  BY <1>1 DEF WireFields
<1>3. d.signal = "log" => IsFit(d.body)
  BY DEF IsGood, IsRecord, RecordFits, LogFits, IsFit
<1> QED BY <1>1, <1>2, <1>3 DEF IsGood, IsRecord, RecordFits

LEMMA SourceParts ==
  ASSUME NEW d
  PROVE  /\ DOMAIN Source(d) = DOMAIN d /\ Source(d) = [f \in DOMAIN d |-> Source(d)[f]]
         /\ "attributes" \in DOMAIN d => Source(d).attributes = WireAttributes(d.attributes)
         /\ "body" \in DOMAIN d => Source(d).body = WireValue(d.body)
         /\ "number" \in DOMAIN d => Source(d).number = WireScalar(d.number)
         /\ \A f \in DOMAIN d \ {"attributes", "body", "number"} : Source(d)[f] = d[f]
BY DEF Source

\* The source in the row of a record is the one of another exactly if they are the same record.
LEMMA SourceTold ==
  ASSUME NEW c, NEW d, IsGood(c), IsGood(d)
  PROVE  Source(c) = Source(d) <=> SameRecord(c, d)
<1>1. /\ WireAttributes(c.attributes) = WireAttributes(d.attributes)
           <=> Meanings(c.attributes) = Meanings(d.attributes)
  BY GoodParts, AttributesTold
<1>2. ASSUME c.signal = "log", d.signal = "log"
      PROVE  WireValue(c.body) = WireValue(d.body) <=> Meaning(c.body) = Meaning(d.body)
  BY <1>2, GoodParts, ValueTold
<1>3. ASSUME c.signal = "metric", d.signal = "metric"
      PROVE  WireScalar(c.number) = WireScalar(d.number) <=> c.number = d.number
  BY <1>3, GoodParts, ScalarTold
<1>4. ASSUME Source(c) = Source(d) PROVE SameRecord(c, d)
  <2>1. DOMAIN c = DOMAIN d
    BY <1>4, SourceParts
  <2>2. \A f \in DOMAIN c \ {"attributes", "body", "number"} : c[f] = d[f]
    BY <1>4, <2>1, SourceParts
  <2>3. c.signal = d.signal
    BY <2>2, GoodParts
  <2>4. Meanings(c.attributes) = Meanings(d.attributes)
    BY <1>1, <1>4, GoodParts, SourceParts
  <2>5. c.signal = "log" => Meaning(c.body) = Meaning(d.body)
    BY <1>2, <1>4, <2>3, GoodParts, SourceParts
  <2>6. "number" \in DOMAIN c => c.number = d.number
    BY <1>3, <1>4, <2>3, GoodParts, SourceParts
  <2> QED BY <2>1, <2>2, <2>4, <2>5, <2>6 DEF SameRecord
<1>5. ASSUME SameRecord(c, d) PROVE Source(c) = Source(d)
  <2>1. /\ DOMAIN c = DOMAIN d /\ Meanings(c.attributes) = Meanings(d.attributes)
        /\ c.signal = "log" => Meaning(c.body) = Meaning(d.body)
        /\ \A f \in DOMAIN c \ {"attributes", "body"} : c[f] = d[f]
    BY <1>5 DEF SameRecord
  <2>2. c.signal = d.signal
    BY <2>1, GoodParts
  <2>3. Source(c).attributes = Source(d).attributes
    BY <1>1, <2>1, GoodParts, SourceParts
  <2>4. "body" \in DOMAIN c => Source(c).body = Source(d).body
    BY <1>2, <2>1, <2>2, GoodParts, SourceParts
  <2>5. "number" \in DOMAIN c => Source(c).number = Source(d).number
    BY <2>1, SourceParts
  <2>6. \A f \in DOMAIN c : Source(c)[f] = Source(d)[f]
    BY <2>1, <2>3, <2>4, <2>5, SourceParts
  <2> QED BY <2>1, <2>6, SourceParts
<1> QED BY <1>4, <1>5

\* Records that are the same have the same columns and the same extension.
LEMMA SameColumns ==
  ASSUME NEW c, NEW d, IsGood(c), IsGood(d), SameRecord(c, d)
  PROVE  Identity(c) = Identity(d)
<1>1. /\ DOMAIN c = DOMAIN d /\ Meanings(c.attributes) = Meanings(d.attributes)
      /\ c.signal = "log" => Meaning(c.body) = Meaning(d.body)
      /\ \A f \in DOMAIN c \ {"attributes", "body"} : c[f] = d[f]
  BY DEF SameRecord
<1>2. c.signal = d.signal /\ c.resource = d.resource
  BY <1>1, GoodParts
<1>3. DecodedAttributes(c.attributes) = DecodedAttributes(d.attributes)
  BY <1>1, GoodParts, AttributesTold
<1>4. Extension(c) = Extension(d)
  BY SourceTold DEF Extension
<1>5. SpecializedRow(c) = SpecializedRow(d) /\ Times(c) = Times(d)
  <2>1. CASE c.signal = "log"
    <3>1. \A f \in {"time", "observed", "severity", "text", "trace", "span"} : c[f] = d[f]
      BY <2>1, <1>1, GoodParts DEF WireFields
    <3>2. Decoded(c.body) = Decoded(d.body)
      BY <2>1, <1>1, <1>2, GoodParts, ValueTold
    <3> QED BY <1>2, <2>1, <3>1, <3>2 DEF SpecializedRow, LogRow, Times
  <2>2. CASE c.signal = "span"
    <3>1. \A f \in {"name", "trace", "span", "parent", "spanKind", "start", "end", "code"} : c[f] = d[f]
      BY <2>2, <1>1, GoodParts DEF WireFields
    <3> QED BY <1>2, <2>2, <3>1 DEF SpecializedRow, SpanRow, Times
  <2>3. CASE c.signal = "metric"
    <3>1. \A f \in {"name", "unit", "type", "temporality", "start", "time", "number"} : c[f] = d[f]
      BY <2>3, <1>1, GoodParts DEF WireFields
    <3> QED BY <1>2, <2>3, <3>1 DEF SpecializedRow, MetricRow, Times
  <2> QED BY <2>1, <2>2, <2>3, GoodParts
<1>6. CommonRow(c) = CommonRow(d)
  BY <1>2, <1>3, <1>4, <1>5 DEF CommonRow
<1> QED BY <1>5, <1>6 DEF Identity

LEMMA IdentityTold ==
  ASSUME NEW c, NEW d, IsGood(c), IsGood(d)
  PROVE  SameRecord(c, d) <=> Identity(c) = Identity(d)
<1>1. ASSUME Identity(c) = Identity(d) PROVE SameRecord(c, d)
  <2>1. CommonRow(c) = CommonRow(d)
    BY <1>1 DEF Identity
  <2>2. Source(c) = Source(d)
    BY <2>1 DEF CommonRow, Extension
  <2> QED BY <2>2, SourceTold
<1> QED BY <1>1, SameColumns

\* The row of a record has the fields of its signal.
LEMMA RowHasFields ==
  ASSUME NEW d, IsGood(d)
  PROVE  CommonRow(d).profile = d.signal /\ DOMAIN SpecializedRow(d) = RowFields[d.signal]
<1>1. CASE d.signal = "log"
  BY <1>1 DEF CommonRow, SpecializedRow, LogRow, RowFields
<1>2. CASE d.signal = "span"
  BY <1>2 DEF CommonRow, SpecializedRow, SpanRow, RowFields
<1>3. CASE d.signal = "metric"
  BY <1>3 DEF CommonRow, SpecializedRow, MetricRow, RowFields
<1> QED BY <1>1, <1>2, <1>3, GoodParts

\* A null stands only in a column that may hold it.
LEMMA NullsAreNullable ==
  ASSUME NEW d, IsGood(d)
  PROVE  /\ \A f \in OptionalIds \cap RowFields[d.signal] :
              SpecializedRow(d)[f] = "null" => f \in Nullable(d.signal)
         /\ "body" \in RowFields[d.signal] => "body" \in Nullable(d.signal)
<1>1. CASE d.signal = "log"
  BY <1>1 DEF RowFields, OptionalIds, Nullable
<1>2. CASE d.signal = "span"
  <2>1. "trace" \in DOMAIN d /\ "span" \in DOMAIN d
    BY <1>2, GoodParts DEF WireFields
  <2>2. d.trace # "null" /\ d.span # "null"
    BY <2>1 DEF IsGood, IsRecord
  <2>3. SpecializedRow(d).traceId = d.trace /\ SpecializedRow(d).spanId = d.span
    BY <1>2 DEF SpecializedRow, SpanRow
  <2> QED BY <1>2, <2>2, <2>3 DEF RowFields, OptionalIds, Nullable
<1>3. CASE d.signal = "metric"
  BY <1>3 DEF RowFields, OptionalIds, Nullable
<1> QED BY <1>1, <1>2, <1>3, GoodParts

\* An enumeration of the wire has a name for every number that validation admits.
LEMMA NamesAreGiven ==
  /\ \A n \in 0..5 : NameAt(SpanKinds, n) # ""
  /\ \A n \in 0..2 : NameAt(Statuses, n) # "" /\ NameAt(Temporalities, n) # ""
BY DEF NameAt, SpanKinds, Statuses, Temporalities

LEMMA NamesFit ==
  ASSUME NEW d, IsGood(d)
  PROVE  /\ d.signal = "span" => SpecializedRow(d).spanKind # "" /\ SpecializedRow(d).status # ""
         /\ d.signal = "metric" => SpecializedRow(d).temporality # ""
<1>1. CASE d.signal = "span"
  <2>1. SpanFits(d) /\ SpecializedRow(d) = SpanRow(d)
    BY <1>1 DEF IsGood, RecordFits, SpecializedRow
  <2>2. SpanRow(d).spanKind # "" /\ SpanRow(d).status # ""
    BY <2>1, NamesAreGiven DEF SpanFits, SpanRow
  <2> QED BY <1>1, <2>1, <2>2
<1>2. CASE d.signal = "metric"
  <2>1. MetricFits(d) /\ SpecializedRow(d) = MetricRow(d)
    BY <1>2 DEF IsGood, RecordFits, SpecializedRow
  <2>2. MetricRow(d).temporality # ""
    BY <2>1, NamesAreGiven DEF MetricFits, MetricRow
  <2> QED BY <1>2, <2>1, <2>2
<1> QED BY <1>1, <1>2

\* A row has the times that its record was sent with, where they are an int64.
LEMMA TimesFit ==
  ASSUME NEW d, IsGood(d), InInt64(d)
  PROVE  /\ Times(d) = [event |-> SentTimes(d).event, observed |-> SentTimes(d).observed]
         /\ SentTimes(d).event # 0 /\ SentTimes(d).observed # 0
         /\ d.signal = "span" =>
              /\ SpecializedRow(d).startTime = d.start /\ SpecializedRow(d).endTime = d.end
              /\ d.start <= d.end
         /\ d.signal = "metric" =>
              /\ SpecializedRow(d).startTime # 0
              /\ SpecializedRow(d).startTime = IF d.start = 0 THEN d.time ELSE d.start
<1>1. \A f \in TimeFields \cap DOMAIN d : d[f] \in Nat /\ d[f] <= MaxInt64 /\ Nanos(d[f]) = d[f]
  BY DEF IsGood, IsRecord, InInt64, Nanos
<1>2. CASE d.signal = "log"
  <2>1. "time" \in DOMAIN d /\ "observed" \in DOMAIN d
    BY <1>2, GoodParts DEF WireFields
  <2>2. Nanos(d.time) = d.time /\ Nanos(d.observed) = d.observed
    BY <1>1, <2>1 DEF TimeFields
  <2>3. d.time # 0 \/ d.observed # 0
    BY <1>2 DEF IsGood, RecordFits, LogFits
  <2> QED BY <1>2, <2>2, <2>3 DEF Times, SentTimes, Or
<1>3. CASE d.signal = "span"
  <2>1. "start" \in DOMAIN d /\ "end" \in DOMAIN d
    BY <1>3, GoodParts DEF WireFields
  <2>2. /\ d.start \in Nat /\ d.start <= MaxInt64 /\ Nanos(d.start) = d.start
        /\ d.end \in Nat /\ d.end <= MaxInt64 /\ Nanos(d.end) = d.end
    BY <1>1, <2>1 DEF TimeFields
  <2>3. SpanFits(d) /\ SpecializedRow(d) = SpanRow(d)
    BY <1>3 DEF IsGood, RecordFits, SpecializedRow
  <2>4. d.start # 0 /\ d.end # 0 /\ d.start <= d.end
    BY <2>2, <2>3 DEF SpanFits, Ordered
  <2>5. SpanRow(d).startTime = d.start /\ SpanRow(d).endTime = d.end
    BY <2>2 DEF SpanRow
  <2> QED BY <1>3, <2>2, <2>3, <2>4, <2>5 DEF Times, SentTimes
<1>4. CASE d.signal = "metric"
  <2>1. "start" \in DOMAIN d /\ "time" \in DOMAIN d
    BY <1>4, GoodParts DEF WireFields
  <2>2. Nanos(d.start) = d.start /\ Nanos(d.time) = d.time
    BY <1>1, <2>1 DEF TimeFields
  <2>3. MetricFits(d) /\ SpecializedRow(d) = MetricRow(d)
    BY <1>4 DEF IsGood, RecordFits, SpecializedRow
  <2>4. d.time # 0
    BY <2>3 DEF MetricFits
  <2>5. MetricRow(d).startTime # 0 /\ MetricRow(d).startTime = IF d.start = 0 THEN d.time ELSE d.start
    BY <2>2, <2>4 DEF MetricRow, Or
  <2> QED BY <1>4, <2>2, <2>3, <2>4, <2>5 DEF Times, SentTimes
<1> QED BY <1>2, <1>3, <1>4, GoodParts

\* Where they are not, the row has another time: nothing positive is made of a time beyond int64.
LEMMA TimesLost ==
  ASSUME NEW d, IsGood(d), ~InInt64(d)
  PROVE  ~ /\ Times(d).event = SentTimes(d).event /\ Times(d).observed = SentTimes(d).observed
           /\ d.signal = "span" => SpecializedRow(d).startTime = d.start /\ SpecializedRow(d).endTime = d.end
           /\ d.signal = "metric" => SpecializedRow(d).startTime = IF d.start = 0 THEN d.time ELSE d.start
<1>1. \A f \in TimeFields \cap DOMAIN d :
        /\ d[f] \in Nat /\ Nanos(d[f]) \in Int
        /\ d[f] <= MaxInt64 => Nanos(d[f]) = d[f]
        /\ d[f] > MaxInt64 => d[f] > 0 /\ Nanos(d[f]) <= 0
  BY RecordsAssumption DEF IsGood, IsRecord, RecordFits, Nanos
<1>2. CASE d.signal = "log"
  <2>1. TimeFields \cap DOMAIN d = {"time", "observed"}
    BY <1>2, GoodParts DEF WireFields, TimeFields
  <2>2. d.time > MaxInt64 \/ d.observed > MaxInt64
    BY <1>1, <2>1, RecordsAssumption DEF InInt64
  <2>3. /\ Times(d).event = Or(d.time, d.observed) /\ Times(d).observed = Or(d.observed, d.time)
        /\ SentTimes(d).event = IF d.time = 0 THEN d.observed ELSE d.time
        /\ SentTimes(d).observed = IF d.observed = 0 THEN d.time ELSE d.observed
    BY <1>2 DEF Times, SentTimes
  <2>4. CASE d.time > MaxInt64
    <3>1. CASE d.observed > MaxInt64
      BY <1>1, <2>1, <2>3, <2>4, <3>1 DEF Or
    <3>2. CASE d.observed <= MaxInt64
      <4>1. Times(d).event = Or(d.time, d.observed) /\ SentTimes(d).event = d.time
        BY <1>1, <2>1, <2>3, <2>4
      <4>2. Or(d.time, d.observed) # d.time
        BY <1>1, <2>1, <2>4, <3>2 DEF Or
      <4> QED BY <4>1, <4>2
    <3> QED BY <1>1, <2>1, <3>1, <3>2, RecordsAssumption
  <2>5. CASE d.time <= MaxInt64 /\ d.observed > MaxInt64
    <3>1. SentTimes(d).observed = d.observed
      BY <1>1, <2>1, <2>3, <2>5
    <3>2. Or(d.observed, d.time) # d.observed
      BY <1>1, <2>1, <2>5 DEF Or
    <3> QED BY <2>3, <3>1, <3>2
  <2> QED BY <1>1, <2>1, <2>2, <2>4, <2>5, RecordsAssumption
<1>3. CASE d.signal = "span"
  <2>1. TimeFields \cap DOMAIN d = {"start", "end"}
    BY <1>3, GoodParts DEF WireFields, TimeFields
  <2>2. d.start > MaxInt64 \/ d.end > MaxInt64
    BY <1>1, <2>1, RecordsAssumption DEF InInt64
  <2>3. SpecializedRow(d).startTime = Nanos(d.start) /\ SpecializedRow(d).endTime = Nanos(d.end)
    BY <1>3 DEF SpecializedRow, SpanRow
  <2> QED BY <1>1, <1>3, <2>1, <2>2, <2>3
<1>4. CASE d.signal = "metric"
  <2>1. TimeFields \cap DOMAIN d = {"start", "time"}
    BY <1>4, GoodParts DEF WireFields, TimeFields
  <2>2. d.start > MaxInt64 \/ d.time > MaxInt64
    BY <1>1, <2>1, RecordsAssumption DEF InInt64
  <2>3. SpecializedRow(d).startTime = Or(d.start, d.time)
    BY <1>4 DEF SpecializedRow, MetricRow
  <2> QED BY <1>1, <1>4, <2>1, <2>2, <2>3 DEF Times, SentTimes, Or
<1> QED BY <1>2, <1>3, <1>4, GoodParts

-----------------------------------------------------------------------------
(* The invariant: what was ingested fits, and its row is there.            *)
RecordsInv ==
  /\ count \in 0..MaxIngests
  /\ \A i \in ingested : IsGood(i.record) /\ i.row = Row(i.record)
  /\ resourceRows = {i.row : i \in ingested}

LEMMA RecordsStart == RecordsInit => RecordsInv
BY RecordsAssumption DEF RecordsInit, RecordsInv

LEMMA RecordsStep == RecordsInv /\ [RecordsNext]_recordVars => RecordsInv'
<1> SUFFICES ASSUME RecordsInv, [RecordsNext]_recordVars PROVE RecordsInv'
  OBVIOUS
<1>1. ASSUME NEW envelope \in RecordLists, count < MaxIngests, Ingest(envelope) PROVE RecordsInv'
  <2>1. count' \in 0..MaxIngests
    BY <1>1, RecordsAssumption DEF RecordsInv, Ingest
  <2>2. CASE Admitted(envelope)
    <3> DEFINE new == {[record |-> d, row |-> Row(d)] : d \in Range(envelope)}
    <3>1. ingested' = ingested \cup new /\ resourceRows' = resourceRows \cup {Row(d) : d \in Range(envelope)}
      BY <1>1, <2>2 DEF Ingest
    <3>2. \A d \in Range(envelope) : IsGood(d)
      BY <2>2, RecordsAssumption DEF Admitted, IsGood
    <3>3. \A i \in new : IsGood(i.record) /\ i.row = Row(i.record)
      BY <3>2
    <3>4. {Row(d) : d \in Range(envelope)} = {i.row : i \in new}
      <4>1. ASSUME NEW d \in Range(envelope) PROVE \E i \in new : i.row = Row(d)
        <5>1. [record |-> d, row |-> Row(d)] \in new
          OBVIOUS
        <5> QED BY <5>1
      <4>2. \A i \in new : \E d \in Range(envelope) : i.row = Row(d)
        OBVIOUS
      <4> HIDE DEF new
      <4> QED BY <4>1, <4>2
    <3>5. resourceRows' = {i.row : i \in ingested'}
      <4> HIDE DEF new
      <4> QED BY <3>1, <3>4 DEF RecordsInv
    <3> QED BY <2>1, <3>1, <3>3, <3>5 DEF RecordsInv
  <2>3. CASE ~Admitted(envelope)
    BY <1>1, <2>1, <2>3 DEF Ingest, RecordsInv
  <2> QED BY <2>2, <2>3
<1>2. CASE UNCHANGED recordVars
  BY <1>2 DEF recordVars, RecordsInv
<1> QED BY <1>1, <1>2 DEF RecordsNext

LEMMA RecordsAreMapped == RecordsInv => Mapped
<1> SUFFICES ASSUME RecordsInv PROVE Mapped
  OBVIOUS
<1>1. ASSUME NEW i \in ingested
      PROVE  /\ IsGood(i.record)
             /\ Common(i.row) = CommonRow(i.record) /\ Special(i.row) = SpecializedRow(i.record)
             /\ Common(i.row).profile = i.record.signal
             /\ Common(i.row).eventTime = Times(i.record).event /\ Common(i.row).observedTime = Times(i.record).observed
  <2>1. IsGood(i.record) /\ i.row = Row(i.record)
    BY DEF RecordsInv
  <2>2. Common(i.row) = CommonRow(i.record) /\ Special(i.row) = SpecializedRow(i.record)
    BY <2>1 DEF Row, Fields, Common, Special
  <2> QED BY <2>1, <2>2 DEF CommonRow
<1>2. ASSUME NEW row \in resourceRows
      PROVE  LET profile == Common(row).profile
             IN  /\ DOMAIN Special(row) = RowFields[profile]
                 /\ \A f \in OptionalIds \cap DOMAIN Special(row) :
                      Special(row)[f] = "null" => f \in Nullable(profile)
                 /\ "body" \in DOMAIN Special(row) => "body" \in Nullable(profile)
  <2>1. PICK i \in ingested : row = i.row
    BY DEF RecordsInv
  <2> QED BY <1>1, <2>1, RowHasFields, NullsAreNullable
<1>3. RecordsTypeOK
  BY <1>2 DEF RecordsInv, RecordsTypeOK
<1>4. ASSUME NEW i \in ingested
      PROVE  /\ Retained(i) <=> InInt64(i.record)
             /\ InInt64(i.record) =>
                  /\ Common(i.row).eventTime # 0 /\ Common(i.row).observedTime # 0
                  /\ Common(i.row).profile = "span" => Special(i.row).startTime <= Special(i.row).endTime
                  /\ Common(i.row).profile = "metric" => Special(i.row).startTime # 0
             /\ Common(i.row).profile = "span" => Special(i.row).spanKind # "" /\ Special(i.row).status # ""
             /\ Common(i.row).profile = "metric" => Special(i.row).temporality # ""
  <2>1. ASSUME InInt64(i.record)
        PROVE  /\ Retained(i) /\ Common(i.row).eventTime # 0 /\ Common(i.row).observedTime # 0
               /\ Common(i.row).profile = "span" => Special(i.row).startTime <= Special(i.row).endTime
               /\ Common(i.row).profile = "metric" => Special(i.row).startTime # 0
    BY <1>1, <2>1, TimesFit DEF Retained
  <2>2. ASSUME ~InInt64(i.record) PROVE ~Retained(i)
    BY <1>1, <2>2, TimesLost DEF Retained
  <2> QED BY <1>1, <2>1, <2>2, NamesFit
<1>5. RowsComplete
  BY <1>4 DEF RowsComplete
<1> QED BY <1>3, <1>5 DEF Mapped

LEMMA IdentitiesAreRecords == RecordsInv => IdentityIsRecord
<1> SUFFICES ASSUME RecordsInv PROVE IdentityIsRecord
  OBVIOUS
<1>1. ASSUME NEW i \in ingested, NEW j \in ingested
      PROVE  SameRecord(i.record, j.record) <=> i.row.identity = j.row.identity
  <2>1. /\ IsGood(i.record) /\ i.row.identity = Identity(i.record)
        /\ IsGood(j.record) /\ j.row.identity = Identity(j.record)
    <3>1. IsGood(i.record) /\ i.row = Row(i.record) /\ IsGood(j.record) /\ j.row = Row(j.record)
      BY DEF RecordsInv
    <3> QED BY <3>1 DEF Row
  <2> QED BY <2>1, IdentityTold
<1> QED BY <1>1 DEF IdentityIsRecord, RetryCoalesces, IdentityTellsRecord

THEOREM RecordsInvariant == RecordsSpec => []RecordsInv
BY RecordsStart, RecordsStep, PTL DEF RecordsSpec

\* What validation admits is mapped to a row with the fields, the nulls and the names of its
\* profile, and with the times it was sent with exactly if an int64 holds all of them.
THEOREM RecordsMapped == RecordsSpec => []Mapped
BY RecordsInvariant, RecordsAreMapped, PTL

\* Two records have one identity exactly if they say the same: attributes and maps in any order
\* become one canonical text, and no two values share one.
THEOREM OneIdentityPerRecord == RecordsSpec => []IdentityIsRecord
BY RecordsInvariant, IdentitiesAreRecords, PTL
==============================================================================
