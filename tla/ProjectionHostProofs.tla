-------------------------- MODULE ProjectionHostProofs --------------------------
(* The safety of the projection host for every number of source            *)
(* identities, versions, hosts, and every batch size and poison threshold. *)
EXTENDS ProjectionHost, TLAPS

(* An identity is the pair of its key and its version.                     *)
LEMMA IdParts ==
  ASSUME NEW e \in Ids
  PROVE  e[1] \in Keys /\ e[2] \in Versions /\ e = <<e[1], e[2]>>
  BY DEF Ids

(* The version a commit creates is one of the bounded versions.            *)
LEMMA NewVersion ==
  ASSUME TypeOK, NEW k \in Keys, NEW m \in Mutations, SourceCommit(k, m)
  PROVE  source[k] + 1 \in Versions /\ <<k, source[k] + 1>> \in Ids
  BY BoundAssumption DEF TypeOK, SourceCommit, Versions, Ids

LEMMA TypeInit == Init => TypeOK
  BY BoundAssumption, HostAssumption
  DEF Init, TypeOK, Works, NoWork, Stages, Statuses, Contents

(* The record of the event in hand keeps its type when one field changes.  *)
LEMMA WorkFields ==
  ASSUME NEW w \in Works
  PROVE  /\ \A e \in Ids : [w EXCEPT !.event = e] \in Works
         /\ \A x \in Expressions : [w EXCEPT !.expr = x] \in Works
         /\ \A v \in 0..MaxVersion : [w EXCEPT !.result = v] \in Works
         /\ \A f \in Faults : [w EXCEPT !.fault = f] \in Works
         /\ \A e \in Ids, f \in Faults : [w EXCEPT !.event = e, !.fault = f] \in Works
  BY DEF Works

(* The types hold together with what each stage of a host guarantees.      *)
LEMMA TypeStep == TypeOK /\ HostsKnow /\ [Next]_vars => TypeOK'
<1> SUFFICES ASSUME TypeOK, HostsKnow, [Next]_vars PROVE TypeOK'
  OBVIOUS
<1> USE BoundAssumption, HostAssumption DEF TypeOK
<1>w. \A h \in Hosts : work[h] \in Works
  OBVIOUS
<1>n. NoWork \in Works
  BY DEF NoWork, Works
<1>f. ASSUME NEW h \in Hosts, NEW fault \in Faults, Fail(h, fault)
      PROVE  pc' \in [Hosts -> Stages] /\ work' \in [Hosts -> Works]
  <2>1. [work[h] EXCEPT !.fault = fault] \in Works
    BY WorkFields
  <2> QED BY <1>f, <2>1 DEF Fail, Stages
<1>1. ASSUME NEW k \in Keys, NEW m \in Mutations, SourceCommit(k, m) PROVE TypeOK'
  <2>1. <<k, source[k] + 1>> \in Ids /\ source[k] + 1 \in 0..MaxVersion
    BY <1>1 DEF SourceCommit, Ids, Versions
  <2> QED BY <1>1, <2>1 DEF SourceCommit, Mutations, Statuses, hostVars
<1>2. ASSUME NEW h \in Hosts, Start(h) \/ Drain(h) \/ BeginCycle(h) PROVE TypeOK'
  BY <1>2 DEF Start, Drain, BeginCycle, Stages, sourceVars, outboxVars
<1>3. ASSUME NEW h \in Hosts, StopSignal(h) PROVE TypeOK'
  BY <1>3 DEF StopSignal, sourceVars, outboxVars
<1>4. ASSUME NEW h \in Hosts, Die(h) PROVE TypeOK'
  BY <1>4, <1>n DEF Die, Stages, sourceVars, outboxVars
<1>5. ASSUME NEW h \in Hosts, Claim(h) PROVE TypeOK'
  <2>1. PICK B \in SUBSET {e \in Ids : Claimable(e)} :
          /\ status' = [e \in Ids |-> IF e \in B THEN "LEASED" ELSE status[e]]
          /\ lease' = [e \in Ids |-> IF e \in B THEN h ELSE lease[e]]
          /\ live' = [e \in Ids |-> e \in B \/ live[e]]
          /\ attempts' = [e \in Ids |->
               IF e \in B /\ attempts[e] < PoisonThreshold THEN attempts[e] + 1
                                                           ELSE attempts[e]]
          /\ batch' = [batch EXCEPT ![h] = B]
          /\ pc' = [pc EXCEPT ![h] = IF B = {} THEN "idle" ELSE "ready"]
    BY <1>5 DEF Claim
  <2>2. UNCHANGED <<source, kind, checkpoint, rows, stop, work>>
    BY <1>5 DEF Claim, sourceVars
  <2>3. status' \in [Ids -> Statuses] /\ lease' \in [Ids -> Hosts \cup {NoHost}]
    BY <2>1 DEF Statuses
  <2>4. live' \in [Ids -> BOOLEAN]
    BY <2>1
  <2>5. attempts' \in [Ids -> 0..PoisonThreshold]
    BY <2>1
  <2>6. batch' \in [Hosts -> SUBSET Ids] /\ pc' \in [Hosts -> Stages]
    BY <2>1 DEF Stages
  <2> QED BY <2>2, <2>3, <2>4, <2>5, <2>6
<1>6. ASSUME NEW e \in Ids, Expire(e) PROVE TypeOK'
  BY <1>6 DEF Expire, sourceVars, hostVars
<1>7. ASSUME NEW h \in Hosts, Load(h) PROVE TypeOK'
  <2>1. PICK e \in batch[h] :
          /\ batch' = [batch EXCEPT ![h] = @ \ {e}]
          /\ \/ /\ pc' = [pc EXCEPT ![h] = "loaded"]
                /\ work' = [work EXCEPT ![h].event = e]
             \/ \E fault \in Faults :
                  /\ pc' = [pc EXCEPT ![h] = "failing"]
                  /\ work' = [work EXCEPT ![h].event = e, ![h].fault = fault]
    BY <1>7 DEF Load
  <2>2. e \in Ids
    OBVIOUS
  <2>3. work' \in [Hosts -> Works]
    <3>1. CASE work' = [work EXCEPT ![h].event = e]
      BY <2>2, <3>1, <1>w, WorkFields
    <3>2. ASSUME NEW fault \in Faults,
                 work' = [work EXCEPT ![h].event = e, ![h].fault = fault]
          PROVE  work' \in [Hosts -> Works]
      <4>1. [work[h] EXCEPT !.event = e] \in Works
        BY <2>2, <1>w, WorkFields
      <4>2. [[work[h] EXCEPT !.event = e] EXCEPT !.fault = fault] \in Works
        BY <4>1, WorkFields
      <4>3. work' = [work EXCEPT ![h] = [[work[h] EXCEPT !.event = e] EXCEPT !.fault = fault]]
        BY <3>2
      <4> QED BY <4>2, <4>3
    <3> QED BY <2>1, <3>1, <3>2
  <2>4. pc' \in [Hosts -> Stages] /\ batch' \in [Hosts -> SUBSET Ids]
    BY <2>1 DEF Stages
  <2> QED BY <1>7, <2>3, <2>4 DEF Load, sourceVars, outboxVars
<1>8. ASSUME NEW h \in Hosts, Project(h) PROVE TypeOK'
  <2>1. pc' \in [Hosts -> Stages] /\ work' \in [Hosts -> Works]
    <3>1. ASSUME NEW x \in Proposed(Event(h)), pc' = [pc EXCEPT ![h] = "projected"],
                 work' = [work EXCEPT ![h].expr = x]
          PROVE  pc' \in [Hosts -> Stages] /\ work' \in [Hosts -> Works]
      <4>1. [work[h] EXCEPT !.expr = x] \in Works
        BY WorkFields DEF Proposed
      <4> QED BY <3>1, <4>1 DEF Stages
    <3> QED BY <1>8, <1>f, <3>1 DEF Project, Faults
  <2> QED BY <1>8, <2>1 DEF Project, sourceVars, outboxVars
<1>9. ASSUME NEW h \in Hosts, Put(h) PROVE TypeOK'
  <2> DEFINE x == work[h].expr
             stored == [rows EXCEPT ![x.id] = ContentOf(x)]
  <2>1. rows' \in {rows, stored}
    BY <1>9 DEF Put
  <2>2. stored \in [Ids -> Contents \cup {"none"}]
    BY DEF Contents, ContentOf
  <2>3. x.sourceVersion \in 0..MaxVersion
    BY <1>9 DEF Put, HostsKnow, Knows, Proposed, Expressions, Versions
  <2>4. \A v \in 0..MaxVersion : [work[h] EXCEPT !.result = v] \in Works
    BY <1>w, WorkFields
  <2>5. pc' \in [Hosts -> Stages] /\ work' \in [Hosts -> Works]
    <3>1. ASSUME NEW v \in 0..MaxVersion, work' = [work EXCEPT ![h].result = v],
                 pc' = [pc EXCEPT ![h] = "written"]
          PROVE  pc' \in [Hosts -> Stages] /\ work' \in [Hosts -> Works]
      BY <2>4, <3>1 DEF Stages
    <3> QED BY <1>9, <1>f, <2>3, <3>1 DEF Put
  <2> QED BY <1>9, <2>1, <2>2, <2>5 DEF Put, sourceVars, outboxVars
<1>10. ASSUME NEW h \in Hosts, Acknowledge(h) PROVE TypeOK'
  BY <1>10, <1>f DEF Acknowledge, Stages, sourceVars, outboxVars, Faults
<1>s. ASSUME NEW e \in Ids, NEW s \in Statuses, Settle(e, s)
      PROVE  /\ status' \in [Ids -> Statuses] /\ lease' \in [Ids -> Hosts \cup {NoHost}]
             /\ live' \in [Ids -> BOOLEAN] /\ attempts' \in [Ids -> 0..PoisonThreshold]
  BY <1>s DEF Settle
<1>a. ASSUME NEW h \in Hosts, Advance(h)
      PROVE  pc' \in [Hosts -> Stages] /\ work' \in [Hosts -> Works]
  BY <1>a, <1>n DEF Advance, Stages
<1>11. ASSUME NEW h \in Hosts, Complete(h) PROVE TypeOK'
  <2> DEFINE e == Event(h)
  <2>1. e \in Ids /\ e[1] \in Keys /\ e[2] \in 0..MaxVersion
    BY <1>11, IdParts DEF Complete, HostsKnow, Knows, Handling, Versions
  <2>2. pc' \in [Hosts -> Stages] /\ work' \in [Hosts -> Works]
    BY <1>11, <1>f DEF Complete, Stages
  <2>3. CASE Settle(e, "COMPLETED") /\ \E v \in {e[2], IF e[2] > checkpoint[e[1]] THEN e[2] ELSE checkpoint[e[1]]} :
             checkpoint' = [checkpoint EXCEPT ![e[1]] = v]
    <3>1. checkpoint' \in [Keys -> 0..MaxVersion]
      BY <2>1, <2>3
    <3> QED BY <1>11, <1>s, <2>1, <2>2, <2>3, <3>1 DEF Complete, sourceVars, Statuses, Final
  <2>4. CASE UNCHANGED outboxVars
    BY <1>11, <2>2, <2>4 DEF Complete, sourceVars, outboxVars
  <2> QED BY <1>11, <2>3, <2>4 DEF Complete
<1>12. ASSUME NEW h \in Hosts, Release(h) PROVE TypeOK'
  <2>1. CASE Settle(Event(h), Verdict(h)) /\ pc' = [pc EXCEPT ![h] = "released"]
             /\ UNCHANGED <<checkpoint, work>>
    <3>1. Event(h) \in Ids /\ Verdict(h) \in Statuses
      BY <1>12 DEF Release, HostsKnow, Knows, Handling, Verdict, Statuses, Final
    <3> QED BY <1>12, <1>s, <2>1, <3>1 DEF Release, sourceVars, Stages
  <2>2. CASE Advance(h) /\ UNCHANGED outboxVars
    BY <1>12, <1>a, <2>2 DEF Release, sourceVars, outboxVars
  <2> QED BY <1>12, <2>1, <2>2 DEF Release
<1>13. ASSUME NEW h \in Hosts, Record(h) PROVE TypeOK'
  BY <1>13, <1>a, <1>f DEF Record, sourceVars, outboxVars
<1>14. CASE UNCHANGED vars
  BY <1>14 DEF vars, sourceVars, outboxVars, hostVars
<1> QED
  BY <1>1, <1>2, <1>3, <1>4, <1>5, <1>6, <1>7, <1>8, <1>9, <1>10, <1>11, <1>12,
     <1>13, <1>14 DEF Next, HostStep

-----------------------------------------------------------------------------
\* The facts a step may use.
Known == TypeOK /\ OutboxMirrorsSource /\ FaithfulRows /\ HostsKnow

(* A mutation keeps its kind once it is committed.                         *)
LEMMA KindStable ==
  ASSUME Known, [Next]_vars, NEW e \in Ids, kind[e] # "none"
  PROVE  kind'[e] = kind[e]
<1>1. ASSUME NEW k \in Keys, NEW m \in Mutations, SourceCommit(k, m) PROVE kind'[e] = kind[e]
  <2>1. <<k, source[k] + 1>> \in Ids /\ source[k] + 1 \in Versions
    BY <1>1, NewVersion DEF Known
  <2>2. kind[<<k, source[k] + 1>>] = "none"
    BY <2>1 DEF Known, TypeOK, OutboxMirrorsSource, Versions
  <2> QED BY <1>1, <2>1, <2>2 DEF SourceCommit, Known, TypeOK
<1>2. CASE UNCHANGED kind
  BY <1>2
<1> QED BY <1>1, <1>2 DEF Next, HostStep, Start, StopSignal, Die, Drain, BeginCycle, Claim,
     Expire, Load, Project, Put, Acknowledge, Complete, Release, Record,
     vars, sourceVars

(* The target changes by nothing but the row of the event in hand of a     *)
(* host, and that row gets the content of the event.                       *)
LEMMA RowMoves ==
  ASSUME Known, [Next]_vars
  PROVE  \/ rows' = rows
         \/ \E e \in Ids : /\ kind[e] # "none"
                           /\ rows' = [rows EXCEPT ![e] = Content(e)]
<1>1. ASSUME NEW h \in Hosts, Put(h)
      PROVE  LET e == Event(h)
             IN  /\ e \in Ids /\ kind[e] # "none"
                 /\ rows' \in {rows, [rows EXCEPT ![e] = Content(e)]}
  <2> DEFINE e == Event(h)
             x == work[h].expr
  <2>1. e \in Ids /\ kind[e] # "none" /\ x \in Proposed(e) /\ Admitted(e, x)
    BY <1>1 DEF Put, Known, HostsKnow, Knows, Handling
  <2>2. x.id = e
    BY <2>1, IdParts DEF Admitted
  <2>3. ContentOf(x) = Content(e)
    BY <2>1 DEF Proposed, Admitted, ContentOf, Content
  <2> QED BY <1>1, <2>1, <2>2, <2>3 DEF Put
<1>2. CASE UNCHANGED rows
  BY <1>2
<1> QED BY <1>1, <1>2 DEF Next, HostStep, SourceCommit, Start, StopSignal, Die, Drain,
     BeginCycle, Claim, Expire, Load, Project, Acknowledge, Complete, Release,
     Record, vars

(* A row that holds the content of a committed event keeps it.             *)
LEMMA RowStable ==
  ASSUME Known, [Next]_vars, NEW e \in Ids, rows[e] # "none"
  PROVE  rows'[e] = rows[e]
<1>1. rows[e] = Content(e)
  BY DEF Known, FaithfulRows
<1> QED BY <1>1, RowMoves DEF Known, TypeOK

LEMMA FaithfulStep ==
  ASSUME Known, [Next]_vars
  PROVE  FaithfulRows'
<1> SUFFICES ASSUME NEW e \in Ids, rows'[e] # "none"
             PROVE  kind'[e] # "none" /\ rows'[e] = (Content(e))'
  BY DEF FaithfulRows
<1>1. kind[e] # "none" /\ rows'[e] = Content(e)
  BY RowMoves DEF Known, FaithfulRows, TypeOK
<1>2. kind'[e] = kind[e]
  BY <1>1, KindStable
<1> QED BY <1>1, <1>2 DEF Content

(* What a step does to the outbox: nothing, a claim, or the settlement of  *)
(* a held intent, which completes it only over its own row.                *)
LEMMA OutboxMoves ==
  ASSUME Known, [Next]_vars, NEW e \in Ids
  PROVE  \/ status'[e] = status[e]
         \/ status[e] = "ABSENT" /\ status'[e] = "PENDING" /\ source' # source
         \/ status[e] \in {"PENDING", "RETRYABLE", "LEASED"} /\ status'[e] = "LEASED"
         \/ status[e] = "LEASED" /\ status'[e] = "RETRYABLE" /\ attempts'[e] < PoisonThreshold
         \/ status[e] = "LEASED" /\ status'[e] = "QUARANTINED"
         \/ status[e] = "LEASED" /\ status'[e] = "COMPLETED" /\ rows[e] = Content(e)
<1> USE DEF Known, TypeOK
<1>1. ASSUME NEW k \in Keys, NEW m \in Mutations, SourceCommit(k, m)
      PROVE  \/ status'[e] = status[e]
             \/ status[e] = "ABSENT" /\ status'[e] = "PENDING" /\ source' # source
  <2>1. <<k, source[k] + 1>> \in Ids /\ source[k] + 1 \in Versions
    BY <1>1, NewVersion
  <2>2. status[<<k, source[k] + 1>>] = "ABSENT"
    BY <2>1 DEF OutboxMirrorsSource, Versions
  <2> QED BY <1>1, <2>1, <2>2 DEF SourceCommit
<1>2. ASSUME NEW h \in Hosts, Claim(h)
      PROVE  status'[e] = status[e] \/
             (status[e] \in {"PENDING", "RETRYABLE", "LEASED"} /\ status'[e] = "LEASED")
  BY <1>2 DEF Claim, Claimable
<1>3. ASSUME NEW h \in Hosts, Complete(h)
      PROVE  status'[e] = status[e] \/
             (status[e] = "LEASED" /\ status'[e] = "COMPLETED" /\ rows[e] = Content(e))
  <2>1. Event(h) \in Ids /\ rows[Event(h)] = Content(Event(h))
    BY <1>3 DEF Complete, HostsKnow, Knows, Handling
  <2> QED BY <1>3, <2>1 DEF Complete, Settle, Holds, outboxVars
<1>4. ASSUME NEW h \in Hosts, Release(h)
      PROVE  \/ status'[e] = status[e]
             \/ status[e] = "LEASED" /\ status'[e] = "QUARANTINED"
             \/ status[e] = "LEASED" /\ status'[e] = "RETRYABLE" /\ attempts'[e] < PoisonThreshold
  <2>1. Event(h) \in Ids
    BY <1>4 DEF Release, HostsKnow, Knows, Handling
  <2> QED BY <1>4, <2>1 DEF Release, Settle, Verdict, Holds, outboxVars
<1>5. CASE UNCHANGED status
  BY <1>5
<1> QED BY <1>1, <1>2, <1>3, <1>4, <1>5 DEF Next, HostStep, Start, StopSignal, Die, Drain,
     BeginCycle, Expire, Load, Project, Put, Acknowledge, Record, vars, outboxVars

LEMMA OutboxMirrorsStep ==
  ASSUME Known, [Next]_vars
  PROVE  OutboxMirrorsSource'
<1> USE DEF Known, TypeOK
<1>1. ASSUME NEW k \in Keys, NEW m \in Mutations, SourceCommit(k, m) PROVE OutboxMirrorsSource'
  <2> SUFFICES ASSUME NEW j \in Keys, NEW v \in Versions
               PROVE  /\ kind'[<<j, v>>] = "none" <=> v > source'[j]
                      /\ status'[<<j, v>>] = "ABSENT" <=> v > source'[j]
    BY DEF OutboxMirrorsSource
  <2>1. <<j, v>> \in Ids /\ <<k, source[k] + 1>> \in Ids
    BY <1>1, NewVersion DEF Ids
  <2>2. <<j, v>> = <<k, source[k] + 1>> <=> j = k /\ v = source[k] + 1
    OBVIOUS
  <2>3. /\ kind[<<j, v>>] = "none" <=> v > source[j]
        /\ status[<<j, v>>] = "ABSENT" <=> v > source[j]
    BY DEF OutboxMirrorsSource
  <2> QED BY <1>1, <2>1, <2>2, <2>3 DEF SourceCommit, Mutations, Versions
<1>2. CASE UNCHANGED sourceVars
  <2>1. \A e \in Ids : status'[e] = "ABSENT" <=> status[e] = "ABSENT"
    BY <1>2, OutboxMoves DEF sourceVars
  <2> QED BY <1>2, <2>1 DEF sourceVars, OutboxMirrorsSource, Ids
<1> QED BY <1>1, <1>2 DEF Next, HostStep, Start, StopSignal, Die, Drain, BeginCycle, Claim,
     Expire, Load, Project, Put, Acknowledge, Complete, Release, Record, vars

-----------------------------------------------------------------------------
(* Completion and the checkpoint stay backed by rows.                      *)
LEMMA BackedStep ==
  ASSUME Known, BackedProgress, [Next]_vars
  PROVE  BackedProgress'
<1> USE DEF Known, TypeOK
<1>1. ASSUME NEW e \in Ids, status'[e] = "COMPLETED" PROVE rows'[e] = (Content(e))'
  <2>1. status[e] = "COMPLETED" \/ (status[e] = "LEASED" /\ rows[e] = Content(e))
    BY <1>1, OutboxMoves
  <2>2. rows[e] = Content(e) /\ rows[e] # "none"
    BY <2>1 DEF BackedProgress, Content
  <2>3. rows'[e] = rows[e] /\ kind'[e] = kind[e]
    BY <2>2, RowStable, KindStable DEF FaithfulRows
  <2> QED BY <2>2, <2>3 DEF Content
<1>2. ASSUME NEW e \in Ids, status[e] = "COMPLETED" PROVE status'[e] = "COMPLETED"
  BY <1>2, OutboxMoves
<1>3. ASSUME NEW k \in Keys, checkpoint'[k] > 0
      PROVE  status'[<<k, checkpoint'[k]>>] = "COMPLETED"
  <2>1. CASE checkpoint'[k] = checkpoint[k]
    <3>1. <<k, checkpoint[k]>> \in Ids /\ status[<<k, checkpoint[k]>>] = "COMPLETED"
      BY <1>3, <2>1, BoundAssumption DEF BackedProgress, Ids, Versions
    <3> QED BY <2>1, <3>1, <1>2
  <2>2. ASSUME NEW h \in Hosts, Complete(h), checkpoint'[k] # checkpoint[k]
        PROVE  status'[<<k, checkpoint'[k]>>] = "COMPLETED"
    <3> DEFINE e == Event(h)
    <3>1. e \in Ids
      BY <2>2 DEF Complete, HostsKnow, Knows, Handling
    <3>2. /\ status' = [status EXCEPT ![e] = "COMPLETED"]
          /\ \E v \in {e[2], IF e[2] > checkpoint[e[1]] THEN e[2] ELSE checkpoint[e[1]]} :
               checkpoint' = [checkpoint EXCEPT ![e[1]] = v]
      BY <2>2 DEF Complete, Settle, outboxVars
    <3>3. e[1] \in Keys /\ e = <<e[1], e[2]>>
      BY <3>1, IdParts
    <3>4. k = e[1] /\ checkpoint'[k] = e[2]
      BY <2>2, <3>2, <3>3
    <3> QED BY <3>1, <3>2, <3>3, <3>4
  <2>3. CASE UNCHANGED checkpoint
    BY <2>1, <2>3
  <2> QED BY <2>1, <2>2, <2>3 DEF Next, HostStep, SourceCommit, Start, StopSignal, Die,
       Drain, BeginCycle, Claim, Expire, Load, Project, Put, Acknowledge, Release,
       Settle, Record, vars, outboxVars
<1> QED BY <1>1, <1>3 DEF BackedProgress

(* What a host knows survives every step of others.                        *)
LEMMA KnowsFrame ==
  ASSUME Known, [Next]_vars, NEW g \in Hosts,
         pc'[g] = pc[g], batch'[g] = batch[g], work'[g] = work[g]
  PROVE  (Knows(g))'
<1> USE DEF Known, TypeOK
<1>1. Knows(g)
  BY DEF HostsKnow
<1>2. \A e \in Ids : kind[e] # "none" => kind'[e] = kind[e]
  BY KindStable
<1>3. \A e \in Ids : rows[e] # "none" => rows'[e] = rows[e]
  BY RowStable
<1>4. \A e \in batch[g] : kind'[e] # "none"
  BY <1>1, <1>2 DEF Knows
<1>5. ASSUME pc[g] \in Handling \cup {"released"}
      PROVE  Event(g) \in Ids /\ kind[Event(g)] # "none" /\ kind'[Event(g)] = kind[Event(g)]
  BY <1>1, <1>2, <1>5 DEF Knows
<1>6. ASSUME pc[g] \in {"projected", "written"}
      PROVE  (work[g].expr \in Proposed(Event(g)) /\ Admitted(Event(g), work[g].expr))'
  BY <1>1, <1>5, <1>6 DEF Knows, Handling, Proposed, Admitted, Event
<1>7. ASSUME pc[g] = "acknowledged" \/ (pc[g] = "written" /\ work[g].result = Event(g)[2])
      PROVE  (rows[Event(g)] = Content(Event(g)))'
  <2>1. rows[Event(g)] = Content(Event(g)) /\ rows[Event(g)] # "none"
    BY <1>1, <1>7 DEF Knows, Content
  <2> QED BY <1>3, <1>5, <1>7, <2>1 DEF Handling, Content, Event
<1>8. ASSUME pc[g] = "completed" PROVE status'[Event(g)] = "COMPLETED"
  BY <1>1, <1>5, <1>8, OutboxMoves DEF Knows, Handling
<1> QED BY <1>4, <1>5, <1>6, <1>7, <1>8 DEF Knows, Event

(* ... and its own next step establishes what the next stage needs.        *)
LEMMA KnowsStep ==
  ASSUME Known, [Next]_vars
  PROVE  HostsKnow'
<1> USE DEF Known, TypeOK
<1> SUFFICES ASSUME NEW g \in Hosts PROVE (Knows(g))'
  BY DEF HostsKnow
<1>k. Knows(g)
  BY DEF HostsKnow
<1>c. \A e \in Ids : kind[e] # "none" => kind'[e] # "none"
  BY KindStable
<1>b. \A e \in batch[g] : kind'[e] # "none"
  BY <1>k, <1>c DEF Knows
<1>e. ASSUME pc[g] \in Handling \cup {"released"}
      PROVE  Event(g) \in Ids /\ kind'[Event(g)] # "none"
  BY <1>k, <1>c, <1>e DEF Knows
<1>f. ASSUME NEW fault \in Faults, Fail(g, fault), batch' = batch,
             pc[g] \in Handling \cup {"completed"}
      PROVE  (Knows(g))'
  <2>1. pc'[g] = "failing" /\ (Event(g))' = Event(g)
    BY <1>f DEF Fail, Event
  <2> QED BY <1>b, <1>e, <1>f, <2>1 DEF Knows, Handling
<1>a. ASSUME Advance(g), batch' = batch PROVE (Knows(g))'
  <2>1. pc'[g] \in {"idle", "ready"}
    BY <1>a DEF Advance
  <2> QED BY <1>a, <1>b, <2>1 DEF Knows, Handling
<1>1. CASE Start(g) \/ Drain(g) \/ BeginCycle(g)
  <2>1. pc'[g] \in {"idle", "drained", "observed"} /\ batch' = batch
    BY <1>1 DEF Start, Drain, BeginCycle
  <2> QED BY <1>b, <2>1 DEF Knows, Handling
<1>2. CASE Die(g)
  <2>1. pc'[g] = "dead" /\ batch'[g] = {}
    BY <1>2 DEF Die
  <2> QED BY <2>1 DEF Knows, Handling
<1>3. CASE Claim(g)
  <2>1. PICK B \in SUBSET {e \in Ids : Claimable(e)} : batch' = [batch EXCEPT ![g] = B]
    BY <1>3 DEF Claim
  <2>2. pc'[g] \in {"idle", "ready"} /\ kind' = kind
    BY <1>3 DEF Claim, sourceVars
  <2>3. ASSUME NEW e \in B PROVE kind[e] # "none"
    BY <2>3, IdParts DEF Claimable, OutboxMirrorsSource
  <2> QED BY <2>1, <2>2, <2>3 DEF Knows, Handling
<1>4. CASE Load(g)
  <2>1. PICK e \in batch[g] :
          /\ batch' = [batch EXCEPT ![g] = @ \ {e}]
          /\ \/ /\ pc' = [pc EXCEPT ![g] = "loaded"]
                /\ work' = [work EXCEPT ![g].event = e]
             \/ \E fault \in Faults :
                  /\ pc' = [pc EXCEPT ![g] = "failing"]
                  /\ work' = [work EXCEPT ![g].event = e, ![g].fault = fault]
    BY <1>4 DEF Load
  <2>2. e \in Ids /\ (Event(g))' = e /\ pc'[g] \in {"loaded", "failing"}
    BY <2>1 DEF Works, Event
  <2>3. batch'[g] \subseteq batch[g]
    BY <2>1
  <2> QED BY <1>b, <2>2, <2>3 DEF Knows, Handling
<1>5. CASE Project(g)
  <2>1. ASSUME NEW x \in Proposed(Event(g)), Admitted(Event(g), x),
               pc' = [pc EXCEPT ![g] = "projected"], work' = [work EXCEPT ![g].expr = x]
        PROVE  (Knows(g))'
    <3>1. (Event(g))' = Event(g) /\ work'[g].expr = x /\ pc'[g] = "projected"
      BY <2>1 DEF Event, Works
    <3>2. kind' = kind /\ batch' = batch
      BY <1>5 DEF Project, sourceVars
    <3>3. Event(g) \in Ids /\ kind'[Event(g)] # "none"
      BY <1>5, <1>e DEF Project, Handling
    <3> QED BY <2>1, <3>1, <3>2, <3>3, <1>b DEF Knows, Handling, Proposed, Admitted
  <2>2. pc[g] = "loaded" /\ batch' = batch
    BY <1>5 DEF Project
  <2> QED BY <1>5, <1>f, <2>1, <2>2 DEF Project, Handling, Faults
<1>6. CASE Put(g)
  <2> DEFINE e == Event(g)
             x == work[g].expr
  <2>1. /\ pc[g] = "projected" /\ batch' = batch /\ kind' = kind
        /\ e \in Ids /\ kind[e] # "none" /\ x \in Proposed(e) /\ Admitted(e, x)
    BY <1>6, <1>k DEF Put, Knows, Handling, sourceVars
  <2>2. x.id = e /\ x.sourceVersion = e[2] /\ ContentOf(x) = Content(e)
    BY <2>1, IdParts DEF Proposed, Admitted, ContentOf, Content
  <2>3. ASSUME NEW v \in 0..MaxVersion, work' = [work EXCEPT ![g].result = v],
               pc' = [pc EXCEPT ![g] = "written"], v = e[2] => rows'[e] = Content(e)
        PROVE  (Knows(g))'
    <3>1. /\ (Event(g))' = e /\ work'[g].expr = x /\ work'[g].result = v
          /\ pc'[g] = "written"
      BY <2>3 DEF Event, Works
    <3> QED BY <2>1, <2>3, <3>1, <1>b DEF Knows, Handling, Proposed, Admitted, Content
  <2>4. CASE /\ rows' = [rows EXCEPT ![x.id] = ContentOf(x)]
             /\ work' = [work EXCEPT ![g].result = x.sourceVersion]
             /\ pc' = [pc EXCEPT ![g] = "written"]
    <3>1. rows'[e] = Content(e) /\ x.sourceVersion \in 0..MaxVersion
      BY <2>1, <2>2, <2>4, IdParts DEF Versions
    <3> QED BY <2>3, <2>4, <3>1
  <2>5. CASE \E v \in 0..MaxVersion \ {x.sourceVersion} :
               /\ work' = [work EXCEPT ![g].result = v]
               /\ pc' = [pc EXCEPT ![g] = "written"]
    BY <2>2, <2>3, <2>5
  <2> QED BY <1>6, <1>f, <2>1, <2>4, <2>5 DEF Put, Handling
<1>7. CASE Acknowledge(g)
  <2>1. pc[g] = "written" /\ batch' = batch /\ kind' = kind /\ rows' = rows
    BY <1>7 DEF Acknowledge, sourceVars
  <2>2. CASE work[g].result = Event(g)[2] /\ pc' = [pc EXCEPT ![g] = "acknowledged"] /\ work' = work
    <3>1. rows[Event(g)] = Content(Event(g)) /\ (Event(g))' = Event(g) /\ pc'[g] = "acknowledged"
      BY <1>k, <2>1, <2>2 DEF Knows, Event
    <3> QED BY <2>1, <3>1, <1>b, <1>e DEF Knows, Handling, Content
  <2> QED BY <1>7, <1>f, <2>1, <2>2 DEF Acknowledge, Handling, Faults
<1>8. CASE Complete(g)
  <2>1. pc[g] = "acknowledged" /\ batch' = batch
    BY <1>8 DEF Complete
  <2>2. CASE pc' = [pc EXCEPT ![g] = "completed"] /\ work' = work
    <3>1. (Event(g))' = Event(g) /\ pc'[g] = "completed"
      BY <2>2 DEF Event
    <3>2. Event(g) \in Ids /\ (Settle(Event(g), "COMPLETED") => status'[Event(g)] = "COMPLETED")
      BY <2>1, <1>e DEF Handling, Settle
    <3> QED BY <1>8, <2>1, <2>2, <3>1, <3>2, <1>b, <1>e DEF Complete, Fail, Knows, Handling
  <2> QED BY <1>8, <1>f, <2>1, <2>2 DEF Complete, Handling
<1>9. CASE Release(g)
  <2>1. pc[g] = "failing" /\ batch' = batch
    BY <1>9 DEF Release
  <2>2. CASE pc' = [pc EXCEPT ![g] = "released"] /\ work' = work
    <3>1. (Event(g))' = Event(g) /\ pc'[g] = "released"
      BY <2>2 DEF Event
    <3> QED BY <2>1, <3>1, <1>b, <1>e DEF Knows, Handling
  <2> QED BY <1>9, <1>a, <2>1, <2>2 DEF Release
<1>10. CASE Record(g)
  <2>1. batch' = batch
    BY <1>10 DEF Record
  <2> QED BY <1>10, <1>a, <1>f, <2>1 DEF Record
<1>11. CASE pc'[g] = pc[g] /\ batch'[g] = batch[g] /\ work'[g] = work[g]
  BY <1>11, KnowsFrame
<1>12. ASSUME NEW h \in Hosts, h # g, HostStep(h) \/ Die(h)
       PROVE  pc'[g] = pc[g] /\ batch'[g] = batch[g] /\ work'[g] = work[g]
  BY <1>12 DEF HostStep, Start, Die, Drain, BeginCycle, Claim, Load, Project, Put,
     Acknowledge, Complete, Release, Record, Fail, Advance
<1> QED BY <1>1, <1>2, <1>3, <1>4, <1>5, <1>6, <1>7, <1>8, <1>9, <1>10, <1>11, <1>12
        DEF Next, HostStep, SourceCommit, StopSignal, Expire, vars, hostVars

-----------------------------------------------------------------------------
(* A host comes to hold an unexpired lease by its own claim only.          *)
LEMMA LeaseMoves ==
  ASSUME Known, [Next]_vars, NEW g \in Hosts, NEW e \in Ids, (Holds(g, e) /\ live[e])'
  PROVE  (Holds(g, e) /\ live[e]) \/ (Claim(g) /\ e \in batch'[g])
<1> USE DEF Known, TypeOK
<1>1. ASSUME NEW k \in Keys, NEW m \in Mutations, SourceCommit(k, m)
      PROVE  Holds(g, e) /\ live[e]
  <2>1. <<k, source[k] + 1>> \in Ids
    BY <1>1, NewVersion
  <2> QED BY <1>1, <2>1 DEF SourceCommit, Holds
<1>2. ASSUME NEW h \in Hosts, Claim(h)
      PROVE  (Holds(g, e) /\ live[e]) \/ (h = g /\ e \in batch'[g])
  BY <1>2 DEF Claim, Holds
<1>3. ASSUME NEW f \in Ids, Expire(f) PROVE Holds(g, e) /\ live[e]
  BY <1>3 DEF Expire, Holds
<1>4. ASSUME NEW f \in Ids, NEW s \in Statuses \ {"LEASED"}, Settle(f, s)
      PROVE  Holds(g, e) /\ live[e] /\ e # f
  BY <1>4 DEF Settle, Holds
<1>5. ASSUME NEW h \in Hosts, Complete(h) PROVE Holds(g, e) /\ live[e]
  <2>1. Event(h) \in Ids
    BY <1>5 DEF Complete, HostsKnow, Knows, Handling
  <2>2. "COMPLETED" \in Statuses \ {"LEASED"}
    BY DEF Statuses, Final
  <2> QED BY <1>4, <1>5, <2>1, <2>2 DEF Complete, outboxVars, Holds
<1>6. ASSUME NEW h \in Hosts, Release(h) PROVE Holds(g, e) /\ live[e]
  <2>1. Event(h) \in Ids
    BY <1>6 DEF Release, HostsKnow, Knows, Handling
  <2>2. Verdict(h) \in Statuses \ {"LEASED"}
    BY DEF Verdict, Statuses, Final
  <2> QED BY <1>4, <1>6, <2>1, <2>2 DEF Release, outboxVars, Holds
<1>7. CASE UNCHANGED outboxVars
  BY <1>7 DEF outboxVars, Holds
<1> QED BY <1>1, <1>2, <1>3, <1>5, <1>6, <1>7 DEF Next, HostStep, Start, StopSignal, Die,
     Drain, BeginCycle, Load, Project, Put, Acknowledge, Record, vars

(* Nothing a living host holds slips out of its hands.                     *)
LEMMA KeepsStep ==
  ASSUME Known, LeasesKept, [Next]_vars
  PROVE  LeasesKept'
<1> USE DEF Known, TypeOK
<1> SUFFICES ASSUME NEW g \in Hosts PROVE (Keeps(g))'
  BY DEF LeasesKept
<1>k. Keeps(g)
  BY DEF LeasesKept
<1>m. ASSUME NEW e \in Ids, (Holds(g, e) /\ live[e])', ~Claim(g), pc[g] # "dead"
      PROVE  Holds(g, e) /\ live[e] /\ e \in InHand(g)
  BY <1>m, <1>k, LeaseMoves DEF Keeps
<1>h. ASSUME pc'[g] \in Handling, batch' = batch, (Event(g))' = Event(g),
             pc[g] \in Handling \cup {"completed"}, ~Claim(g)
      PROVE  (Keeps(g))'
  <2>1. ASSUME NEW e \in InHand(g) PROVE e \in (InHand(g))'
    BY <1>h, <2>1 DEF InHand, Handling
  <2> QED BY <1>h, <1>m, <2>1 DEF Keeps, Handling
<1>f. ASSUME NEW fault \in Faults, Fail(g, fault), batch' = batch, ~Claim(g),
             pc[g] \in Handling \cup {"completed"}
      PROVE  (Keeps(g))'
  <2>1. pc'[g] = "failing" /\ (Event(g))' = Event(g)
    BY <1>f DEF Fail, Event
  <2> QED BY <1>h, <1>f, <2>1 DEF Handling
<1>b. ASSUME batch' = batch, ~Claim(g), pc[g] # "dead",
             pc'[g] \notin Handling \cup {"new", "idle", "observed", "drained"} \/
               (pc'[g] = "idle" /\ batch[g] = {}),
             \A e \in Ids : (Holds(g, e) /\ live[e])' => e \in batch[g]
      PROVE  (Keeps(g))'
  BY <1>b DEF Keeps, InHand, Handling
<1>a. ASSUME Advance(g), batch' = batch, ~Claim(g), pc[g] # "dead",
             \A e \in Ids : (Holds(g, e) /\ live[e])' => e \in batch[g]
      PROVE  (Keeps(g))'
  <2>1. pc'[g] = IF batch[g] = {} THEN "idle" ELSE "ready"
    BY <1>a DEF Advance
  <2> QED BY <1>a, <1>b, <2>1 DEF Handling
<1>1. CASE Start(g) \/ Drain(g) \/ BeginCycle(g)
  <2>1. /\ pc[g] \in {"new", "idle"} /\ pc'[g] \in {"idle", "drained", "observed"}
        /\ batch' = batch /\ ~Claim(g) /\ batch[g] = {}
    BY <1>1, <1>k DEF Start, Drain, BeginCycle, Claim, Keeps
  <2>2. InHand(g) = {}
    BY <2>1 DEF InHand, Handling
  <2> QED BY <2>1, <2>2, <1>m DEF Keeps
<1>2. CASE Die(g)
  <2>1. pc'[g] = "dead" /\ batch'[g] = {}
    BY <1>2 DEF Die
  <2> QED BY <2>1 DEF Keeps
<1>3. CASE Claim(g)
  <2>1. PICK B \in SUBSET {e \in Ids : Claimable(e)} :
          /\ batch' = [batch EXCEPT ![g] = B]
          /\ pc' = [pc EXCEPT ![g] = IF B = {} THEN "idle" ELSE "ready"]
    BY <1>3 DEF Claim
  <2>2. pc[g] = "observed" /\ InHand(g) = {}
    BY <1>3, <1>k DEF Claim, Keeps, InHand, Handling
  <2>3. \A e \in Ids : (Holds(g, e) /\ live[e])' => e \in batch'[g]
    BY <1>k, <2>2, LeaseMoves DEF Keeps
  <2> QED BY <2>1, <2>3 DEF Keeps, InHand
<1>4. CASE Load(g)
  <2>1. PICK e \in batch[g] :
          /\ batch' = [batch EXCEPT ![g] = @ \ {e}]
          /\ \/ /\ pc' = [pc EXCEPT ![g] = "loaded"]
                /\ work' = [work EXCEPT ![g].event = e]
             \/ \E fault \in Faults :
                  /\ pc' = [pc EXCEPT ![g] = "failing"]
                  /\ work' = [work EXCEPT ![g].event = e, ![g].fault = fault]
    BY <1>4 DEF Load
  <2>2. (Event(g))' = e /\ pc'[g] \in {"loaded", "failing"}
    BY <2>1 DEF Works, Event
  <2>3. pc[g] = "ready" /\ ~Claim(g)
    BY <1>4 DEF Load, Claim
  <2>4. (InHand(g))' = InHand(g)
    BY <2>1, <2>2, <2>3 DEF InHand, Handling
  <2> QED BY <1>m, <2>2, <2>3, <2>4 DEF Keeps
<1>5. CASE Project(g) \/ Put(g) \/ Acknowledge(g)
  <2>1. /\ pc[g] \in {"loaded", "projected", "written"} /\ batch' = batch /\ ~Claim(g)
        /\ pc'[g] \in {"projected", "written", "acknowledged", "failing"}
    BY <1>5 DEF Project, Put, Acknowledge, Claim, Fail
  <2>2. (Event(g))' = Event(g)
    <3>1. CASE Project(g)
      BY <3>1 DEF Project, Fail, Event, Works
    <3>2. CASE Put(g)
      BY <3>2 DEF Put, Fail, Event, Works
    <3>3. CASE Acknowledge(g)
      BY <3>3 DEF Acknowledge, Fail, Event, Works
    <3> QED BY <1>5, <3>1, <3>2, <3>3
  <2> QED BY <1>h, <2>1, <2>2 DEF Handling
<1>6. CASE Complete(g)
  <2>1. pc[g] = "acknowledged" /\ batch' = batch /\ ~Claim(g)
    BY <1>6 DEF Complete, Claim
  <2>2. CASE Settle(Event(g), "COMPLETED") /\ pc' = [pc EXCEPT ![g] = "completed"]
    <3>1. (Event(g))' = Event(g)
      BY <1>6, <2>2 DEF Complete, Fail, Event
    <3> QED BY <1>h, <2>1, <2>2, <3>1 DEF Handling
  <2> QED BY <1>6, <1>f, <2>1, <2>2 DEF Complete, Handling
<1>7. CASE Release(g)
  <2>1. pc[g] = "failing" /\ batch' = batch /\ ~Claim(g)
    BY <1>7 DEF Release, Claim
  <2>2. CASE Settle(Event(g), Verdict(g)) /\ pc' = [pc EXCEPT ![g] = "released"]
    <3>1. \A e \in Ids : (Holds(g, e) /\ live[e])' => e # Event(g)
      BY <2>2 DEF Settle, Holds, Verdict
    <3>2. \A e \in Ids : (Holds(g, e) /\ live[e])' => e \in batch[g]
      BY <2>1, <3>1, <1>m DEF InHand
    <3> QED BY <1>b, <2>1, <2>2, <3>2 DEF Handling
  <2>3. CASE ~(Holds(g, Event(g)) /\ live[Event(g)]) /\ Advance(g)
    <3>1. \A e \in Ids : (Holds(g, e) /\ live[e])' => e \in batch[g]
      BY <2>1, <2>3, <1>m DEF InHand
    <3> QED BY <1>a, <2>1, <2>3, <3>1
  <2> QED BY <1>7, <2>2, <2>3 DEF Release
<1>8. CASE Record(g)
  <2>1. pc[g] \in {"completed", "released"} /\ batch' = batch /\ ~Claim(g)
    BY <1>8 DEF Record, Claim
  <2>2. \A e \in Ids : (Holds(g, e) /\ live[e])' => e \in batch[g]
    BY <2>1, <1>m DEF InHand, Handling, Holds, HostsKnow, Knows
  <2> QED BY <1>8, <1>a, <1>f, <2>1, <2>2 DEF Record
<1>9. CASE pc'[g] = pc[g] /\ batch'[g] = batch[g] /\ work'[g] = work[g] /\ ~Claim(g)
  <2>1. (InHand(g))' = InHand(g)
    BY <1>9 DEF InHand, Event
  <2> QED BY <1>9, <1>k, <1>m, <2>1 DEF Keeps
<1>10. ASSUME NEW h \in Hosts, h # g, HostStep(h) \/ Die(h)
       PROVE  pc'[g] = pc[g] /\ batch'[g] = batch[g] /\ work'[g] = work[g]
  BY <1>10 DEF HostStep, Start, Die, Drain, BeginCycle, Claim, Load, Project, Put,
     Acknowledge, Complete, Release, Record, Fail, Advance
<1> QED BY <1>1, <1>2, <1>3, <1>4, <1>5, <1>6, <1>7, <1>8, <1>9, <1>10
        DEF Next, HostStep, SourceCommit, StopSignal, Expire, vars, hostVars

-----------------------------------------------------------------------------
LEMMA HostInit == Init => HostInv
<1> SUFFICES ASSUME Init PROVE HostInv
  OBVIOUS
<1>1. TypeOK
  BY TypeInit
<1>2. OutboxMirrorsSource /\ FaithfulRows /\ BackedProgress
  BY DEF Init, OutboxMirrorsSource, FaithfulRows, BackedProgress, Ids, Versions
<1>3. HostsKnow /\ LeasesKept
  BY DEF Init, HostsKnow, Knows, LeasesKept, Keeps, Handling, Holds
<1> QED BY <1>1, <1>2, <1>3 DEF HostInv

LEMMA HostNext == HostInv /\ [Next]_vars => HostInv'
  BY TypeStep, OutboxMirrorsStep, FaithfulStep, BackedStep, KnowsStep, KeepsStep
  DEF HostInv, Known

(* The inductive invariant: shared state, every host's knowledge and the   *)
(* leases agree in every reachable state.                                  *)
THEOREM HostInvariant == Spec => []HostInv
  BY HostInit, HostNext, PTL DEF Spec

(* Every variable keeps its type; what a host has in hand is an event of   *)
(* the outbox or nothing.                                                  *)
THEOREM TypeCorrect == Spec => []TypeOK
<1>1. HostInv => TypeOK
  BY DEF HostInv
<1> QED BY <1>1, HostInvariant, PTL

(* Completion and checkpoints are backed by rows, for every instance.      *)
THEOREM ProgressIsBacked == Spec => []BackedProgress
<1>1. HostInv => BackedProgress
  BY DEF HostInv
<1> QED BY <1>1, HostInvariant, PTL

(* No projector and no stale host stores a row of the wrong content.       *)
THEOREM RowsAreFaithful == Spec => []FaithfulRows
<1>1. HostInv => FaithfulRows
  BY DEF HostInv
<1> QED BY <1>1, HostInvariant, PTL

(* A drained host holds no unexpired lease.                                *)
THEOREM DrainSettles == Spec => []DrainedSettled
<1>1. HostInv => DrainedSettled
  BY DEF HostInv, LeasesKept, Keeps, DrainedSettled, InHand, Handling
<1> QED BY <1>1, HostInvariant, PTL

LEMMA HostSteps == Spec => [][HostInv /\ [Next]_vars]_vars
  BY HostInvariant, PTL DEF Spec

(* A stored version never changes.                                         *)
THEOREM RowsAreImmutable == Spec => VersionsImmutable
<1>1. HostInv /\ [Next]_vars => [\A e \in Ids : rows[e] # "none" => rows'[e] = rows[e]]_vars
  BY RowStable DEF HostInv, Known
<1> QED BY <1>1, HostSteps, PTL DEF VersionsImmutable

(* The verdict on an intent is final.                                      *)
THEOREM VerdictsAreFinal == Spec => SettledOnce
<1>1. HostInv /\ [Next]_vars => [\A e \in Ids : status[e] \in Final => status'[e] = status[e]]_vars
  BY OutboxMoves DEF HostInv, Known, Final
<1> QED BY <1>1, HostSteps, PTL DEF SettledOnce

-----------------------------------------------------------------------------
(* Retries: every claim is counted, and only what is below the threshold   *)
(* is put back.                                                            *)
AttemptsCounted ==
  \A e \in Ids :
    /\ status[e] \in {"ABSENT", "PENDING"} => attempts[e] = 0
    /\ status[e] = "RETRYABLE" => attempts[e] \in 1..(PoisonThreshold - 1)
    /\ status[e] \in {"LEASED"} \cup Final => attempts[e] > 0

LEMMA AttemptMoves ==
  ASSUME Known, [Next]_vars, NEW e \in Ids
  PROVE  \/ attempts'[e] = attempts[e] /\ (status'[e] = "LEASED" => status[e] = "LEASED")
         \/ /\ status'[e] = "LEASED"
            /\ attempts'[e] = IF attempts[e] < PoisonThreshold THEN attempts[e] + 1 ELSE attempts[e]
<1> USE DEF Known, TypeOK
<1>1. ASSUME NEW h \in Hosts, Claim(h)
      PROVE  \/ attempts'[e] = attempts[e] /\ status'[e] = status[e]
             \/ /\ status'[e] = "LEASED"
                /\ attempts'[e] = IF attempts[e] < PoisonThreshold THEN attempts[e] + 1 ELSE attempts[e]
  BY <1>1 DEF Claim
<1>2. ASSUME NEW k \in Keys, NEW m \in Mutations, SourceCommit(k, m)
      PROVE  attempts'[e] = attempts[e] /\ (status'[e] = "LEASED" => status[e] = "LEASED")
  BY <1>2 DEF SourceCommit
<1>3. ASSUME NEW h \in Hosts, Complete(h) \/ Release(h)
      PROVE  attempts'[e] = attempts[e] /\ (status'[e] = "LEASED" => status[e] = "LEASED")
  BY <1>3 DEF Complete, Release, Settle, Verdict, outboxVars
<1>4. CASE UNCHANGED <<status, attempts>>
  BY <1>4
<1> QED BY <1>1, <1>2, <1>3, <1>4 DEF Next, HostStep, Start, StopSignal, Die, Drain,
     BeginCycle, Expire, Load, Project, Put, Acknowledge, Record, vars, outboxVars

LEMMA AttemptsStep ==
  ASSUME HostInv, AttemptsCounted, [Next]_vars
  PROVE  AttemptsCounted'
<1> SUFFICES ASSUME NEW e \in Ids
             PROVE  /\ status'[e] \in {"ABSENT", "PENDING"} => attempts'[e] = 0
                    /\ status'[e] = "RETRYABLE" => attempts'[e] \in 1..(PoisonThreshold - 1)
                    /\ status'[e] \in {"LEASED"} \cup Final => attempts'[e] > 0
  BY DEF AttemptsCounted
<1>1. Known /\ attempts[e] \in 0..PoisonThreshold /\ PoisonThreshold \in Nat /\ PoisonThreshold > 0
  BY BoundAssumption DEF HostInv, Known, TypeOK
<1>2. \/ attempts'[e] = attempts[e] /\ (status'[e] = "LEASED" => status[e] = "LEASED")
      \/ /\ status'[e] = "LEASED"
         /\ attempts'[e] = IF attempts[e] < PoisonThreshold THEN attempts[e] + 1 ELSE attempts[e]
  BY <1>1, AttemptMoves
<1>3. \/ status'[e] = status[e]
      \/ status[e] = "ABSENT" /\ status'[e] = "PENDING"
      \/ status'[e] = "LEASED"
      \/ status[e] = "LEASED" /\ status'[e] = "RETRYABLE" /\ attempts'[e] < PoisonThreshold
      \/ status[e] = "LEASED" /\ status'[e] \in Final
  BY <1>1, OutboxMoves DEF Final
<1>4. /\ status[e] \in {"ABSENT", "PENDING"} => attempts[e] = 0
      /\ status[e] = "RETRYABLE" => attempts[e] \in 1..(PoisonThreshold - 1)
      /\ status[e] \in {"LEASED"} \cup Final => attempts[e] > 0
  BY DEF AttemptsCounted
<1>5. CASE status'[e] = "LEASED"
  BY <1>1, <1>2, <1>4, <1>5 DEF Final
<1>6. CASE status'[e] # "LEASED"
  BY <1>1, <1>2, <1>3, <1>4, <1>6 DEF Final
<1> QED BY <1>5, <1>6

\* The threshold bounds the retries of every intent, however its hosts fail, die or lose their
\* lease: attempts never fall, each claim of an intent that was put back counts one, and what is
\* put back is below the threshold (release, atomic_claim).  It is what EventuallySettled rests
\* on beside fairness.
RetriesBounded ==
  \A e \in Ids :
    /\ attempts'[e] >= attempts[e]
    /\ status'[e] = "RETRYABLE" => attempts'[e] < PoisonThreshold
    /\ status[e] = "RETRYABLE" /\ status'[e] # "RETRYABLE" => status'[e] = "LEASED" /\ attempts'[e] = attempts[e] + 1
THEOREM ThresholdBoundsRetries == Spec => [][RetriesBounded]_vars
<1>1. Init => AttemptsCounted
  BY DEF Init, AttemptsCounted, Final
<1>2. HostInv /\ AttemptsCounted /\ [Next]_vars => [RetriesBounded]_vars
  <2> SUFFICES ASSUME HostInv, AttemptsCounted, [Next]_vars, NEW e \in Ids
               PROVE  /\ attempts'[e] >= attempts[e]
                      /\ status'[e] = "RETRYABLE" => attempts'[e] < PoisonThreshold
                      /\ status[e] = "RETRYABLE" /\ status'[e] # "RETRYABLE" =>
                           status'[e] = "LEASED" /\ attempts'[e] = attempts[e] + 1
    BY DEF RetriesBounded
  <2>1. Known /\ attempts[e] \in 0..PoisonThreshold /\ PoisonThreshold \in Nat
    BY BoundAssumption DEF HostInv, Known, TypeOK
  <2>2. status[e] = "RETRYABLE" => attempts[e] \in 1..(PoisonThreshold - 1)
    BY DEF AttemptsCounted
  <2>3. status'[e] = "RETRYABLE" => attempts'[e] \in 1..(PoisonThreshold - 1)
    BY AttemptsStep DEF AttemptsCounted
  <2>4. status[e] = "RETRYABLE" /\ status'[e] # "RETRYABLE" => status'[e] = "LEASED"
    BY <2>1, OutboxMoves
  <2>5. \/ attempts'[e] = attempts[e] /\ (status'[e] = "LEASED" => status[e] = "LEASED")
        \/ /\ status'[e] = "LEASED"
           /\ attempts'[e] = IF attempts[e] < PoisonThreshold THEN attempts[e] + 1 ELSE attempts[e]
    BY <2>1, AttemptMoves
  <2>6. attempts'[e] >= attempts[e]
    BY <2>1, <2>5
  <2>7. status'[e] = "RETRYABLE" => attempts'[e] < PoisonThreshold
    BY <2>1, <2>3
  <2>8. status[e] = "RETRYABLE" /\ status'[e] # "RETRYABLE" =>
          status'[e] = "LEASED" /\ attempts'[e] = attempts[e] + 1
    BY <2>1, <2>2, <2>4, <2>5
  <2> QED BY <2>6, <2>7, <2>8
<1> QED BY <1>1, <1>2, AttemptsStep, HostInvariant, PTL DEF Spec

-----------------------------------------------------------------------------
(* When all mutations of a key are completed, its rows end in the latest   *)
(* version of the source.                                                  *)
THEOREM ReadersConverge == Spec => []Converged
<1>1. HostInv => Converged
  <2> SUFFICES ASSUME HostInv, NEW k \in Keys, source[k] > 0,
                      \A v \in 1..source[k] : status[<<k, v>>] = "COMPLETED"
               PROVE  Visible(k) <=> kind[<<k, source[k]>>] = "put"
    BY DEF Converged
  <2> USE BoundAssumption DEF HostInv, TypeOK, Versions, Ids
  <2>1. source[k] \in Versions /\ <<k, source[k]>> \in Ids
    OBVIOUS
  <2>2. rows[<<k, source[k]>>] = Content(<<k, source[k]>>)
    BY <2>1 DEF BackedProgress
  <2>3. source[k] \in Stored(k)
    BY <2>1, <2>2 DEF Stored, Content
  <2>4. \A w \in Stored(k) : w <= source[k] /\ w \in Nat
    BY DEF Stored, FaithfulRows, OutboxMirrorsSource
  <2>5. source[k] \in Latest(k) /\ \A w \in Latest(k) : w = source[k]
    <3>1. source[k] \in Latest(k)
      BY <2>3, <2>4 DEF Latest
    <3>2. ASSUME NEW w \in Latest(k) PROVE w = source[k]
      <4>1. w \in Stored(k) /\ source[k] <= w
        BY <2>3 DEF Latest
      <4>2. w <= source[k] /\ w \in Nat /\ source[k] \in Nat
        BY <2>4, <4>1
      <4> HIDE DEF HostInv, TypeOK
      <4> QED BY <4>1, <4>2
    <3> QED BY <3>1, <3>2
  <2>6. kind[<<k, source[k]>>] \in Mutations
    BY <2>1 DEF OutboxMirrorsSource
  <2> QED BY <2>1, <2>2, <2>5, <2>6 DEF Visible, Content, Mutations
<1> QED BY <1>1, HostInvariant, PTL

(* A completed deletion hides the key until a later put is stored.         *)
THEOREM DeletionsLast == Spec => []NoResurrection
<1>1. HostInv => NoResurrection
  <2> SUFFICES ASSUME HostInv, NEW k \in Keys, NEW v \in Versions, Visible(k),
                      status[<<k, v>>] = "COMPLETED", kind[<<k, v>>] = "delete"
               PROVE  \E w \in (v + 1)..source[k] :
                        kind[<<k, w>>] = "put" /\ rows[<<k, w>>] = "live"
    BY DEF NoResurrection
  <2> USE BoundAssumption DEF HostInv, TypeOK, Versions, Ids
  <2>1. rows[<<k, v>>] = "tombstone"
    BY DEF BackedProgress, Content
  <2>2. PICK w \in Stored(k) : (\A u \in Stored(k) : u <= w) /\ rows[<<k, w>>] = "live"
    BY DEF Visible, Latest
  <2>3. v \in Stored(k) /\ w # v
    BY <2>1, <2>2 DEF Stored
  <2>4. w \in Versions /\ kind[<<k, w>>] \in Mutations /\ kind[<<k, w>>] # "delete"
    BY <2>2 DEF Stored, FaithfulRows, Content
  <2>5. w <= source[k]
    BY <2>4 DEF OutboxMirrorsSource, Mutations
  <2>6. v <= w /\ v \in Nat /\ w \in Nat
    BY <2>2, <2>3, <2>4
  <2>7. w \in (v + 1)..source[k]
    BY <2>3, <2>5, <2>6
  <2> QED BY <2>2, <2>4, <2>7 DEF Mutations
<1> QED BY <1>1, HostInvariant, PTL

-----------------------------------------------------------------------------
\* The verdict on each intent under the mapping of PromiseKept.
LEMMA VerdictOf ==
  ASSUME NEW e \in Ids
  PROVE  Verdicts[e] = CASE status[e] = "ABSENT" -> "none"
                         [] status[e] = "COMPLETED" -> "completed"
                         [] status[e] = "QUARANTINED" -> "quarantined"
                         [] OTHER -> "open"
  BY DEF Verdicts

LEMMA PromiseInit == Init => Promise!Init
  BY DEF Init, Promise!Init, Promise!Ids, Promise!Versions, Ids, Versions, Verdicts

LEMMA PromiseSame ==
  ASSUME status' = status, UNCHANGED <<kind, rows, checkpoint>>
  PROVE  UNCHANGED Promise!vars
  BY DEF Promise!vars, Verdicts

(* Every step of the hosts is one step of the promise or none.             *)
LEMMA PromiseStep == HostInv /\ [Next]_vars => [Promise!Next]_Promise!vars
<1> SUFFICES ASSUME HostInv, [Next]_vars PROVE [Promise!Next]_Promise!vars
  OBVIOUS
<1> USE DEF HostInv, TypeOK
<1>i. Promise!Ids = Ids /\ Promise!Versions = Versions
  BY DEF Promise!Ids, Promise!Versions, Ids, Versions
<1>1. ASSUME NEW k \in Keys, NEW m \in Mutations, SourceCommit(k, m) PROVE Promise!Next
  <2> DEFINE e == <<k, source[k] + 1>>
  <2>1. e \in Ids /\ source[k] + 1 \in Versions
    BY <1>1, NewVersion
  <2>2. status[e] = "ABSENT"
    BY <2>1 DEF OutboxMirrorsSource, Versions
  <2>3. \A v \in 1..(e[2] - 1) : <<e[1], v>> \in Ids /\ status[<<e[1], v>>] # "ABSENT"
    BY BoundAssumption, <2>1 DEF OutboxMirrorsSource, Versions, Ids
  <2>4. Verdicts' = [Verdicts EXCEPT ![e] = "open"]
    BY <1>1, <2>1 DEF SourceCommit, Verdicts
  <2>5. Promise!Commit(e, m)
    BY <1>1, <2>1, <2>2, <2>3, <2>4, VerdictOf DEF SourceCommit, Promise!Commit
  <2> QED BY <1>i, <2>1, <2>5 DEF Promise!Next, Mutations
<1>2. ASSUME NEW h \in Hosts, Claim(h) PROVE UNCHANGED Promise!vars
  <2>1. \A e \in Ids : \/ status'[e] = status[e]
                       \/ status[e] \in {"PENDING", "RETRYABLE", "LEASED"} /\ status'[e] = "LEASED"
    BY <1>2 DEF Claim, Claimable
  <2>2. Verdicts' = Verdicts
    BY <2>1 DEF Verdicts
  <2> QED BY <1>2, <2>2 DEF Claim, sourceVars, Promise!vars
<1>3. ASSUME NEW h \in Hosts, Put(h) PROVE [Promise!Next]_Promise!vars
  <2> DEFINE e == Event(h)
             x == work[h].expr
  <2>1. e \in Ids /\ kind[e] # "none" /\ x \in Proposed(e) /\ Admitted(e, x)
    BY <1>3 DEF Put, HostsKnow, Knows, Handling
  <2>2. x.id = e /\ ContentOf(x) = Content(e) /\ Content(e) = Promise!Content(kind[e])
    BY <2>1, IdParts DEF Proposed, Admitted, ContentOf, Content, Promise!Content
  <2>3. rows' \in {rows, [rows EXCEPT ![e] = Content(e)]}
        /\ UNCHANGED <<status, kind, checkpoint>>
    BY <1>3, <2>2 DEF Put, sourceVars, outboxVars
  <2>4. CASE rows' = rows
    BY <2>3, <2>4, PromiseSame
  <2>5. CASE rows[e] # "none"
    <3>1. rows' = rows
      BY <2>1, <2>3, <2>5 DEF FaithfulRows
    <3> QED BY <2>4, <3>1
  <2>6. CASE rows[e] = "none" /\ rows' = [rows EXCEPT ![e] = Content(e)]
    <3>1. Verdicts[e] # "none"
      <4>1. status[e] # "ABSENT"
        BY <2>1, IdParts DEF OutboxMirrorsSource
      <4> QED BY <2>1, <4>1, VerdictOf
    <3>2. Verdicts' = Verdicts
      BY <2>3 DEF Verdicts
    <3>3. Promise!Apply(e)
      BY <2>2, <2>3, <2>6, <3>1, <3>2 DEF Promise!Apply
    <3> QED BY <1>i, <2>1, <3>3 DEF Promise!Next
  <2> QED BY <2>3, <2>4, <2>5, <2>6
<1>4. ASSUME NEW h \in Hosts, Complete(h) PROVE [Promise!Next]_Promise!vars
  <2> DEFINE e == Event(h)
  <2>1. /\ e \in Ids /\ e[1] \in Keys /\ e[2] \in Versions
        /\ rows[e] = Content(e) /\ Content(e) = Promise!Content(kind[e])
    BY <1>4, IdParts DEF Complete, HostsKnow, Knows, Handling, Content, Promise!Content
  <2>2. CASE /\ Holds(h, e) /\ Settle(e, "COMPLETED")
             /\ \E v \in {e[2], IF e[2] > checkpoint[e[1]] THEN e[2] ELSE checkpoint[e[1]]} :
                  checkpoint' = [checkpoint EXCEPT ![e[1]] = v]
    <3>1. Verdicts[e] = "open" /\ Verdicts' = [Verdicts EXCEPT ![e] = "completed"]
      BY <2>1, <2>2 DEF Holds, Settle, Verdicts
    <3>2. \E v \in Versions : /\ v \in {e[2], checkpoint[e[1]]} /\ v >= e[2]
                              /\ checkpoint' = [checkpoint EXCEPT ![e[1]] = v]
      <4>1. PICK v \in {e[2], IF e[2] > checkpoint[e[1]] THEN e[2] ELSE checkpoint[e[1]]} :
              checkpoint' = [checkpoint EXCEPT ![e[1]] = v]
        BY <2>2
      <4>2. checkpoint[e[1]] \in 0..MaxVersion /\ e[2] \in 1..MaxVersion
        BY <2>1 DEF Versions
      <4>3. v \in {e[2], checkpoint[e[1]]} /\ v >= e[2] /\ v \in 1..MaxVersion
        BY <4>1, <4>2, BoundAssumption
      <4> QED BY <4>1, <4>3 DEF Versions
    <3>3. Promise!Complete(e)
      BY <1>4, <1>i, <2>1, <3>1, <3>2 DEF Complete, sourceVars, Promise!Complete
    <3> QED BY <1>i, <2>1, <3>3 DEF Promise!Next
  <2>3. CASE UNCHANGED outboxVars
    BY <1>4, <2>3, PromiseSame DEF Complete, sourceVars, outboxVars
  <2> QED BY <1>4, <2>2, <2>3 DEF Complete
<1>5. ASSUME NEW h \in Hosts, Release(h) PROVE [Promise!Next]_Promise!vars
  <2> DEFINE e == Event(h)
  <2>1. e \in Ids /\ UNCHANGED <<kind, rows>>
    BY <1>5 DEF Release, HostsKnow, Knows, Handling, sourceVars
  <2>2. CASE Holds(h, e) /\ Settle(e, Verdict(h)) /\ checkpoint' = checkpoint
    <3>1. Verdicts[e] = "open"
      BY <2>1, <2>2 DEF Holds, Verdicts
    <3>2. CASE Verdict(h) = "QUARANTINED"
      <4>1. Verdicts' = [Verdicts EXCEPT ![e] = "quarantined"]
        BY <2>1, <2>2, <3>2 DEF Settle, Verdicts
      <4>2. Promise!Quarantine(e)
        BY <2>1, <2>2, <3>1, <4>1 DEF Promise!Quarantine
      <4> QED BY <1>i, <2>1, <4>2 DEF Promise!Next
    <3>3. CASE Verdict(h) = "RETRYABLE"
      <4>1. Verdicts' = Verdicts
        BY <2>1, <2>2, <3>3 DEF Holds, Settle, Verdicts
      <4> QED BY <2>1, <2>2, <4>1 DEF Promise!vars
    <3> QED BY <3>2, <3>3 DEF Verdict
  <2>3. CASE UNCHANGED outboxVars
    BY <2>1, <2>3, PromiseSame DEF outboxVars
  <2> QED BY <1>5, <2>2, <2>3 DEF Release
<1>6. CASE UNCHANGED <<status, kind, rows, checkpoint>>
  BY <1>6, PromiseSame
<1> QED BY <1>1, <1>2, <1>3, <1>4, <1>5, <1>6 DEF Next, HostStep, Start, StopSignal, Die,
     Drain, BeginCycle, Expire, Load, Project, Acknowledge, Record, vars, sourceVars, outboxVars

(* The hosts, with their leases, crashes, lost replies and retries, keep   *)
(* the promise of VersionedProjection.                                     *)
THEOREM HostsKeepThePromise == Spec => PromiseKept
<1>1. HostInv /\ [Next]_vars => [Promise!Next]_Promise!vars
  BY PromiseStep
<1> QED BY <1>1, PromiseInit, HostInvariant, PTL DEF Spec, PromiseKept, Promise!Spec

-----------------------------------------------------------------------------
(* A host takes new events in hand by a claim only, and what it claims is  *)
(* in nobody's hands.                                                      *)
LEMMA HandMoves ==
  ASSUME Known, LeaseInv, [Next]_vars, NEW g \in Hosts
  PROVE  \/ (InHand(g))' \subseteq InHand(g)
         \/ /\ Claim(g)
            /\ \A e \in (InHand(g))' :
                 Claimable(e) /\ \A h \in Hosts : e \notin InHand(h)
<1> USE DEF Known, TypeOK
<1>1. ASSUME Claim(g)
      PROVE  \A e \in (InHand(g))' : Claimable(e) /\ \A h \in Hosts : e \notin InHand(h)
  <2>1. PICK B \in SUBSET {e \in Ids : Claimable(e)} :
          /\ batch' = [batch EXCEPT ![g] = B]
          /\ pc' = [pc EXCEPT ![g] = IF B = {} THEN "idle" ELSE "ready"]
    BY <1>1 DEF Claim
  <2>2. (InHand(g))' = B
    BY <2>1 DEF InHand, Handling
  <2>3. ASSUME NEW e \in B, NEW h \in Hosts PROVE e \notin InHand(h)
    BY DEF LeaseInv, Owns, Claimable, Holds
  <2> QED BY <2>2, <2>3
<1>2. CASE Load(g)
  <2>1. PICK e \in batch[g] :
          /\ batch' = [batch EXCEPT ![g] = @ \ {e}]
          /\ \/ /\ pc' = [pc EXCEPT ![g] = "loaded"]
                /\ work' = [work EXCEPT ![g].event = e]
             \/ \E fault \in Faults :
                  /\ pc' = [pc EXCEPT ![g] = "failing"]
                  /\ work' = [work EXCEPT ![g].event = e, ![g].fault = fault]
    BY <1>2 DEF Load
  <2>2. (Event(g))' = e /\ pc'[g] \in {"loaded", "failing"}
    BY <2>1 DEF Works, Event
  <2> QED BY <2>1, <2>2 DEF InHand, Handling
<1>3. ASSUME pc[g] \in Handling, batch' = batch, (Event(g))' = Event(g)
      PROVE  (InHand(g))' \subseteq InHand(g)
  BY <1>3 DEF InHand
<1>4. CASE Project(g) \/ Put(g) \/ Acknowledge(g)
  <2>1. pc[g] \in Handling /\ batch' = batch
    BY <1>4 DEF Project, Put, Acknowledge, Handling
  <2>2. (Event(g))' = Event(g)
    <3>1. CASE Project(g)
      BY <3>1 DEF Project, Fail, Event, Works
    <3>2. CASE Put(g)
      BY <3>2 DEF Put, Fail, Event, Works
    <3>3. CASE Acknowledge(g)
      BY <3>3 DEF Acknowledge, Fail, Event, Works
    <3> QED BY <1>4, <3>1, <3>2, <3>3
  <2> QED BY <1>3, <2>1, <2>2
<1>5. CASE Complete(g)
  <2>1. pc[g] \in Handling /\ batch' = batch
    BY <1>5 DEF Complete, Handling
  <2>2. (Event(g))' = Event(g)
    BY <1>5 DEF Complete, Fail, Event, Works
  <2> QED BY <1>3, <2>1, <2>2
<1>a. ASSUME Advance(g), batch' = batch PROVE (InHand(g))' \subseteq InHand(g)
  <2>1. pc'[g] \in {"idle", "ready"}
    BY <1>a DEF Advance
  <2> QED BY <1>a, <2>1 DEF InHand, Handling
<1>6. CASE Release(g)
  <2>1. batch' = batch
    BY <1>6 DEF Release
  <2>2. CASE pc' = [pc EXCEPT ![g] = "released"]
    BY <2>1, <2>2 DEF InHand, Handling
  <2> QED BY <1>6, <1>a, <2>1, <2>2 DEF Release
<1>7. CASE Record(g)
  <2>1. batch' = batch
    BY <1>7 DEF Record
  <2>2. ASSUME NEW fault \in Faults, pc[g] = "completed", Fail(g, fault)
        PROVE  (InHand(g))' \subseteq InHand(g)
    <3>1. (Event(g))' = Event(g)
      BY <2>2 DEF Fail, Event, Works
    <3> QED BY <1>3, <2>1, <2>2, <3>1 DEF Handling
  <2> QED BY <1>7, <1>a, <2>1, <2>2 DEF Record
<1>8. CASE Start(g) \/ Drain(g) \/ BeginCycle(g) \/ Die(g)
  <2>1. batch'[g] \subseteq batch[g] /\ pc'[g] \in {"idle", "drained", "observed", "dead"}
    BY <1>8 DEF Start, Drain, BeginCycle, Die
  <2> QED BY <2>1 DEF InHand, Handling
<1>9. CASE pc'[g] = pc[g] /\ batch'[g] = batch[g] /\ work'[g] = work[g]
  BY <1>9 DEF InHand, Event
<1>10. ASSUME NEW h \in Hosts, h # g, HostStep(h) \/ Die(h)
       PROVE  pc'[g] = pc[g] /\ batch'[g] = batch[g] /\ work'[g] = work[g]
  BY <1>10 DEF HostStep, Start, Die, Drain, BeginCycle, Claim, Load, Project, Put,
     Acknowledge, Complete, Release, Record, Fail, Advance
<1> QED BY <1>1, <1>2, <1>4, <1>5, <1>6, <1>7, <1>8, <1>9, <1>10
        DEF Next, HostStep, SourceCommit, StopSignal, Expire, vars, hostVars

(* While no host outlives its lease, nobody else touches what is in hand.  *)
LEMMA OwnLeaseStays ==
  ASSUME Known, LeaseInv, [Next]_vars, Overrun = {}, NEW g \in Hosts,
         NEW e \in InHand(g), Holds(g, e) /\ live[e]
  PROVE  \/ (Holds(g, e) /\ live[e])'
         \/ /\ (Event(g))' = Event(g) /\ e = Event(g)
            /\ pc'[g] \in {"completed", "failing"} /\ status'[e] = "COMPLETED"
         \/ e \notin (InHand(g))'
<1> USE DEF Known, TypeOK
<1>t. e \in Ids
  BY DEF InHand, HostsKnow, Knows
<1>1. ASSUME NEW k \in Keys, NEW m \in Mutations, SourceCommit(k, m) PROVE (Holds(g, e) /\ live[e])'
  <2>1. <<k, source[k] + 1>> \in Ids /\ status[<<k, source[k] + 1>>] = "ABSENT"
    BY <1>1, NewVersion DEF OutboxMirrorsSource, Versions
  <2> QED BY <1>1, <1>t, <2>1 DEF SourceCommit, Holds
<1>2. ASSUME NEW h \in Hosts, Claim(h) PROVE (Holds(g, e) /\ live[e])'
  BY <1>2, <1>t DEF Claim, Claimable, Holds
<1>3. ASSUME NEW f \in Ids, Expire(f) PROVE (Holds(g, e) /\ live[e])'
  <2>1. f # e
    <3>1. pc[g] \notin Ended
      BY DEF LeaseInv, Owns, InHand, Handling, Ended
    <3> QED BY <1>3, <3>1 DEF Expire, Holds
  <2> QED BY <1>3, <1>t, <2>1 DEF Expire, Holds
<1>4. ASSUME NEW f \in Ids, f # e, NEW s, Settle(f, s) PROVE (Holds(g, e) /\ live[e])'
  BY <1>4, <1>t DEF Settle, Holds
<1>5. ASSUME NEW h \in Hosts, Complete(h)
      PROVE  \/ (Holds(g, e) /\ live[e])'
             \/ /\ (Event(g))' = Event(g) /\ e = Event(g)
                /\ pc'[g] \in {"completed", "failing"} /\ status'[e] = "COMPLETED"
  <2>1. Event(h) \in Ids
    BY <1>5 DEF Complete, HostsKnow, Knows, Handling
  <2>2. CASE Event(h) = e /\ Holds(h, e) /\ Settle(e, "COMPLETED")
    <3>1. h = g
      BY <2>2 DEF Holds
    <3>2. (Event(g))' = Event(g) /\ pc'[g] \in {"completed", "failing"}
      BY <1>5, <2>2, <3>1 DEF Complete, Fail, Event, Works, outboxVars, Settle, Holds
    <3> QED BY <1>t, <2>2, <3>1, <3>2 DEF Settle
  <2>3. CASE UNCHANGED outboxVars
    BY <2>3 DEF outboxVars, Holds
  <2> QED BY <1>4, <1>5, <2>1, <2>2, <2>3 DEF Complete
<1>6. ASSUME NEW h \in Hosts, Release(h)
      PROVE  (Holds(g, e) /\ live[e])' \/ e \notin (InHand(g))'
  <2>1. Event(h) \in Ids
    BY <1>6 DEF Release, HostsKnow, Knows, Handling
  <2>2. CASE Event(h) = e /\ Holds(h, e) /\ pc' = [pc EXCEPT ![h] = "released"]
    <3>1. h = g /\ e \notin batch[g] /\ batch' = batch
      BY <1>6, <2>2 DEF Holds, Release, LeaseInv, Owns, Handling
    <3> QED BY <2>2, <3>1 DEF InHand, Handling
  <2>3. CASE UNCHANGED outboxVars
    BY <2>3 DEF outboxVars, Holds
  <2> QED BY <1>4, <1>6, <2>1, <2>2, <2>3 DEF Release
<1>7. CASE UNCHANGED outboxVars
  BY <1>7 DEF outboxVars, Holds
<1> QED BY <1>1, <1>2, <1>3, <1>5, <1>6, <1>7 DEF Next, HostStep, Start, StopSignal, Die,
     Drain, BeginCycle, Load, Project, Put, Acknowledge, Record, vars

(* A step of another host leaves the hands of g alone.                     *)
LEMMA OtherHands ==
  ASSUME Known, NEW g \in Hosts, NEW h \in Hosts, h # g, HostStep(h) \/ Die(h)
  PROVE  pc'[g] = pc[g] /\ batch'[g] = batch[g] /\ work'[g] = work[g]
  BY DEF Known, TypeOK, HostStep, Start, Die, Drain, BeginCycle, Claim, Load, Project, Put,
     Acknowledge, Complete, Release, Record, Fail, Advance

LEMMA ExclusiveStep ==
  ASSUME Known, LeaseInv, [Next]_vars
  PROVE  ExclusiveWork'
<1> SUFFICES ASSUME NEW g \in Hosts, NEW h \in Hosts, g # h,
                    NEW e \in (InHand(g))', e \in (InHand(h))'
             PROVE  FALSE
  BY DEF ExclusiveWork
<1>1. ASSUME NEW i \in Hosts, NEW j \in Hosts, i # j, Claim(i) PROVE (InHand(j))' = InHand(j)
  BY <1>1, OtherHands DEF HostStep, InHand, Event
<1>2. CASE e \in InHand(g) /\ e \in InHand(h)
  BY <1>2 DEF LeaseInv, ExclusiveWork
<1>3. CASE Claim(g)
  <2>1. e \in InHand(h) /\ (e \in InHand(g) \/ \A i \in Hosts : e \notin InHand(i))
    BY <1>1, <1>3, HandMoves
  <2> QED BY <1>2, <2>1
<1>4. CASE Claim(h)
  <2>1. e \in InHand(g) /\ (e \in InHand(h) \/ \A i \in Hosts : e \notin InHand(i))
    BY <1>1, <1>4, HandMoves
  <2> QED BY <1>2, <2>1
<1> QED BY <1>2, <1>3, <1>4, HandMoves

LEMMA OwnsStep ==
  ASSUME Known, LeaseInv, [Next]_vars, Overrun = {}, NEW g \in Hosts
  PROVE  (Owns(g))'
<1> USE DEF Known, TypeOK
<1>o. Owns(g)
  BY DEF LeaseInv
<1>s. CASE pc'[g] = pc[g] /\ batch'[g] = batch[g] /\ work'[g] = work[g]
  <2>1. (Event(g))' = Event(g) /\ (InHand(g))' = InHand(g)
    BY <1>s DEF Event, InHand
  <2>2. ASSUME NEW e \in InHand(g)
        PROVE  \/ (Holds(g, e) /\ live[e])'
               \/ pc'[g] \in {"completed", "failing"} /\ e = Event(g) /\ status'[e] = "COMPLETED"
    <3>1. e \in Ids
      BY DEF InHand, HostsKnow, Knows
    <3>2. CASE Holds(g, e) /\ live[e]
      BY <2>1, <3>2, OwnLeaseStays
    <3>3. CASE pc[g] \in {"completed", "failing"} /\ e = Event(g) /\ status[e] = "COMPLETED"
      BY <1>s, <3>1, <3>3, OutboxMoves
    <3> QED BY <1>o, <3>2, <3>3 DEF Owns
  <2> QED BY <1>s, <1>o, <2>1, <2>2 DEF Owns
<1>h. ASSUME pc'[g] \in Handling, batch' = batch, (Event(g))' = Event(g),
             pc[g] \in Handling \ {"completed", "failing"}
      PROVE  (Owns(g))'
  <2>1. ASSUME NEW e \in InHand(g)
        PROVE  \/ (Holds(g, e) /\ live[e])'
               \/ pc'[g] \in {"completed", "failing"} /\ e = Event(g) /\ status'[e] = "COMPLETED"
    <3>1. Holds(g, e) /\ live[e] /\ e \in (InHand(g))'
      BY <1>h, <1>o DEF Owns, InHand
    <3> QED BY <3>1, OwnLeaseStays
  <2> QED BY <1>h, <1>o, <2>1 DEF Owns, InHand, Handling, Ended
<1>d. ASSUME Advance(g), batch' = batch, pc[g] \in Handling \cup {"released"} PROVE (Owns(g))'
  <2>1. pc'[g] = (IF batch[g] = {} THEN "idle" ELSE "ready") /\ (InHand(g))' = batch[g]
    BY <1>d DEF Advance, InHand, Handling
  <2>2. ASSUME NEW e \in batch[g] PROVE (Holds(g, e) /\ live[e])'
    <3>1. e \in InHand(g) /\ e # Event(g)
      BY <1>d, <1>o DEF InHand, Owns
    <3>2. Holds(g, e) /\ live[e]
      BY <1>o, <3>1 DEF Owns
    <3> QED BY <2>1, <3>1, <3>2, OwnLeaseStays
  <2> QED BY <1>d, <2>1, <2>2 DEF Owns, Handling, Ended
<1>1. CASE Start(g) \/ Drain(g) \/ BeginCycle(g) \/ Die(g)
  <2>1. pc'[g] \in {"idle", "drained", "observed", "dead"} /\ batch'[g] = {}
    BY <1>1, <1>o DEF Start, Drain, BeginCycle, Die, Owns
  <2> QED BY <2>1 DEF Owns, InHand, Handling
<1>2. CASE Claim(g)
  <2>1. PICK B \in SUBSET {e \in Ids : Claimable(e)} :
          /\ status' = [e \in Ids |-> IF e \in B THEN "LEASED" ELSE status[e]]
          /\ lease' = [e \in Ids |-> IF e \in B THEN g ELSE lease[e]]
          /\ live' = [e \in Ids |-> e \in B \/ live[e]]
          /\ batch' = [batch EXCEPT ![g] = B]
          /\ pc' = [pc EXCEPT ![g] = IF B = {} THEN "idle" ELSE "ready"]
    BY <1>2 DEF Claim
  <2>2. (InHand(g))' = B
    BY <2>1 DEF InHand, Handling
  <2>3. \A e \in B : (Holds(g, e) /\ live[e])'
    BY <2>1 DEF Holds
  <2> QED BY <2>1, <2>2, <2>3 DEF Owns, Handling, Ended
<1>3. CASE Load(g)
  <2>1. PICK e \in batch[g] :
          /\ batch' = [batch EXCEPT ![g] = @ \ {e}]
          /\ \/ /\ pc' = [pc EXCEPT ![g] = "loaded"]
                /\ work' = [work EXCEPT ![g].event = e]
             \/ \E fault \in Faults :
                  /\ pc' = [pc EXCEPT ![g] = "failing"]
                  /\ work' = [work EXCEPT ![g].event = e, ![g].fault = fault]
    BY <1>3 DEF Load
  <2>2. (Event(g))' = e /\ pc'[g] \in {"loaded", "failing"} /\ pc[g] = "ready"
    BY <1>3, <2>1 DEF Works, Event, Load
  <2>3. (InHand(g))' = batch[g] /\ InHand(g) = batch[g]
    BY <2>1, <2>2 DEF InHand, Handling
  <2>4. ASSUME NEW f \in batch[g] PROVE (Holds(g, f) /\ live[f])'
    BY <1>3, <1>o, <2>2, <2>3 DEF Owns, Load, outboxVars, Holds
  <2> QED BY <2>1, <2>2, <2>3, <2>4 DEF Owns, Handling, Ended
<1>4. CASE Project(g) \/ Put(g) \/ Acknowledge(g)
  <2>1. /\ pc[g] \in {"loaded", "projected", "written"} /\ batch' = batch
        /\ pc'[g] \in {"projected", "written", "acknowledged", "failing"}
    BY <1>4 DEF Project, Put, Acknowledge, Fail
  <2>2. (Event(g))' = Event(g)
    <3>1. CASE Project(g)
      BY <3>1 DEF Project, Fail, Event, Works
    <3>2. CASE Put(g)
      BY <3>2 DEF Put, Fail, Event, Works
    <3>3. CASE Acknowledge(g)
      BY <3>3 DEF Acknowledge, Fail, Event, Works
    <3> QED BY <1>4, <3>1, <3>2, <3>3
  <2> QED BY <1>h, <2>1, <2>2 DEF Handling
<1>5. CASE Complete(g)
  <2>1. pc[g] = "acknowledged" /\ batch' = batch /\ pc'[g] \in {"completed", "failing"}
    BY <1>5 DEF Complete, Fail
  <2>2. (Event(g))' = Event(g)
    BY <1>5 DEF Complete, Fail, Event, Works
  <2> QED BY <1>h, <2>1, <2>2 DEF Handling
<1>6. CASE Release(g)
  <2>1. pc[g] = "failing" /\ batch' = batch
    BY <1>6 DEF Release
  <2>2. CASE pc' = [pc EXCEPT ![g] = "released"] /\ work' = work
    <3>1. (Event(g))' = Event(g) /\ (InHand(g))' = batch[g] /\ pc'[g] = "released"
      BY <2>1, <2>2 DEF InHand, Handling, Event
    <3>2. ASSUME NEW e \in batch[g] PROVE (Holds(g, e) /\ live[e])'
      <4>1. e \in InHand(g) /\ e # Event(g)
        BY <2>1, <1>o DEF InHand, Owns, Handling
      <4>2. Holds(g, e) /\ live[e]
        BY <1>o, <4>1 DEF Owns
      <4> QED BY <3>1, <4>1, <4>2, OwnLeaseStays
    <3> QED BY <2>1, <1>o, <3>1, <3>2 DEF Owns, Handling, Ended
  <2> QED BY <1>6, <1>d, <2>1, <2>2 DEF Release, Handling
<1>7. CASE Record(g)
  <2>1. pc[g] \in Handling \cup {"released"} /\ batch' = batch
    BY <1>7 DEF Record, Handling
  <2>2. ASSUME NEW fault \in Faults, pc[g] = "completed", Fail(g, fault) PROVE (Owns(g))'
    <3>1. (Event(g))' = Event(g) /\ pc'[g] = "failing"
      BY <2>2 DEF Fail, Event, Works
    <3>2. (InHand(g))' = InHand(g) /\ UNCHANGED outboxVars
      BY <1>7, <2>1, <2>2, <3>1 DEF InHand, Handling, Record
    <3> QED BY <1>o, <2>1, <2>2, <3>1, <3>2 DEF Owns, Handling, Ended, outboxVars, Holds
  <2> QED BY <1>7, <1>d, <2>1, <2>2 DEF Record
<1> QED BY <1>s, <1>1, <1>2, <1>3, <1>4, <1>5, <1>6, <1>7, OtherHands
        DEF Next, HostStep, SourceCommit, StopSignal, Expire, vars, hostVars

LEMMA LeaseInit == Init => LeaseInv
  BY DEF Init, LeaseInv, ExclusiveWork, Owns, InHand, Handling

LEMMA LeaseNext ==
  ASSUME Overrun = {}
  PROVE  HostInv /\ LeaseInv /\ [Next]_vars => LeaseInv'
<1> SUFFICES ASSUME HostInv, LeaseInv, [Next]_vars PROVE LeaseInv'
  OBVIOUS
<1>1. Known
  BY DEF HostInv, Known
<1>2. ExclusiveWork'
  BY <1>1, ExclusiveStep
<1>3. \A g \in Hosts : (Owns(g))'
  BY <1>1, OwnsStep
<1> QED BY <1>2, <1>3 DEF LeaseInv

(* If no host outlives its lease, which the admission budget guarantees    *)
(* (CycleStaysInLease in HostAdmissionProofs), then no two hosts, however  *)
(* many there are, ever work on the same intent.                           *)
THEOREM WorkIsExclusive ==
  ASSUME Overrun = {}
  PROVE  Spec => []ExclusiveWork
<1>1. HostInv /\ LeaseInv /\ [Next]_vars => LeaseInv'
  BY LeaseNext
<1>2. LeaseInv => ExclusiveWork
  BY DEF LeaseInv
<1> QED BY <1>1, <1>2, LeaseInit, HostInvariant, PTL DEF Spec
=============================================================================
