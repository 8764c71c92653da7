--------------------------- MODULE HostAdmissionProofs ---------------------------
(***************************************************************************)
(* What is decided before a host claims anything: the two gates of a       *)
(* projection job, for every deployment, every declaration and any number  *)
(* of changes between preview and start, and the cycle budget, for every   *)
(* choice of budgets.                                                      *)
(***************************************************************************)
EXTENDS ProjectionJob, CycleBudget, FiniteSetTheorems, TLAPS

-----------------------------------------------------------------------------
(* The gates of a job.                                                     *)

\* Until someone edits it, the document is the one an accepted preview wrote.
Untouched ==
  phase = "accepted" /\ ~edited
    => \E c \in Configurations, i \in Inputs : Accepts(c, i) /\ job = Document(c, i)

\* No job is ever judged other than by the host's own gate.
JobInv == TypeOK /\ Untouched /\ AtomicGroup /\ GatesAgree

(* What resolves, resolves to a Binding of the deployment.                 *)
LEMMA Resolved ==
  ASSUME NEW c, c.place \in [Resources -> SUBSET Bindings], NEW r \in Resources, Resolves(c, r)
  PROVE  BindingFor(c, r) \in Bindings
<1>1. c.place[r] # {}
  BY FS_EmptySet DEF Resolves
<1> QED BY <1>1 DEF BindingFor

(* Every step keeps the types: a document is edited within its own.        *)
LEMMA TypeStep ==
  ASSUME TypeOK, [Next]_vars
  PROVE  TypeOK'
<1> USE DEF TypeOK
<1>1. ASSUME NEW c \in Configurations, NEW i \in Inputs, Preview(c, i) PROVE TypeOK'
  <2>1. c \in Configuration /\ i \in Input
    BY <1>1, OfferAssumption
  <2>2. ASSUME Accepts(c, i) PROVE Document(c, i) \in Documents
    <3>1. c.place \in [Resources -> SUBSET Bindings] /\ c.alike \in BOOLEAN /\ i.required \subseteq EvidenceResources
      BY <2>1 DEF Configuration, Input
    <3>2. Resolves(c, "source") /\ Resolves(c, "target") /\ "source" \in Resources /\ "target" \in Resources
      BY <2>2 DEF Accepts, Roles, Resources
    <3>3. BindingFor(c, "source") \in Bindings /\ BindingFor(c, "target") \in Bindings
      BY <3>1, <3>2, Resolved
    <3>4. Roles \cup i.required \subseteq Resources /\ i.pins \in Pins /\ Version(i.required) \in {"1.0.0", "1.1.0"}
      BY <2>1, <3>1 DEF Resources, Input, Version
    <3> QED BY <2>1, <3>1, <3>3, <3>4 DEF Document, Documents
  <2>3. i.pins \in Pins /\ c.manifest \in [Bindings -> SUBSET Guarantees]
    BY <2>1 DEF Input, Configuration
  <2> QED BY <1>1, <2>2, <2>3 DEF Preview
<1>2. ASSUME NEW p \in Packages, NEW v \in Releases \cup {Absent}, OtherRelease(p, v) PROVE TypeOK'
  BY <1>2, ChangeAssumption DEF OtherRelease, Change, Pins
<1>3. ASSUME NEW b \in Bindings, NEW g \in SUBSET Guarantees, EngineChanges(b, g) PROVE TypeOK'
  BY <1>3, ChangeAssumption DEF EngineChanges, Change
<1>4. CASE Edit
  <2>1. job \in Documents /\ phase' = phase /\ phase = "accepted"
    BY <1>4 DEF Edit, Change
  <2>2. /\ job.required \subseteq EvidenceResources /\ job.resources \subseteq Resources
        /\ job.pins \in Pins /\ job.config \in Configuration
    BY <2>1 DEF Documents
  <2>3. PICK sealed \in BOOLEAN :
       \/ \E required \in SUBSET EvidenceResources, rs \in {job.required, job.resources \ Roles},
             v \in {"1.0.0", "1.1.0"} :
            job' = [job EXCEPT !.required = required, !.resources = Roles \cup rs \cup required,
                               !.version = v, !.sealed = sealed]
       \/ \E rs \in SUBSET Resources :
            job' = [job EXCEPT !.resources = rs, !.sealed = sealed]
       \/ \E p \in Packages, v \in Releases \cup {Absent} :
            job' = [job EXCEPT !.pins[p] = v, !.sealed = sealed]
       \/ \E r \in Resources, bs \in SUBSET Bindings :
            job' = [job EXCEPT !.config.place[r] = bs, !.sealed = sealed]
    BY <1>4 DEF Edit
  <2>4. job' \in Documents
    <3>1. ASSUME NEW required \in SUBSET EvidenceResources, NEW rs \in {job.required, job.resources \ Roles},
                 NEW v \in {"1.0.0", "1.1.0"},
                 job' = [job EXCEPT !.required = required, !.resources = Roles \cup rs \cup required,
                                    !.version = v, !.sealed = sealed]
          PROVE  job' \in Documents
      <4>1. Roles \cup rs \cup required \in SUBSET Resources
        BY <2>2, <3>1 DEF Resources
      <4> QED BY <2>1, <3>1, <4>1 DEF Documents
    <3>2. ASSUME NEW rs \in SUBSET Resources, job' = [job EXCEPT !.resources = rs, !.sealed = sealed]
          PROVE  job' \in Documents
      BY <2>1, <3>2 DEF Documents
    <3>3. ASSUME NEW p \in Packages, NEW v \in Releases \cup {Absent},
                 job' = [job EXCEPT !.pins[p] = v, !.sealed = sealed]
          PROVE  job' \in Documents
      <4>1. [job.pins EXCEPT ![p] = v] \in Pins
        BY <2>2, <3>3 DEF Pins
      <4>2. job' = [job EXCEPT !.pins = [job.pins EXCEPT ![p] = v], !.sealed = sealed]
        BY <2>1, <3>3
      <4> QED BY <2>1, <4>1, <4>2 DEF Documents
    <3>4. ASSUME NEW r \in Resources, NEW bs \in SUBSET Bindings,
                 job' = [job EXCEPT !.config.place[r] = bs, !.sealed = sealed]
          PROVE  job' \in Documents
      <4>1. [job.config EXCEPT !.place = [job.config.place EXCEPT ![r] = bs]] \in Configuration
        BY <2>2, <3>4 DEF Configuration
      <4>2. job' = [job EXCEPT !.config = [job.config EXCEPT !.place = [job.config.place EXCEPT ![r] = bs]],
                               !.sealed = sealed]
        BY <2>1, <3>4
      <4> QED BY <2>1, <4>1, <4>2 DEF Documents
    <3> QED BY <2>3, <3>1, <3>2, <3>3, <3>4
  <2>5. edited' \in BOOLEAN
    BY <1>4, Zenon DEF Edit
  <2>6. changes' \in 0..MaxChanges /\ installed' = installed /\ live' = live
    <3>1. Change /\ installed' = installed /\ live' = live
      BY <1>4, Zenon DEF Edit
    <3> QED BY <3>1, ChangeAssumption DEF Change
  <2>7. /\ phase' \in {"preview", "rejected", "accepted", "refused", "running"}
        /\ phase' \notin {"preview", "rejected"}
        /\ installed' \in Pins /\ live' \in [Bindings -> SUBSET Guarantees]
    BY <2>1, <2>6
  <2> QED BY <2>4, <2>5, <2>6, <2>7, Zenon
<1>5. CASE Boot
  BY <1>5 DEF Boot
<1>6. CASE UNCHANGED vars
  BY <1>6 DEF vars
<1> QED BY <1>1, <1>2, <1>3, <1>4, <1>5, <1>6 DEF Next

(* What passes the host's gate is one atomic group.                        *)
LEMMA HostableGroup ==
  ASSUME NEW j, Valid(j), Hostable(j), NEW r \in j.resources \ {"target"}
  PROVE  LET b == BindingFor(j.config, r)
         IN  /\ b = j.sourceBinding
             /\ "base" \in live[b]
             /\ r \in EvidenceResources => "evidence" \in live[b]
<1>1. j.resources = Roles \cup j.required
  BY DEF Valid
<1>2. r = "source" \/ r \in {"outbox"} \cup j.required
  BY <1>1 DEF Roles
<1>3. BindingFor(j.config, r) = BindingFor(j.config, "source")
  BY <1>2 DEF Hostable, SharesSource
<1>4. BindingFor(j.config, "source") \in Selected(j.config, Roles)
  BY DEF Selected, Roles
<1>5. Needed(j.config, BindingFor(j.config, "source"), j.required)
        \subseteq live[BindingFor(j.config, "source")]
  BY <1>4 DEF Hostable
<1>6. "base" \in live[BindingFor(j.config, "source")]
  BY <1>5 DEF Needed
<1>7. ASSUME r \in EvidenceResources PROVE "evidence" \in live[BindingFor(j.config, "source")]
  <2>1. j.required # {}
    BY <1>1, <1>7, RoleAssumption
  <2> QED
    BY <1>5, <2>1 DEF Needed
<1>8. BindingFor(j.config, "source") = j.sourceBinding
  BY DEF Hostable
<1> QED
  BY <1>3, <1>6, <1>7, <1>8

(* The host's gate repeats every check of the template; beyond them it     *)
(* only asks the locks of the Bindings the job does not use and the        *)
(* fingerprint in its own language.                                        *)
LEMMA GatesCoincide ==
  ASSUME NEW c, NEW i, Accepts(c, i), job = Document(c, i), AsPreviewed, OtherLocksAgree, c.alike
  PROVE  Valid(job) /\ Hostable(job)
<1> DEFINE roles == Roles \cup i.required
           selected == Selected(c, roles)
<1>1. /\ job.config = c /\ job.pins = i.pins /\ job.required = i.required
      /\ job.version = Version(i.required) /\ job.resources = roles
      /\ job.sourceBinding = BindingFor(c, "source")
      /\ job.targetBinding = BindingFor(c, "target") /\ job.sealed = c.alike
  BY DEF Document
<1>2. /\ Pinned(i.required, i.pins)
      /\ \A r \in roles : Resolves(c, r)
      /\ SharesSource(c, {"outbox"} \cup i.required)
      /\ \A b \in selected : /\ Agrees(c.lock[b], i.pins)
                             /\ b \in c.postgresql
                             /\ Needed(c, b, i.required) \subseteq c.manifest[b]
  BY DEF Accepts
<1>3. Valid(job)
  <2>1. \A b \in Bindings : Agrees(c.lock[b], i.pins)
    BY <1>1, <1>2 DEF OtherLocksAgree
  <2>2. \A p \in Packages : job.pins[p] # Absent => installed[p] = job.pins[p]
    BY DEF AsPreviewed
  <2> QED
    BY <1>1, <1>2, <2>1, <2>2 DEF Valid
<1>4. Hostable(job)
  <2>1. Selected(c, Roles) \subseteq selected
    BY DEF Selected
  <2>2. live = c.manifest
    BY <1>1 DEF AsPreviewed
  <2> QED
    BY <1>1, <1>2, <2>1, <2>2 DEF Hostable
<1> QED
  BY <1>3, <1>4

(* The template repeats every check that the host's gate makes of the      *)
(* declaration, whoever wrote the document.                                *)
LEMMA HostedIsAccepted ==
  ASSUME NEW j \in Documents, Valid(j), Hostable(j)
  PROVE  Accepts(j.config, [required |-> j.required, pins |-> j.pins])
<1> DEFINE c == j.config
           roles == Roles \cup j.required
<1>1. /\ Pinned(j.required, j.pins)
      /\ \A b \in Bindings : Agrees(c.lock[b], j.pins)
  BY DEF Valid
<1>2. /\ \A r \in roles : Resolves(c, r)
      /\ SharesSource(c, {"outbox"} \cup j.required)
      /\ Selected(c, Roles) \subseteq c.postgresql
      /\ \A b \in Selected(c, Roles) : Needed(c, b, j.required) \subseteq live[b] /\ live[b] = c.manifest[b]
  BY DEF Hostable
<1>3. Selected(c, roles) = Selected(c, Roles)
  BY <1>2 DEF Selected, SharesSource, Roles
<1>4. Selected(c, roles) \subseteq Bindings
  <2>1. c.place \in [Resources -> SUBSET Bindings] /\ roles \subseteq Resources
    BY DEF Documents, Configuration, Resources
  <2> QED BY <1>2, <2>1, Resolved DEF Selected
<1>5. \A b \in Selected(c, roles) : /\ Agrees(c.lock[b], j.pins)
                                    /\ b \in c.postgresql
                                    /\ Needed(c, b, j.required) \subseteq c.manifest[b]
  BY <1>1, <1>2, <1>3, <1>4
<1> QED BY <1>1, <1>2, <1>5 DEF Accepts

LEMMA JobInit == Init => JobInv
<1>1. ASSUME Init PROVE TypeOK
  <2>1. installed \in Pins /\ live \in [Bindings -> SUBSET Guarantees]
    BY <1>1 DEF Init, Pins
  <2>2. changes \in 0..MaxChanges
    BY <1>1, ChangeAssumption DEF Init
  <2>3. edited \in BOOLEAN /\ phase = "preview" /\ job = NoJob
    BY <1>1, Zenon DEF Init
  <2> QED BY <2>1, <2>2, <2>3, Zenon DEF TypeOK
<1> QED BY <1>1 DEF Init, JobInv, Untouched, AtomicGroup, GatesAgree

LEMMA JobStep == JobInv /\ [Next]_vars => JobInv'
<1> SUFFICES ASSUME JobInv, [Next]_vars PROVE JobInv'
  OBVIOUS
<1>t. TypeOK /\ TypeOK'
  BY TypeStep DEF JobInv
<1> USE <1>t
<1>1. CASE \E c \in Configurations, i \in Inputs : Preview(c, i)
  <2>1. PICK c \in Configurations, i \in Inputs : Preview(c, i)
    BY <1>1
  <2>2. phase' \in {"accepted", "rejected"}
    BY <2>1 DEF Preview
  <2>3. Untouched'
    <3>1. ASSUME phase' = "accepted" PROVE Accepts(c, i) /\ job' = Document(c, i)
      BY <2>1, <3>1 DEF Preview
    <3> QED
      BY <3>1 DEF Untouched
  <2> QED
    BY <2>2, <2>3 DEF JobInv, AtomicGroup, GatesAgree
<1>2. CASE \E p \in Packages, v \in Releases \cup {Absent} : OtherRelease(p, v)
  BY <1>2 DEF OtherRelease, Change, JobInv, Untouched, AtomicGroup, GatesAgree
<1>3. CASE \E b \in Bindings, g \in SUBSET Guarantees : EngineChanges(b, g)
  BY <1>3 DEF EngineChanges, Change, JobInv, Untouched, AtomicGroup, GatesAgree
<1>4. CASE Edit
  BY <1>4 DEF Edit, Change, JobInv, Untouched, AtomicGroup, GatesAgree
<1>5. CASE Boot
  <2>1. phase = "accepted" /\ job' = job /\ live' = live /\ edited' = edited
        /\ installed' = installed
    BY <1>5 DEF Boot
  <2>2. phase' \in {"running", "refused"}
    BY <1>5 DEF Boot
  <2>3. AtomicGroup'
    <3>1. ASSUME phase' = "running" PROVE Valid(job) /\ Hostable(job)
      BY <1>5, <3>1 DEF Boot
    <3> QED
      BY <2>1, <3>1, HostableGroup DEF AtomicGroup
  <2>4. GatesAgree'
    <3>1. AsPreviewed' <=> AsPreviewed
      BY <2>1 DEF AsPreviewed
    <3>2. OtherLocksAgree' <=> OtherLocksAgree
      BY <2>1 DEF OtherLocksAgree
    <3>3. ASSUME AsPreviewed, OtherLocksAgree, job.config.alike PROVE phase' = "running"
      <4>1. PICK c \in Configurations, i \in Inputs : Accepts(c, i) /\ job = Document(c, i)
        BY <2>1, <3>3 DEF JobInv, Untouched, AsPreviewed
      <4>2. c.alike
        BY <3>3, <4>1 DEF Document
      <4>3. Valid(job) /\ Hostable(job)
        BY <3>3, <4>1, <4>2, GatesCoincide
      <4> QED
        BY <1>5, <4>3 DEF Boot
    <3>4. ASSUME phase' = "running" PROVE Accepts(job.config, [required |-> job.required, pins |-> job.pins])
      <4>1. job \in Documents /\ Valid(job) /\ Hostable(job)
        BY <1>5, <3>4 DEF Boot, TypeOK
      <4> QED BY <4>1, HostedIsAccepted
    <3> QED
      BY <2>1, <2>2, <3>1, <3>2, <3>3, <3>4 DEF GatesAgree
  <2> QED
    BY <2>2, <2>3, <2>4 DEF JobInv, Untouched
<1>6. CASE UNCHANGED vars
  BY <1>6 DEF vars, JobInv, Untouched, AtomicGroup, GatesAgree, AsPreviewed, OtherLocksAgree
<1> QED
  BY <1>1, <1>2, <1>3, <1>4, <1>5, <1>6 DEF Next

(* The verdicts of both gates hold throughout.                             *)
THEOREM JobInvariant == Spec => []JobInv
  BY JobInit, JobStep, PTL DEF Spec

(* A running host writes source, intent and required Evidence to one       *)
(* binding whose live engine has the atomic guarantees.                    *)
(* (worker.py 106-175 and 206-256.)                                        *)
THEOREM GroupsAreAtomic == Spec => []AtomicGroup
<1>1. JobInv => AtomicGroup
  BY DEF JobInv
<1> QED
  BY <1>1, JobInvariant, PTL

(* What the template accepts the host starts, unless an unused Binding     *)
(* locks other releases or the two languages write the document            *)
(* differently; and what a host starts the template would accept, whoever  *)
(* wrote it.  (index.ts 144-361 against worker.py 106-256.)                *)
THEOREM BothGatesAgree == Spec => []GatesAgree
<1>1. JobInv => GatesAgree
  BY DEF JobInv
<1> QED
  BY <1>1, JobInvariant, PTL

-----------------------------------------------------------------------------
(* The cycle budget.                                                       *)

(* A reserve of n + 1 events is one event more than a reserve of n.        *)
LEMMA OneEventMore ==
  ASSUME NEW n \in Nat, NEW p \in Nat
  PROVE  (n + 1) * p = n * p + p
  OBVIOUS

(* Fewer events need no larger reserve.                                    *)
LEMMA FewerEvents ==
  ASSUME NEW m \in Nat, NEW n \in Nat, m <= n, NEW p \in Nat
  PROVE  m * p <= n * p
  OBVIOUS

LEMMA Limits ==
  /\ Claim \in Nat /\ Load \in Nat /\ Project \in Nat /\ Target \in Nat
  /\ Acknowledge \in Nat /\ Complete \in Nat /\ Release \in Nat /\ Lag \in Nat
  /\ Evidence \in Nat /\ OverheadMs \in Nat /\ Batch \in Nat
  /\ DrainMs \in Nat /\ LeaseMs \in Nat /\ LeaseMarginMs \in Nat
  /\ PerEvent \in Nat
  /\ CycleMs <= DrainMs /\ CycleMs + LeaseMarginMs <= LeaseMs
  BY BudgetAssumption DEF Admissible, PerEvent

-----------------------------------------------------------------------------
(* The initial state reserves exactly the whole budget.                    *)
LEMMA BudgetInit == CycleInit => BudgetInv
  BY Limits DEF CycleInit, BudgetInv, CycleTypeOK, Stages, Leased, Reserved, CycleMs

(* Every step pays for its time out of the reserve or the overhead.        *)
LEMMA BudgetStep == BudgetInv /\ [CycleNext]_cycleVars => BudgetInv'
<1> SUFFICES ASSUME BudgetInv, [CycleNext]_cycleVars PROVE BudgetInv'
  OBVIOUS
<1> USE Limits DEF BudgetInv, CycleTypeOK, Stages, Leased
<1>p. PerEvent = Load + Project + Target + Acknowledge + Complete + Release + 2 * Evidence
  BY DEF PerEvent
<1>c. CycleMs \in Int
  BY DEF CycleMs
<1>r. left \in Nat /\ (left - 1) * PerEvent \in Int
  OBVIOUS
<1>1. CASE Calls
  <2>1. CASE Call("lag", Lag, "lagEvidence")
    BY <2>1, <1>c DEF Call, Pass, Reserved
  <2>2. CASE Call("lagEvidence", Evidence, "claim")
    BY <2>2, <1>c DEF Call, Pass, Reserved
  <2>3. CASE ClaimCall
    <3>1. PICK d \in 0..Claim, n \in 0..Batch :
            /\ elapsed' = elapsed + d /\ age' \in 0..d /\ own' = own
            /\ left' = n /\ pc = "claim"
            /\ pc' = IF n = 0 THEN "settled" ELSE "load"
      BY <2>3 DEF ClaimCall
    <3>2. n * PerEvent <= Batch * PerEvent /\ 0 <= Batch * PerEvent
      BY FewerEvents, <3>1
    <3>3. CASE n = 0
      BY <3>1, <3>2, <3>3, <1>c DEF Reserved
    <3>4. CASE n # 0
      <4>1. n - 1 \in Nat /\ (n - 1) * PerEvent + PerEvent = n * PerEvent
        BY <3>4, <3>1, OneEventMore
      <4>2. Reserved' = (n - 1) * PerEvent + PerEvent
        BY <3>1, <3>4 DEF Reserved, Tail
      <4> QED BY <3>1, <3>2, <3>4, <4>1, <4>2, <1>c DEF Reserved
    <3> QED BY <3>3, <3>4
  <2>4. CASE Call("load", Load, "project")
    BY <2>4, <1>c, <1>r DEF Call, Pass, Reserved, Tail
  <2>5. CASE Call("project", Project, "target")
    BY <2>5, <1>c, <1>r DEF Call, Pass, Reserved, Tail
  <2>6. CASE Call("target", Target, "acknowledge")
    BY <2>6, <1>c, <1>r DEF Call, Pass, Reserved, Tail
  <2>7. CASE Call("acknowledge", Acknowledge, "complete")
    BY <2>7, <1>p, <1>c, <1>r DEF Call, Pass, Reserved, Tail
  <2>8. CASE Call("complete", Complete, "evidence")
    BY <2>8, <1>c, <1>r DEF Call, Pass, Reserved, Tail
  <2> QED BY <1>1, <2>1, <2>2, <2>3, <2>4, <2>5, <2>6, <2>7, <2>8 DEF Calls
<1>2. CASE Failures
  BY <1>2, <1>p, <1>c, <1>r DEF Failures, Call, Pass, Reserved, Tail
<1>3. CASE Settle
  <2>1. PICK d \in 0..Evidence :
          /\ elapsed' = elapsed + d /\ age' = age + d /\ own' = own
          /\ left' = left - 1 /\ pc \in {"evidence", "lastEvidence"}
          /\ pc' = IF left = 1 THEN "settled" ELSE "load"
    BY <1>3 DEF Settle, LastCall, Pass
  <2>2. Reserved \in Int /\ (left - 1) * PerEvent + Evidence <= Reserved
    <3>1. Reserved = (left - 1) * PerEvent + Tail(pc)
      BY <2>1 DEF Reserved
    <3>2. Tail(pc) \in Int /\ Evidence <= Tail(pc)
      BY <2>1 DEF Tail
    <3> QED BY <3>1, <3>2, <1>r
  <2>3. Reserved' \in Int /\ Reserved' = (left - 1) * PerEvent
    <3>1. CASE left = 1
      <4>1. (left - 1) * PerEvent = 0
        BY <3>1
      <4> QED BY <2>1, <3>1, <4>1 DEF Reserved
    <3>2. CASE left # 1
      <4>1. left - 2 \in Nat /\ (left - 2) * PerEvent + PerEvent = (left - 1) * PerEvent
        BY <2>1, <3>2, OneEventMore
      <4>2. Reserved' = (left - 2) * PerEvent + PerEvent
        BY <2>1, <3>2 DEF Reserved, Tail
      <4> QED BY <4>1, <4>2, <1>r
    <3> QED BY <3>1, <3>2
  <2>4. elapsed' + Reserved' + (OverheadMs - own') <= CycleMs
    BY <2>1, <2>2, <2>3, <1>c, <1>r
  <2>5. CycleTypeOK' /\ (pc' \in Leased => left' >= 1) /\ age' <= elapsed'
    BY <2>1
  <2> QED BY <2>4, <2>5
<1>4. CASE OwnTime
  <2>1. Reserved' = Reserved /\ Reserved \in Int
    BY <1>4, <1>r DEF OwnTime, Reserved, Tail
  <2> QED BY <1>4, <2>1, <1>c DEF OwnTime, Pass
<1>5. CASE UNCHANGED cycleVars
  BY <1>5 DEF cycleVars, Reserved, Tail
<1> QED BY <1>1, <1>2, <1>3, <1>4, <1>5 DEF CycleNext

(* What is reserved is never negative.                                     *)
LEMMA ReserveIsLeft ==
  ASSUME BudgetInv
  PROVE  Reserved \in Int /\ 0 <= Reserved
<1> USE Limits DEF BudgetInv, CycleTypeOK, Stages, Leased
<1>1. CASE pc \in Leased
  <2>1. left - 1 \in Nat /\ 0 <= (left - 1) * PerEvent /\ (left - 1) * PerEvent \in Int
    <3>1. left - 1 \in Nat
      BY <1>1
    <3> QED BY <3>1
  <2>2. Reserved = (left - 1) * PerEvent + Tail(pc)
    BY <1>1 DEF Reserved
  <2>3. Tail(pc) \in Int /\ 0 <= Tail(pc)
    BY <1>1 DEF Tail, PerEvent
  <2> QED BY <2>1, <2>2, <2>3
<1>2. CASE pc \notin Leased
  <2>1. Batch * PerEvent \in Nat
    OBVIOUS
  <2> QED BY <1>2, <2>1 DEF Reserved
<1> QED BY <1>1, <1>2

-----------------------------------------------------------------------------
THEOREM BudgetInvariant == CycleSpec => []BudgetInv
  BY BudgetInit, BudgetStep, PTL DEF CycleSpec

(* Whatever budgets the template admits, a full cycle with every failure   *)
(* path taken fits the drain limit of the supervisor.                      *)
THEOREM CycleDrainsInTime == CycleSpec => []DrainsInTime
<1>1. BudgetInv => DrainsInTime
  <2> SUFFICES ASSUME BudgetInv PROVE DrainsInTime
    OBVIOUS
  <2>1. elapsed <= CycleMs
    BY ReserveIsLeft, Limits DEF BudgetInv, CycleTypeOK, CycleMs
  <2> QED BY <2>1, Limits DEF DrainsInTime, BudgetInv, CycleTypeOK, CycleMs
<1> QED BY <1>1, BudgetInvariant, PTL

(* ... and ends before the lease it works under, by the lease margin.      *)
THEOREM CycleStaysInLease == CycleSpec => []LeaseOutlastsCycle
<1>1. BudgetInv => LeaseOutlastsCycle
  <2> SUFFICES ASSUME BudgetInv PROVE LeaseOutlastsCycle
    OBVIOUS
  <2>1. age <= CycleMs
    BY ReserveIsLeft, Limits DEF BudgetInv, CycleTypeOK, CycleMs
  <2> QED BY <2>1, Limits DEF LeaseOutlastsCycle, BudgetInv, CycleTypeOK, CycleMs
<1> QED BY <1>1, BudgetInvariant, PTL
=============================================================================
