----------------------------- MODULE ProjectionJob -----------------------------
(***************************************************************************)
(* The two gates a projection host passes before it may claim anything.    *)
(* durableProjectionJob (jobs/projection/index.ts) accepts a deployment at *)
(* preview time and writes a job document; validate_job and the            *)
(* constructor of assets/worker.py judge that document again at startup,   *)
(* in another language, against the installed packages and the live        *)
(* engines.  Between the two an image is built, engines may change their   *)
(* capabilities, and the document may be edited.                           *)
(*                                                                         *)
(* Placement is abstracted to the bindings of the label-free rules that    *)
(* match a Resource (rules that match one Resource name different          *)
(* bindings); a manifest to the guarantees it advertises, "base" standing  *)
(* for put, query and transaction.  The manifest handed to the template is *)
(* the pinned one: any other has another fingerprint.  Shapes              *)
(* (identifiers, Schema references, version syntax) are taken as valid.    *)
(*                                                                         *)
(* Both gates compute the fingerprint of a document, each with the JSON of *)
(* its own language.  "alike" is said of a deployment whose document both  *)
(* write alike: objects with array indices for keys and small fractions    *)
(* are not (CanonicalText has the two texts).                              *)
(***************************************************************************)
EXTENDS Integers, FiniteSets

CONSTANTS
  Bindings,
  EvidenceResources,     \* Evidence Resources that a deployment may require
  Packages, Releases,
  CorePackage,           \* stands for projectionPackagePins
  EvidencePackage,       \* meridian-storage-evidence
  Configurations,        \* deployment configurations offered to the template
  Inputs,                \* [required, pins] offered to the template
  MaxChanges             \* changes made between the preview and the start

Roles == {"source", "outbox", "target"}
Resources == Roles \cup EvidenceResources
Absent == 0
Pins == [Packages -> Releases \cup {Absent}]
Guarantees == {"base", "evidence"}

Configuration == [place: [Resources -> SUBSET Bindings], postgresql: SUBSET Bindings,
                  lock: [Bindings -> Pins], manifest: [Bindings -> SUBSET Guarantees],
                  alike: BOOLEAN]
Input == [required: SUBSET EvidenceResources, pins: Pins]

ASSUME PackageAssumption == {CorePackage, EvidencePackage} \subseteq Packages
ASSUME RoleAssumption == EvidenceResources \cap Roles = {}
ASSUME ReleaseAssumption == Absent \notin Releases
ASSUME ChangeAssumption == MaxChanges \in Nat
ASSUME OfferAssumption == Configurations \subseteq Configuration /\ Inputs \subseteq Input

VARIABLES
  phase,      \* "preview", "rejected", "accepted", "refused" or "running"
  job,        \* the serialized specification
  edited,     \* the document is no longer what the template wrote
  changes,    \* changes since the preview
  installed,  \* releases in the image
  live        \* guarantees each engine really has

vars == <<phase, job, edited, changes, installed, live>>

-----------------------------------------------------------------------------
Resolves(c, r) == Cardinality(c.place[r]) = 1
BindingFor(c, r) == CHOOSE b \in c.place[r] : TRUE
Selected(c, rs) == {BindingFor(c, r) : r \in rs}

\* Every release a lock names is selected.
Agrees(lock, pins) == \A p \in Packages : lock[p] # Absent => pins[p] = lock[p]

Pinned(required, pins) ==
  /\ pins[CorePackage] # Absent
  /\ required # {} => pins[EvidencePackage] # Absent

Version(required) == IF required = {} THEN "1.0.0" ELSE "1.1.0"

\* Source, intent and required Evidence are written in one transaction.
SharesSource(c, rs) == \A r \in rs : BindingFor(c, r) = BindingFor(c, "source")

\* What the binding b has to advertise.
Needed(c, b, required) ==
  {"base"} \cup (IF required # {} /\ b = BindingFor(c, "source") THEN {"evidence"} ELSE {})

\* A template that forgets the Binding of the required Evidence.
AcceptsApartEvidence(c, i) ==
  LET roles == Roles \cup i.required
      selected == Selected(c, roles)
  IN  /\ Pinned(i.required, i.pins)
      /\ \A r \in roles : Resolves(c, r)
      /\ SharesSource(c, {"outbox"})
      /\ \A b \in selected : /\ Agrees(c.lock[b], i.pins)
                             /\ b \in c.postgresql
                             /\ Needed(c, b, i.required) \subseteq c.manifest[b]

(* durableProjectionJob: the deployment may host the projection.           *)
Accepts(c, i) ==
  LET roles == Roles \cup i.required
      selected == Selected(c, roles)
  IN  /\ Pinned(i.required, i.pins)
      /\ \A r \in roles : Resolves(c, r)
      /\ SharesSource(c, {"outbox"} \cup i.required)
      /\ \A b \in selected : /\ Agrees(c.lock[b], i.pins)
                             /\ b \in c.postgresql
                             /\ Needed(c, b, i.required) \subseteq c.manifest[b]

\* The document the template writes; sealed: its fingerprints are those that the host computes.
Document(c, i) ==
  [config |-> c, pins |-> i.pins, required |-> i.required,
   version |-> Version(i.required), resources |-> Roles \cup i.required,
   sourceBinding |-> BindingFor(c, "source"),
   targetBinding |-> BindingFor(c, "target"), sealed |-> c.alike]

NoJob == [sealed |-> FALSE]

Init ==
  /\ phase = "preview" /\ job = NoJob /\ edited = FALSE /\ changes = 0
  /\ installed = [p \in Packages |-> Absent]
  /\ live = [b \in Bindings |-> {}]

(* Preview: the template throws or returns the specification.  The image   *)
(* is built from the pins; the engines are those of the pinned manifests.  *)
Preview(c, i) ==
  /\ phase = "preview"
  /\ IF Accepts(c, i)
       THEN phase' = "accepted" /\ job' = Document(c, i)
            /\ installed' = i.pins /\ live' = c.manifest
       ELSE phase' = "rejected" /\ UNCHANGED <<job, installed, live>>
  /\ UNCHANGED <<edited, changes>>

Change == phase = "accepted" /\ changes < MaxChanges /\ changes' = changes + 1

(* The image resolves another release, or lacks a package.                 *)
OtherRelease(p, v) ==
  /\ Change
  /\ installed' = [installed EXCEPT ![p] = v]
  /\ UNCHANGED <<phase, job, edited, live>>

(* An engine loses or gains a guarantee after the preview.                 *)
EngineChanges(b, g) ==
  /\ Change
  /\ live' = [live EXCEPT ![b] = g]
  /\ UNCHANGED <<phase, job, edited, installed>>

(* Someone edits the document: its declaration, its list of Resources, its *)
(* pins or its placements, with or without recomputing its fingerprints.   *)
Edit ==
  /\ Change
  /\ \E sealed \in BOOLEAN :
       \/ \E required \in SUBSET EvidenceResources, rs \in {job.required, job.resources \ Roles},
             v \in {"1.0.0", "1.1.0"} :
            job' = [job EXCEPT !.required = required, !.resources = Roles \cup rs \cup required,
                               !.version = v, !.sealed = sealed]
       \/ \E rs \in SUBSET Resources :
            job' = [job EXCEPT !.resources = rs, !.sealed = sealed]
       \/ \E p \in Packages, v \in Releases \cup {Absent} :
            job' = [job EXCEPT !.pins[p] = v, !.sealed = sealed]
       \/ \E r \in Resources, bs \in SUBSET Bindings :
            job' = [job EXCEPT !.config.place[r] = bs, !.sealed = sealed]
  /\ job' # job
  /\ edited' = TRUE
  /\ UNCHANGED <<phase, installed, live>>

-----------------------------------------------------------------------------
(* validate_job, run by the supervisor and again by the host.              *)
Valid(j) ==
  /\ j.sealed
  /\ j.version = Version(j.required)
  /\ j.resources = Roles \cup j.required
  /\ Pinned(j.required, j.pins)
  /\ \A p \in Packages : j.pins[p] # Absent => installed[p] = j.pins[p]
  /\ \A b \in Bindings : Agrees(j.config.lock[b], j.pins)

\* A host that compares only what the pinned manifests say.
HostableByManifest(j) ==
  LET c == j.config
      selected == Selected(c, Roles)
  IN  /\ \A r \in Roles \cup j.required : Resolves(c, r)
      /\ SharesSource(c, {"outbox"} \cup j.required)
      /\ BindingFor(c, "source") = j.sourceBinding
      /\ BindingFor(c, "target") = j.targetBinding
      /\ selected \subseteq c.postgresql
      /\ \A b \in selected : Needed(c, b, j.required) \subseteq c.manifest[b]

(* The constructor: placements of the started runtime, and the live        *)
(* capabilities of the selected bindings.                                  *)
Hostable(j) ==
  LET c == j.config
      selected == Selected(c, Roles)
  IN  /\ \A r \in Roles \cup j.required : Resolves(c, r)
      /\ SharesSource(c, {"outbox"} \cup j.required)
      /\ BindingFor(c, "source") = j.sourceBinding
      /\ BindingFor(c, "target") = j.targetBinding
      /\ selected \subseteq c.postgresql
      /\ \A b \in selected : /\ live[b] = c.manifest[b]
                             /\ Needed(c, b, j.required) \subseteq live[b]

(* The host starts, or raises before it has an outbox to claim from.       *)
Boot ==
  /\ phase = "accepted"
  /\ phase' = IF Valid(job) /\ Hostable(job) THEN "running" ELSE "refused"
  /\ UNCHANGED <<job, edited, changes, installed, live>>

Next == \/ \E c \in Configurations, i \in Inputs : Preview(c, i)
        \/ \E p \in Packages, v \in Releases \cup {Absent} : OtherRelease(p, v)
        \/ \E b \in Bindings, g \in SUBSET Guarantees : EngineChanges(b, g)
        \/ Edit
        \/ Boot

Spec == Init /\ [][Next]_vars

-----------------------------------------------------------------------------
Documents == [config: Configuration, pins: Pins, required: SUBSET EvidenceResources,
              version: {"1.0.0", "1.1.0"}, resources: SUBSET Resources,
              sourceBinding: Bindings, targetBinding: Bindings, sealed: BOOLEAN]

TypeOK ==
  /\ phase \in {"preview", "rejected", "accepted", "refused", "running"}
  /\ phase \in {"preview", "rejected"} => job = NoJob
  /\ phase \notin {"preview", "rejected"} => job \in Documents
  /\ edited \in BOOLEAN /\ changes \in 0..MaxChanges
  /\ installed \in Pins /\ live \in [Bindings -> SUBSET Guarantees]

(* Whatever changed since the preview, a running host writes into one      *)
(* atomic group: every Resource its document lists besides the target is   *)
(* on the source binding, whose live engine has the atomic guarantees.     *)
AtomicGroup ==
  phase = "running" =>
    \A r \in job.resources \ {"target"} :
      LET b == BindingFor(job.config, r)
      IN  /\ b = job.sourceBinding
          /\ "base" \in live[b]
          /\ r \in EvidenceResources => "evidence" \in live[b]

\* Nothing the template relied on has changed.
AsPreviewed == ~edited /\ installed = job.pins /\ live = job.config.manifest

\* The locks of bindings that no participant uses.
OtherLocksAgree ==
  \A b \in Bindings \ Selected(job.config, Roles \cup job.required) :
    Agrees(job.config.lock[b], job.pins)

(* The two gates agree: a job the template accepted starts when it is run  *)
(* as previewed, unless a binding the job does not use locks other         *)
(* releases or the two languages write its document differently; and what  *)
(* a host starts, edited or not, is a declaration that the template would  *)
(* accept.  (index.ts 144-361 against worker.py 106-256.)                  *)
GatesAgree ==
  /\ phase = "refused" /\ AsPreviewed => ~OtherLocksAgree \/ ~job.config.alike
  /\ phase = "running" => Accepts(job.config, [required |-> job.required, pins |-> job.pins])

(* docs/projection-jobs.md 64: "Unlisted optional Evidence may retain a    *)
(* separate Binding": it keeps no accepted job from starting as previewed. *)
OptionalEvidenceMayStaySeparate ==
  phase = "refused" /\ AsPreviewed /\ job.config.alike
    => ~ \E r \in EvidenceResources \ job.required :
           Resolves(job.config, r) /\ BindingFor(job.config, r) # job.sourceBinding
=============================================================================
