---------------------------- MODULE EngineConstructs ----------------------------
(***************************************************************************)
(* The Pulumi components (constructs/index.ts): a program constructs its   *)
(* engines one after the other and then the deployment that places         *)
(* Resources on them.  Constructors run synchronously: they throw, and end *)
(* the program, or leave Outputs behind that resolve later and in any      *)
(* order.  The provisioner of a managed engine is called in the middle of  *)
(* its constructor, and what it returns is checked afterwards.             *)
(*                                                                         *)
(* An engine is [kind, binding, provider, request, connection]: the        *)
(* arguments of its Binding, and the connection that the author (external) *)
(* or the provisioner (managed) supplies.  A topology of None stands for   *)
(* the default of the profile.                                             *)
(***************************************************************************)
EXTENDS PlanDeployment

CONSTANTS
  Programs,    \* [engines, deployment, later]: a deployment without bindings; whether telemetry is an Output
  Home         \* the host the program runs on

VARIABLES
  program,
  next,           \* the constructor that runs next: an engine, or the deployment after the last of them
  thrown,         \* a constructor threw
  provisioned,    \* engines whose provisioner was called
  bound,          \* the binding Output of each engine: "pending", "resolved" or "failed"
  telemetry,      \* whether the telemetry capability is known
  outputs,        \* bindingOutputs of the deployment, empty until it is constructed
  settled, plan   \* whether the plan Output is "pending", "planned" or "failed", and the plan or None

programVars == <<program, next, thrown, provisioned, bound, telemetry, outputs, settled, plan>>

\* A deployment with its bindings.
Whole(deployment, bindings) ==
  [field \in DOMAIN deployment \cup {"bindings"} |-> IF field = "bindings" THEN bindings ELSE deployment[field]]

\* What the types of the constructors say of their arguments.
EngineTyped(e) ==
  /\ DOMAIN e.binding = {"id", "profile", "capabilityPin", "manifest", "connection", "mode", "topology", "version",
                         "client", "packages", "runtimePins", "acl", "migration", "observability", "recovery"}
  /\ IsIdentifier(e.binding.id) => HasPlace(e.binding.id)
  /\ e.kind = "managed" => e.request.acl # None
ASSUME ProgramsAssumption ==
  /\ Home \in Hosts /\ None \notin {"engine", "https://engine"}
  /\ \A p \in Programs :
       /\ IsList(p.engines) /\ \A e \in Elements(p.engines) : EngineTyped(e)
       /\ SpecificationTyped(Whole(p.deployment, <<>>))

Engines == DOMAIN program.engines
Deploying == Len(program.engines) + 1

-----------------------------------------------------------------------------
(* Constructors of engines.                                                *)
Topology(b) == IF b.topology = None /\ b.profile \in DOMAIN Profiles THEN Profiles[b.profile].topology ELSE b.topology
BindingSpec(e) ==
  [e.binding EXCEPT !.mode = e.kind, !.topology = Topology(e.binding), !.connection = e.connection]
EngineProfile(e) == SelectedProfile(e.binding, Profiles[e.binding.profile])

\* What ManagedEngine judges of a request before anything is created.
RequestFits(e) ==
  LET r == e.request
      profile == Profiles[e.binding.profile]
  IN  /\ e.provider
      /\ StaticSelection(profile, "managed", Topology(e.binding), e.binding.version)
      /\ PackagesPinned(profile, e.binding.packages)
      /\ ~HoldsSecret(r.keys)
      /\ IsText(r.target, 512) /\ IsReference(r.identity) /\ IsReference(r.acl) /\ IsTlsPolicy(r.tls)
      /\ profile.storage = "required" => r.storage
      /\ r.acl = e.binding.acl /\ r.observability = e.binding.observability
      /\ \A d \in Elements(r.domains) : IsText(d, 512)
      /\ Distinct(r.domains)
      /\ Optional(r.backup, IsReference) /\ Optional(r.rpo, IsBoundedSeconds) /\ Optional(r.rto, IsBoundedSeconds)

\* A constructor that leaves the manifest to the planner.
EvidenceForwarded(e) ==
  LET b == BindingSpec(e)
  IN  /\ b.profile \in DOMAIN Profiles
      /\ e.kind = "managed" => RequestFits(e)
      /\ IsIdentifier(b.id) /\ IsFingerprint(b.capabilityPin) /\ IsClientPolicy(b.client) /\ IsMetadata(b)
      /\ StaticSelection(Profiles[b.profile], b.mode, b.topology, b.version)
      /\ PackagesPinned(Profiles[b.profile], b.packages)

\* Everything a constructor judges before it asks for the connection.
EvidenceFits(e) ==
  LET b == BindingSpec(e)
  IN  /\ b.profile \in DOMAIN Profiles
      /\ e.kind = "managed" => RequestFits(e)
      /\ IsIdentifier(b.id) /\ IsFingerprint(b.capabilityPin) /\ IsClientPolicy(b.client) /\ IsMetadata(b)
      /\ b.manifest # None => ManifestFits(b, Profiles[b.profile])
      /\ StaticSelection(Profiles[b.profile], b.mode, b.topology, b.version)
      /\ PackagesPinned(Profiles[b.profile], b.packages)

\* And of the connection, once it has it.
ConnectionFits(e) ==
  LET c == e.connection
  IN  /\ e.kind = "managed" => c.identity = e.request.identity /\ c.tls = e.request.tls
      /\ IsReference(c.identity) /\ IsReference(c.secret) /\ IsTlsPolicy(c.tls)
      /\ EngineProfile(e).tls = "server" => c.tls.mode # "disabled"

ConstructEngine ==
  /\ ~thrown /\ next \in Engines
  /\ LET e == program.engines[next]
         admitted == EvidenceFits(e)
     IN  /\ provisioned' = IF admitted /\ e.kind = "managed" THEN provisioned \cup {next} ELSE provisioned
         /\ thrown' = ~(admitted /\ ConnectionFits(e))
  /\ next' = next + 1
  /\ UNCHANGED <<program, bound, telemetry, outputs, settled, plan>>

-----------------------------------------------------------------------------
(* The deployment.                                                         *)
Specification == Whole(program.deployment, [i \in Engines |-> BindingSpec(program.engines[i])])
EngineNamed(id) == CHOOSE i \in Engines : program.engines[i].binding.id = id

Promise(o, e) == [contract |-> o.contract, version |-> o.version,
                  guarantees |-> EngineProfile(e).operations[o.contract].guarantees,
                  limits |-> EngineProfile(e).operations[o.contract].limits]
BindingOutput(r, e) ==
  [binding |-> e.binding.id, adapter |-> EngineProfile(e).adapter, version |-> e.binding.version,
   identity |-> e.connection.identity, tls |-> e.connection.tls, acl |-> e.binding.acl,
   packages |-> e.binding.packages, capabilities |-> {Promise(o, e) : o \in Elements(r.operations)}]

\* Outputs that point at the first engine that serves the catalog.
OutputOfCatalog(key) ==
  LET r == Requirement(Specification, key)
      i == CHOOSE i \in Engines : /\ r.selector.catalog \in EngineProfile(program.engines[i]).catalogs
                                  /\ \A j \in 1..(i - 1) :
                                       r.selector.catalog \notin EngineProfile(program.engines[j]).catalogs
  IN  BindingOutput(r, program.engines[i])

OutputOf(key) ==
  BindingOutput(Requirement(Specification, key),
                program.engines[EngineNamed(PlacementBindings(Specification)[key])])

\* The constructor finds one engine for every Resource, with the operations it requires.
Publishable ==
  LET s == Specification
  IN  /\ DistinctBy(s.bindings, LAMBDA b : b.id)
      /\ \A r \in Elements(s.resources) :
           /\ OneRule(s.placements, r)
           /\ LET id == PlacementBindings(s)[SelectorKey(r.selector)]
              IN  /\ id \in {b.id : b \in Elements(s.bindings)}
                  /\ \A o \in Elements(r.operations) :
                       o.contract \in DOMAIN EngineProfile(program.engines[EngineNamed(id)]).operations

ConstructDeployment ==
  /\ ~thrown /\ next = Deploying
  /\ IF Publishable
       THEN outputs' = [key \in Keys(Specification) |-> OutputOf(key)] /\ thrown' = FALSE
       ELSE thrown' = TRUE /\ UNCHANGED outputs
  /\ next' = next + 1
  /\ UNCHANGED <<program, provisioned, bound, telemetry, settled, plan>>

-----------------------------------------------------------------------------
(* Outputs resolve.                                                        *)
\* The values of a connection arrive and are judged together (validateEngineConnection).
BindEngine(i) ==
  /\ ~thrown /\ i < next /\ bound[i] = "pending"
  /\ bound' = [bound EXCEPT ![i] = IF IsConnection(program.engines[i].connection) THEN "resolved" ELSE "failed"]
  /\ UNCHANGED <<program, next, thrown, provisioned, telemetry, outputs, settled, plan>>

\* A resource that the connection comes from cannot be created.
LoseEngine(i) ==
  /\ ~thrown /\ i < next /\ bound[i] = "pending"
  /\ bound' = [bound EXCEPT ![i] = "failed"]
  /\ UNCHANGED <<program, next, thrown, provisioned, telemetry, outputs, settled, plan>>

LearnTelemetry ==
  /\ ~thrown /\ ~telemetry /\ telemetry' = TRUE
  /\ UNCHANGED <<program, next, thrown, provisioned, bound, outputs, settled, plan>>

\* The whole specification is planned when the last of its Outputs has resolved.
Compile ==
  /\ ~thrown /\ next > Deploying /\ settled = "pending"
  /\ telemetry /\ \A i \in Engines : bound[i] = "resolved"
  /\ \E s \in {Specification} :
       IF Accepts(s, Home)
         THEN settled' = "planned" /\ plan' = PlanOf(s, Home)
         ELSE settled' = "failed" /\ UNCHANGED plan
  /\ UNCHANGED <<program, next, thrown, provisioned, bound, telemetry, outputs>>

\* A wait for all Outputs that forgets those that fail.
NeverAbandon == FALSE /\ UNCHANGED programVars

\* An Output that failed fails the ones that wait for it.
Abandon ==
  /\ ~thrown /\ next > Deploying /\ settled = "pending"
  /\ \E i \in Engines : bound[i] = "failed"
  /\ settled' = "failed"
  /\ UNCHANGED <<program, next, thrown, provisioned, bound, telemetry, outputs, plan>>

ProgramInit ==
  /\ program \in Programs
  /\ next = 1 /\ thrown = FALSE /\ provisioned = {}
  /\ bound = [i \in Engines |-> "pending"]
  /\ telemetry = ~program.later
  /\ outputs = <<>> /\ settled = "pending" /\ plan = None

ProgramNext ==
  \/ ConstructEngine \/ ConstructDeployment
  \/ \E i \in Engines : BindEngine(i) \/ LoseEngine(i)
  \/ LearnTelemetry \/ Compile \/ Abandon
ProgramSpec == ProgramInit /\ [][ProgramNext]_programVars

-----------------------------------------------------------------------------
(* Properties.                                                             *)
Planned == settled = "planned"

\* Constructors run in order; a plan exists only of a deployment that published its outputs.
ProgramTypeOK ==
  /\ next \in 1..(Deploying + 1) /\ thrown \in BOOLEAN /\ telemetry \in BOOLEAN
  /\ provisioned \subseteq {i \in Engines : i < next /\ program.engines[i].kind = "managed"}
  /\ \A i \in Engines : bound[i] # "pending" => i < next
  /\ Planned => DOMAIN outputs = DOMAIN plan.bindings /\ DOMAIN outputs # {}

\* Given a sound connection, the planner finds nothing wrong with an engine that was
\* provisioned: all of its evidence was judged before the provisioner was called
\* (EngineBinding and ManagedEngine against validateBinding).
SoundConnection(e) ==
  [namespace |-> "namespace", identity |-> e.request.identity, secret |-> e.request.acl,
   tls |-> [mode |-> "server", server |-> "engine", ca |-> e.request.acl, certificate |-> None],
   endpoint |-> "https://engine", service |-> None, physical |-> None,
   settings |-> [keys |-> {}, limits |-> <<>>, layouts |-> None], extensions |-> {}]
EvidenceFirst ==
  \A i \in provisioned :
    LET e == program.engines[i]
    IN  BindingValid([BindingSpec(e) EXCEPT !.connection = SoundConnection(e), !.runtimePins = <<>>])

\* In an accepted plan a managed engine is configured as its provisioner was asked to create
\* it: identity, TLS, access policy, observability, topology and version.
ManagedAsRequested ==
  Planned =>
    \A i \in Engines : program.engines[i].kind = "managed" =>
      LET e == program.engines[i]
          c == plan.config.bindings[CHOOSE j \in DOMAIN plan.config.bindings :
                                      plan.config.bindings[j].id = e.binding.id]
      IN  /\ i \in provisioned
          /\ c.identity = e.request.identity /\ c.tls = e.request.tls
          /\ c.acl = e.request.acl /\ c.observability = e.request.observability
          /\ c.mode = "managed" /\ c.topology = Topology(e.binding) /\ c.version = e.binding.version

\* Whatever order the Outputs of a program resolve in: an engine is provisioned only after all
\* of its evidence was judged, and what is planned of it is what was requested (EngineBinding).
ProvisionedAsJudged == ProgramTypeOK /\ EvidenceFirst /\ ManagedAsRequested

\* The outputs published while the constructor ran, and the plan made when everything had
\* resolved, put each Resource on the same engine, with one identity, TLS policy and package
\* lock, and with every guarantee the Resource requires (append-only may come from the layouts,
\* which the outputs do not see).
OutputsAgree ==
  Planned =>
    \A key \in DOMAIN outputs :
      LET out == outputs[key]
          c == plan.config.bindings[CHOOSE j \in DOMAIN plan.config.bindings :
                                      plan.config.bindings[j].id = plan.placed[key]]
          r == Requirement(plan.spec, key)
      IN  /\ out.binding = plan.placed[key]
          /\ out.adapter = c.adapter /\ out.version = c.version /\ out.packages = c.lock
          /\ out.identity = c.identity /\ out.tls = c.tls /\ out.acl = c.acl
          /\ \A o \in Elements(r.operations) :
               \E p \in out.capabilities :
                 p.contract = o.contract /\ (r.guarantees \cup o.guarantees) \ {"append-only"} \subseteq p.guarantees

\* A program that is not refused ends with a plan or with a failed one, whatever resolves last.
Settles == <>(thrown \/ settled # "pending")
=============================================================================
