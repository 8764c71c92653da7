---------------------------- MODULE DeploymentInputs ----------------------------
(***************************************************************************)
(* What the typed validators of contracts/index.ts accept, and what the    *)
(* Core schema (contracts/meridian-config.v1.schema.json) accepts of the   *)
(* same values once they are rendered.  Every deployment input passes the  *)
(* first, most of them in more than one place; the schema is applied to    *)
(* the finished configuration only.                                        *)
(*                                                                         *)
(* A text is a string of one byte, unless it is one of OddTexts, which     *)
(* stand for the texts a validator may refuse; malformed identifiers,      *)
(* pins, endpoints and versions are named likewise.  An open JSON object   *)
(* (settings, extensions, attributes) is the set of the keys it holds at   *)
(* any depth.  A retry delay is a number of half milliseconds.             *)
(***************************************************************************)
EXTENDS Integers, Sequences, FiniteSets

CONSTANT None    \* null or undefined

CatalogNames == {"structured", "object", "cache", "evidence", "streaming"}

Control == -1    \* the size of a text that holds a control character
OddTexts == [empty |-> 0, control |-> Control, over64 |-> 65, over128 |-> 129,
             over256 |-> 257, over512 |-> 513, over2048 |-> 2049]
NotIdentifiers == DOMAIN OddTexts \cup {"9lives", "ends-"}
NotFingerprints == DOMAIN OddTexts \cup {"md5:0"}
NotEndpoints == {"relative", "https://user@engine", "https://engine/?query", "https://engine/#part"}
CrossPlane == {"pulumi://stack", "stack://other"}
SensitiveKeys == {"password", "token"}

Elements(seq) == {seq[i] : i \in DOMAIN seq}
IsList(seq) == seq \in Seq(Elements(seq))
Distinct(seq) == Cardinality(Elements(seq)) = Len(seq)
DistinctBy(seq, Key(_)) == Cardinality({Key(x) : x \in Elements(seq)}) = Len(seq)

Bytes(text) == IF text \in DOMAIN OddTexts THEN OddTexts[text] ELSE 1
IsText(text, maximum) == Bytes(text) \in 1..maximum
IsIdentifier(text) == text \notin NotIdentifiers
IsFingerprint(text) == text \notin NotFingerprints
IsReference(ref) == IsIdentifier(ref.provider) /\ IsText(ref.reference, 2048)
AreLabels(labels) == \A name \in DOMAIN labels : IsText(name, 128) /\ IsText(labels[name], 512)
AreLimits(limits) == \A name \in DOMAIN limits : IsText(name, 128) /\ limits[name] \in Nat
HoldsSecret(object) == object \cap SensitiveKeys # {}
Optional(value, Holds(_)) == value # None => Holds(value)

-----------------------------------------------------------------------------
(* Resources.  The key joins the two names with a dot, which both may      *)
(* contain.                                                                *)
IsSelector(s) == s.catalog \in CatalogNames /\ IsIdentifier(s.namespace) /\ IsIdentifier(s.name)
SelectorKey(s) == s.catalog \o ":" \o s.namespace \o "." \o s.name

\* The two names of the pin of a ResourceDefinition, resourceFingerprint first.
DefinitionFingerprint(schema) == IF schema.pin # None THEN schema.pin ELSE schema.alias
PinsOneDefinition(schema) ==
  /\ Optional(schema.pin, IsFingerprint)
  /\ Optional(schema.alias, IsFingerprint)
  /\ DefinitionFingerprint(schema) # None
  /\ schema.alias \in {None, DefinitionFingerprint(schema)}

IsSchemaRequirement(s) ==
  IsIdentifier(s.provider) /\ IsText(s.package, 256) /\ IsText(s.version, 64) /\ PinsOneDefinition(s)
IsOperationRequirement(o) ==
  IsText(o.contract, 256) /\ IsText(o.version, 64) /\ AreLimits(o.limits)
IsDuration(seconds) == seconds \in Nat

IsRequirement(r) ==
  /\ IsSelector(r.selector)
  /\ IsText(r.dataClass, 512)
  /\ r.schemas # <<>> /\ r.operations # <<>>
  /\ DistinctBy(r.schemas, LAMBDA s : s.provider)
  /\ \A s \in Elements(r.schemas) : IsSchemaRequirement(s)
  /\ DistinctBy(r.operations, LAMBDA o : o.contract)
  /\ \A o \in Elements(r.operations) : IsOperationRequirement(o)
  /\ \A g \in r.guarantees : IsText(g, 256)
  /\ AreLimits(r.limits) /\ AreLabels(r.labels)
  /\ Optional(r.retention, LAMBDA l : Optional(l.rpo, IsDuration) /\ Optional(l.rto, IsDuration))

-----------------------------------------------------------------------------
(* Engine connections and bindings.                                        *)
IsTlsPolicy(t) ==
  \/ t.mode = "disabled" /\ t.server = None /\ t.ca = None /\ t.certificate = None
  \/ /\ t.mode \in {"server", "mutual"}
     /\ t.server # None /\ IsText(t.server, 512)
     /\ t.ca # None /\ IsReference(t.ca)
     /\ (t.mode = "mutual") = (t.certificate # None)
     /\ Optional(t.certificate, IsReference)

IsEndpoint(e) == IsText(e, 2048) /\ e \notin NotEndpoints
IsConnection(c) ==
  /\ IsText(c.namespace, 512)
  /\ IsReference(c.identity) /\ IsReference(c.secret) /\ IsTlsPolicy(c.tls)
  /\ (c.endpoint = None) # (c.service = None)
  /\ Optional(c.endpoint, IsEndpoint)
  /\ Optional(c.service, LAMBDA s : IsText(s, 512) /\ s \notin CrossPlane)
  /\ Optional(c.physical, IsFingerprint)
  /\ ~HoldsSecret(c.settings.keys) /\ ~HoldsSecret(c.extensions)

MaxRecoverySeconds == 31536000
IsBoundedSeconds(n) == n \in 0..MaxRecoverySeconds
IsRecovery(r) ==
  /\ r.method \in {"backup-restore", "rebuild", "replicated-log", "flush-warm"}
  /\ IsText(r.owner, 512) /\ IsText(r.policy, 2048)
  /\ IsBoundedSeconds(r.rpo) /\ IsBoundedSeconds(r.rto)
  /\ IsFingerprint(r.validation)

\* The acl, migration, observability and recovery of a binding.
IsMetadata(b) ==
  /\ IsReference(b.acl)
  /\ IsText(b.migration.contract, 256) /\ IsText(b.migration.version, 64)
  /\ IsFingerprint(b.migration.applied)
  /\ AreLabels(b.observability.labels)
  /\ Optional(b.observability.collector, IsFingerprint)
  /\ Optional(b.recovery, IsRecovery)

ClientRanges ==
  [minSize |-> 0..10000, maxSize |-> 1..10000, acquireTimeoutMs |-> 1..3600000,
   idleTimeoutMs |-> 0..86400000, operationTimeoutMs |-> 1..3600000,
   maxResultBytes |-> 1..2147483647, iteratorLifetimeMs |-> 1..86400000]
IsClientPolicy(c) ==
  /\ \A key \in DOMAIN ClientRanges : c[key] \in ClientRanges[key]
  /\ c.minSize <= c.maxSize

-----------------------------------------------------------------------------
(* Placement rules and the policies of a deployment.                       *)
IsPlacementSelector(s) ==
  /\ s.resources # <<>> \/ s.catalog # None \/ DOMAIN s.labels # {}
  /\ \A r \in Elements(s.resources) : IsSelector(r)
  /\ DistinctBy(s.resources, SelectorKey)
  /\ AreLabels(s.labels)
  /\ s.catalog \in CatalogNames \cup {None}

\* The delays are compared, never required to be whole milliseconds.
Milliseconds(half) == half * 2
RetryFits(v) ==
  /\ v.attempts \in 1..20
  /\ v.baseDelay \in 0..Milliseconds(60000)
  /\ v.maxDelay \in v.baseDelay..Milliseconds(600000)
  /\ v.jitterPercent \in 0..100
ValidationRanges == [timeoutMs |-> 1..3600000, cacheEntries |-> 1..1000000]
IsValidationPolicy(v) ==
  /\ v.strict
  /\ \A key \in DOMAIN ValidationRanges : v[key] \in ValidationRanges[key]
  /\ RetryFits(v)

IsTelemetry(t) ==
  /\ t.enabled = (t.service # None)
  /\ Optional(t.service, LAMBDA s : IsText(s, 512))
  /\ t.suppressRecursion
  /\ AreLabels(t.attributes)
  /\ ~HoldsSecret(DOMAIN t.attributes) /\ ~HoldsSecret(t.extensions)

-----------------------------------------------------------------------------
(* The released Core schema, on the parts of a configuration that the      *)
(* typed validators bound differently.                                     *)
IsSchemaName(text) == Bytes(text) = Control \/ Bytes(text) \in 1..512
IsWholeMillisecond(half) == half % 2 = 0
SchemaAccepts(config) ==
  /\ IsSchemaName(config.profile)
  /\ Len(config.catalogs) \in 1..5
  /\ config.pins # <<>> /\ config.providers # <<>>
  /\ config.bindings # <<>> /\ config.placements # <<>>
  /\ \A c \in Elements(config.catalogs) :
       /\ c.name \in CatalogNames /\ IsFingerprint(c.pin)
       /\ IsSchemaName(c.package) /\ IsSchemaName(c.contract)
  /\ \A p \in Elements(config.providers) :
       /\ IsSchemaName(p.id) /\ IsSchemaName(p.package) /\ IsSchemaName(p.contract)
       /\ IsFingerprint(p.pin)
  /\ \A b \in Elements(config.bindings) :
       /\ IsSchemaName(b.id) /\ IsSchemaName(b.version) /\ IsSchemaName(b.namespace)
       /\ \A key \in DOMAIN b.runtimePins : IsSchemaName(b.runtimePins[key])
  /\ LET v == config.validation
     IN  /\ v.strict /\ v.attempts \in 1..20
         /\ v.baseDelay \in 0..Milliseconds(60000) /\ v.maxDelay \in 0..Milliseconds(600000)
         /\ IsWholeMillisecond(v.baseDelay) /\ IsWholeMillisecond(v.maxDelay)
=============================================================================
