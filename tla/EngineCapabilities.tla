--------------------------- MODULE EngineCapabilities ---------------------------
(***************************************************************************)
(* What an engine is taken to provide when a deployment is planned: the    *)
(* profile of the binding (profiles/index.ts), replaced by the operations  *)
(* of the pinned capability manifest where there is one (manifest.ts),     *)
(* narrowed or retuned by the settings of the connection (settings.ts);    *)
(* and the comparison of a requirement with it (runtime-config/index.ts).  *)
(*                                                                         *)
(* An operation capability is [versions, guarantees, limits].  The pin of  *)
(* a manifest is the fingerprint of its content: manifests that differ     *)
(* have different pins.  Settings are [keys, limits, layouts]: the mapped  *)
(* limits they set by the name of the limit (BadSetting for a value that   *)
(* is not a number in a plain container), and the layouts of ClickHouse    *)
(* or None.  Quantities of bytes are in the unit EngineProfiles gives each *)
(* limit.                                                                  *)
(***************************************************************************)
EXTENDS DeploymentInputs

BadSetting == -2     \* a value that is no safe integer, or a container that is no object
Unbounded == 2147483647

ClickHouse == "meridian.storage.clickhouse"
EvidenceAppend == "meridian.evidence.append"
Replay == "meridian.streaming.replay"

Lesser(a, b) == IF a < b THEN a ELSE b
Greater(a, b) == IF a < b THEN b ELSE a

\* Per adapter, the limits that settings map to and the range of the setting.
SettingRanges ==
  [clickhouse |-> [maxBatchRows |-> <<1, 1000000>>, maxBatchBytes |-> <<1, 2147483647>>,
                   maxTimeRangeSeconds |-> <<1, 366 * 86400>>, retryWindowSeconds |-> <<1, 7 * 86400>>],
   opensearch |-> [pageSize |-> <<1, 500>>, queryBytes |-> <<1, 1048576>>, facets |-> <<0, 100>>,
                   highlights |-> <<0, 100>>, filterClauses |-> <<1, 1024>>,
                   bulkActions |-> <<1, 10000>>, bulkBytes |-> <<1024, 104857600>>,
                   facetBuckets |-> <<1, 10000>>, highlightFragments |-> <<1, 100>>],
   valkey     |-> [keyBytes |-> <<96, 4096>>, valueBytes |-> <<1, 67108864>>,
                   batchSize |-> <<1, 10000>>, maximumTtlMs |-> <<1, 2147483647>>],
   s3         |-> [objectBytes |-> <<1, 83886080>>, rangeBytes |-> <<1, 83886080>>],
   oci        |-> [partBytes |-> <<1, 256>>, objectBytes |-> <<1, Unbounded>>,
                   rangeBytes |-> <<1, Unbounded>>, listPageSize |-> <<1, 1000>>,
                   multipartParts |-> <<1, 100000>>]]
Family(adapter) ==
  CASE adapter = ClickHouse -> "clickhouse"
    [] adapter = "org.meridian.storage.opensearch" -> "opensearch"
    [] adapter = "org.meridian.storage.valkey" -> "valkey"
    [] adapter = "s3" -> "s3"
    [] adapter = "oci-distribution" -> "oci"
    [] OTHER -> "other"
MappedLimits(adapter) ==
  IF Family(adapter) = "other" THEN {} ELSE DOMAIN SettingRanges[Family(adapter)]

-----------------------------------------------------------------------------
(* selectedCapabilityProfile: with a manifest only what it makes available *)
(* counts; a manifest of another adapter, profile or release is refused.   *)
\* The part of the public schema of a manifest that planning relies on.
IsManifest(m) ==
  /\ m.capabilities # <<>> /\ m.available # {}
  /\ \A c \in Elements(m.capabilities) : c.versions # {} /\ \A limit \in DOMAIN c.limits : c.limits[limit] \in Nat
ManifestFits(b, profile) ==
  LET m == b.manifest
  IN  /\ ~HoldsSecret(m.keys) /\ IsManifest(m)
      /\ m.pin = b.capabilityPin
      /\ m.engineProfile = profile.id /\ m.engineVersion = b.version
      /\ m.adapter = profile.adapter /\ m.contract = profile.contract
      /\ profile.id \in m.supported
      /\ DistinctBy(m.capabilities, LAMBDA c : c.contract)
      /\ m.available \subseteq {c.contract : c \in Elements(m.capabilities)}
Capability(c) == [versions |-> c.versions, guarantees |-> c.guarantees, limits |-> c.limits]
Advertised(m, contract) ==
  Capability(CHOOSE c \in Elements(m.capabilities) : c.contract = contract)
SelectedProfile(b, profile) ==
  IF b.manifest = None
    THEN profile
    ELSE [profile EXCEPT !.operations =
            [contract \in b.manifest.available |-> Advertised(b.manifest, contract)]]

-----------------------------------------------------------------------------
(* configuredCapabilityProfile.                                            *)
MappedSettings(profile, settings) == DOMAIN settings.limits \cap MappedLimits(profile.adapter)
LayoutsCount(profile, settings) == profile.adapter = ClickHouse /\ settings.layouts # None
LayoutsFit(profile, layouts) ==
  /\ layouts # <<>>
  /\ \A l \in Elements(layouts) : l.topology = profile.id
  /\ DistinctBy(layouts, LAMBDA l : l.resource)
SettingsFit(profile, settings) ==
  /\ \A limit \in MappedSettings(profile, settings) :
       LET range == SettingRanges[Family(profile.adapter)][limit]
       IN  settings.limits[limit] \in range[1]..range[2]
  /\ LayoutsCount(profile, settings) => LayoutsFit(profile, settings.layouts)

EvidenceLayouts(layouts) == {l \in Elements(layouts) : l.resource.catalog = "evidence"}
AppendOnly(layouts) == EvidenceLayouts(layouts) # {} /\ \A l \in EvidenceLayouts(layouts) : l.appendOnly

\* A configuration that forgets that a manifest may advertise less.
OverridingLimit(advertised, configured, hasManifest) == configured

\* Explicit evidence narrows a configured bound.
EffectiveLimit(advertised, configured, hasManifest) ==
  IF hasManifest THEN Lesser(advertised, configured) ELSE configured
ConfiguredLimits(limits, profile, settings, hasManifest) ==
  [limit \in DOMAIN limits |->
     IF limit \in MappedSettings(profile, settings)
       THEN EffectiveLimit(limits[limit], settings.limits[limit], hasManifest)
       ELSE limits[limit]]

ConfiguredGuarantees(guarantees, profile, settings, hasManifest) ==
  IF ~LayoutsCount(profile, settings) THEN guarantees
  ELSE IF ~AppendOnly(settings.layouts) THEN guarantees \ {"append-only"}
  ELSE IF hasManifest THEN guarantees
  ELSE guarantees \cup {"append-only"}

ConfiguredOperation(contract, operation, profile, settings, hasManifest) ==
  [versions |-> operation.versions,
   guarantees |-> IF contract = EvidenceAppend
                    THEN ConfiguredGuarantees(operation.guarantees, profile, settings, hasManifest)
                    ELSE operation.guarantees,
   limits |-> ConfiguredLimits(operation.limits, profile, settings, hasManifest)]
ConfiguredProfile(profile, settings, hasManifest) ==
  [profile EXCEPT !.operations =
     [contract \in DOMAIN profile.operations |->
        ConfiguredOperation(contract, profile.operations[contract], profile, settings, hasManifest)]]

-----------------------------------------------------------------------------
(* What a profile demands of a binding (validateStaticSelection,           *)
(* validateEngineVersion, validatePackagePins).                            *)
\* Texts that are no selection of a release; a package coordinate has to begin with a number too.
NotVersions == {"^1.0.0"}
NotCoordinates == NotVersions \cup {"latest"}
IsEngineVersion(profile, version) ==
  /\ IsText(version, 256) /\ version \notin NotVersions
  /\ profile.adapter = "s3" => version = "2006-03-01"
  /\ profile.adapter = "oci-distribution" => version = "1.1.1"
StaticSelection(profile, mode, topology, version) ==
  /\ IsEngineVersion(profile, version)
  /\ mode \in profile.modes
  /\ topology \in profile.topologies

\* Package names that differ in case or separator are one distribution.
Distribution(name) == IF name = "Meridian_Storage.Core" THEN "meridian-storage-core" ELSE name
PackagesPinned(profile, pins) ==
  /\ profile.pins \subseteq DOMAIN pins
  /\ Cardinality({Distribution(name) : name \in DOMAIN pins}) = Cardinality(DOMAIN pins)
  /\ \A name \in DOMAIN pins : IsText(name, 256) /\ IsText(pins[name], 256) /\ pins[name] \notin NotCoordinates

-----------------------------------------------------------------------------
(* validateCapabilities and validateLifecycleRequirements.                 *)
\* Both scopes declare minimum requirements.
RequiredLimit(r, o, limit) ==
  LET stated(scope) == IF limit \in DOMAIN scope THEN scope[limit] ELSE 0
  IN  Greater(stated(r.limits), stated(o.limits))
OperationProvided(r, o, profile) ==
  /\ o.contract \in DOMAIN profile.operations
  /\ LET provided == profile.operations[o.contract]
     IN  /\ o.version \in provided.versions
         /\ r.guarantees \cup o.guarantees \subseteq provided.guarantees
         /\ \A limit \in DOMAIN r.limits \cup DOMAIN o.limits :
              limit \in DOMAIN provided.limits /\ RequiredLimit(r, o, limit) <= provided.limits[limit]
CapabilitiesProvided(r, profile) ==
  /\ r.selector.catalog \in profile.catalogs
  /\ \A o \in Elements(r.operations) : OperationProvided(r, o, profile)

Within(required, recovery, provided) == required # None => recovery # None /\ provided <= required
LifecycleProvided(r, b) ==
  r.retention # None =>
    /\ r.retention.replay => \E o \in Elements(r.operations) : o.contract = Replay
    /\ Within(r.retention.rpo, b.recovery, IF b.recovery = None THEN 0 ELSE b.recovery.rpo)
    /\ Within(r.retention.rto, b.recovery, IF b.recovery = None THEN 0 ELSE b.recovery.rto)
=============================================================================
