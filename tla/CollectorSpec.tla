------------------------------ MODULE CollectorSpec ------------------------------
(***************************************************************************)
(* createOtelCollectorSpec and createTelemetryCapability                   *)
(* (constructs/otel.ts): what a Collector specification may hold, and the  *)
(* telemetry capability that a workload is given of it.                    *)
(*                                                                         *)
(* A Collector configuration is the set of its leaves [path, value]: the   *)
(* keys from the root, and a value that is plain, one complete environment *)
(* reference ("reference" with its name), or text with a substitution in   *)
(* it ("interpolated").  The fingerprint of a specification is the         *)
(* specification.                                                          *)
(***************************************************************************)
EXTENDS DeploymentInputs

CONSTANT Place    \* the place of a text in the order a list is sorted by

IsPinnedImage(image) == image \notin {"image:tag", "image@sha256:short"}
NotEnvironmentNames == {"1ST", "A-B", "empty"}
Ports == 1..65535

RefKey(ref) == ref.provider \o ref.reference
Environment(refs) == {ref.reference : ref \in {r \in Elements(refs) : r.provider = "environment"}}
CredentialsFit(refs) ==
  /\ \A ref \in Elements(refs) :
       /\ IsReference(ref)
       /\ ref.provider = "environment" => ref.reference \notin NotEnvironmentNames
  /\ DistinctBy(refs, LAMBDA ref : <<ref.provider, ref.reference>>)

Key(leaf) == leaf.path[Len(leaf.path)]
Above(leaf) == {leaf.path[i] : i \in 1..(Len(leaf.path) - 1)}
IsSensitive(key) == key \in SensitiveKeys
Declared(leaf, names) == leaf.value.kind = "reference" /\ leaf.value.name \in names

\* A password that may be any reference, declared or not.
AnySubstitutionFits(leaf, names) ==
  /\ ~\E key \in Above(leaf) : IsSensitive(key)
  /\ IsSensitive(Key(leaf)) => Key(leaf) = "password" /\ leaf.value.kind = "reference"
  /\ leaf.value.kind = "reference" => Key(leaf) = "password" \/ Declared(leaf, names)
  /\ leaf.value.kind # "interpolated"
\* validateCollectorSecretReferences, on one leaf.
SubstitutionFits(leaf, names) ==
  /\ ~\E key \in Above(leaf) : IsSensitive(key)
  /\ IsSensitive(Key(leaf)) => Key(leaf) = "password" /\ Declared(leaf, names)
  /\ leaf.value.kind = "reference" => Declared(leaf, names)
  /\ leaf.value.kind # "interpolated"

Reaches(config, path) == \E leaf \in config : Len(leaf.path) >= Len(path) /\ SubSeq(leaf.path, 1, Len(path)) = path
IsObjectAt(config, path) == \E leaf \in config : Len(leaf.path) > Len(path) /\ SubSeq(leaf.path, 1, Len(path)) = path
ConfigFits(config, signals) ==
  /\ \A section \in {"receivers", "processors", "exporters", "service"} : Reaches(config, <<section>>)
  /\ Reaches(config, <<"receivers", "otlp">>)
  /\ IsObjectAt(config, <<"service", "pipelines">>)
  /\ \A signal \in Elements(signals) : IsObjectAt(config, <<"service", "pipelines", signal>>)

CollectorFits(c) ==
  /\ IsPinnedImage(c.image)
  /\ c.mode = "sidecar" => c.replicas = 1
  /\ c.replicas \in 1..1000 /\ c.grpc \in Ports /\ c.http \in Ports
  /\ c.signals # <<>> /\ Distinct(c.signals)
  /\ IsFingerprint(c.batching) /\ IsTlsPolicy(c.tls)
  /\ IsSelector(c.placement) /\ c.placement.catalog = "evidence"
  /\ ~HoldsSecret(c.extensions)
  /\ CredentialsFit(c.credentials)
  /\ \A leaf \in c.config : SubstitutionFits(leaf, Environment(c.credentials))
  /\ ConfigFits(c.config, c.signals)

\* A stable sort.
SortedByPlace(seq, Text(_)) ==
  LET before(i, j) == \/ Place[Text(seq[i])] < Place[Text(seq[j])]
                      \/ Place[Text(seq[i])] = Place[Text(seq[j])] /\ i <= j
  IN  [k \in DOMAIN seq |-> seq[CHOOSE j \in DOMAIN seq : Cardinality({i \in DOMAIN seq : before(i, j)}) = k]]
CollectorSpecOf(c) ==
  [mode |-> c.mode, image |-> c.image, config |-> c.config, replicas |-> c.replicas, grpc |-> c.grpc, http |-> c.http,
   credentials |-> SortedByPlace(c.credentials, RefKey), protocol |-> c.protocol,
   signals |-> SortedByPlace(c.signals, LAMBDA s : s), tls |-> c.tls, batching |-> c.batching,
   placement |-> c.placement, extensions |-> c.extensions]

-----------------------------------------------------------------------------
(* The capability of one workload.  Of its extensions, the reserved one    *)
(* has a value that is read; the others are keys.                          *)
NotCollectorEndpoints == {"relative", "https://user@engine", "https://engine/#part", "empty"}

CapabilityFits(spec, endpoint, w) ==
  /\ endpoint \notin NotCollectorEndpoints /\ w.reserved = None
  /\ IsText(w.service, 512) /\ AreLabels(w.attributes)
  /\ ~HoldsSecret(DOMAIN w.attributes) /\ ~HoldsSecret(w.extensions)

Collector(spec, endpoint) ==
  [endpoint |-> endpoint, protocol |-> spec.protocol, signals |-> spec.signals, tls |-> spec.tls,
   batching |-> spec.batching, placement |-> spec.placement]
CapabilityOf(spec, endpoint, w) ==
  [enabled |-> TRUE, service |-> w.service, suppressRecursion |-> TRUE, attributes |-> w.attributes,
   extensions |-> w.extensions, collector |-> Collector(spec, endpoint)]
=============================================================================
