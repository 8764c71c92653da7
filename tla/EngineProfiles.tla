----------------------------- MODULE EngineProfiles -----------------------------
(***************************************************************************)
(* The bundled engine profiles of profiles/index.ts and the one-primary    *)
(* defaults: which catalogs an engine serves, what it guarantees and       *)
(* bounds per operation, and which modes, topologies, storage and TLS it   *)
(* demands.  Fingerprints and tested releases (history, never an allowlist *)
(* in the code) are left out.                                              *)
(*                                                                         *)
(* Object limits in bytes are in units of 64 KiB and have short names:     *)
(* objectBytes for object.max-object-bytes, and so on.                     *)
(***************************************************************************)
EXTENDS EngineCapabilities, TLC

Provides(version, guarantees, limits) ==
  [versions |-> {version}, guarantees |-> guarantees, limits |-> limits]
Plain(guarantees) == Provides("1.0.0", guarantees, <<>>)

PostgresCommon == {"bound-parameters", "scope-injected", "single-binding", "strong-consistency"}
PostgresMutation == PostgresCommon \cup {"conditional-mutation", "read-committed"}
PostgresLimits == [maxMembershipNames |-> 10000, maxPageSize |-> 500, maxRelationResources |-> 32,
                   maxTraversalDepth |-> 8, pageSize |-> 500]
PostgresPages == [maxPageSize |-> 500]
PostgresRead(contract) == contract :> Provides("1.0.0", PostgresCommon, PostgresLimits)
PostgresOperations ==
  PostgresRead("meridian.structured.aggregate") @@ PostgresRead("meridian.structured.get") @@
  PostgresRead("meridian.structured.query") @@ PostgresRead("meridian.structured.search") @@
  [c \in {"meridian.structured.delete", "meridian.structured.patch"} |->
     Provides("1.0.0", PostgresMutation, PostgresLimits)] @@
  "meridian.structured.put" :> Provides("2.0.0", PostgresMutation, PostgresLimits) @@
  "meridian.structured.create_resource" :>
     Provides("1.0.0", PostgresCommon \cup {"external-migration"}, PostgresLimits) @@
  "meridian.structured.publish_schema" :>
     Provides("1.0.0", PostgresCommon \cup {"durable-metadata", "immutable-schema-version", "no-runtime-ddl"},
              PostgresLimits) @@
  "meridian.structured.traverse" :>
     Provides("1.0.0", PostgresCommon \cup {"bounded-traversal", "relation-collections"}, PostgresLimits) @@
  EvidenceAppend :>
     Provides("1.0.0", {"append-only", "atomic-evidence", "bound-parameters", "read-committed", "scope-injected",
                        "scope-isolation", "transactional-with-structured"}, PostgresPages) @@
  "meridian.evidence.query" :>
     Provides("1.0.0", {"bound-parameters", "scope-injected", "scope-isolation", "strong-consistency"},
              PostgresPages) @@
  "meridian.transaction" :>
     Provides("1.0.0", {"atomic", "no-dirty-reads", "read-committed"}, [maxOperations |-> 10000])

TiB5 == 83886080     \* 5 TiB in units of 64 KiB
ObjectList == "meridian.object.list" :> Provides("1.0.0", {"object.bounded-prefix-list"}, [listPageSize |-> 1000])
ObjectPut(verification, partBytes) ==
  "meridian.object.put" :>
    Provides("1.0.0", {"object.conditional-create", "object.digest-sha256", "object.immutability-intent",
                       "object.metadata-after-commit", "object.multipart", "object.retention-intent",
                       "object.streaming"} \cup verification,
             [partBytes |-> partBytes, multipartParts |-> 10000, objectBytes |-> TiB5, userMetadata |-> 128])
ObjectReadRange(rangeBytes) ==
  "meridian.object.read_range" :>
    Provides("1.0.0", {"object.digest-verification", "object.range-read"}, [rangeBytes |-> rangeBytes])
ObjectGet == {"object.digest-verification", "object.streaming"}
S3Operations ==
  "meridian.object.delete" :> Plain({"object.exact-version-delete"}) @@
  "meridian.object.get" :> Plain(ObjectGet) @@
  ObjectList @@ ObjectPut({"object.digest-verification"}, 81920) @@ ObjectReadRange(1024) @@
  "meridian.object.stat" :> Plain({}) @@
  "meridian.object.create_resource" :> Plain({}) @@ "meridian.object.publish_schema" :> Plain({})
OciOperations ==
  "meridian.object.delete" :> Plain({"object.exact-version-delete", "object.retention-intent"}) @@
  "meridian.object.get" :> Provides("1.0.0", ObjectGet, [objectBytes |-> TiB5]) @@
  ObjectList @@ ObjectPut({}, 64) @@ ObjectReadRange(4096) @@
  "meridian.object.stat" :> Plain({"object.digest-verification"})

\* A default retry window that no setting may spell out.
LongRetryLimits == [maxBatchBytes |-> 16777216, maxBatchRows |-> 10000, maxTimeRangeSeconds |-> 2678400,
                    pageSize |-> 500, retryWindowSeconds |-> 2678400]

ClickHouseLimits == [maxBatchBytes |-> 16777216, maxBatchRows |-> 10000, maxTimeRangeSeconds |-> 2678400,
                     pageSize |-> 500, retryWindowSeconds |-> 86400]
ClickHouseProvides(guarantees) == Provides("1.0.0", guarantees \cup {"scope-isolation"}, ClickHouseLimits)
ClickHouseOperations ==
  [c \in {EvidenceAppend, "meridian.structured.put"} |->
     ClickHouseProvides({"eventual-visibility", "retry-window-dedup"})] @@
  [c \in {"meridian.evidence.query", "meridian.structured.aggregate", "meridian.structured.query"} |->
     ClickHouseProvides({"bounded-time-range", "single-binding"})] @@
  "meridian.structured.get" :> ClickHouseProvides({"eventual-visibility", "single-binding"})

OpenSearchOperations ==
  "meridian.structured.search" :>
    Provides("1.0.0", {"eventual-consistency", "logical-record-references", "scope-isolation", "single-binding",
                       "stable-keyset"},
             [bulkActions |-> 1000, bulkBytes |-> 8388608, facetBuckets |-> 100, facets |-> 32,
              filterClauses |-> 128, highlightFragments |-> 5, highlights |-> 32, pageSize |-> 500,
              queryBytes |-> 16384])

ValkeyLimits == [batchSize |-> 128, keyBytes |-> 512, maximumTtlMs |-> 86400000, valueBytes |-> 4194304]
ValkeyProvides(guarantees) ==
  Provides("1.0.0", guarantees \cup {"disposable-cache", "scope-isolation"}, ValkeyLimits)
ValkeyOperations ==
  [c \in {"meridian.cache.put_if_absent", "meridian.cache.compare_and_set"} |->
     ValkeyProvides({"atomic-single-key", "ttl-bounded"})] @@
  "meridian.cache.delete" :> ValkeyProvides({}) @@
  "meridian.cache.get" :> ValkeyProvides({"miss-on-unavailable", "schema-validated", "ttl-bounded"}) @@
  "meridian.cache.invalidate" :> ValkeyProvides({"bounded-exact-keys"}) @@
  "meridian.cache.put" :> ValkeyProvides({"ttl-bounded"})

KafkaPublish == {"at-least-once", "idempotent-producer", "per-logical-partition-ordering", "schema-fingerprint"}
KafkaRange == {"finite-retained-range", "opaque-cursors", "retention-boundary-validation"}
RangeLimits == [maxRangePartitions |-> 128, maxRangeSize |-> 10000]
KafkaOperations ==
  "meridian.streaming.acknowledge" :> Plain({"at-least-once", "consumer-groups", "monotonic-safe-position"}) @@
  "meridian.streaming.create-resource" :> Plain({"streaming-resource-lifecycle"}) @@
  "meridian.streaming.group-position" :>
    Plain({"compare-and-set", "consumer-groups", "explicit-group-position", "opaque-cursors"}) @@
  "meridian.streaming.negative-acknowledge" :>
    Plain({"at-least-once", "consumer-groups", "dead-letter", "redelivery"}) @@
  "meridian.streaming.poll" :>
    Provides("1.0.0", {"at-least-once", "consumer-groups", "per-logical-partition-ordering"},
             [maxPollSize |-> 10000, maxWaitTimeoutMs |-> 300000]) @@
  "meridian.streaming.publish" :> Plain(KafkaPublish) @@
  "meridian.streaming.publish-batch" :> Provides("1.0.0", KafkaPublish, [maxBatchSize |-> 10000]) @@
  "meridian.streaming.publish-schema" :> Plain({"streaming-schema-publication"}) @@
  "meridian.streaming.read-range" :> Provides("1.0.0", KafkaRange, RangeLimits) @@
  Replay :> Provides("1.0.0", KafkaRange \cup {"explicit-replay"}, RangeLimits) @@
  "meridian.streaming.subscribe" :> Plain({"subscriptions"}) @@
  "meridian.streaming.transactional-consume-publish" :>
    Provides("1.0.0", {"atomic-consumed-offset", "atomic-publish", "committed-reads", "idempotent-producer",
                       "single-binding"}, [maxBatchSize |-> 10000]) @@
  "meridian.transaction" :> Plain({"atomic", "no-dirty-reads", "single-binding"})

-----------------------------------------------------------------------------
(* createProfile: the packages a binding has to pin follow from the        *)
(* adapter; both modes are allowed; the first topology is the default.     *)
Core == "meridian-storage-core"
Companions ==
  [clickhouse |-> {"meridian-storage-query", "meridian-storage-semantics"},
   opensearch |-> {"meridian-storage-query", "meridian-storage-semantics"},
   postgresql |-> {"meridian-storage-query", "meridian-storage-semantics"},
   valkey |-> {"meridian-storage-semantics"},
   s3 |-> {"meridian-storage-object-common"}, oci |-> {"meridian-storage-object-common"},
   kafka |-> {"meridian-storage-semantics", "meridian-storage-streaming"}]
Profile(id, adapter, package, catalogs, operations, topologies, storage, tls, version) ==
  id :> [id |-> id, adapter |-> adapter, contract |-> "1.0.0", catalogs |-> catalogs,
         operations |-> operations, topologies |-> Elements(topologies), topology |-> topologies[1],
         modes |-> {"managed", "external"}, storage |-> storage, tls |-> tls,
         pins |-> {Core, "meridian-storage-" \o package} \cup Companions[package], version |-> version]

Tables == {"structured", "evidence"}
Postgres(id, topology, tls) ==
  Profile(id, "postgresql", "postgresql", Tables, PostgresOperations, <<topology>>, "required", tls,
          "17-postgis-3.5")
Columns(id, topology) ==
  Profile(id, ClickHouse, "clickhouse", Tables, ClickHouseOperations, <<topology>>, "required", "server", "25.3")
Caches(id, topology) ==
  Profile(id, "org.meridian.storage.valkey", "valkey", {"cache"}, ValkeyOperations, <<topology>>, "disposable",
          "server", "8.1.9")
Objects(id, topologies, storage, tls) ==
  Profile(id, "s3", "s3", {"object"}, S3Operations, topologies, storage, tls, "2006-03-01")
Streams(id, topology, storage, tls) ==
  Profile(id, "meridian.kafka", "kafka", {"streaming"}, KafkaOperations, <<topology>>, storage, tls, "4.3.1")
EngineProfiles ==
  Postgres("postgresql-postgis-local-single-primary", "single-primary", "disabled") @@
  Postgres("postgresql-postgis-cluster", "cluster", "server") @@
  Profile("opensearch", "org.meridian.storage.opensearch", "opensearch", {"structured"}, OpenSearchOperations,
          <<"single-primary", "cluster">>, "optional", "server", "2.19.1") @@
  Columns("clickhouse-standalone", "single-primary") @@ Columns("clickhouse-replicated", "cluster") @@
  Caches("valkey-standalone", "single-primary") @@ Caches("valkey-sentinel", "cluster") @@
  Objects("aws-s3", <<"provider-managed">>, "provider-managed", "server") @@
  Objects("s3-compatible", <<"single-primary", "cluster">>, "required", "disabled") @@
  Profile("oci-distribution", "oci-distribution", "oci", {"object"}, OciOperations, <<"provider-managed">>,
          "provider-managed", "server", "1.1.1") @@
  Streams("apache-kafka", "cluster", "required", "server") @@
  Streams("apache-kafka-test", "test", "optional", "disabled")

\* onePrimaryDefaults, with the test broker where streaming is included.
OnePrimaryDefaults ==
  [structured |-> "postgresql-postgis-local-single-primary", object |-> "s3-compatible",
   cache |-> "valkey-standalone", evidence |-> "clickhouse-standalone"]
DefaultEngineProfiles(includeStreaming) ==
  OnePrimaryDefaults @@ IF includeStreaming THEN [streaming |-> "apache-kafka-test"] ELSE <<>>
=============================================================================
