-------------------------- MODULE MCDeploymentPlanner --------------------------
(***************************************************************************)
(* Instances of DeploymentPlanner for TLC, with the bundled profiles.      *)
(***************************************************************************)
EXTENDS DeploymentPlanner, EngineProfiles

NoLabels == <<>>
Ref(name) == [provider |-> "iam", reference |-> name]
Selector(catalog, namespace, name) == [catalog |-> catalog, namespace |-> namespace, name |-> name]
Operation(contract, version) == [contract |-> contract, version |-> version, guarantees |-> {}, limits |-> <<>>]

\* A requirement of one Schema and one operation.
Needs(selector, operation) ==
  [selector |-> selector, dataClass |-> "internal",
   schemas |-> <<[provider |-> "schemas", package |-> "orders", version |-> "1.0.0", pin |-> "sha256:orders",
                  alias |-> None]>>,
   operations |-> <<operation>>, guarantees |-> {}, limits |-> <<>>, labels |-> NoLabels, retention |-> None]

Disabled == [mode |-> "disabled", server |-> None, ca |-> None, certificate |-> None]
ServerTls == [mode |-> "server", server |-> "engine", ca |-> Ref("ca"), certificate |-> None]
NoSettings == [keys |-> {}, limits |-> <<>>, layouts |-> None]
Client == [minSize |-> 0, maxSize |-> 16, acquireTimeoutMs |-> 1000, idleTimeoutMs |-> 1000,
           operationTimeoutMs |-> 1000, maxResultBytes |-> 1000, iteratorLifetimeMs |-> 1000]
Connection ==
  [namespace |-> "orders", identity |-> Ref("runtime"), secret |-> Ref("db"), tls |-> ServerTls,
   endpoint |-> "https://engine", service |-> None, physical |-> None, settings |-> NoSettings,
   extensions |-> {}]
Recovery(rpo, rto) ==
  [method |-> "rebuild", owner |-> "platform", policy |-> "policy", rpo |-> rpo, rto |-> rto,
   validation |-> "sha256:recovery"]
Bound(id, profile) ==
  [id |-> id, profile |-> profile, capabilityPin |-> "sha256:manifest", manifest |-> None,
   connection |-> Connection, mode |-> "external", topology |-> EngineProfiles[profile].topology,
   version |-> EngineProfiles[profile].version, client |-> Client,
   packages |-> [name \in EngineProfiles[profile].pins |-> "1.0.0"], runtimePins |-> <<>>,
   acl |-> Ref("acl"), migration |-> [contract |-> "schema", version |-> "1", applied |-> "sha256:migration"],
   observability |-> [enabled |-> FALSE, labels |-> NoLabels, collector |-> None], recovery |-> None]

Rule(id, resources, catalog, labels, binding) ==
  [id |-> id, selector |-> [resources |-> resources, catalog |-> catalog, labels |-> labels], binding |-> binding]

Validation == [strict |-> TRUE, physical |-> FALSE, timeoutMs |-> 1000, cacheEntries |-> 10, attempts |-> 3,
               baseDelay |-> 100, maxDelay |-> 200, jitterPercent |-> 20]
Telemetry == [enabled |-> FALSE, service |-> None, suppressRecursion |-> TRUE, attributes |-> NoLabels,
              extensions |-> {}]
LiveOff == [enabled |-> FALSE, required |-> FALSE, provider |-> None]
Policies == [live |-> LiveOff, validation |-> Validation, telemetry |-> Telemetry]
Catalog(name) == [name |-> name, package |-> "catalog", contract |-> "1.0.0", pin |-> "sha256:catalog"]
Provider(id) == [id |-> id, package |-> "orders", contract |-> "1.0.0", pin |-> "sha256:bundle"]
Deployment(catalogs, resources, bindings, placements) ==
  [profile |-> "production", catalogs |-> catalogs, providers |-> <<Provider("schemas"), Provider("more")>>,
   resources |-> resources, bindings |-> bindings, placements |-> placements,
   live |-> LiveOff, validation |-> Validation, telemetry |-> Telemetry]

-----------------------------------------------------------------------------
(* Placement: three Resources, two engines, rules by name, catalog, label. *)
Read == Operation("meridian.structured.get", "1.0.0")
Records == Needs(Selector("structured", "orders", "records"), Read)
Items == Needs(Selector("structured", "orders", "items"), Read)
Audit == Needs(Selector("evidence", "orders", "audit"), Operation("meridian.evidence.query", "1.0.0"))
Labelled(r, tier) == [r EXCEPT !.labels = [tier |-> tier]]
TwoSchemas(r) ==
  [r EXCEPT !.schemas = <<[@[1] EXCEPT !.provider = "more"], @[1]>>]

Main == Bound("main", "postgresql-postgis-cluster")
Side == Bound("side", "clickhouse-standalone")
SideTls == [Side EXCEPT !.connection.namespace = "archive"]

ToMain == Rule("a", <<>>, "structured", NoLabels, "main")
ToSide == Rule("b", <<>>, "evidence", NoLabels, "side")
ItemsToSide == Rule("c", <<Items.selector>>, None, NoLabels, "side")
GoldToSide == Rule("gold", <<>>, None, [tier |-> "gold"], "side")
SilverToMain == Rule("silver", <<>>, None, [tier |-> "silver"], "main")
AllToMain == Rule("all", <<Records.selector, Items.selector, Audit.selector>>, None, NoLabels, "main")
Unknown == Rule("d", <<>>, "evidence", NoLabels, "nowhere")

Aliased(r) == [r EXCEPT !.schemas[1].pin = None, !.schemas[1].alias = "sha256:older"]

PlacementSpecifications ==
  LET plain == Deployment(<<Catalog("structured"), Catalog("evidence")>>, <<Records, Audit>>, <<Main, Side>>,
                          <<ToSide, ToMain>>)
  IN  {plain, [plain EXCEPT !.resources = <<Labelled(Records, "gold"), Audit>>,
                            !.placements = <<SilverToMain, GoldToSide, ToSide>>]}
PlacementResources ==
  {<<Records, Aliased(Items)>>, <<TwoSchemas(Records), Items, Audit>>, <<Items, Items>>,
   <<Labelled(Records, "gold"), Audit>>, <<Labelled(Records, "silver"), Audit>>, <<Labelled(Items, "gold")>>}
PlacementBindingLists == {<<Side, Main>>, <<Main, SideTls>>, <<Main>>, <<Main, Main>>}
PlacementRules ==
  {<<ToMain, ToSide, ItemsToSide>>, <<ToMain>>, <<GoldToSide, ToSide, ToMain>>,
   <<SilverToMain, GoldToSide, ToSide>>, <<SilverToMain, GoldToSide>>, <<AllToMain>>, <<AllToMain, ToSide>>,
   <<ToMain, Unknown>>, <<ToMain, ToMain, ToSide>>, <<ToMain, ToSide, GoldToSide>>}
PlacementPolicies ==
  {[Policies EXCEPT !.live = [enabled |-> TRUE, required |-> TRUE, provider |-> "more"]],
   [Policies EXCEPT !.validation.physical = TRUE]}

-----------------------------------------------------------------------------
(* Capabilities: one engine for Evidence with settings, layouts and        *)
(* manifests, and the deployments of the one-primary defaults.             *)
EvidenceWrite(guarantees, limits) ==
  [Operation(EvidenceAppend, "1.0.0") EXCEPT !.guarantees = guarantees, !.limits = limits]
Rows(n) == [maxBatchRows |-> n]
Appends(guarantees, limits, rows) ==
  [Needs(Selector("evidence", "orders", "audit"), EvidenceWrite(guarantees, rows)) EXCEPT !.limits = limits]
Recovers(rpo, rto, replay) ==
  [Audit EXCEPT !.retention = [rpo |-> rpo, rto |-> rto, replay |-> replay]]

Layout(catalog, topology, appendOnly) ==
  [topology |-> topology, resource |-> Selector(catalog, "orders", "audit"), appendOnly |-> appendOnly]
AppendLayout == Layout("evidence", "clickhouse-standalone", TRUE)
Keeps == <<AppendLayout>>
Rewrites == <<[AppendLayout EXCEPT !.resource.name = "items"], Layout("evidence", "clickhouse-standalone", FALSE)>>
LayoutChoices ==
  {None, Keeps, Rewrites, <<>>, <<AppendLayout, AppendLayout>>,
   <<Layout("evidence", "clickhouse-replicated", TRUE)>>, <<Layout("structured", "clickhouse-standalone", TRUE)>>}
LimitChoices == {<<>>, Rows(100), Rows(20000), Rows(BadSetting), Rows(1000001), [objectBytes |-> 0]}

Manifest(guarantees, rows) ==
  LET capability(contract, g) ==
        [contract |-> contract, versions |-> {"1.0.0"}, guarantees |-> g, limits |-> Rows(rows)]
  IN  [pin |-> "sha256:manifest", keys |-> {}, engineProfile |-> "clickhouse-standalone", engineVersion |-> "25.3",
       adapter |-> ClickHouse, contract |-> "1.0.0", supported |-> {"clickhouse-standalone"},
       capabilities |-> <<capability(EvidenceAppend, guarantees), capability("meridian.evidence.query", {}),
                          capability("meridian.structured.put", {})>>,
       available |-> {EvidenceAppend, "meridian.evidence.query"}]
Manifests ==
  {None} \cup {Manifest(g, rows) : g \in {{}, {"append-only"}}, rows \in {1000, 20000}}
Misfits ==
  LET m == Manifest({"append-only"}, 1000)
  IN  {[m EXCEPT !.pin = "sha256:other"], [m EXCEPT !.keys = {"token"}], [m EXCEPT !.engineVersion = "24.8"],
       [m EXCEPT !.engineProfile = "clickhouse-replicated"], [m EXCEPT !.adapter = "s3"],
       [m EXCEPT !.contract = "2.0.0"], [m EXCEPT !.supported = {}], [m EXCEPT !.available = {Replay}],
       [m EXCEPT !.capabilities = <<@[1], @[1]>>],
       [m EXCEPT !.available = {}], [m EXCEPT !.capabilities[1].limits = Rows(-1)]}
Settings(limits, layouts) == [keys |-> {}, limits |-> limits, layouts |-> layouts]
Engine(manifest, limits, layouts) ==
  [Side EXCEPT !.manifest = manifest, !.connection.settings = Settings(limits, layouts)]
CapabilityBindings ==
  {<<Engine(m, l, k)>> : m \in Manifests, l \in LimitChoices, k \in {None, Rewrites}}
    \cup {<<Engine(m, <<>>, k)>> : m \in Manifests, k \in LayoutChoices}
    \cup {<<Engine(m, <<>>, None)>> : m \in Misfits}
    \cup {<<[Side EXCEPT !.recovery = Recovery(60, 600)]>>,
          <<Bound("side", "postgresql-postgis-cluster")>>}
CapabilityResources ==
  {<<Appends(g, l, r)>> : g \in {{}, {"append-only"}}, l \in {<<>>, Rows(100), Rows(10000)},
                          r \in {<<>>, Rows(1000), [listPageSize |-> 1]}}
    \cup {<<Recovers(60, None, FALSE)>>, <<Recovers(59, 600, FALSE)>>, <<Recovers(None, 600, FALSE)>>,
          <<Recovers(None, None, TRUE)>>,
          <<[Audit EXCEPT !.guarantees = {"bounded-time-range"}, !.operations[1].version = "2.0.0"]>>,
          <<[Audit EXCEPT !.operations[1].contract = "meridian.structured.get"]>>}
CapabilityDeployment == Deployment(<<Catalog("evidence")>>, <<Audit>>, <<Side>>, <<ToSide>>)

\* The first operation of each catalog, and its default engine.
FirstOperation ==
  [structured |-> Operation("meridian.structured.put", "2.0.0"), object |-> Operation("meridian.object.get", "1.0.0"),
   cache |-> Operation("meridian.cache.put", "1.0.0"), evidence |-> EvidenceWrite({}, <<>>),
   streaming |-> Operation("meridian.streaming.publish", "1.0.0")]
DefaultBinding(catalog) ==
  LET engine == Bound(catalog, DefaultEngineProfiles(TRUE)[catalog])
  IN  IF Profiles[engine.profile].tls = "server" THEN engine ELSE [engine EXCEPT !.connection.tls = Disabled]
DefaultDeployment(catalogs) ==
  Deployment([i \in DOMAIN catalogs |-> Catalog(catalogs[i])],
             [i \in DOMAIN catalogs |-> Needs(Selector(catalogs[i], "orders", "items"), FirstOperation[catalogs[i]])],
             [i \in DOMAIN catalogs |-> DefaultBinding(catalogs[i])],
             <<Rule("a", <<>>, catalogs[1], NoLabels, catalogs[1])>>)
DefaultDeployments == {DefaultDeployment(<<"structured", "object", "cache", "evidence", "streaming">>)}

\* Every bundled profile in one deployment.
EveryEngine ==
  LET ids == <<"postgresql-postgis-local-single-primary", "postgresql-postgis-cluster", "opensearch",
               "clickhouse-standalone", "clickhouse-replicated", "valkey-standalone", "valkey-sentinel", "aws-s3",
               "s3-compatible", "oci-distribution", "apache-kafka", "apache-kafka-test">>
  IN  Deployment(<<Catalog("structured")>>, <<Items>>, [i \in 1..12 |-> Bound(ids[i], ids[i])],
                 <<Rule("a", <<>>, "structured", NoLabels, ids[1])>>)

\* The one-primary defaults serve every catalog: with the rules of catalogPlacementRules that put
\* each catalog on its default engine, the planner accepts one Resource of each (profiles/index.ts).
DefaultsPlan ==
  (/\ author = "defaults" /\ spec.resources \in {s.resources : s \in DefaultDeployments}
   /\ \E h \in Hosts : spec.placements = CatalogPlacementRules([c \in CatalogNames |-> c], h)) => verdict # "rejected"

-----------------------------------------------------------------------------
(* Inputs: a deployment with every optional part, and one part of it at a  *)
(* time at or past a bound.                                                *)
Recovering == [Audit EXCEPT !.retention = [rpo |-> 60, rto |-> None, replay |-> FALSE]]
Mutual == [mode |-> "mutual", server |-> "engine", ca |-> Ref("ca"), certificate |-> Ref("client")]
FullEngine ==
  [Side EXCEPT !.manifest = Manifest({"append-only"}, 1000), !.recovery = Recovery(60, 600),
               !.observability.collector = "sha256:collector", !.connection.tls = Mutual,
               !.runtimePins = [python |-> "3.12"]]
FullDeployment ==
  Deployment(<<Catalog("evidence")>>, <<Recovering>>, <<FullEngine>>, <<ToSide>>)
Odd == DOMAIN OddTexts

OddTops ==
  {[FullDeployment EXCEPT !.profile = x] : x \in Odd}
    \cup {[FullDeployment EXCEPT !.catalogs[1] = c] :
            c \in [name : {"evidence", "tables"}, package : Odd, contract : {"1.0.0"}, pin : {"sha256:catalog"}]
                 \cup [name : {"evidence"}, package : {"catalog"}, contract : Odd, pin : {"sha256:catalog", "md5:0"}]}
    \cup {[FullDeployment EXCEPT !.providers[1] = p] :
            p \in [id : {"schemas", "ends-"}, package : {"over64", "orders"}, contract : Odd,
                  pin : {"sha256:bundle"}]}
    \cup {[FullDeployment EXCEPT !.catalogs = <<>>], [FullDeployment EXCEPT !.resources = <<>>],
          [FullDeployment EXCEPT !.bindings = <<>>], [FullDeployment EXCEPT !.placements = <<>>],
          [FullDeployment EXCEPT !.providers = <<>>]}
OddResources ==
  {<<[Audit EXCEPT !.dataClass = x]>> : x \in Odd}
    \cup {<<[Audit EXCEPT !.schemas[1] = s]>> :
            s \in [provider : {"schemas", "other"}, package : {"orders"}, version : {"1.0.0", "over64"},
                  pin : {None, "sha256:orders"}, alias : {None, "sha256:orders", "sha256:other"}]}
    \cup {<<[Audit EXCEPT !.operations[1].limits = [empty |-> 1]]>>,
          <<[Audit EXCEPT !.labels = [tier |-> "over512"]]>>, <<[Audit EXCEPT !.selector.name = "9lives"]>>}
OddConnections ==
  {[Connection EXCEPT !.tls = t] :
     t \in [mode : {"disabled", "server", "mutual"}, server : {None, "engine", "over512"}, ca : {None, Ref("ca")},
           certificate : {None, Ref("client"), Ref("over2048")}]}
    \cup {[Connection EXCEPT !.endpoint = e, !.service = s] :
            e \in {None, "relative", "https://engine"}, s \in {None, "engine", "pulumi://stack"}}
    \cup {[Connection EXCEPT !.physical = "md5:0"], [Connection EXCEPT !.extensions = {"package-lock"}],
          [Connection EXCEPT !.extensions = {"password"}], [Connection EXCEPT !.settings.keys = {"token"}],
          [Connection EXCEPT !.namespace = "control"], [Connection EXCEPT !.secret = Ref("empty")]}
OddBindings ==
  {<<[FullEngine EXCEPT !.connection = c]>> : c \in OddConnections}
    \cup {<<[FullEngine EXCEPT !.client[key] = n]>> : key \in DOMAIN ClientRanges, n \in {0, 10001}}
    \cup {<<[FullEngine EXCEPT !.recovery = r]>> : r \in {None, Recovery(61, 0), Recovery(60, MaxRecoverySeconds + 1)}}
    \cup {<<[FullEngine EXCEPT !.version = v, !.manifest = None]>> : v \in Odd \cup {"^1.0.0", "latest", "99"}}
    \cup {<<[FullEngine EXCEPT !.packages = p]>> :
            p \in {<<>>, FullEngine.packages @@ "Meridian_Storage.Core" :> "1.0.0",
                  [FullEngine.packages EXCEPT ![Core] = "^1.0.0"], FullEngine.packages @@ "other" :> "2.0.0"}}
    \cup {<<[FullEngine EXCEPT !.runtimePins = [python |-> x]]>> : x \in Odd}
    \cup {<<[FullEngine EXCEPT !.topology = "cluster"]>>, <<[FullEngine EXCEPT !.mode = "embedded"]>>}
OddValidations ==
  [strict : BOOLEAN, physical : BOOLEAN, timeoutMs : {1000}, cacheEntries : {10}, attempts : {1, 20, 21},
   baseDelay : {0, 1, 120000, 120001}, maxDelay : {0, 1, 120001, 1200000, 1200001}, jitterPercent : {20}]
OddTelemetry ==
  [enabled : BOOLEAN, service : {None, "orders", "over512"}, suppressRecursion : BOOLEAN,
   attributes : {<<>>, [token |-> "t"], [team |-> "over512"]}, extensions : {{}, {"password"}}]
OddPolicies ==
  {[Policies EXCEPT !.validation = v] : v \in OddValidations}
    \cup {[Policies EXCEPT !.telemetry = t] : t \in OddTelemetry}
    \cup {[Policies EXCEPT !.live = l] :
            l \in [enabled : BOOLEAN, required : BOOLEAN, provider : {None, "schemas", "other"}]}

-----------------------------------------------------------------------------
(* The authors, and one with two engines named t and z for two hosts.      *)
Author(starts, resources, bindings, placements, policies, limit) ==
  [starts |-> starts, resources |-> resources, bindings |-> bindings, placements |-> placements,
   policies |-> policies, edits |-> limit]
AuthorsOf ==
  [name \in {"placement", "capability", "defaults", "tops", "parts"} |->
     CASE name = "placement" -> Author(PlacementSpecifications, PlacementResources, PlacementBindingLists,
                                       PlacementRules, PlacementPolicies, 2)
       [] name = "capability" -> Author({[CapabilityDeployment EXCEPT !.resources = list] :
                                           list \in CapabilityResources}, {}, CapabilityBindings, {}, {}, 1)
       [] name = "defaults" -> Author(DefaultDeployments \cup {EveryEngine}, {}, {}, {}, {}, 1)
       [] name = "tops" -> Author(OddTops, {}, {}, {}, {}, 0)
       [] name = "parts" -> Author({FullDeployment}, OddResources, OddBindings, {}, OddPolicies, 1)]
NamedEngines ==
  Deployment(<<Catalog("structured")>>, <<Items>>,
             <<Bound("t", "clickhouse-standalone"), Bound("z", "clickhouse-standalone")>>,
             <<Rule("a", <<>>, "structured", NoLabels, "t")>>)
Comparing == [comparing |-> Author({NamedEngines}, {}, {}, {}, {}, 0)]

\* The texts that are sorted, in the order of the host.
Texts ==
  <<"a", "all", "apache-kafka", "apache-kafka-test", "aws-s3", "b", "c", "cache", "cache:orders.items",
    "clickhouse-replicated", "clickhouse-standalone", "d", "evidence", "evidence:orders.audit",
    "evidence:orders.items", "gold", "main", "more", "object", "object:orders.items",
    "oci-distribution", "opensearch", "postgresql-postgis-cluster",
    "postgresql-postgis-local-single-primary", "primary-cache", "primary-evidence", "primary-object",
    "primary-streaming", "primary-structured", "primary-tables", "s3-compatible", "schemas", "side", "silver",
    "streaming", "streaming:orders.items", "structured", "structured:orders.a.b",
    "structured:orders.items", "structured:orders.records", "t", "tables", "valkey-sentinel",
    "valkey-standalone", "z">>
HomeOrder == [t \in Elements(Texts) |-> CHOOSE i \in DOMAIN Texts : Texts[i] = t]
\* The order of Estonian, where z comes before t.
AbroadOrder == [HomeOrder EXCEPT !["t"] = HomeOrder["z"], !["z"] = HomeOrder["t"]]
OneHost == [home |-> HomeOrder]
TwoHosts == [home |-> HomeOrder, abroad |-> AbroadOrder]
=============================================================================
