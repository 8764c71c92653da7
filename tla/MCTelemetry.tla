-------------------------------- MODULE MCTelemetry --------------------------------
(***************************************************************************)
(* The telemetry path for one run of TLC: the Collector from a request to  *)
(* the rows, what a record becomes, the component that configures a        *)
(* Collector, and the migration that installs a plan.  "part" says whose   *)
(* behaviour this is; the variables of the others keep one value.          *)
(***************************************************************************)
EXTENDS MCTelemetryMigration, TelemetryRelay, TelemetryRecords, OtelCollector

VARIABLE part     \* "relay", "record", "collector" or "migration"

telemetryVars == <<part, relayVars, recordVars, collectorVars, migrationVars>>

-----------------------------------------------------------------------------
(* The relay: a client that batches anew after a refusal sends one record  *)
(* in two envelopes; a queue of one, one open call of each.                *)
Batches == [first |-> {"r1", "r2"}, second |-> {"r2"}, broken |-> {"bad"}]

-----------------------------------------------------------------------------
(* Records: a sound record of each signal and those that differ from it in *)
(* one place; MaxInt64 is 3 and MaxTime 5.                                 *)
Scalar(kind, token) == [kind |-> kind, token |-> token]
TextValue(token) == Scalar("string", token)
Whole == Scalar("int", "0")
Double == Scalar("double", "0")
NegativeZero == Scalar("double", "-0")
NaN == Scalar("NaN", "")
NoValue == Scalar("none", "")
Base64 == Scalar("bytes", "AA==")
Entry(key, value) == [key |-> key, value |-> value]
ListOf(values) == [kind |-> "list", items |-> [i \in DOMAIN values |-> Entry("", values[i])]]
MapOf(entries) == [kind |-> "map", items |-> entries]
LooksLikeBytes == MapOf(<<Entry("base64", TextValue("AA==")), Entry("type", TextValue("bytes"))>>)
TurnedMap == MapOf(<<Entry("type", TextValue("bytes")), Entry("base64", TextValue("AA=="))>>)
Many(n) == [i \in 1..n |-> Entry(ToString(i), NoValue)]
KeyTexts == <<"a", "b", "base64", "type">> \o [i \in 1..129 |-> ToString(i)]
PlaceOfKey == [text \in Elements(KeyTexts) |-> CHOOSE k \in DOMAIN KeyTexts : KeyTexts[k] = text]
TextOfDouble == [token \in {"0", "-0"} |-> token \o ".0"]
\* Of the times beyond int64, one is read as 0 and one wraps around.
OverflowOf == [n \in 4..5 |-> IF n = 4 THEN 0 ELSE -1]

\* Values that say the same, or look alike in some form, and those that are refused.
Alike ==
  {NoValue, TextValue("0"), Whole, Double, NegativeZero, Base64, LooksLikeBytes, TurnedMap,
   ListOf(<<Whole, Double>>), ListOf(<<Double, Whole>>), ListOf(<<>>), MapOf(<<>>)}
Refused ==
  {NaN, ListOf(<<TextValue("nested13")>>), MapOf(<<Entry("a", Whole), Entry("a", Double)>>), MapOf(<<Entry("control", Whole)>>)}
AttributeLists ==
  {<<>>, <<Entry("a", Whole), Entry("b", Double)>>, <<Entry("b", Double), Entry("a", Whole)>>,
   <<Entry("a", Whole), Entry("a", Double)>>, <<Entry("a", Double), Entry("a", Whole)>>,
   <<Entry("meridian.tenant", Whole)>>, Many(129)}
    \cup {<<Entry("a", value)>> : value \in Alike \cup Refused}

LogRecord ==
  [signal |-> "log", schemaUrl |-> "", resource |-> "service", attributes |-> <<>>,
   time |-> 2, observed |-> 3, severity |-> 9, text |-> "", trace |-> "t", span |-> "s", body |-> TextValue("hello")]
SpanRecord ==
  [signal |-> "span", schemaUrl |-> "", resource |-> "service", attributes |-> <<>>,
   name |-> "get", trace |-> "t", span |-> "s", parent |-> "", spanKind |-> 2, start |-> 2, end |-> 3, code |-> 0]
MetricRecord ==
  [signal |-> "metric", schemaUrl |-> "", resource |-> "service", attributes |-> <<>>,
   name |-> "bytes", unit |-> "1", type |-> "sum", temporality |-> 2, start |-> 0, time |-> 3,
   number |-> Whole]

Logs ==
  {[LogRecord EXCEPT !.time = t, !.observed = o] : t \in {0, 2, 4}, o \in {0, 3, 5, 6}}
    \cup {[LogRecord EXCEPT !.severity = n, !.text = t] : n \in {0, 1, 21}, t \in {"", "custom", "over32"}}
    \cup {[LogRecord EXCEPT !.trace = t, !.span = s] : t \in {"", "t", "UPPER"}, s \in {"", "s"}}
    \cup {[LogRecord EXCEPT !.body = v] : v \in {TextValue("")} \cup Alike \cup Refused}
    \cup {[LogRecord EXCEPT !.attributes = list] : list \in AttributeLists}
    \cup {[LogRecord EXCEPT !.schemaUrl = "other"]}
Spans ==
  {[SpanRecord EXCEPT !.start = s, !.end = e] : s \in {0, 2, 3, 4}, e \in {0, 2, 3, 5, 6}}
    \cup {[SpanRecord EXCEPT !.spanKind = n] : n \in 0..6} \cup {[SpanRecord EXCEPT !.code = n] : n \in 0..3}
    \cup {[SpanRecord EXCEPT !.trace = t, !.parent = p] : t \in {"t", "", "zeros", "short"}, p \in {"", "p", "UPPER"}}
    \cup {[SpanRecord EXCEPT !.name = n] : n \in {"", "over256"}}
Metrics ==
  {[MetricRecord EXCEPT !.unit = u] : u \in {"", "1", "over256"}}
    \cup {[MetricRecord EXCEPT !.type = t, !.number = n] :
            t \in {"gauge", "sum", "histogram", "exponentialHistogram", "summary"},
            n \in {NoValue, Whole, Double, NegativeZero, NaN}}
    \cup {[MetricRecord EXCEPT !.temporality = n] : n \in 0..3}
    \cup {[MetricRecord EXCEPT !.start = s, !.time = t] : s \in {0, 2, 4}, t \in {0, 3, 5}}

RecordEnvelopes ==
  {<<d>> : d \in Logs \cup Spans \cup Metrics}
    \cup {<<>>, <<LogRecord, SpanRecord>>, <<LogRecord, [LogRecord EXCEPT !.body = Base64]>>, <<SpanRecord, [SpanRecord EXCEPT !.end = 1]>>}

-----------------------------------------------------------------------------
(* Collectors: a sound one, and those with one thing wrong.                *)
Literal == [kind |-> "plain", name |-> ""]
Reference(name) == [kind |-> "reference", name |-> name]
Interpolation == [kind |-> "interpolated", name |-> "USER"]
Leaf(path, value) == [path |-> path, value |-> value]
Credential(provider, reference) == [provider |-> provider, reference |-> reference]
User == Credential("environment", "USER")
Pass == Credential("environment", "PASS")
VaultPass == Credential("vault", "PASS")

Leaves ==
  {Leaf(<<"receivers", "otlp", "endpoint">>, Literal), Leaf(<<"processors", "batch">>, Literal),
   Leaf(<<"exporters", "clickhouse", "username">>, Reference("USER")),
   Leaf(<<"exporters", "clickhouse", "password">>, Reference("PASS"))}
PipelineLeaf(signal) == Leaf(<<"service", "pipelines", signal, "receivers">>, Literal)
GoodConfig == Leaves \cup {PipelineLeaf("logs"), PipelineLeaf("traces")}
Configs ==
  {GoodConfig, GoodConfig \ {PipelineLeaf("logs")}, Leaves} \cup {GoodConfig \ {leaf} : leaf \in Leaves}
    \cup {GoodConfig \cup {leaf} : leaf \in
            {Leaf(<<"exporters", "other", "password">>, v) : v \in {Literal, Interpolation, Reference("OTHER")}}
              \cup {Leaf(<<"exporters", "other", "token">>, Reference("USER")),
                    Leaf(<<"exporters", "token", "name">>, Literal),
                    Leaf(<<"exporters", "other", "endpoint">>, Interpolation),
                    Leaf(<<"exporters", "other", "endpoint">>, Reference("OTHER")),
                    Leaf(<<"exporters", "other", "endpoint">>, Reference("USER"))}}

MutualTls == [mode |-> "mutual", server |-> "collector", ca |-> VaultPass, certificate |-> VaultPass]
SoundInput ==
  [mode |-> "sidecar", image |-> "image@sha256:a", config |-> GoodConfig, credentials |-> <<User, Pass>>, replicas |-> 1,
   grpc |-> 4317, http |-> 4318, protocol |-> "grpc", signals |-> <<"logs", "traces">>, tls |-> MutualTls,
   batching |-> "sha256:a", placement |-> [catalog |-> "evidence", namespace |-> "orders", name |-> "logs"],
   extensions |-> {}]
Gateway == [SoundInput EXCEPT !.mode = "gateway", !.replicas = 1000, !.protocol = "http/protobuf",
                         !.signals = <<"traces", "logs">>, !.credentials = <<Pass, User>>]
CollectorInputs ==
  {SoundInput, Gateway} \cup {[SoundInput EXCEPT !.config = config] : config \in Configs}
    \cup {[SoundInput EXCEPT !.mode = m, !.replicas = n] : m \in {"sidecar", "gateway"}, n \in {0, 1, 2, 1000, 1001}}
    \cup {[SoundInput EXCEPT !.grpc = n] : n \in {0, 1, 65535, 65536}}
    \cup {[SoundInput EXCEPT !.signals = s] : s \in {<<>>, <<"logs", "logs">>, <<"logs">>, <<"metrics">>}}
    \cup {[SoundInput EXCEPT !.credentials = refs] :
            refs \in {<<>>, <<User>>, <<User, VaultPass>>, <<User, Pass, Pass>>, <<User, Pass, VaultPass>>,
                      <<User, Pass, Credential("environment", "1ST")>>}}
    \cup {[SoundInput EXCEPT !.placement.catalog = "structured"], [SoundInput EXCEPT !.image = "image:tag"],
          [SoundInput EXCEPT !.batching = "md5:0"], [SoundInput EXCEPT !.extensions = {"token"}],
          [SoundInput EXCEPT !.tls.certificate = None]}
CollectorPrograms == {<<input>> : input \in CollectorInputs}
Workload(service, attributes, extensions, reserved) ==
  [service |-> service, attributes |-> attributes, extensions |-> extensions, reserved |-> reserved]
Good == Workload("orders", [region |-> "eu"], {"team"}, None)
AllEndpoints == {"https://engine", "https://user@engine", "relative"}
AllWorkloads ==
  {Good, Workload("over512", <<>>, {}, None), Workload("orders", [token |-> "t"], {}, None),
   Workload("orders", <<>>, {"password"}, None), Workload("orders", <<>>, {}, "mine")}

-----------------------------------------------------------------------------
NoRelay == RelayInit
NoRecord == RecordsInit
NoCollector ==
  /\ program = <<>> /\ next = 1 /\ thrown = FALSE
  /\ specs = <<>> /\ endpoint = <<>> /\ asked = {} /\ capability = <<>>
NoMigration ==
  /\ phase = <<>> /\ plan = <<>> /\ step = <<>> /\ queues = <<>>
  /\ tables = <<>> /\ installed = [server \in Elements(Servers) |-> {}]
  /\ written = {} /\ accepted = {}

Relaying == part = "relay" /\ UNCHANGED <<part, recordVars, collectorVars, migrationVars>>
Migrating == part = "migration" /\ UNCHANGED <<part, relayVars, recordVars, collectorVars>>
Init ==
  \/ part = "relay" /\ RelayInit /\ NoRecord /\ NoCollector /\ NoMigration
  \/ part = "record" /\ RecordsInit /\ NoRelay /\ NoCollector /\ NoMigration
  \/ part = "collector" /\ CollectorInit /\ NoRelay /\ NoRecord /\ NoMigration
  \/ part = "migration" /\ MigrationInit /\ NoRelay /\ NoRecord /\ NoCollector
Next ==
  \/ Relaying /\ RelayNext
  \/ part = "record" /\ RecordsNext /\ UNCHANGED <<part, relayVars, collectorVars, migrationVars>>
  \/ part = "collector" /\ CollectorNext /\ UNCHANGED <<part, relayVars, recordVars, migrationVars>>
  \/ Migrating /\ MigrationNext

\* The Collector's consumer goes on, an insert that is tried without end succeeds when the backend
\* stays, and what has failed is restarted; of a migration, some insert is answered.
Spec ==
  /\ Init /\ [][Next]_telemetryVars
  /\ WF_telemetryVars(Relaying /\ Take) /\ WF_telemetryVars(Relaying /\ Insert)
  /\ WF_telemetryVars(Relaying /\ Restart) /\ WF_telemetryVars(Relaying /\ RecoverBackend)
  /\ \A d \in Watched :
       WF_telemetryVars(Migrating /\ d \in Group /\ \E server \in Elements(Servers) : InsertHead(d, server, TRUE))

-----------------------------------------------------------------------------
(* Properties.                                                             *)
Pending(d) == d \in DOMAIN queues /\ queues[d] # <<>>
\* Every acknowledged record is written, the ones without an optional id or a body too.
EventuallyStored == \A d \in Watched : Pending(d) ~> ~Pending(d)
=============================================================================
