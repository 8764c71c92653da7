--------------------------- MODULE MCTelemetryMigration ---------------------------
(***************************************************************************)
(* Instances of TelemetryMigration for TLC: pairs of deployments that      *)
(* share a mapping, a table, or only the servers, and single ones with one *)
(* thing wrong in the input or in a layout.                                *)
(***************************************************************************)
EXTENDS TelemetryMigration, TLC

Texts ==
  <<"attributes", "body", "dimensions", "endTime", "environment1ST", "environmentPASS", "environmentRELAY", "environmentUSER",
    "eventTime", "events", "evidenceId", "exemplars", "extensions", "extra", "flags", "formatVersion",
    "ingestionIdentity", "instrumentationScope", "kind", "links", "logs", "metricType", "metrics", "monotonic",
    "name", "observedTime", "otelResource", "parentSpanId", "profile", "provenance", "scope", "severity",
    "sourceProtocolVersion", "spanId", "spanKind", "startTime", "status", "temporality", "tenant", "traceId",
    "traces", "unit", "value", "vaultPASS">>
PlaceOf == [text \in Elements(Texts) |-> CHOOSE k \in DOMAIN Texts : Texts[k] = text]

ColumnFor(profile, field) ==
  LET nullable == field \in NullableFields[profile]
      kind == FieldKind(profile, field)
  IN  [logical |-> field, physical |-> "c_" \o field, kind |-> kind, nullable |-> nullable, many |-> FALSE,
       type |-> IF nullable THEN <<"Nullable", PhysicalType[kind]>> ELSE <<PhysicalType[kind]>>]
ColumnsFor(profile) ==
  LET names == SelectSeq(Texts, LAMBDA text : text \in FieldNames(profile))
  IN  [k \in DOMAIN names |-> ColumnFor(profile, names[k])]
Signed(l) == [l EXCEPT !.fingerprint = Unsigned(l)]
LayoutFor(profile, table) ==
  Signed([resource |-> [catalog |-> "evidence", namespace |-> "otel", name |-> profile], table |-> table,
          profile |-> profile, version |-> "1", resourcePin |-> "sha256:r", schemaPin |-> "sha256:s",
          columns |-> ColumnsFor(profile), timestamp |-> "observedTime", identity |-> <<"evidenceId">>,
          dimensions |-> <<"kind">>, measurements |-> <<>>, retention |-> None, partition |-> "day",
          topology |-> "clickhouse-standalone", final |-> TRUE, administrative |-> <<>>, indexes |-> <<>>,
          unknown |-> {}, appendOnly |-> None, fingerprint |-> None])
LayoutsFor(suffix) == [p \in Profiles |-> LayoutFor(p, p \o suffix)]

\* The smallest batch that an envelope of the largest size fits in, with names and values of one byte.
Secret == [provider |-> "vault", reference |-> "ca"]
Base ==
  [mode |-> "gateway", image |-> "image@sha256:a", replicas |-> 1, lambda |-> None, database |-> "telemetry",
   binding |-> "telemetry", layouts |-> LayoutsFor(""), tenant |-> "north", scope |-> [region |-> "eu"],
   identity |-> "collector", tls |-> [mode |-> "mutual", server |-> "collector", ca |-> Secret, certificate |-> Secret],
   paths |-> {"/tls/key", "/queue"}, backend |-> "https://engine", variables |-> <<"USER", "PASS", "RELAY">>,
   queueRequests |-> 100, maxEnvelopeBytes |-> 1048576, maxBatchBytes |-> 16785426, maxBatchRows |-> 1,
   insertQuorum |-> 1]

\* The span and log layouts with one column changed.
WithColumn(profile, field, new) ==
  LET l == Base.layouts[profile]
      place == CHOOSE k \in DOMAIN l.columns : l.columns[k].logical = field
  IN  [Base EXCEPT !.layouts[profile] = Signed([l EXCEPT !.columns[place] = new])]
Strict(field) == [ColumnFor("log", field) EXCEPT !.nullable = FALSE, !.type = <<"String">>]
\* The second has the mapping of the first; the last has its tables, with another column.
Sound ==
  <<Base, [Base EXCEPT !.replicas = 2, !.queueRequests = 10000], [Base EXCEPT !.tenant = "south", !.scope = [region |-> "us"]],
    [Base EXCEPT !.layouts = LayoutsFor("2")],
    WithColumn("span", "name", [ColumnFor("span", "name") EXCEPT !.physical = "title"])>>

WithLog(l) == [Base EXCEPT !.layouts["log"] = Signed(l)]
Log == Base.layouts["log"]
WrongInputs ==
  <<[Base EXCEPT !.database = "a-b"], [Base EXCEPT !.tenant = "over256"], [Base EXCEPT !.tls.mode = "server"],
   [Base EXCEPT !.tls.server = "over256"], [Base EXCEPT !.lambda = "always"], [Base EXCEPT !.paths = {"relative"}],
   [Base EXCEPT !.scope = <<>>], [Base EXCEPT !.scope = [region |-> "over512"]],
   [Base EXCEPT !.backend = "http://engine"], [Base EXCEPT !.variables = <<"USER", "PASS", "USER">>],
   [Base EXCEPT !.variables = <<"USER", "1ST", "RELAY">>], [Base EXCEPT !.queueRequests = 10001],
   [Base EXCEPT !.maxEnvelopeBytes = 0], [Base EXCEPT !.maxBatchRows = 0], [Base EXCEPT !.insertQuorum = 65],
   [Base EXCEPT !.maxBatchBytes = 16785425], [Base EXCEPT !.image = "image:tag"],
    [Base EXCEPT !.mode = "sidecar", !.replicas = 2]>>
WrongLayouts ==
  <<WithColumn("log", "traceId", [ColumnFor("log", "traceId") EXCEPT !.type = <<"String">>]),
   WithColumn("log", "traceId", Strict("traceId")), WithColumn("log", "flags", [ColumnFor("log", "flags") EXCEPT !.many = TRUE]),
   WithColumn("log", "flags", [ColumnFor("log", "flags") EXCEPT !.type = <<"String">>]),
   WithColumn("log", "flags", [ColumnFor("log", "flags") EXCEPT !.physical = "c_kind"]),
   WithColumn("log", "flags", [ColumnFor("log", "flags") EXCEPT !.logical = "extra"]),
   [Base EXCEPT !.layouts["log"].version = "2"],
   [Base EXCEPT !.layouts["log"].table = "span"],
   WithLog([Log EXCEPT !.table = "span"]), WithLog([Log EXCEPT !.topology = "clickhouse-replicated"]),
   WithLog([Log EXCEPT !.timestamp = "eventTime"]), WithLog([Log EXCEPT !.identity = <<"evidenceId", "kind">>]),
   WithLog([Log EXCEPT !.dimensions = <<"observedTime">>]), WithLog([Log EXCEPT !.final = FALSE]),
   WithLog([Log EXCEPT !.appendOnly = FALSE]), WithLog([Log EXCEPT !.unknown = {"extra"}]),
   WithLog([Log EXCEPT !.profile = "span"]), WithLog([Log EXCEPT !.resource.catalog = "structured"]),
   WithLog([Log EXCEPT !.columns = Tail(@)]), WithLog([Log EXCEPT !.columns = <<@[2], @[1]>> \o SubSeq(@, 3, Len(@))]),
   WithLog([Log EXCEPT !.indexes = [byBody |-> <<"extra">>]]), WithLog([Log EXCEPT !.retention = 0]),
   WithLog([Log EXCEPT !.administrative = <<"logs", "body">>])>>
InputsOf == Sound \o WrongLayouts \o WrongInputs
TwoServers == <<"s1", "s2">>
GroupsOf == {{1, d} : d \in 2..Len(Sound)} \cup {{d} : d \in (Len(Sound) + 1)..Len(InputsOf)}

\* Two that share a mapping, and one whose table cannot hold the NULL that its layout speaks of.
Watched == {1, 2, Len(Sound) + 1}
=============================================================================
