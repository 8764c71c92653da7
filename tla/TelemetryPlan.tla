------------------------------ MODULE TelemetryPlan ------------------------------
(***************************************************************************)
(* createClickHouseTelemetryPlan (exporters/clickhouse/index.ts): what it  *)
(* demands of its input and of the three public layouts                    *)
(* (clickhouse-layout.ts), and the migration and Collector it renders.     *)
(*                                                                         *)
(* A hash is what it is taken of: the fingerprint of a layout is the       *)
(* layout without its fingerprint, and the prefix of a migration's objects *)
(* is all that its SQL is made of.  The SQL of a view is the record of the *)
(* values in it.  The type of a column is the sequence of its wrappers and *)
(* its base type.                                                          *)
(***************************************************************************)
EXTENDS CollectorSpec

SetFolds == INSTANCE FiniteSetsExt

Profiles == {"log", "span", "metric"}

\* telemetryFields.
CommonFields ==
  [formatVersion |-> "string", profile |-> "string", kind |-> "string", evidenceId |-> "string",
   eventTime |-> "utcTimestamp", observedTime |-> "utcTimestamp", tenant |-> "string", scope |-> "json",
   otelResource |-> "json", instrumentationScope |-> "json", ingestionIdentity |-> "string",
   sourceProtocolVersion |-> "string", attributes |-> "json", provenance |-> "json", extensions |-> "json"]
SpecializedFields ==
  [log |-> [severity |-> "string", body |-> "json", flags |-> "int64", traceId |-> "string", spanId |-> "string"],
   span |-> [traceId |-> "string", spanId |-> "string", name |-> "string", spanKind |-> "string",
             startTime |-> "utcTimestamp", endTime |-> "utcTimestamp", status |-> "string",
             parentSpanId |-> "string", events |-> "json", links |-> "json"],
   metric |-> [name |-> "string", unit |-> "string", metricType |-> "string", temporality |-> "string",
               monotonic |-> "boolean", startTime |-> "utcTimestamp", endTime |-> "utcTimestamp",
               value |-> "json", dimensions |-> "json", flags |-> "int64", exemplars |-> "json"]]
FieldNames(profile) == DOMAIN CommonFields \cup DOMAIN SpecializedFields[profile]
FieldKind(profile, name) ==
  IF name \in DOMAIN SpecializedFields[profile] THEN SpecializedFields[profile][name] ELSE CommonFields[name]
NullableFields == [log |-> {"body", "traceId", "spanId"}, span |-> {"parentSpanId"}, metric |-> {}]
PhysicalType ==
  [string |-> "String", utcTimestamp |-> "DateTime64(9, 'UTC')", json |-> "String", int64 |-> "Int64", boolean |-> "Bool"]

-----------------------------------------------------------------------------
(* publicClickHouseLayout.                                                 *)
NotPhysicalNames == {"empty", "control", "over128", "9lives", "a-b"}
IsPhysicalName(text) == text \notin NotPhysicalNames
NotColumnTypes == {"UInt8", "Decimal(77, 0)", "Decimal(2, 3)"}
IsColumnType(type) ==
  /\ type[Len(type)] \notin NotColumnTypes
  /\ \A i \in 1..(Len(type) - 1) : type[i] \in {"Array", "Nullable"}
Names(columns) == [i \in DOMAIN columns |-> columns[i].logical]
InOrder(texts) == \A i, j \in DOMAIN texts : i < j => Place[texts[i]] < Place[texts[j]]
AreStrings(texts) == "empty" \notin Elements(texts) /\ Distinct(texts)

ColumnsFit(columns) ==
  /\ columns # <<>>
  /\ \A c \in Elements(columns) :
       /\ c.logical \notin {"empty", "_meridian_row"} /\ IsPhysicalName(c.physical)
       /\ IsColumnType(c.type)
  /\ DistinctBy(columns, LAMBDA c : c.physical)
  /\ InOrder(Names(columns))
RolesFit(l) ==
  LET roles == <<l.timestamp>> \o l.identity \o l.dimensions \o l.measurements
  IN  /\ l.identity # <<>> /\ Distinct(roles)
      /\ Elements(roles) \subseteq Elements(Names(l.columns))
Unsigned(l) == [l EXCEPT !.fingerprint = None]
IsLayout(l) ==
  /\ l.unknown = {} /\ l.appendOnly \in {None, TRUE}
  /\ IsSelector(l.resource) /\ l.resource.catalog \in {"evidence", "structured"}
  /\ l.appendOnly = TRUE => l.resource.catalog = "evidence"
  /\ IsPhysicalName(l.table)
  /\ l.profile \in Profiles \cup {"usage", "cost", "time-series", "analytical"}
  /\ l.topology \in {"clickhouse-standalone", "clickhouse-replicated"}
  /\ l.partition \in {"hour", "day", "month"} /\ Optional(l.retention, LAMBDA n : n > 0)
  /\ IsFingerprint(l.resourcePin) /\ IsFingerprint(l.schemaPin)
  /\ ColumnsFit(l.columns) /\ RolesFit(l)
  /\ AreStrings(l.administrative) /\ InOrder(l.administrative)
  /\ \A name \in DOMAIN l.indexes :
       /\ IsPhysicalName(name) /\ l.indexes[name] # <<>> /\ AreStrings(l.indexes[name])
       /\ Elements(l.indexes[name]) \subseteq Elements(Names(l.columns))
  /\ l.fingerprint = Unsigned(l)

-----------------------------------------------------------------------------
(* validateLayout: the layout of one telemetry profile.                    *)
\* A column that may be null as its field may, whatever wraps its type.
IsColumnOfKind(c, profile) ==
  /\ c.kind = FieldKind(profile, c.logical) /\ ~c.many
  /\ c.nullable = (c.logical \in NullableFields[profile])
  /\ c.type[Len(c.type)] = PhysicalType[c.kind]
IsColumnOf(c, profile) ==
  /\ c.kind = FieldKind(profile, c.logical) /\ ~c.many
  /\ c.nullable = (c.logical \in NullableFields[profile])
  /\ c.type = (IF c.nullable THEN <<"Nullable">> ELSE <<>>) \o <<PhysicalType[c.kind]>>
IsTelemetryLayout(l, profile) ==
  /\ IsLayout(l)
  /\ l.profile = profile /\ l.resource.catalog = "evidence" /\ l.final
  /\ l.timestamp = "observedTime" /\ l.identity = <<"evidenceId">>
  /\ Elements(Names(l.columns)) = FieldNames(profile)
  /\ Len(l.columns) = Cardinality(FieldNames(profile))
  /\ \A c \in Elements(l.columns) : IsColumnOf(c, profile)

-----------------------------------------------------------------------------
(* The input of a plan.                                                    *)
NotMountedPaths == {"relative", "/up/../dir", "empty"}
NotBackends == {"http://engine", "https://user@engine", "https://engine/?query", "https://engine/#part",
                "https://engine/path"}
Ranges ==
  [queueRequests |-> 1..10000, maxEnvelopeBytes |-> 1..1048576, maxBatchBytes |-> 1..2147483647,
   maxBatchRows |-> 1..1000000, insertQuorum |-> 1..64]
\* The length of {"name":"value",...}.
ScopeBytes(scope) == 1 + SetFolds!MapThenSumSet(LAMBDA name : 6 + Bytes(name) + Bytes(scope[name]), DOMAIN scope)
ExpandedBytes(i) == i.maxEnvelopeBytes * 16 + ScopeBytes(i.scope) * 2 + 8192
Layouts(i) == {i.layouts[profile] : profile \in Profiles}

InputFits(i) ==
  /\ IsPhysicalName(i.database)
  /\ IsText(i.binding, 256) /\ IsText(i.tenant, 256) /\ IsText(i.identity, 256)
  /\ i.tls.mode = "mutual" /\ i.tls.server # None /\ IsText(i.tls.server, 256)
  /\ i.lambda \in {None, "feature-gate", "available"}
  /\ i.paths \cap NotMountedPaths = {}
  /\ Cardinality(DOMAIN i.scope) \in 1..32
  /\ \A name \in DOMAIN i.scope : IsText(name, 128) /\ IsText(i.scope[name], 512)
  /\ i.backend \notin NotBackends
  /\ Distinct(i.variables) /\ Elements(i.variables) \cap NotEnvironmentNames = {}
  /\ \A key \in DOMAIN Ranges : i[key] \in Ranges[key]
  /\ ExpandedBytes(i) <= i.maxBatchBytes
LayoutsFit(i) ==
  /\ \A profile \in Profiles : IsTelemetryLayout(i.layouts[profile], profile)
  /\ Cardinality({l.topology : l \in Layouts(i)}) = 1
  /\ Cardinality({l.table : l \in Layouts(i)}) = Cardinality(Profiles)

-----------------------------------------------------------------------------
(* materializedView: what the last two of its five statements hold.        *)
ViewSql(i, profile) ==
  LET l == i.layouts[profile]
  IN  [database |-> i.database, table |-> l.table, columns |-> l.columns, resource |-> l.resource,
       version |-> l.version, schemaPin |-> l.schemaPin, binding |-> i.binding, tenant |-> i.tenant, scope |-> i.scope]
MapSql(i, profile) ==
  [profile |-> profile, tenant |-> i.tenant, scope |-> i.scope, identity |-> i.identity]

\* What the prefix hashes; without the caller's scope, and without the layouts.
MappingOfLayouts(i) ==
  <<i.database, [p \in Profiles |-> [ViewSql(i, p) EXCEPT !.tenant = None, !.scope = None]]>>
MappingOf(i) == <<i.database, [p \in Profiles |-> <<ViewSql(i, p), MapSql(i, p)>>]>>

\* canonicalSqlFunctions in their order, with the functions that each of them calls.
FunctionOrder ==
  <<"float", "quote", "object", "array", "protect_zero", "number", "emit", "close", "wire", "any_close",
    "any_emit", "decode_any", "any_12", "attributes">>
Callees(name) ==
  CASE name = "object" -> {"quote"}
    [] name = "close" -> {"object", "array"}
    [] name = "wire" -> {"emit", "close", "quote", "float"}
    [] name = "any_close" -> {"object", "array"}
    [] name = "decode_any" -> {"any_emit", "any_close", "quote", "float"}
    [] name \in {"any_12", "attributes"} -> {"decode_any"}
    [] name = "split" -> {"protect_zero"}
    [] name = "map" -> {"quote", "float", "number", "object", "array", "wire", "any_12", "attributes"}
    [] name = "view" -> {"quote", "object"}
    [] OTHER -> {}
Object(name, profile) == [name |-> name, profile |-> profile]
\* The tables a view reads and writes.
Tables(object) ==
  CASE object.name = "split" -> {Object("staging", None), Object("rows", object.profile)}
    [] object.name = "map" -> {Object("rows", object.profile), Object("fields", object.profile)}
    [] object.name = "view" -> {Object("fields", object.profile)}
    [] OTHER -> {}
Needs(object) == Tables(object) \cup {Object(name, None) : name \in Callees(object.name)}

Functions == [k \in DOMAIN FunctionOrder |-> Object(FunctionOrder[k], None)]
MaterializedView(profile) ==
  <<Object("rows", profile), Object("fields", profile), Object("split", profile), Object("map", profile),
    Object("view", profile)>>
Views == MaterializedView("log") \o MaterializedView("span") \o MaterializedView("metric")
Statements == Functions \o <<Object("staging", None)>> \o Views

RequiredLayouts(i) == Layouts(i)

-----------------------------------------------------------------------------
(* The Collector of a plan: the leaves of its configuration that are in    *)
(* its sections or refer to the environment.                               *)
PlainValue == [kind |-> "plain", name |-> ""]
EnvironmentValue(name) == [kind |-> "reference", name |-> name]
ConfigLeaf(path, value) == [path |-> path, value |-> value]
CollectorConfig(i) ==
  {ConfigLeaf(<<"extensions", "file_storage", "directory">>, PlainValue),
   ConfigLeaf(<<"receivers", "otlp", "protocols">>, PlainValue),
   ConfigLeaf(<<"receivers", "webhook_event", "required_header", "value">>, EnvironmentValue(i.variables[3])),
   ConfigLeaf(<<"processors", "transform/validate">>, PlainValue),
   ConfigLeaf(<<"exporters", "otlphttp/envelope", "headers", "X-Meridian-Relay">>, EnvironmentValue(i.variables[3])),
   ConfigLeaf(<<"exporters", "clickhouse", "username">>, EnvironmentValue(i.variables[1])),
   ConfigLeaf(<<"exporters", "clickhouse", "password">>, EnvironmentValue(i.variables[2]))}
  \cup {ConfigLeaf(<<"service", "pipelines", signal, "exporters">>, PlainValue) :
          signal \in {"logs", "traces", "metrics", "logs/envelope"}}
CollectorInput(i) ==
  [mode |-> i.mode, image |-> i.image, config |-> CollectorConfig(i), replicas |-> i.replicas,
   grpc |-> 4317, http |-> 4318,
   credentials |-> [k \in 1..3 |-> [provider |-> "environment", reference |-> i.variables[k]]],
   protocol |-> "http/protobuf", signals |-> <<"logs", "traces", "metrics">>, tls |-> i.tls,
   batching |-> "sha256:plan", placement |-> i.layouts["log"].resource,
   extensions |-> {"org.meridian.constructs/clickhouseTelemetry", "migrationFingerprint", "lambdaFunctions",
                   "resources"}]
PlanFits(i) == InputFits(i) /\ LayoutsFit(i) /\ CollectorFits(CollectorInput(i))
=============================================================================
