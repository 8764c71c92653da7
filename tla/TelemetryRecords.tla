----------------------------- MODULE TelemetryRecords -----------------------------
(***************************************************************************)
(* From an OTLP record to a row of its Resource: what envelopeValidation   *)
(* admits (exporters/clickhouse/validation.ts) and what the materialized   *)
(* views make of it (mapping.ts, sql.ts, materializedView).  The Collector *)
(* ingests envelopes one after the other; a client sends a record again in *)
(* another envelope, with its attributes in another order.                 *)
(*                                                                         *)
(* A time is a number and 0 is none; MaxInt64 and MaxTime stand for the    *)
(* largest number of an int64 and of 19 digits.  An AnyValue is a scalar   *)
(* [kind, token], or a list or map [kind, items] of scalars: a value that  *)
(* is nested deeper is canonicalized by the same steps again.  Attributes  *)
(* and items are sequences of [key, value], the items of a list without a  *)
(* key.  A text stands for itself, except the ones that name what is wrong *)
(* with them, and canonical JSON is its structure.  A hash is what it is   *)
(* taken of.                                                               *)
(***************************************************************************)
EXTENDS Integers, Sequences, FiniteSets, Functions

CONSTANTS
  RecordLists,     \* what an envelope may hold: sequences of records
  MaxIngests,
  MaxInt64, MaxTime,
  Overflowed,      \* what toInt64OrZero makes of a time beyond MaxInt64
  FloatText,       \* the text of a double, in the form of Python
  KeyPlace         \* place of each key in the order of arraySort

VARIABLES
  resourceRows,    \* rows of the three Resources
  ingested,        \* [record, row]: the records of admitted envelopes
  count

recordVars == <<resourceRows, ingested, count>>

BadKeys == {"", "over128", "control", "_meridian_row", "meridian.tenant", "meridian.scope.x"}
ScalarKinds == {"none", "string", "int", "double", "bytes", "NaN"}
IsScalar(v) ==
  /\ v = [kind |-> v.kind, token |-> v.token] /\ v.kind \in ScalarKinds
  /\ v.kind = "double" => v.token \in DOMAIN FloatText
IsEntries(list) ==
  /\ Len(list) \in Nat /\ list = [i \in 1..Len(list) |-> [key |-> list[i].key, value |-> list[i].value]]
  /\ \A i \in DOMAIN list : list[i].key \in DOMAIN KeyPlace \cup BadKeys
IsContainer(v) ==
  /\ v = [kind |-> v.kind, items |-> v.items] /\ v.kind \in {"list", "map"} /\ IsEntries(v.items)
  /\ \A i \in DOMAIN v.items : IsScalar(v.items[i].value) /\ (v.kind = "list" => v.items[i].key = "")
IsAnyValue(v) == IF v.kind \in {"list", "map"} THEN IsContainer(v) ELSE IsScalar(v)

\* The fields of a record that the views read, and ids in hexadecimal or empty.
WireFields ==
  LET common == {"signal", "schemaUrl", "resource", "attributes"}
  IN  [log |-> common \cup {"time", "observed", "severity", "text", "trace", "span", "body"},
       span |-> common \cup {"name", "trace", "span", "parent", "spanKind", "start", "end", "code"},
       metric |-> common \cup {"name", "unit", "type", "temporality", "start", "time", "number"}]
TimeFields == {"time", "observed", "start", "end"}
IsRecord(d) ==
  /\ d.signal \in {"log", "span", "metric"} /\ d = [f \in WireFields[d.signal] |-> d[f]]
  /\ IsEntries(d.attributes) /\ \A i \in DOMAIN d.attributes : IsAnyValue(d.attributes[i].value)
  /\ \A f \in TimeFields \cap DOMAIN d : d[f] \in Nat
  /\ \A f \in {"trace", "span", "parent"} \cap DOMAIN d : d[f] # "null"
  /\ d.signal = "log" => IsAnyValue(d.body)
  /\ d.signal = "metric" => IsScalar(d.number)

\* Doubles have a text each, and keys a place each; a time beyond int64 is read as 0 or as a
\* negative number, as it wraps around.
ASSUME RecordsAssumption ==
  /\ MaxIngests \in Nat /\ MaxInt64 \in Nat /\ MaxTime \in Nat /\ MaxInt64 < MaxTime
  /\ \A n \in (MaxInt64 + 1)..MaxTime : Overflowed[n] \in Int /\ Overflowed[n] <= 0
  /\ \A s, t \in DOMAIN FloatText : FloatText[s] = FloatText[t] => s = t
  /\ \A s, t \in DOMAIN KeyPlace : KeyPlace[s] \in Int /\ (KeyPlace[s] = KeyPlace[t] => s = t)
  /\ \A envelope \in RecordLists : \A d \in Range(envelope) : IsRecord(d)

-----------------------------------------------------------------------------
(* Validation, before the queue.                                           *)
MaxAttributes == 128
KeysDistinct(entries) == Cardinality({entries[i].key : i \in DOMAIN entries}) = Len(entries)
KeysFit(entries) == KeysDistinct(entries) /\ \A i \in DOMAIN entries : entries[i].key \notin BadKeys
\* Finite, and not nested beyond 12.
ScalarFits(v) == v.kind # "NaN" /\ v.token # "nested13"
AnyValueFits(v) ==
  IF v.kind \in {"list", "map"}
    THEN /\ v.kind = "map" => KeysFit(v.items)
         /\ \A i \in DOMAIN v.items : ScalarFits(v.items[i].value)
    ELSE ScalarFits(v)
AttributesFit(entries) ==
  /\ KeysFit(entries) /\ Len(entries) <= MaxAttributes
  /\ \A i \in DOMAIN entries : AnyValueFits(entries[i].value)

IsHexId(text) == text \notin {"", "zeros", "short", "UPPER"}
IsName(text) == text \notin {"", "over256"}

LogFits(d) ==
  /\ d.time # 0 \/ d.observed # 0
  /\ d.text # "over32" /\ d.trace \notin {"UPPER"} /\ d.span \notin {"UPPER"}
  /\ AnyValueFits(d.body)
\* Int() of a text beyond int64 is nil, and nil is less than nothing.
Ordered(start, end) == start <= MaxInt64 /\ end <= MaxInt64 => end >= start
\* A bound of span kinds that is one too high.
SpanFitsLoosely(d) ==
  /\ IsName(d.name) /\ IsHexId(d.trace) /\ IsHexId(d.span) /\ d.parent # "UPPER"
  /\ d.start # 0 /\ d.end # 0 /\ Ordered(d.start, d.end)
  /\ d.spanKind \in 0..6 /\ d.code \in 0..2
SpanFits(d) ==
  /\ IsName(d.name) /\ IsHexId(d.trace) /\ IsHexId(d.span) /\ d.parent # "UPPER"
  /\ d.start # 0 /\ d.end # 0 /\ Ordered(d.start, d.end)
  /\ d.spanKind \in 0..5 /\ d.code \in 0..2
MetricFits(d) ==
  /\ IsName(d.name) /\ d.unit # "over256"
  /\ d.type \in {"gauge", "sum", "histogram", "exponentialHistogram"}
  /\ d.time # 0
  /\ d.type \in {"gauge", "sum"} => d.number.kind \in {"int", "double"}
  /\ d.number.kind # "NaN"
  /\ d.temporality \in 0..2

RecordFits(d) ==
  /\ AttributesFit(d.attributes)
  /\ \A f \in TimeFields \cap DOMAIN d : d[f] <= MaxTime
  /\ CASE d.signal = "log" -> LogFits(d) [] d.signal = "span" -> SpanFits(d) [] OTHER -> MetricFits(d)
\* One root of one signal, and no list that is empty.
Admitted(envelope) ==
  /\ envelope # <<>> /\ Cardinality({d.signal : d \in Range(envelope)}) = 1
  /\ \A d \in Range(envelope) : RecordFits(d)

-----------------------------------------------------------------------------
(* Canonical JSON.                                                         *)
\* arraySort on the key: a stable sort.
KeySorted(entries) ==
  LET precedes(i, j) == \/ KeyPlace[entries[i].key] < KeyPlace[entries[j].key]
                        \/ KeyPlace[entries[i].key] = KeyPlace[entries[j].key] /\ i <= j
      rank(j) == Cardinality({i \in DOMAIN entries : precedes(i, j)})
  IN  [k \in DOMAIN entries |-> entries[CHOOSE j \in DOMAIN entries : rank(j) = k]]
\* protect_zero keeps the sign of a zero, which extraction would lose.
Float(token) == FloatText[token]
Entries(list, Text(_)) == [i \in DOMAIN list |-> [key |-> list[i].key, text |-> Text(list[i].value)]]

\* wire, for the source in an extension: the members of OTLP as they are, with their kinds; a list
\* of these names is sorted by key, if every element has one.
SortedNames == {"attributes", "filteredAttributes", "metadata", "values"}
\* A sort that leaves the maps within a value as they were sent.
CloseAttributes(name, entries) ==
  IF name = "attributes" /\ \A i \in DOMAIN entries : entries[i].key # "" THEN KeySorted(entries) ELSE entries
Close(name, entries) ==
  IF name \in SortedNames /\ \A i \in DOMAIN entries : entries[i].key # "" THEN KeySorted(entries) ELSE entries
WireScalar(v) == <<v.kind, IF v.kind = "double" THEN Float(v.token) ELSE v.token>>
WireValue(v) ==
  IF v.kind \in {"list", "map"} THEN <<v.kind, Close("values", Entries(v.items, WireScalar))>> ELSE WireScalar(v)
WireAttributes(entries) == Close("attributes", Entries(entries, WireValue))

\* decode_any, for the logical values: numbers are told apart by their text, bytes are an object,
\* a map is an object sorted by key.
DecodedScalar(v) ==
  CASE v.kind = "none" -> <<"null", "">>
    [] v.kind = "string" -> <<"string", v.token>>
    [] v.kind = "int" -> <<"number", v.token>>
    [] v.kind = "double" -> <<"number", Float(v.token)>>
    [] v.kind = "bytes" -> <<"object", <<[key |-> "base64", text |-> <<"string", v.token>>],
                                         [key |-> "type", text |-> <<"string", "bytes">>]>>>>
Decoded(v) ==
  CASE v.kind = "list" -> <<"array", Entries(v.items, DecodedScalar)>>
    [] v.kind = "map" -> <<"object", KeySorted(Entries(v.items, DecodedScalar))>>
    [] OTHER -> DecodedScalar(v)
DecodedAttributes(entries) == KeySorted(Entries(entries, Decoded))

-----------------------------------------------------------------------------
(* The row.                                                                *)
\* An array of ClickHouse starts at 1, and has an empty text where it ends.
NameAt(names, n) == IF n + 1 \in DOMAIN names THEN names[n + 1] ELSE ""
SpanKinds == <<"unspecified", "internal", "server", "client", "producer", "consumer">>
Statuses == <<"unset", "ok", "error">>
Temporalities == <<"unspecified", "delta", "cumulative">>
Severity(n, text) ==
  CASE n >= 21 -> "FATAL" [] n >= 17 -> "ERROR" [] n >= 13 -> "WARN" [] n >= 9 -> "INFO"
    [] n >= 5 -> "DEBUG" [] n >= 1 -> "TRACE" [] text = "" -> "UNSPECIFIED" [] OTHER -> text

\* toInt64OrZero of a time.
Nanos(time) == IF time <= MaxInt64 THEN time ELSE Overflowed[time]
Or(time, other) == IF Nanos(time) = 0 THEN Nanos(other) ELSE Nanos(time)
Times(d) ==
  CASE d.signal = "log" -> [event |-> Or(d.time, d.observed), observed |-> Or(d.observed, d.time)]
    [] d.signal = "span" -> [event |-> Nanos(d.start), observed |-> Nanos(d.end)]
    [] OTHER -> [event |-> Nanos(d.time), observed |-> Nanos(d.time)]

\* The source in an extension: the record by wire.
Source(d) ==
  [f \in DOMAIN d |->
    CASE f = "attributes" -> WireAttributes(d[f]) [] f = "body" -> WireValue(d[f]) [] f = "number" -> WireScalar(d[f])
      [] OTHER -> d[f]]
\* A source of logical values.
SourceDecoded(d) == [Source(d) EXCEPT !.attributes = DecodedAttributes(d.attributes)]
Extension(d) == Source(d)

OptionalId(text) == IF text = "" THEN "null" ELSE text
CommonRow(d) ==
  [profile |-> d.signal, eventTime |-> Times(d).event, observedTime |-> Times(d).observed,
   attributes |-> DecodedAttributes(d.attributes), otelResource |-> d.resource, extensions |-> Extension(d)]
LogRow(d) ==
  [severity |-> Severity(d.severity, d.text), body |-> Decoded(d.body),
   traceId |-> OptionalId(d.trace), spanId |-> OptionalId(d.span)]
SpanRow(d) ==
  [traceId |-> d.trace, spanId |-> d.span, parentSpanId |-> OptionalId(d.parent), name |-> d.name,
   spanKind |-> NameAt(SpanKinds, d.spanKind), startTime |-> Nanos(d.start), endTime |-> Nanos(d.end),
   status |-> NameAt(Statuses, d.code)]
MetricRow(d) ==
  [name |-> d.name, unit |-> IF d.unit = "" THEN "1" ELSE d.unit,
   metricType |-> IF d.type = "exponentialHistogram" THEN "exponential-histogram" ELSE d.type,
   temporality |-> NameAt(Temporalities, d.temporality), startTime |-> Or(d.start, d.time), endTime |-> Nanos(d.time),
   value |-> DecodedScalar(d.number)]
SpecializedRow(d) ==
  CASE d.signal = "log" -> LogRow(d) [] d.signal = "span" -> SpanRow(d) [] OTHER -> MetricRow(d)
Fields(d) == <<CommonRow(d), SpecializedRow(d)>>

\* The identity leaves out the ids that are null; the columns have them.
OptionalIds == {"traceId", "spanId", "parentSpanId"}
Identity(d) ==
  LET special == SpecializedRow(d)
      kept == {f \in DOMAIN special : f \notin OptionalIds \/ special[f] # "null"}
  IN  <<CommonRow(d), [f \in kept |-> special[f]]>>
Row(d) == [identity |-> Identity(d), fields |-> Fields(d)]

\* telemetryFields, on the fields that differ between records.
RowFields ==
  [log |-> {"severity", "body", "traceId", "spanId"},
   span |-> {"traceId", "spanId", "parentSpanId", "name", "spanKind", "startTime", "endTime", "status"},
   metric |-> {"name", "unit", "metricType", "temporality", "startTime", "endTime", "value"}]
Nullable(profile) ==
  CASE profile = "log" -> {"body", "traceId", "spanId"} [] profile = "span" -> {"parentSpanId"} [] OTHER -> {}

-----------------------------------------------------------------------------
Ingest(envelope) ==
  /\ count' = count + 1
  /\ IF Admitted(envelope)
       THEN /\ resourceRows' = resourceRows \cup {Row(d) : d \in Range(envelope)}
            /\ ingested' = ingested \cup {[record |-> d, row |-> Row(d)] : d \in Range(envelope)}
       ELSE UNCHANGED <<resourceRows, ingested>>

RecordsInit == resourceRows = {} /\ ingested = {} /\ count = 0
RecordsNext == count < MaxIngests /\ \E envelope \in RecordLists : Ingest(envelope)
RecordsSpec == RecordsInit /\ [][RecordsNext]_recordVars

-----------------------------------------------------------------------------
(* Properties.                                                             *)
Special(row) == row.fields[2]
Common(row) == row.fields[1]

\* A row has the fields of its profile in the table of telemetryFields, and a null only where
\* that table makes the column nullable; every ingested record is in a row.
RecordsTypeOK ==
  /\ count \in 0..MaxIngests
  /\ {i.row : i \in ingested} = resourceRows
  /\ \A row \in resourceRows :
       LET profile == Common(row).profile
       IN  /\ DOMAIN Special(row) = RowFields[profile]
           /\ \A f \in OptionalIds \cap DOMAIN Special(row) :
                Special(row)[f] = "null" => f \in Nullable(profile)
           /\ "body" \in DOMAIN Special(row) /\ Special(row).body = <<"null", "">> => "body" \in Nullable(profile)

\* The first and the last instant that a record was sent with.
SentTimes(d) ==
  CASE d.signal = "log" -> [event |-> IF d.time = 0 THEN d.observed ELSE d.time,
                            observed |-> IF d.observed = 0 THEN d.time ELSE d.observed]
    [] d.signal = "span" -> [event |-> d.start, observed |-> d.end]
    [] OTHER -> [event |-> d.time, observed |-> d.time]
Retained(i) ==
  /\ Common(i.row).eventTime = SentTimes(i.record).event /\ Common(i.row).observedTime = SentTimes(i.record).observed
  /\ i.record.signal = "span" => Special(i.row).startTime = i.record.start /\ Special(i.row).endTime = i.record.end
  /\ i.record.signal = "metric" =>
       Special(i.row).startTime = IF i.record.start = 0 THEN i.record.time ELSE i.record.start
InInt64(d) == \A f \in TimeFields \cap DOMAIN d : d[f] <= MaxInt64

\* A row has the times of its record as they were sent exactly where all are an int64; then they
\* are no zeros and no interval of a span is negative.  No enumeration is read past its end.
RowsComplete ==
  \A i \in ingested :
    /\ Retained(i) <=> InInt64(i.record)
    /\ InInt64(i.record) =>
         /\ Common(i.row).eventTime # 0 /\ Common(i.row).observedTime # 0
         /\ Common(i.row).profile = "span" => Special(i.row).startTime <= Special(i.row).endTime
         /\ Common(i.row).profile = "metric" => Special(i.row).startTime # 0
    /\ Common(i.row).profile = "span" => Special(i.row).spanKind # "" /\ Special(i.row).status # ""
    /\ Common(i.row).profile = "metric" => Special(i.row).temporality # ""

\* What validation admits can be mapped: a row has the fields and the names of its profile, and the
\* times of its record but where int64 does not hold one, although validation admits 19 digits of it
\* (validation.ts 50, 77 against mapping.ts 110-111).
Mapped == RecordsTypeOK /\ RowsComplete

-----------------------------------------------------------------------------
\* What a value says: maps and attributes have no order, lists have one.
Meaning(v) ==
  <<v.kind, CASE v.kind = "map" -> Range(v.items) [] v.kind = "list" -> v.items [] OTHER -> v.token>>
Meanings(entries) == {<<entries[i].key, Meaning(entries[i].value)>> : i \in DOMAIN entries}
SameRecord(c, d) ==
  /\ DOMAIN c = DOMAIN d /\ Meanings(c.attributes) = Meanings(d.attributes)
  /\ c.signal = "log" => Meaning(c.body) = Meaning(d.body)
  /\ \A f \in DOMAIN c \ {"attributes", "body"} : c[f] = d[f]

\* A record sent again, in another envelope or with its attributes or a map among them in another
\* order, has the identity it had, so that FINAL reads one row of it.
RetryCoalesces ==
  \A i, j \in ingested : SameRecord(i.record, j.record) => i.row.identity = j.row.identity

\* Records that differ in anything that was sent have different identities: bytes and a map
\* that looks like them, an integer, a double and a text of one digit, the two zeros, the order of
\* a list, a missing id and one that is given, a unit that is empty and 1.
IdentityTellsRecord ==
  \A i, j \in ingested : i.row.identity = j.row.identity => SameRecord(i.record, j.record)

\* A record has one identity however it is sent again, and no other record has it
\* (canonicalSqlFunctions, the evidence identity of the views).
IdentityIsRecord == RetryCoalesces /\ IdentityTellsRecord
=============================================================================
