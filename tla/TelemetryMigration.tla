---------------------------- MODULE TelemetryMigration ----------------------------
(***************************************************************************)
(* Telemetry deployments that share ClickHouse servers.  Each is planned   *)
(* by createClickHouseTelemetryPlan; its caller migrates the public        *)
(* tables, executes the statements of the plan in order on every server,   *)
(* from the start again when it was interrupted, and starts the Collector. *)
(* A mapping is removed when its queues are empty and no other deployment  *)
(* uses it.  ClickHouse and the caller are external (their rules are in    *)
(* docs/collector-clickhouse.md); names, order and content of what is      *)
(* installed come from the plan.                                           *)
(***************************************************************************)
EXTENDS TelemetryPlan

CONSTANTS
  Inputs,       \* input of each deployment
  Groups,       \* sets of deployments that meet
  Servers,      \* a sequence
  MaxRecords

ASSUME MigrationAssumption ==
  /\ MaxRecords \in Nat /\ Servers \in Seq(Elements(Servers)) /\ Distinct(Servers)
  /\ \A group \in Groups : group \subseteq DOMAIN Inputs

VARIABLES
  phase,        \* of each deployment
  plan,         \* of each deployment, what its plan names
  step,         \* statements it has executed, server after server
  tables,       \* name of the layout of each public table, on every server
  installed,    \* per server: [prefix, object, by], "by" naming its SQL
  queues,       \* per deployment, acknowledged records
  written,      \* [record, view, map]: the SQL of the view and the map that wrote it
  accepted      \* history: acknowledged records

migrationVars == <<phase, plan, step, tables, installed, queues, written, accepted>>

Deployments == DOMAIN Inputs
Group == DOMAIN phase
\* What deployments have in common is named after one of them.
NameOf(What(_), d) == CHOOSE e \in Deployments : What(Inputs[e]) = What(Inputs[d])
ViewsSql(i) == [p \in Profiles |-> ViewSql(i, p)]
MapsSql(i) == [p \in Profiles |-> MapSql(i, p)]
TableOf(i, l) == <<i.database, l.table>>
\* A layout is named by a deployment and a profile that have it.
LayoutName(l) == CHOOSE n \in Deployments \X Profiles : Inputs[n[1]].layouts[n[2]] = l
\* Its prefix, the SQL of its views and maps, and the layout that each of its tables has.
PlanOf(d, i) ==
  [prefix |-> NameOf(MappingOf, d), view |-> NameOf(ViewsSql, d), map |-> NameOf(MapsSql, d),
   required |-> [t \in {TableOf(i, l) : l \in RequiredLayouts(i)} |->
                   LayoutName(CHOOSE l \in RequiredLayouts(i) : TableOf(i, l) = t)]]
Last == Len(Servers) * Len(Statements)

Sql(d, object) ==
  CASE object.name = "view" -> plan[d].view [] object.name = "map" -> plan[d].map [] OTHER -> None
On(server, d) == {o \in installed[server] : o.prefix = plan[d].prefix}
ObjectsOn(server, d) == {o.object : o \in On(server, d)}
By(server, d, object) == (CHOOSE o \in On(server, d) : o.object = object).by

\* The plan is rendered or refused.
Render(d) ==
  /\ phase[d] = "new"
  /\ \E input \in {Inputs[d]} :
       IF PlanFits(input)
         THEN phase' = [phase EXCEPT ![d] = "planned"] /\ plan' = [plan EXCEPT ![d] = PlanOf(d, input)]
         ELSE phase' = [phase EXCEPT ![d] = "refused"] /\ UNCHANGED plan
  /\ UNCHANGED <<step, tables, installed, queues, written, accepted>>

TablesWith(required) ==
  [t \in DOMAIN tables \cup DOMAIN required |-> IF t \in DOMAIN tables THEN tables[t] ELSE required[t]]
\* The Adapter's migration creates the tables, and rejects a layout other than the one that is there.
MigrateTables(d) ==
  /\ phase[d] = "planned"
  /\ IF \A t \in DOMAIN plan[d].required \cap DOMAIN tables : tables[t] = plan[d].required[t]
       THEN tables' = TablesWith(plan[d].required) /\ phase' = [phase EXCEPT ![d] = "migrating"]
       ELSE phase' = [phase EXCEPT ![d] = "rejected"] /\ UNCHANGED tables
  /\ UNCHANGED <<plan, step, installed, queues, written, accepted>>

Server(k) == Servers[((k - 1) \div Len(Statements)) + 1]
ObjectAt(k) == Statements[((k - 1) % Len(Statements)) + 1]
StepsMissing(server, d) ==
  LET present == ObjectsOn(server, d)
  IN  {k \in (step[d] + 1)..Last : Server(k) = server /\ ObjectAt(k) \notin present}
\* CREATE ... IF NOT EXISTS does nothing when the object is there, so that the statements up to
\* the first missing one are passed over, and fails when a table or a function is missing.
Execute(d, k) ==
  IF Needs(ObjectAt(k)) \subseteq ObjectsOn(Server(k), d)
    THEN /\ installed' = [installed EXCEPT ![Server(k)] =
                            @ \cup {[prefix |-> plan[d].prefix, object |-> ObjectAt(k), by |-> Sql(d, ObjectAt(k))]}]
         /\ step' = [step EXCEPT ![d] = k]
         /\ UNCHANGED phase
    ELSE phase' = [phase EXCEPT ![d] = "failed"] /\ UNCHANGED <<step, installed>>
Apply(d) ==
  /\ phase[d] = "migrating" /\ step[d] < Last
  /\ \E missing \in {UNION {StepsMissing(server, d) : server \in Elements(Servers)}} :
       IF missing = {}
         THEN step' = [step EXCEPT ![d] = Last] /\ UNCHANGED <<phase, installed>>
         ELSE \E k \in missing : (\A n \in missing : k <= n) /\ Execute(d, k)
  /\ UNCHANGED <<plan, tables, queues, written, accepted>>
Interrupt(d) ==
  /\ phase[d] = "migrating" /\ step[d] > 0
  /\ step' = [step EXCEPT ![d] = 0]
  /\ UNCHANGED <<phase, plan, tables, installed, queues, written, accepted>>
Start(d) ==
  /\ phase[d] = "migrating" /\ step[d] = Last
  /\ phase' = [phase EXCEPT ![d] = "serving"]
  /\ UNCHANGED <<plan, step, tables, installed, queues, written, accepted>>

\* The fields that a record may not have.
Absent == [log |-> {"body", "traceId", "spanId"}, span |-> {"parentSpanId"}, metric |-> {}]
Accept(d, profile, absent) ==
  LET record == [id |-> Cardinality(accepted) + 1, deployment |-> d, profile |-> profile, absent |-> absent]
  IN  /\ phase[d] = "serving" /\ Cardinality(accepted) < MaxRecords
      /\ queues' = [queues EXCEPT ![d] = Append(@, record)]
      /\ accepted' = accepted \cup {record}
      /\ UNCHANGED <<phase, plan, step, tables, installed, written>>

Chain(profile) == Elements(MaterializedView(profile))
Column(d, profile, field) ==
  CHOOSE c \in Elements(Inputs[d].layouts[profile].columns) : c.logical = field
\* A view turns what a record does not have into NULL where the layout says nullable, and into a
\* value otherwise; the insert of a NULL into a column whose type cannot hold it is refused.
Convertible(d, record) ==
  \A field \in record.absent :
    LET c == Column(d, record.profile, field) IN c.nullable => c.type[1] = "Nullable"
\* The exporter inserts into the staging table, which keeps nothing; a row is written when the
\* views from there to the table are there.  An insert whose answer is lost is made again.
InsertHead(d, server, answered) ==
  LET record == Head(queues[d])
      viewBy == By(server, d, Object("view", record.profile))
      mapBy == By(server, d, Object("map", record.profile))
  IN  /\ phase[d] \in {"serving", "draining"} /\ queues[d] # <<>>
      /\ Object("staging", None) \in ObjectsOn(server, d)
      /\ IF Chain(record.profile) \subseteq ObjectsOn(server, d)
           THEN Convertible(viewBy, record) /\ written' = written \cup {[record |-> record, view |-> viewBy, map |-> mapBy]}
           ELSE UNCHANGED written
      /\ queues' = IF answered THEN [queues EXCEPT ![d] = Tail(@)] ELSE queues
      /\ UNCHANGED <<phase, plan, step, tables, installed, accepted>>

Retire(d) ==
  /\ phase[d] = "serving"
  /\ phase' = [phase EXCEPT ![d] = "draining"]
  /\ UNCHANGED <<plan, step, tables, installed, queues, written, accepted>>
Remove(d) ==
  /\ phase[d] = "draining" /\ queues[d] = <<>>
  /\ \A e \in Group \ {d} : phase[e] \in {"migrating", "serving", "draining"} => plan[e].prefix # plan[d].prefix
  /\ installed' = [server \in DOMAIN installed |-> installed[server] \ On(server, d)]
  /\ phase' = [phase EXCEPT ![d] = "removed"]
  /\ UNCHANGED <<plan, step, tables, queues, written, accepted>>

MigrationInit ==
  /\ \E group \in Groups : phase = [d \in group |-> "new"]
  /\ plan = [d \in Group |-> None] /\ step = [d \in Group |-> 0] /\ queues = [d \in Group |-> <<>>]
  /\ tables = <<>> /\ installed = [server \in Elements(Servers) |-> {}]
  /\ written = {} /\ accepted = {}
MigrationNext ==
  \E d \in Group :
    \/ Render(d) \/ MigrateTables(d)
    \/ Apply(d) \/ Interrupt(d) \/ Start(d)
    \/ \E profile \in Profiles : \E absent \in {{}, Absent[profile]} : Accept(d, profile, absent)
    \/ \E server \in Elements(Servers), answered \in BOOLEAN : InsertHead(d, server, answered)
    \/ Retire(d) \/ Remove(d)
MigrationSpec == MigrationInit /\ [][MigrationNext]_migrationVars

-----------------------------------------------------------------------------
(* Properties.                                                             *)
LayoutIn(t) == Inputs[tables[t][1]].layouts[tables[t][2]]
Sent(row) == Inputs[row.record.deployment]

\* Where a Collector serves, every server has every object of its plan, with the SQL that the
\* plan has rendered for it, whoever installed it first and however often that was interrupted.
MigrationTypeOK ==
  /\ \A d \in Group : step[d] \in 0..Last
  /\ {row.record : row \in written} \subseteq accepted
  /\ \A d \in Group : phase[d] \in {"serving", "draining"} =>
       \A server \in DOMAIN installed :
         /\ Elements(Statements) = ObjectsOn(server, d)
         /\ \A o \in On(server, d) : o.by = Sql(d, o.object)

\* No statement of a plan fails, on a server that another deployment has used or left, or where
\* an earlier run of the plan was interrupted.
StatementsApply == \A d \in Group : phase[d] # "failed"

\* A row says the tenant and the scope of the deployment that took the record, in its columns and
\* in the record it holds.
RoutedAsPlanned ==
  \A row \in written :
    LET view == ViewSql(Inputs[row.view], row.record.profile)
        map == MapSql(Inputs[row.map], row.record.profile)
    IN  /\ view.tenant = Sent(row).tenant /\ view.scope = Sent(row).scope
        /\ map.tenant = Sent(row).tenant /\ map.scope = Sent(row).scope /\ map.identity = Sent(row).identity

\* An acknowledged record is in its queue or in the table that its deployment has planned for it,
\* under the columns of that table's layout, with NULL for what it does not have.
NothingLost ==
  \A record \in accepted :
    \/ record \in Elements(queues[record.deployment])
    \/ \E row \in written :
         LET view == ViewSql(Inputs[row.view], record.profile)
         IN  /\ row.record = record
             /\ view.table = Inputs[record.deployment].layouts[record.profile].table
             /\ LayoutIn(<<view.database, view.table>>).columns = view.columns
             /\ \A c \in Elements(view.columns) : c.logical \in record.absent => c.nullable

\* No statement of a plan fails, a row says the tenant and scope of the deployment that took its
\* record, and an acknowledged record is queued or in the table its deployment planned.
MigrationSound == MigrationTypeOK /\ StatementsApply /\ RoutedAsPlanned /\ NothingLost
=============================================================================
