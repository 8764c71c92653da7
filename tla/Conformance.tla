------------------------------- MODULE Conformance -------------------------------
(***************************************************************************)
(* The local cluster conformance (validation/index.ts): profile by profile *)
(* a harness deploys a cluster, takes it through the acceptance stages and *)
(* reports what it observed; the first report that falls short ends the    *)
(* run.                                                                    *)
(*                                                                         *)
(* A report is [engine, version, adapter, primaries, roles, operations,    *)
(* passed]: the roles are a list, as the harness sent it.                  *)
(***************************************************************************)
EXTENDS EngineProfiles

CONSTANTS
  LocalProfiles,      \* the profiles of this run, a sequence
  Reports(_)          \* what the harness may report of a profile

VARIABLES
  probed,     \* profiles whose report was judged
  results,    \* the reports that passed, in order
  outcome     \* "running", "passed" or "failed"

suiteVars == <<probed, results, outcome>>

Stages ==
  {"fresh-apply", "no-change-apply", "workload-connection", "topology-expansion", "member-restart", "failover",
   "rebalance", "backup-or-replicated-log-check", "isolated-target-recreation", "restore-or-position-recovery",
   "runtime-startup-validation", "semantic-conformance"}

Local(id, engine, topology, roles, primaries) ==
  [id |-> id, engine |-> engine, topology |-> topology, roles |-> roles, primaries |-> primaries]
LocalClusterProfiles ==
  <<Local("postgresql-single-primary", "postgresql-postgis-local-single-primary", "single-primary", <<"primary">>, 1),
    Local("postgresql-cluster", "postgresql-postgis-cluster", "cluster", <<"primary", "standby-1", "standby-2">>, 1),
    Local("opensearch-single", "opensearch", "single-primary", <<"node-1">>, None),
    Local("opensearch-cluster", "opensearch", "cluster", <<"node-1", "node-2", "node-3">>, None),
    Local("clickhouse-single", "clickhouse-standalone", "single-primary", <<"primary">>, None),
    Local("clickhouse-cluster", "clickhouse-replicated", "cluster",
          <<"primary", "replica", "keeper-1", "keeper-2", "keeper-3">>, None),
    Local("valkey-single", "valkey-standalone", "single-primary", <<"primary">>, 1),
    Local("valkey-sentinel", "valkey-sentinel", "cluster",
          <<"primary", "replica-1", "replica-2", "sentinel-1", "sentinel-2", "sentinel-3">>, 1),
    Local("s3-compatible", "s3-compatible", "single-primary", <<"primary">>, None),
    Local("oci-distribution", "oci-distribution", "provider-managed", <<"registry">>, None),
    Local("kafka-test", "apache-kafka-test", "test", <<"controller-broker">>, None),
    Local("kafka-cluster", "apache-kafka", "cluster",
          <<"controller-1", "controller-2", "controller-3", "broker-1", "broker-2", "broker-3">>, None)>>

\* A run takes each profile once, out of this table, in which no two profiles of one engine have
\* the same roles; a harness reports lists of roles and stages that there are.
ASSUME SuiteAssumption ==
  /\ IsList(LocalProfiles) /\ Elements(LocalProfiles) \subseteq Elements(LocalClusterProfiles)
  /\ \A i, j \in DOMAIN LocalProfiles : LocalProfiles[i] = LocalProfiles[j] => i = j
  /\ \A p, q \in Elements(LocalClusterProfiles) :
       /\ IsList(p.roles) /\ p.primaries \in {None, 1}
       /\ EngineProfiles[p.engine].id = EngineProfiles[q.engine].id /\ Elements(p.roles) = Elements(q.roles)
            => p = q
  /\ \A p \in Elements(LocalProfiles) : \A report \in Reports(p) : IsList(report.roles) /\ report.passed \subseteq Stages

-----------------------------------------------------------------------------
\* A comparison that only looks for roles nobody declared.
NoStranger(observed, declared) == Elements(observed) \subseteq Elements(declared)

\* sameSet: as many, and each of them declared.
SameSet(observed, declared) == Len(observed) = Len(declared) /\ NoStranger(observed, declared)

Conforms(report, p) ==
  LET released == EngineProfiles[p.engine]
  IN  /\ report.engine = released.id
      /\ IsEngineVersion(released, report.version)
      /\ report.adapter = released.adapter
      /\ report.primaries = p.primaries \/ p.primaries = None
      /\ SameSet(report.roles, p.roles)
      /\ DOMAIN released.operations \subseteq report.operations
      /\ Stages \subseteq report.passed

SuiteInit == probed = 0 /\ results = <<>> /\ outcome = "running"

Probe ==
  /\ outcome = "running" /\ probed < Len(LocalProfiles)
  /\ LET p == LocalProfiles[probed + 1]
     IN  \E report \in Reports(p) :
           IF Conforms(report, p)
             THEN results' = Append(results, report) /\ UNCHANGED outcome
             ELSE outcome' = "failed" /\ UNCHANGED results
  /\ probed' = probed + 1

Finish ==
  /\ outcome = "running" /\ probed = Len(LocalProfiles)
  /\ outcome' = "passed" /\ UNCHANGED <<probed, results>>

SuiteNext == Probe \/ Finish
SuiteSpec == SuiteInit /\ [][SuiteNext]_suiteVars

-----------------------------------------------------------------------------
(* Properties.                                                             *)

\* One report that passed for every profile before the one that failed.
SuiteTypeOK ==
  /\ probed \in 0..Len(LocalProfiles) /\ outcome \in {"running", "passed", "failed"}
  /\ Len(results) = IF outcome = "failed" THEN probed - 1 ELSE probed

\* A report that passed for one profile would pass for no other profile of the run: two
\* topologies of one engine are told apart by their roles, as long as a harness names no
\* role twice.
ToldApart ==
  \A i \in DOMAIN results, j \in DOMAIN LocalProfiles :
    Distinct(results[i].roles) /\ i # j => ~Conforms(results[i], LocalProfiles[j])

\* A cluster that passed has every role of its profile, one primary where its engine has
\* one, went through every stage, and serves every operation a plan may require of it.
Serves(report, p) ==
  /\ Elements(report.roles) = Elements(p.roles)
  /\ p.primaries # None => report.primaries = 1
  /\ \A contract \in DOMAIN EngineProfiles[p.engine].operations : contract \in report.operations
  /\ report.passed = Stages
ServedByAll ==
  outcome = "passed" =>
    \A i \in DOMAIN LocalProfiles : Distinct(results[i].roles) => Serves(results[i], LocalProfiles[i])

\* A cluster that passed has every role of its profile and serves every operation that a plan may
\* require of it, and its report would pass for no other profile, as long as a harness names no
\* role twice (runLocalClusterConformance).
PassedServes == SuiteTypeOK /\ ToldApart /\ ServedByAll

\* The same of every report, whatever list of roles the harness sent.
AllRolesHealthy ==
  outcome = "passed" =>
    \A i \in DOMAIN LocalProfiles : Elements(results[i].roles) = Elements(LocalProfiles[i].roles)
=============================================================================
