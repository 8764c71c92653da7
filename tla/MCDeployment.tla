------------------------------- MODULE MCDeployment -------------------------------
(***************************************************************************)
(* The two users of the planner for one run of TLC.  A behaviour is either *)
(* that of an author who plans a specification again and again             *)
(* (DeploymentPlanner) or that of a Pulumi program whose deployment is     *)
(* planned when its Outputs have resolved (EngineConstructs): "part" says  *)
(* which, and the variables of the other one keep one value.               *)
(***************************************************************************)
EXTENDS MCDeploymentPlanner, EngineConstructs

VARIABLE part     \* "author", "program", or "ending": a program that runs to its end

-----------------------------------------------------------------------------
(* Programs of a managed and an external engine, and two Resources.        *)
Bindings(id, profile) == [Bound(id, profile) EXCEPT !.connection = None, !.mode = None, !.topology = None]
External(id, profile) ==
  [kind |-> "external", provider |-> FALSE, binding |-> Bindings(id, profile), request |-> None,
   connection |-> Connection]
Quiet == [enabled |-> FALSE, labels |-> NoLabels, collector |-> None]
Managed(id, profile) ==
  [External(id, profile) EXCEPT
     !.kind = "managed", !.provider = TRUE,
     !.request = [target |-> "cluster", keys |-> {}, identity |-> Ref("runtime"), acl |-> Ref("acl"),
                  tls |-> ServerTls, storage |-> TRUE, observability |-> Quiet, domains |-> <<"a", "b">>,
                  backup |-> None, rpo |-> None, rto |-> 600]]
MainEngine == External("main", "postgresql-postgis-cluster")
SideEngine == Managed("side", "clickhouse-standalone")
Tls == {Disabled, ServerTls, Mutual}
Visible(pin) == [Manifest({"eventual-visibility"}, 10000) EXCEPT !.pin = pin]

\* The managed engine, with one thing changed.
Sides ==
  {SideEngine, [SideEngine EXCEPT !.provider = FALSE], [SideEngine EXCEPT !.binding.profile = "sqlite"],
   [SideEngine EXCEPT !.binding.id = "main"], [SideEngine EXCEPT !.binding.topology = "cluster"],
   [SideEngine EXCEPT !.binding.version = "^1.0.0"], [SideEngine EXCEPT !.binding.packages = <<>>],
   [SideEngine EXCEPT !.binding.recovery = Recovery(0, MaxRecoverySeconds + 1)],
   [SideEngine EXCEPT !.binding.runtimePins = [python |-> "empty"]],
   [SideEngine EXCEPT !.binding.client.minSize = 17]}
    \cup {[SideEngine EXCEPT !.binding.manifest = Visible(pin)] : pin \in {"sha256:manifest", "sha256:stale"}}
    \cup {[SideEngine EXCEPT !.request.storage = FALSE], [SideEngine EXCEPT !.request.acl = Ref("other")],
          [SideEngine EXCEPT !.request.observability.enabled = TRUE],
          [SideEngine EXCEPT !.request.domains = <<"a", "a">>],
          [SideEngine EXCEPT !.request.rpo = MaxRecoverySeconds + 1],
          [SideEngine EXCEPT !.request.keys = {"password"}],
          [SideEngine EXCEPT !.request.identity = Ref("other")],
          [SideEngine EXCEPT !.request.backup = Ref("empty")]}
    \cup {[SideEngine EXCEPT !.request.tls = asked, !.connection.tls = given] : asked, given \in Tls}
    \cup {[SideEngine EXCEPT !.connection.endpoint = "relative"], [SideEngine EXCEPT !.connection.service = "engine"],
          [SideEngine EXCEPT !.connection.extensions = {"package-lock"}],
          [SideEngine EXCEPT !.connection.settings.limits = Rows(100)],
          [SideEngine EXCEPT !.connection.settings.limits = Rows(BadSetting)]}

Unbound(audit, placements) ==
  LET whole == Deployment(<<Catalog("structured"), Catalog("evidence")>>, <<Aliased(Records), audit>>, <<>>, placements)
  IN  [field \in DOMAIN whole \ {"bindings"} |-> whole[field]]
Observed == Appends({"eventual-visibility"}, <<>>, <<>>)
Ordinary == Unbound(Observed, <<ToMain, ToSide>>)
TooStrong == Unbound(Appends({"strong-consistency"}, <<>>, <<>>), <<ToMain, ToSide>>)
Unplaced == Unbound(Observed, <<ToMain>>)
Unserved == Needs(Observed.selector, Operation("meridian.evidence.unknown", "1.0.0"))
Deployments ==
  {Ordinary, TooStrong, Unplaced, Unbound(Unserved, <<ToMain, ToSide>>),
   Unbound(Observed, <<ToMain, ToSide, Rule("c", <<>>, "evidence", NoLabels, "main")>>),
   Unbound(Observed, <<ToMain, Unknown>>), Unbound([Observed EXCEPT !.limits = Rows(101)], <<ToMain, ToSide>>)}

Program(engines, deployment, later) == [engines |-> engines, deployment |-> deployment, later |-> later]
\* A deployment that is planned, one that is refused, one whose connection is refused.
EndingPrograms ==
  {Program(<<MainEngine, SideEngine>>, deployment, TRUE) : deployment \in {Ordinary, TooStrong}}
    \cup {Program(<<[SideEngine EXCEPT !.connection.endpoint = "relative"], MainEngine>>, Ordinary, TRUE)}
EnginePrograms ==
  {Program(<<MainEngine, side>>, Ordinary, TRUE) : side \in Sides}
    \cup {Program(<<MainEngine, SideEngine>>, deployment, later) : deployment \in Deployments, later \in BOOLEAN}
    \cup EndingPrograms

-----------------------------------------------------------------------------
NoAuthor ==
  /\ author = CHOOSE name \in DOMAIN Authors : TRUE
  /\ spec = [catalogs |-> <<>>, resources |-> <<>>, placements |-> <<>>]
  /\ verdict = "edited" /\ before = NoPlan /\ after = NoPlan /\ edits = 0
NoProgram ==
  /\ program = Program(<<>>, <<>>, FALSE)
  /\ next = 1 /\ thrown = FALSE /\ provisioned = {} /\ bound = <<>>
  /\ telemetry = TRUE /\ outputs = <<>> /\ settled = "pending" /\ plan = None

Authoring == part = "author"
Running == part \in {"program", "ending"}
deploymentVars == <<part, authorVars, programVars>>

Init ==
  \/ part = "author" /\ AuthorInit /\ NoProgram
  \/ part \in {"program", "ending"} /\ ProgramInit /\ (part = "ending" => program \in EndingPrograms) /\ NoAuthor
Next ==
  \/ Authoring /\ AuthorNext /\ UNCHANGED <<part, programVars>>
  \/ Running /\ ProgramNext /\ UNCHANGED <<part, authorVars>>
RunOn == part = "ending" /\ ProgramNext /\ UNCHANGED <<part, authorVars>>

\* The constructors of a program run on, and Pulumi settles every Output.
Spec == Init /\ [][Next]_deploymentVars /\ WF_deploymentVars(RunOn)

-----------------------------------------------------------------------------
(* Properties.                                                             *)

\* The bundled table is one that DefaultsMayBeSpelled (DeploymentProofs) speaks of.
BundledDefaultsInRange ==
  \A id \in DOMAIN EngineProfiles : IsProfileRecord(EngineProfiles[id]) /\ DefaultsInRange(EngineProfiles[id])

\* The limits of the bundled profiles lie within the settings that configure them, so that
\* writing a default out changes no plan, and a deployment on default profiles with one rule per
\* catalog is planned (engineProfiles, catalogPlacementRules).
DefaultsServe == Authoring => BundledDefaultsInRange /\ DefaultsConfigurable /\ DefaultsPlan

\* A program that is not refused ends with a plan or a failed one, even if an Output is lost.
ProgramsEnd == part = "ending" => Settles
=============================================================================
