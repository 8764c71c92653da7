------------------------------- MODULE MCDocuments -------------------------------
(***************************************************************************)
(* What is judged, sorted and fingerprinted outside of a deployment plan,  *)
(* for one run of TLC: the jobs an author declares, the canonical texts,   *)
(* the walk under both, and the reports of a conformance run.  "part" says *)
(* whose behaviour this is; the variables of the others keep one value.    *)
(***************************************************************************)
EXTENDS Conformance, LifecycleJob, CanonicalText, CanonicalJson

VARIABLE part     \* "job", "text", "walk" or "conformance"

documentVars == <<part, jobVars, textVars, walkVars, suiteVars>>

-----------------------------------------------------------------------------
(* Jobs.                                                                   *)
Named(catalog, name) == [catalog |-> catalog, namespace |-> "orders", name |-> name]
Records == Named("structured", "records")
Totals == Named("structured", "totals")
Cached == Named("cache", "records")
Secret(provider, reference) == [provider |-> provider, reference |-> reference]
\* Run together, the first two read alike.
Vault == <<Secret("vault", "sa"), Secret("vaults", "a"), Secret("vault", "b")>>

ResourceChoices == {<<Records, Totals>>, <<Totals, Records>>, <<Cached>>, <<Records, Records>>, <<>>}
SecretChoices ==
  {<<>>, <<Vault[1], Vault[3]>>, <<Vault[3], Vault[1]>>, <<Vault[1], Vault[2]>>, <<Vault[2], Vault[1]>>,
   <<Vault[1], Vault[1]>>}

Pair == <<Vault[1], Vault[3]>>
Contract == {"contract"}
Migration ==
  [kind |-> "migration", keys |-> Contract, secrets |-> Pair, dependsOn |-> <<>>, timeout |-> 3600, attempts |-> 1,
   extensions |-> {}]
CustomChoices ==
  {[Migration EXCEPT !.dependsOn = d] : d \in {<<"a", "b">>, <<"b", "a">>, <<"a", "a">>, <<"9lives">>}}
    \cup {[Migration EXCEPT !.timeout = n] : n \in {0, 1, 86400, 86401}}
    \cup {[Migration EXCEPT !.attempts = n] : n \in {0, 1, 20, 21}}
    \cup {[Migration EXCEPT !.keys = keys] : keys \in {{}, {"password"}}}
    \cup {[Migration EXCEPT !.kind = "reindex"], [Migration EXCEPT !.extensions = {"token"}],
          [Migration EXCEPT !.secrets = <<Secret("vault", "empty")>>]}

PlaceOf ==
  [t \in {"structured:orders.records", "structured:orders.totals", "cache:orders.records", "a", "b", "9lives",
          "vaultsa", "vaultb", "vaultempty"} |->
     CASE t = "9lives" -> 1 [] t = "a" -> 2 [] t = "b" -> 3 [] t = "cache:orders.records" -> 4
       [] t = "structured:orders.records" -> 5 [] t = "structured:orders.totals" -> 6
       [] t = "vaultb" -> 7 [] t = "vaultempty" -> 8 [] t = "vaultsa" -> 9]

-----------------------------------------------------------------------------
(* Texts: two array indices, a key before the digits and one after them,   *)
(* the key that normalize loses, and a pair that code units and code       *)
(* points order differently: "astral" is above "private" as a code point,  *)
(* its surrogates are below.                                               *)
UnitRanks == [k \in {"-x", "10", "9", "__proto__", "a", "astral", "private"} |->
                CASE k = "-x" -> 1 [] k = "10" -> 2 [] k = "9" -> 3 [] k = "__proto__" -> 4 [] k = "a" -> 5
                  [] k = "astral" -> 6 [] k = "private" -> 7]
PointRanks == [UnitRanks EXCEPT !["astral"] = 7, !["private"] = 6]
IndexOf == [k \in DOMAIN UnitRanks |-> IF k = "9" THEN 9 ELSE IF k = "10" THEN 10 ELSE None]

MeaningOf == [n \in {"0", "-0", "0.00005"} |-> IF n = "-0" THEN "0" ELSE n]
JsOf == MeaningOf
\* A decimal below 0.0001 becomes an exponent.
PyOf == [n \in DOMAIN JsOf |-> IF n = "0.00005" THEN "5e-05" ELSE JsOf[n]]

-----------------------------------------------------------------------------
(* Conformance: the profiles of the engines that have two topologies or    *)
(* count primaries, and reports with one thing wrong.                      *)
Chosen ==
  SelectSeq(LocalClusterProfiles,
            LAMBDA p : p.id \in {"postgresql-cluster", "opensearch-single", "opensearch-cluster", "s3-compatible"})
Perfect(p, engine) ==
  [engine |-> engine, version |-> EngineProfiles[engine].version, adapter |-> EngineProfiles[engine].adapter,
   primaries |-> p.primaries, roles |-> p.roles, operations |-> DOMAIN EngineProfiles[engine].operations,
   passed |-> Stages]
RoleLists(p) ==
  {p.roles, Tail(p.roles), <<p.roles[1]>>, Append(p.roles, "stranger"), [p.roles EXCEPT ![1] = "stranger"],
   [p.roles EXCEPT ![Len(p.roles)] = p.roles[1]]}
WrongReports(p) ==
  LET good == Perfect(p, p.engine)
  IN  {Perfect(p, q.engine) : q \in Elements(LocalProfiles)}
        \cup {[good EXCEPT !.roles = roles, !.primaries = n] : roles \in RoleLists(p), n \in {None, 0, 1, 2}}
        \cup {[good EXCEPT !.operations = @ \ {contract}] : contract \in good.operations}
        \cup {[good EXCEPT !.passed = @ \ {stage}] : stage \in Stages}
        \cup {[good EXCEPT !.version = v] : v \in {"^1.0.0", "99", "empty"}}

-----------------------------------------------------------------------------
NoJob == JobInit
NoText == TextInit
NoWalk ==
  /\ children = [n \in Nodes |-> <<>>] /\ aliens = {}
  /\ stack = <<>> /\ ancestors = {} /\ verdict = "walking"
NoSuite == SuiteInit

Init ==
  \/ part = "job" /\ JobInit /\ NoText /\ NoWalk /\ NoSuite
  \/ part = "text" /\ TextInit /\ NoJob /\ NoWalk /\ NoSuite
  \/ part = "walk" /\ WalkInit /\ NoJob /\ NoText /\ NoSuite
  \/ part = "conformance" /\ SuiteInit /\ NoJob /\ NoText /\ NoWalk
Next ==
  \/ part = "job" /\ JobNext /\ UNCHANGED <<part, textVars, walkVars, suiteVars>>
  \/ part = "text" /\ TextNext /\ UNCHANGED <<part, jobVars, walkVars, suiteVars>>
  \/ part = "walk" /\ WalkNext /\ UNCHANGED <<part, jobVars, textVars, suiteVars>>
  \/ part = "conformance" /\ SuiteNext /\ UNCHANGED <<part, jobVars, textVars, walkVars>>
Spec == Init /\ [][Next]_documentVars
=============================================================================
