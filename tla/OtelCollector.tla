------------------------------ MODULE OtelCollector ------------------------------
(***************************************************************************)
(* MeridianOtelCollector (constructs/otel.ts): a program constructs        *)
(* Collectors one after the other and asks each for the capability of its  *)
(* workloads, as a rule before the endpoint is known.  A capability is     *)
(* made when the endpoint resolves, or fails with it.                      *)
(***************************************************************************)
EXTENDS CollectorSpec

CONSTANTS
  Programs,     \* sequences of Collector inputs
  Endpoints,    \* what a provisioner may return
  Workloads     \* [service, attributes, extensions, reserved]

VARIABLES
  program, next, thrown,
  specs,        \* specification of each constructed Collector
  endpoint,     \* "pending", "lost" or the value, for each constructed Collector
  asked,        \* <<collector, workload>> pairs
  capability    \* what became of them: a capability, or None where it failed

collectorVars == <<program, next, thrown, specs, endpoint, asked, capability>>

Collectors == DOMAIN specs

\* What a program writes: lists, of references with two names and of texts that have their place,
\* and workloads that are named.
InputTyped(c) ==
  /\ IsList(c.credentials) /\ IsList(c.signals)
  /\ \A ref \in Elements(c.credentials) :
       ref = [provider |-> ref.provider, reference |-> ref.reference] /\ Place[RefKey(ref)] \in Int
  /\ \A signal \in Elements(c.signals) : Place[signal] \in Int

ASSUME CollectorAssumption ==
  /\ \A p \in Programs : IsList(p) /\ \A c \in Elements(p) : InputTyped(c)
  /\ \A w \in Workloads : w.service # None

\* createOtelCollectorSpec and then the component; without a provider it throws.
Construct ==
  /\ ~thrown /\ next <= Len(program)
  /\ \E provider \in BOOLEAN :
       IF provider /\ CollectorFits(program[next])
         THEN /\ specs' = Append(specs, CollectorSpecOf(program[next]))
              /\ endpoint' = Append(endpoint, "pending")
              /\ UNCHANGED thrown
         ELSE thrown' = TRUE /\ UNCHANGED <<specs, endpoint>>
  /\ next' = next + 1
  /\ UNCHANGED <<program, asked, capability>>

Made(c, w, value) ==
  IF CapabilityFits(specs[c], value, w) THEN CapabilityOf(specs[c], value, w) ELSE None

\* runtimeCapability applies to the endpoint: later, or at once when it is known.
Ask(c, w) ==
  /\ ~thrown /\ c \in Collectors /\ <<c, w>> \notin asked
  /\ asked' = asked \cup {<<c, w>>}
  /\ UNCHANGED <<program, next, thrown, specs, endpoint, capability>>

Resolve(c, value) ==
  /\ ~thrown /\ c \in Collectors /\ endpoint[c] = "pending"
  /\ endpoint' = [endpoint EXCEPT ![c] = value]
  /\ UNCHANGED <<program, next, thrown, specs, asked, capability>>
Lose(c) == Resolve(c, "lost")

Make(c, w) ==
  /\ ~thrown /\ <<c, w>> \in asked /\ <<c, w>> \notin DOMAIN capability
  /\ endpoint[c] # "pending"
  /\ capability' = [p \in DOMAIN capability \cup {<<c, w>>} |->
                      IF p # <<c, w>> THEN capability[p]
                      ELSE IF endpoint[c] = "lost" THEN None ELSE Made(c, w, endpoint[c])]
  /\ UNCHANGED <<program, next, thrown, specs, endpoint, asked>>

CollectorInit ==
  /\ program \in Programs /\ next = 1 /\ thrown = FALSE
  /\ specs = <<>> /\ endpoint = <<>> /\ asked = {} /\ capability = <<>>
CollectorNext ==
  \/ Construct
  \/ \E c \in Collectors :
       \/ \E value \in Endpoints : Resolve(c, value)
       \/ Lose(c)
       \/ \E w \in Workloads : Ask(c, w) \/ Make(c, w)
CollectorsSpec == CollectorInit /\ [][CollectorNext]_collectorVars

-----------------------------------------------------------------------------
(* Properties.                                                             *)
Published == {p \in DOMAIN capability : capability[p] # None}

InPlace(seq, Text(_)) == \A i, j \in DOMAIN seq : i < j => Place[Text(seq[i])] <= Place[Text(seq[j])]

\* One specification for each input in front of the next one, which its own checks still accept,
\* its lists in an order that does not depend on the author.
CollectorTypeOK ==
  /\ Len(specs) = IF thrown THEN next - 2 ELSE next - 1
  /\ Len(endpoint) = Len(specs) /\ DOMAIN capability \subseteq asked
  /\ \A c \in Collectors :
       /\ CollectorFits(specs[c])
       /\ InPlace(specs[c].credentials, RefKey) /\ InPlace(specs[c].signals, LAMBDA s : s)

\* Every substitution in the configuration of a Collector is a variable that its credential
\* references have delivered, and nothing else stands where a secret would.
CredentialsDelivered ==
  \A c \in Collectors : \A leaf \in specs[c].config :
    /\ leaf.value.kind = "reference" =>
         [provider |-> "environment", reference |-> leaf.value.name] \in Elements(specs[c].credentials)
    /\ IsSensitive(Key(leaf)) => leaf.value.kind = "reference"

\* A capability names the endpoint of the Collector it was asked of, and the deployment planner
\* takes it: made when the endpoint resolved, long after the workload's input was given.
CapabilityPlannable ==
  \A p \in Published :
    /\ capability[p].collector.endpoint = endpoint[p[1]]
    /\ capability[p].collector.protocol = specs[p[1]].protocol
    /\ IsTelemetry(capability[p])

\* A Collector refers only to variables its credentials deliver, and a capability it gives a
\* workload names its endpoint and is one the deployment planner takes.
CollectorSound == CollectorTypeOK /\ CredentialsDelivered /\ CapabilityPlannable
=============================================================================
