# Verification of Meridian Constructs

TLA+ models of Meridian Constructs, with TLC runs on small instances and TLAPS
proofs for all instances. Paths are relative to the repository root
(`src/jobs/...` is the TypeScript package, the Python host lives under
`src/jobs/projection/assets/`).

## 1. The system

Meridian Constructs is an infrastructure-as-code package. Most of it judges
declarations and renders a document from them: a runtime configuration, a
telemetry plan, a job specification, each with its fingerprint. Three parts have a
life of their own: a Pulumi program, whose constructors run at once and whose
values arrive later; the durable projection host, three Python files shipped as
assets, which copies committed source mutations into a version-addressed target;
and the Collector the package configures, which takes telemetry through a durable
queue into ClickHouse.

| component | state | operations | where it is hard |
|---|---|---|---|
| **Projection host** `assets/worker.py` | stop Event, the batch admitted, the event in hand; through it the outbox (intent states, leases, attempts, checkpoint) and the target rows | `run`: lag, claim, load, guarded projection, put, acknowledge, complete, release, evidence; `call` timers; drain | several hosts, death between two effects, lost replies, expired leases, stops in mid-batch |
| **Versioned target** `assets/versioned_target.py` | target rows, one per source version | `make_projector`, `latest_visible` | versions out of order, tombstones |
| **Process supervisor** `assets/supervisor.py` | `child`, `stopped_at`, the child process | `supervise`, its handler `stop` | signals between any two bytecodes, a hanging child, two deadlines |
| **Cycle budget** `projectionCycleBudgetMs`, `cycle_budget` | none | the admission arithmetic, twice | a formula over failure paths |
| **Job gates** `durableProjectionJob`, `validate_job`, `ProjectionWorker.__init__` | the job document, the installed packages, the live engines | preview, boot | two implementations; anything may change between them |
| **Planner** `runtime-config/index.ts` | none; its author's specification and the last plans | `planDeployment`, `resolvePlacementBindings`, `catalogPlacementRules`, `diffPlans`, `renderBinding` | exactly one placement per Resource, plans independent of order and host, diffs that hide nothing |
| **Engine profiles** `profiles/index.ts` | tables | manifest selection, narrowing by settings, version and distribution pins | what is advertised against what is configured |
| **Contracts** `contracts/index.ts` | none | field validators | fields that constrain each other |
| **Pulumi constructs** `constructs/index.ts` | the constructors that have run, the Outputs that have resolved | `EngineBinding` managed and external, `MeridianDeployment` | judged first or provisioned first; static outputs against a later plan; an Output that never comes |
| **Lifecycle jobs** `jobs/index.ts` | none | seven builders, `createLifecycleJobSpec`, a delegating component | one fingerprint for one piece of work |
| **Canonical JSON** `canonical.ts`, `clickhouse-layout.ts` | none | `normalizeJson`, the two canonical texts | cycles against shared objects, key order and numbers in two languages |
| **Conformance** `validation/index.ts` | the reports judged so far | `runLocalClusterConformance` | a report that passes although something is missing |
| **Collector** `constructs/otel.ts` | its specification, the endpoint | validation of the configuration, credentials, `runtimeCapability` | substitutions that nothing delivers; an endpoint that is known late |
| **ClickHouse exporter** `constructs/otel/exporters/clickhouse/` | objects on every server, queue, rows | plan, DDL, validation, record mapping | shared servers, interrupted migrations, at-least-once delivery, a full queue, identities of records |

How they interact. The constructs gather engine Bindings and, when their Outputs
have resolved, call the planner; it validates with the contracts, selects and
narrows profiles, resolves placement and renders the runtime configuration, whose
fingerprint the canonical text determines. That configuration and the pinned
manifests go into `durableProjectionJob`, which writes the job document. The
provisioner of the caller starts `supervisor.py` with it; the supervisor
validates the document and forks the application, which constructs a
`ProjectionWorker`. That one validates again, checks the started runtime and
hands four adapters (`Outbox`, `Facade`, `Evidence`, `guarded_project`) to the
released `ProjectionRunner`. The Collector's capability is an input of the
planner; the ClickHouse plan is an input of the Collector, and its statements are
executed by the caller against tables the engine Adapter has migrated. Runner,
outbox, business writer, Pulumi, the stock Collector and ClickHouse are outside
the repository; they are modelled as this code and its tests use them.

What makes each part correct: progress is never invented, decided intents stay
decided, readers converge and deletions last (host, target); no stop is lost and
every deadline is met exactly (supervisor); the admission formula covers the
longest cycle (budget); what is accepted can run, and what runs is one atomic
group (gates); exactly one placement per Resource, a plan that does not depend on
the order of its inputs, and a diff that is empty only when nothing rendered
differs (planner); what is advertised is configured (profiles); nothing is
provisioned before it was judged, and every program ends (constructs); one
fingerprint for one document (jobs, canonical JSON); a conformant report misses
nothing (conformance); nothing acknowledged is lost, everything is read once and
where its deployment planned (exporter).

## 2. The modules

| module | models | main correspondence |
|---|---|---|
| `ProjectionHost` | worker.py `run`, versioned_target.py | one action per adapter call; `pc[h]` is the last call the runner finished, `work[h]` its local variables, `batch[h]` what `atomic_claim` returned |
| `VersionedProjection` | what a projection promises | commit, apply, complete, quarantine; no hosts |
| `Supervisor` | supervisor.py | `pc` is a position in `supervise`; `SignalStop` may happen in every one of them, and in the handler |
| `CycleBudget` | the formula and the calls it is meant to cover | one step per bounded call, each with any duration up to its limit; the lease ages from a point inside the claim |
| `ProjectionJob` | both gates | `Accepts` is the template, `Valid` and `Hostable` the host |
| `DeploymentInputs` | contracts, the schema of the configuration | one operator per validator |
| `EngineCapabilities` | manifest selection, settings, narrowing, static selection | `PlannedProfile` is the profile a plan judges by |
| `EngineProfiles` | the tables | one record per bundled profile |
| `PlanDeployment` | `planDeployment` | a conjunction per check, `PlanOf` the rendered plan |
| `DeploymentPlanner` | an author who edits, plans and compares | `before` and `after` are the arguments of `diffPlans` |
| `EngineConstructs` | a Pulumi program | one action per constructor, per Output that resolves or is lost, and for the plan |
| `LifecycleJob` | jobs/index.ts | `SpecOf` is the specification and its fingerprint |
| `CanonicalJson` | `normalize` | one action per call and return of the walk |
| `CanonicalText` | the two texts and Python's | documents as members in the order written |
| `Conformance` | local cluster conformance | one report at a time, judged as `probe` does |
| `CollectorSpec`, `OtelCollector` | otel.ts | validation as operators; constructors and late endpoints as actions |
| `TelemetryPlan` | `createClickHouseTelemetryPlan` | input checks, layouts, statements in order, and what each reads and writes |
| `TelemetryMigration` | plans of several deployments on shared servers | `step[d]` statements executed, `installed[server]` the objects there |
| `TelemetryRelay` | the Collector that the plan configures | a request from its client to the rows; queue, consumer, crash, outage |
| `TelemetryChannel` | what authenticated telemetry promises | promise, show; no queue |
| `TelemetryRecords` | validation.ts, mapping.ts, the canonical SQL of sql.ts, the views | a record, its admission, its canonical text, its row and its identity |
| `...Proofs`, `RankTheorems` | proofs | section 5 |

`MCProjectionHost`, `MCProjectionJob`, `MCDeploymentPlanner` and
`MCTelemetryMigration` are instances. `MCHostAdmission`, `MCDeployment`,
`MCDocuments` and `MCTelemetry` put components that do not share state side by
side in one state machine: a variable `part`, chosen in the initial state, says
whose behaviour this is, and the variables of the others keep one value. Their
states are the sum, not the product, of those of the parts.

### ProjectionHost

State and code: `kind`, `status`, `lease`, `live`, `attempts`, `checkpoint` are
the outbox table and the checkpoint; `rows` the target; `stop[h]` the Event of
`ProjectionWorker`. An event and its target row share the identity `<<key,
version>>`, because the host derives the row id from exactly these two
(worker.py 378-390). `source_key` also contains projection name, scope and
Resource; all hosts of one job share them.

A step is a whole call with the effects it may have: `Put` may store the row
and then fail, `Complete` may commit and then fail. Errors are retryable or
poison; which exception is which is decided by the runner and left open.
`Die` covers a kill, an escaping exception and `SystemExit(71)` of a timer.
`BeginCycle` is the lag reading in front of a claim, so a stop may arrive
between it and the claim. `Project` takes any expression a projector can
return, for this event or another: `guarded_project` alone decides
(`Admitted`). One assumption is made of projectors: a row is marked deleted
only if the source says so (`Proposed`).

Assumptions about the libraries: claims take unexpired leases from nobody;
completion and release check the owner only; a completion and its checkpoint
are one transaction; whether an older version may move a checkpoint back is
left open; `release` on an intent this owner does not hold changes nothing.

### Supervisor

Python runs handlers between bytecodes of the main thread, so `Fork`, `Assign`,
`CheckStopped` are separate steps with `SignalStop` between them. The handler is
code of the same thread: a second signal may enter it again while the first call
stands between its test of `stopped_at` and the assignment, also inside the call
that the time limit makes. `open` counts the calls that stand there, `Stamp` is the
assignment with the poll of the child behind it, `Tell` the `killpg`; the
interrupted code waits until all of them have returned. Of a signal that finds
`stopped_at` set nothing is modelled: it returns at once. A forwarded SIGTERM is
`pending` until it reaches the child (`TermArrives`), which may go on, end or be
killed before. The child goes through booting (no handler yet: SIGTERM kills it), running, draining,
closing; it may also end by itself or hang anywhere. Time is counted in poll
periods. `supervise` never waits for anything but the child and time.

### CycleBudget

`OwnTime` is what the runner and the host do between calls; the deployment
promises that it fits in `overheadMs`, and the model holds it to that. The
database stamps the lease while the claim is running, and the answer takes its
time: at the answer the lease is as old as any part of the call. The
`drained` record and the signal handlers are outside the formula of the code
and have to fit in the overhead too.

### ProjectionJob

A deployment is reduced to what the checks tell apart: the Bindings that match
each Resource, the locks, the manifests (`base` for put, query and
transaction, `evidence` for the atomic append) and which Bindings are
PostgreSQL. After the preview the environment may change the image, an engine
or the document; an edit may recompute the fingerprints or not. `Meridian.start`
may refuse more than the model does (it checks every engine), which only
removes running hosts. The fingerprint of the document is computed again in
Python: `alike` says whether both languages enumerate and write this document
in the same way (a key that is an array index or a small fraction is enough for
no), and a document that is not alike is refused as altered although nobody edited
it. Matching rules of one Resource name different Bindings:
rules that name the same Binding twice add no case to either gate.

### The planner and its inputs

A specification is a record with the fields of the code, its texts members of
small sets that stand for the classes the validators tell apart: `"empty"`,
`"over512"`, `"^1.0.0"`. A fingerprint is the record it is taken of, so equal
fingerprints and equal documents are the same thing (SHA-256 is taken to be
injective). `Collation[h]` is the order in which `localeCompare` of host `h`
puts identifiers. The order of the checks matters only for the message, so they
are conjuncts; what is thrown is `"rejected"`.

### EngineConstructs

A constructor is one step, as in JavaScript; it throws or leaves Outputs behind.
A managed engine has two: `EvidenceFits` comes before the provisioner, the
connection after it. Outputs resolve or fail in any order, also the one of the
telemetry capability; the deployment publishes its outputs in its constructor and
plans when everything has resolved. A constructor that throws ends the program
and its pending Outputs with it.

### Documents

`CanonicalText` has the keys `"10"`, `"9"` and others whose order differs by code
unit, by code point and by insertion, scalars that the two languages write
differently, and `"__proto__"`, which `normalizeJson` assigns to the prototype of the
copy, so that it is in no text (`KeptKeys`); Python reads it as any other key. The walk of `CanonicalJson` keeps its ancestors as the code does: a
shared object passes, a cycle does not. The work of a `LifecycleJob` has a direction
(`Way`), and its specification has none. It sorts stably by texts in
which `\u0000` carries no weight, as `localeCompare` does. A `Conformance` report
deviates from a perfect one in one place, or belongs to another profile.

### Telemetry

`TelemetryPlan` keeps of a statement what it creates, what it needs and, for
views and map functions, the values that are rendered into it. Whatever the code
hashes into a name is that name. `TelemetryMigration` runs the caller's procedure
of docs/collector-clickhouse.md: render, migrate the tables, execute the
statements on every server, from the start again after an interruption, start the
Collector, drain, remove. `TelemetryRelay` follows a request by the settings of
the rendered configuration: no queue and no retry on the public side, two seconds
to wait, validation before the queue, `block_on_overflow`, one consumer,
`max_elapsed_time` 0. A row is told apart there by its record; that records and
identities correspond is what `TelemetryRecords` shows. NULL is written to a column
that the layout declares nullable, and an empty text to any other; the insert is
refused, and made again, when the type of a nullable column is not `Nullable`.

`TelemetryRecords` admits what `envelopeValidation` admits and maps as the views do.
Its canonical text is built as the SQL builds it, as a structure instead of
characters: `wire` keeps the kinds and gives floats the text of Python, `close`
sorts lists of entries by key, `decode_any` makes objects of maps and of bytes and
drops the kinds of numbers, and the members that the views omit are omitted. An
identity is what it is the hash of. Values nest one level; deeper ones go through the
same operators again. A time is a number: validation admits it up to `MaxTime` (19
digits) and compares with `Int()`, which has no value above `MaxInt64`; the views
store what `toInt64OrZero` makes of it (`Overflowed`: 0 or a negative number).

## 3. The runs

| run | what it asks | instance |
|---|---|---|
| `host_safety` | the safety of the host and its refinement of `VersionedProjection` | 1 key, 2 versions, 2 hosts, batch 2, threshold 2, both hosts may die, stop, overrun |
| `host_liveness` | intents and stopped hosts end, exclusive work | one steady host, one that may die or stop, no `Overrun` |
| `supervisor` | stops, deadlines, exit status, termination | drain 3, time limit 5, Popen up to 2, the handler entered twice at most (`HandlerLimit`) |
| `host_admission` | atomic group, agreement of the gates; the formula covers every cycle | 2 Bindings, 1 Evidence Resource, 2 changes; drain and lease met exactly |
| `deployment` | placement, plans, diffs, engines; programs and their Outputs | authors of one or two edits, programs of two engines, on one host |
| `documents` | jobs, canonical texts, the walk, conformance reports | 2 declarations, 2 documents of 2 members, graphs of 3 objects, 4 profiles |
| `telemetry` | delivery, mapping, identity, Collector, migration | 3 envelopes, queue of 1, 2 failures; pairs of records, `MaxInt64` 3, `MaxTime` 5; pairs of deployments on 2 servers |
| `supervisor_forwarded_once`, `supervisor_graceful`, `job_locks`, `deployment_hosts`, `conformance_roles` | statements of the repository that the code does not keep | as above; `deployment_hosts` has two hosts |

What the properties say:

| run | property | statement |
|---|---|---|
| `host_safety` | `BackedProgress`, `FaithfulRows` | completions and checkpoints are backed by stored rows, and a stored row is the projection of its own intent |
| | `Converged`, `NoResurrection` | when all intents of a key are completed readers see its newest version; a deletion that readers saw is final |
| | `DrainedSettled` | a host that drained leaves nothing behind under an unexpired lease |
| | `VersionsImmutable`, `SettledOnce` | a row of a version never changes; a settled intent stays as it is |
| | `PromiseKept` | the hosts implement `VersionedProjection` |
| `host_liveness` | `ExclusiveWork` | while leases outlast cycles no two hosts work on one intent |
| | `EventuallySettled`, `StopEndsHost` | every intent ends, every stopped host ends |
| `supervisor` | `StopReachesChild`, `KilledOnlyAfterDrain` | no stop is lost, and a kill comes only after the whole allowance |
| | `ExitsWithinGrace`, `ZeroMeansSuccess` | the exit meets its deadline, and status 0 is no killed or failed child |
| | `StopEnds`, `RunEnds` | a stop and a time limit end the supervisor |
| `host_admission` | `AtomicGroup`, `GatesAgree` | what runs is one atomic group; what the template accepted boots as previewed, but for other locks (divergence 3) and documents the two languages write differently; what boots, edited or not, the template would accept |
| | `DrainsInTime`, `LeaseOutlastsCycle` | an admitted budget covers every cycle, counted for the lease from the stamp of the database |
| `deployment` | `PlacementSound`, `PlanFaithful` | one rule per Resource, and the template of a job finds the same Binding; plans do not depend on order; a diff is empty exactly between equal configurations, and hides only moves of Resources whose labels were edited |
| | `EnginesAdmit`, `DefaultsServe` | a planned Resource is served by the configured engine; default limits may be written out, and default profiles can be planned |
| | `ProvisionedAsJudged`, `OutputsAgree`, `ProgramsEnd` | evidence first, and the plan is of what was requested; static outputs agree with the plan; programs end |
| `documents` | `FingerprintIsWork`, `TextIsMembers` | one fingerprint is one work, or a projection and its opposite; one text is one list of members but `"__proto__"`, and that of a public layout without it is Python's |
| | `RefusedRightly`, `PassedServes` | only cycles and aliens are refused; a cluster that passed serves what its profile may require |
| `telemetry` | `DeliveredOnce`, `KeepsPromise`, `EventuallyStored` | nothing acknowledged is lost, everything is read once by its record; the relay implements `TelemetryChannel` |
| | `Mapped`, `IdentityIsRecord` | what is admitted fills its row, with the times it was sent with exactly where int64 holds them; canonical texts give one identity to a record however it is sent, and no other record has it |
| | `CollectorSound`, `MigrationSound` | credentials are delivered and capabilities can be planned; rows go where their deployment planned |
| `supervisor_forwarded_once` | `ForwardedOnce` | violated: divergence 1 |
| `supervisor_graceful` | `GracefulMeansHandled` | violated: divergence 2 |
| `job_locks` | `OptionalEvidenceMayStaySeparate` | violated: divergence 3 |
| `deployment_hosts` | `PlannedAlike` | violated: divergence 4 |
| `conformance_roles` | `AllRolesHealthy` | violated: divergence 5 |

The type invariant of the host is checked in `host_safety`. In `deployment`,
`documents` and `telemetry` a statement about a component includes its type
invariant; those of the supervisor and the budget are conjuncts of `SupervisorInv`
and `BudgetInv`, which are proved.

Why the bounds are enough.

- Host: two hosts and two versions give every overtaking (old host, new owner; old
  version after new); a batch of two has an event in hand and one waiting; a
  threshold of two separates the first failure from the last. `attempts`
  saturates at the threshold, which is all the code asks of it. Keys meet only
  through row ids; that and a third host are covered by the proofs, which hold for
  all of them.
- Supervisor: the drain limit is shorter than the time limit and longer than the
  longest Popen, so a stop can come before, at and after each deadline; clocks
  stop one unit past the last value the code compares with.
- Gates: each check relates the source Binding to one other, so two Bindings
  suffice; two changes allow a document edit together with a change of the world.
- Deployment: a rule competes with one other at most, an engine is judged alone,
  and a plan is compared with the one before it; so two Bindings, three rules and
  one edit of each list between two plans. One specification starts with labelled rules, so
  that an edited label moves a Resource under an empty diff. Every default profile is planned
  once.
  Programs have an external and a managed engine; each field that a check of the
  constructors reads deviates in some program.
- Documents: a declaration is compared with one other; a cycle of one, two and
  three objects, and one object with two parents, exist among three nodes.
- Handler: two open calls already forward twice with nothing behind Popen; a third only
  repeats the second, and the proofs hold for any number.
- Times: 0 is none, 1 to 3 an int64, 4 and 5 beyond it; one is read as 0 and the other
  as a negative number, the two things that become of such a text.
- Telemetry: the smallest batch limit that an envelope fits in is met and missed by one
  byte, names and values of a scope counting one each. One envelope repeats a record of another, one is malformed. A queue of
  one is full after one request, and two failures allow a crash with an outage.
  One open call per envelope still leaves a call without its client, when the
  timeout has passed. A migration meets one other: with the same mapping, with
  the same tables under another tenant, with other tables, with another column.
  One record crosses all phases; every wrong input is planned once.

`CHECK_DEADLOCK FALSE` everywhere: hosts end, commits are bounded, the
supervisor exits, a cycle settles, a job starts or is refused, authors stop
editing, programs end, telemetry has been delivered.

### Where code and documents disagree

Shown by a run:

1. A signal between supervisor.py lines 40 and 41 is forwarded twice, by the
   handler and by the check; so is one that enters the handler of another between
   lines 29 and 30, also inside the call at line 49. The docstring and
   docs/projection-jobs.md 201 say once. Harmless while the handler of the host only sets an Event.
2. `graceful` is true for a child that ended with 0 by itself around a stop;
   the comment above it says that an exit is no proof of a drain.
3. `validate_job` checks the package lock of every Binding, the template only
   of those it uses. An accepted job whose optional Evidence lives on a
   separate Binding with a lock of its own is refused at every start;
   docs/projection-jobs.md 64 says that it may retain a separate Binding.
4. `planDeployment` sorts with `localeCompare`, in the locale of the process: two
   hosts may render one specification with two fingerprints;
   docs/architecture.md 16 calls the planner deterministic.
5. `sameSet` of the conformance run accepts a report that names one role twice and
   leaves another out; docs/conformance.md 13 wants every declared role healthy.

Read in the code while modelling, with no run of their own; the properties above
are stated so that they hold beside them:

- `diffPlans` (runtime-config 470) compares Resource bindings. A changed label that
  moves a Resource to another Binding leaves the configuration and the diff as
  they were. `DiffTellsPlacement`, proved, says that nothing else moves one unseen.
- `a.b` with `c` and `a` with `b.c` have one `resourceSelectorKey`; identifiers in the
  runs have no dots.
- Validation admits times of 19 digits (validation.ts 50), and compares them with `Int()`,
  which has no value beyond 2^63-1, so that also a span that ends before its start passes
  (77); the views store 0 or another number (mapping.ts 110-111), while
  docs/collector-clickhouse.md 125 says that all timestamps retain nine fractional digits.
  The source in the extension has the text, so identities keep such records apart.
  `Mapped` says that a row has its times exactly when an int64 holds all of them.
- `validateEngineVersion` takes `latest` for an exact version.
- `createBindingOutput` publishes the limits of the profile, not those narrowed by
  the settings; and the outputs of a deployment whose plan is refused have been
  published by then. `OutputsAgree` compares engines, Bindings and profiles and leaves
  the limits out.
- `projectionJob` and `cacheWarmJob` keep source and target only in a list that is
  sorted: the two directions are one specification (jobs/index.ts 193, 229-263).
  `FingerprintIsWork` names this as its exception.
- `normalize` adds keys in order, but objects enumerate array indices first, and
  0.00005 is written as such; Python sorts and writes `5e-05`. A job document with
  either is refused by the host as altered. `GatesAgree` names this as its exception.
- `normalize` assigns members to `{}` (canonical.ts 64-66): an own member `__proto__`,
  which `JSON.parse` creates, becomes the prototype and is in no text. Documents that
  differ in it alone have one fingerprint; `TextIsMembers` names this as its exception.

## 4. Fairness

Host: weak fairness of each host's own steps, because every call is bounded by
its timer and the poll sleeps for a bounded time; weak fairness of lease
expiry, because the database clock runs. Nothing is assumed about commits,
signals, deaths or which outcome a call has: calls may fail for ever, and the
poison threshold is what makes `EventuallySettled` true. `Steady` names the host
that survives; without one nobody would be left to claim.

Supervisor: weak fairness of its thread and of time. None of the child.

Programs: weak fairness of their steps, in the runs of `ProgramsEnd`: constructors
run on, and Pulumi settles every Output, with a value or without one. An Output that
never settles is excluded by this; the program then waits for it, in Pulumi as well.

Telemetry: weak fairness of the consumer (`Take`, `Insert`), `Restart` and
`RecoverBackend`. The consumer of the Collector retries without end, and whoever
runs it restarts what has failed; that an insert succeeds some day while the
backend stays is an assumption about ClickHouse. Failures are bounded, clients may
never send again. In a migration some insert of a serving deployment is answered.

## 5. The proofs

`ProjectionHostProofs` proves for any keys, versions, hosts, batch size and
threshold that `HostInv` is inductive and derives the run's properties from it.
None of them is inductive alone. `HostInv` adds:

- `OutboxMirrorsSource`: intents exist exactly for committed versions, so a
  claimed event has a kind;
- `HostsKnow`: what a host has established at each stage. An acknowledged
  event has its row stored, which is what a completion by this host, or by a
  host that has been overtaken, relies on; a row in hand is admitted, so a stale
  `Put` can only repeat what is there;
- `LeasesKept`: a living host has everything in hand that it holds under an
  unexpired lease, so at a drain there is nothing.

`VersionsImmutable` and `SettledOnce` follow from `HostInv` and one step;
`Converged` and `NoResurrection` from completion being backed by rows, rows
being faithful and versions being total on a key; `PromiseKept` by mapping each
step of the host to a step of `VersionedProjection` or a stutter.
`ThresholdBoundsRetries` is the safety half of `EventuallySettled`, which stays with
TLC: with `AttemptsCounted` (what has been put back was claimed, and fewer times than
the threshold), attempts never fall and every claim of such an intent counts one.
`WorkIsExclusive` needs the assumption `Overrun = {}` and a second invariant
`LeaseInv`: a host holds what it has in hand, except what it just completed. The
code has no generation on a lease, so without the assumption the property is
false; the host's safety does not depend on it.

`SupervisorProofs` proves the safety of the supervisor for every drain limit and
time limit, provided Popen takes no longer than either. No property is inductive:
a deadline is met only because time cannot pass while the main thread is between
a poll and its decision. `SupervisorInv` states how far the clocks are at each
position, where the child can be alive, that nothing is sent to the child
before a stop and a known process, and that what has been forwarded and what open calls
of the handler will still forward is no more than signals were let in. On top of it, how
far divergences 1 and 2 go. Where no signal enters the handler of another
(`HandlerLimit = 1`), a stop is forwarded again only by the check behind Popen
(`ForwardedAgainBehindPopen`); with more, each call that stood behind the test forwards
once. A living child that is polled in a stopped run has run its handler or has a SIGTERM
on its way (`StoppedChildrenDrain`); the signal may find it ended, and then `graceful`
is wrong of it. `TimeLimitStops` is the safety
half of `RunEnds`: past its time limit a run has been stopped, and then `GraceIsKept`
bounds it.

`HostAdmissionProofs`, of the budget: `BudgetInv` keeps elapsed time + reserve of the
remaining calls + unused overhead within the budget, and the age of the lease within
the elapsed time; both limits follow for every admitted budget, wherever in the claim the
lease was stamped. It closes the gap between the assumption of `WorkIsExclusive`
and the admission arithmetic. Of the gates: the document is what an accepted preview
wrote until someone edits it, and the host's gate implies the atomic group, for any
number of Bindings, Resources, packages and changes. `BothGatesAgree` is `GatesAgree` in
both directions: what is refused as previewed is refused for a lock of a Binding that the
job does not use or because its document is not alike, and what runs, edited or not,
satisfies every check of the template.

`TelemetryProofs`, of the relay: any envelopes and records, any queue, any number of
open calls, failures without bound. `RelayInv` ties the stage of every open call to
the disk: a call past validation carries a well-formed envelope, one past the
queue has its envelope on disk or stored, and a row is a record under its own
identity. Acknowledgement alone is not inductive: a client is told of a call that
was queued long before, perhaps by another attempt. With `WaitingInv`, that a
client has at most one call it waits for, every step is a step of
`TelemetryChannel` or a stutter (its safety, `Safely`).

`TelemetryProofs`, of the records: whatever an admitted record has, its row has the
times it was sent with exactly if all are an int64, then in the order of their interval,
and no enumeration is read past its end (`RecordsMapped`). Two admitted records have one
identity exactly if they say the same, their attributes and the maps among these in any
order (`OneIdentityPerRecord`). The relay takes identity and record to be one
(`DeliveredOnce`); this theorem is why it may. Its argument has two sides. A list with
distinct keys has one sorted list, and that list has its entries (`KeySortedAlike`, from
`RankTheorems`), so order is forgotten and nothing else. And a canonical text tells what it
was made of: a scalar its kind and its token (floats have a text each), a container its
kind and its entries (`ValueTold`, `AttributesTold`), a source its record (`SourceTold`).
So records with one identity have one source, also where two decoded values look alike or
a time has overflowed; and records that say the same agree in every member the identity
is made of (`IdentityTold`).

`CollectorProofs`: of any program of Collectors, that every constructed specification is
that of an input which passed the checks, and every published capability that of a
constructed Collector whose endpoint has resolved (`CollectorInv`); so substitutions are
delivered and capabilities can be planned (`CollectorsAreSound`). Of any deployments on
any servers, `MigrationInv`: for every server and statement, whoever has executed it has
the object there; an object of a prefix has the SQL of every plan with that prefix; a
Collector serves only when all its statements are applied on all servers and its tables
have the layout it planned; a queued or written record went through the view and the map
of its own plan. That a statement applies when its turn comes needs that the list is
closed under what a statement reads, which is proved of the list itself. A written row
has a nullable column for each field it lacks and a type that holds NULL there.

`RankTheorems`: the sorts of the code are modelled by taking, for each place, the element
that so many others precede. That this lists every element once, in order, is proved here
once for every order (`SortByRank`), for a stable sort (`StableSort`) and for keys
(`SortByKey`); the planner, the Collector and their proofs rest on it.

`DeploymentProofs`, of the planner: `AuthorInv` says that both plans at hand are `PlanOf` a
specification that passed every check, on a host there is. Then, for any profiles, any
specifications and any edits: exactly one rule places each Resource, an added rule moves
none, and what a job template finds in the rendered rules is what was planned
(`PlacementsAreSound`); and every limit, guarantee and operation a Resource requires is
within the settings and the advertisement of its engine (`PlannedEnginesAdmit`), along the
narrowing of `configuredCapabilityProfile`. `EnginesAdmit` asks for append-only layouts
where the operation appends evidence: the code narrows no other operation by layouts.
Of programs, `ProgramInv`: of an engine whose constructor has run evidence and connection
were judged, in this order; outputs are those of the specification that is planned later;
a plan, if there is one, is of that specification. So no provisioner runs ahead of the
evidence (`EnginesAreProvisionedAsJudged`) and static outputs agree with the plan
(`OutputsAgreeWithPlan`), for any programs and any order in which Outputs resolve; and the
plan has what the plan of an author has (`ProgramsPlanSoundly`). Of `ProgramsEnd` all but
fairness is proved: every step lowers what is left of a program (`ProgramsAreShort`), and
until it is planned or failed the guard of some step holds (`ProgramsNeverWait`). That an
action whose guard holds is ENABLED, and that fairness then takes it, stays with TLC.

`catalogPlacementRules` makes one rule per catalog, matched by the catalog alone; that its
sort lists every catalog once is what makes it place every Resource exactly once
(`CatalogRulesServe`, part of `PlacementsAreSound`).

`PlansAreFaithful` has three parts. Order: every list written the other way round is
sorted into the same list, because identifiers, selectors and pins (by Resource, then by
provider) are put in a strict order, and the fingerprint of several Schemas does not see
their order; so the rendering is the same, and with it what the schema says of it. Diff:
the configuration is in the fingerprint of every Resource, so each Resource that is
rendered differently is named, and the diff is empty exactly if the configurations are
equal. Equal configurations have the same rules and pins, so a Resource with the same labels
is matched by the same rule and stays on its Binding. Refusals: a specification that the typed validators accept
is rendered into a document that the released schema accepts, unless a retry delay has a
fraction (`RenderedFits`); that no pin, catalog or provider is lost or invented by the
sorts is what this needs.
`OneOrderOnePlan` is the other side
of divergence 4: where all hosts put the texts in one order, plans of one specification
are equal, so the locale is all that tells hosts apart. `DefaultsMayBeSpelled` is about
tables: where the operations of a profile bound a limit alike, within the range of its
setting, writing the default out changes nothing. `DefaultsServe` checks that the bundled
table is one of these.

`DocumentProofs`, of the walk: it is right about every graph. The open calls are a
path from the root without repetition, so an ancestor below the top closes a
cycle, which makes a refusal right. That acceptance is right needs what the walk
does not remember: everything visited is in `Good`, a set that nothing leads out
of and that holds no cycle and no alien. A node all of whose children are good is
good, which is what a return establishes.

Of the texts (`TextInv`: each is the text of a document that was written): two documents
of any keys and scalars have one text exactly when they have the same members but
`"__proto__"`, and the text of a public layout is the one Python computes exactly when it
has no such member (`TextsAreMembers`). Keys are sorted
into one list whatever the order they were written in; the members are read back from the
list. Of jobs (`JobInv`: the last two accepted declarations have the specification of
their input): one fingerprint is one piece of work, or a projection (a cache warming) and its
opposite (`FingerprintsAreWork`), by the stable
sort of `RankTheorems`, but for references to secrets whose two texts joined read alike,
which the sort leaves in the order they were written.
Of conformance (`SuiteInv`: one conforming report per profile the run has been through):
a cluster that passed has the roles of its profile, serves what a plan may require of
it, and would pass for no other profile (`PassedClustersServe`), unless a harness names a
role twice (divergence 5).

Assumptions are the named `ASSUME`s of the modules and the hypotheses that the theorems
state. Of the first, some only say what a constant is: keys, bounds, hosts, null values
(`ProfilesAssumption`, `MigrationAssumption`, `CollectorAssumption`);
others what a TypeScript compiler checks: lists are lists, records have their fields
(`AuthorsAssumption`, `ProgramsAssumption`, parts of the following). Those with a content
of their own are: admissible budgets; Evidence Resources distinct from the three roles;
`CollationAssumption` and its like in `JobAssumption`, that no two identifiers of one
deployment or job are alike to `localeCompare`, which a locale that ignores punctuation
would break; `TextAssumption`, that code units and code points order keys strictly, that
`JSON.stringify` tells scalars apart exactly when their values differ, and that Python
writes a safe integer as JavaScript does; and `SuiteAssumption`,
that no two of the profiles of `localClusterProfiles` have both the engine and the roles
in common, which is a fact about that table; and `RecordsAssumption`, that every double has a text
of its own, that the order of keys is strict, and that `toInt64OrZero` makes nothing
positive of 19 digits beyond int64 (they wrap around once at most). TLC evaluates all of
them on the instances. The hypotheses are `Overrun = {}` for `WorkIsExclusive`,
`HandlerLimit = 1` for `ForwardedAgainBehindPopen`, one order of texts for `OneOrderOnePlan`, and limits bound alike for `DefaultsMayBeSpelled`.

Proved and no property of a run of their own: the invariants `HostInv`, `LeaseInv`,
`SupervisorInv`, `BudgetInv`, `JobInv` (of the gates and of lifecycle jobs), `RelayInv`,
`RecordsInv`, `CollectorInv`, `MigrationInv`, `WalkInv`, `TextInv`, `SuiteInv`,
`AuthorInv`, `ProgramInv`; the runs check the properties that
follow from them.

Only model-checked: liveness under fairness, which the prover does not support
(`EventuallySettled`, `StopEndsHost`, `StopEnds`, `RunEnds`, `ProgramsEnd`,
`EventuallyStored` and the fairness of `TelemetryChannel`), and of `DefaultsServe` what it
says of the bundled tables, which are no parameter: that they meet the hypothesis of
`DefaultsMayBeSpelled`, and that one Resource of each catalog can be planned on the default
profiles. The run goes through all of them; of any tables, `DefaultsMayBeSpelled` and
`CatalogRulesServe` are proved.

## 6. Not modelled, and what is left

- `runDeploymentConformance` plans one specification several times, compares the
  canonical configurations byte by byte and validates the first by the released schema;
  `conformanceEvidence` gathers two fingerprints, the repeat count and the profile ids
  under a fingerprint of their own. Neither has state.
- `compatibilityContract`, `runtimeEnvironment`, `collectorEnvironment`,
  `parseResourceSelector`, `validate_host_apis`: constants, field for field
  renderings and a comparison of signatures.
- The wording of SQL. `TelemetryPlan` keeps what a statement creates, needs and
  renders; column types and expressions are modelled by `TelemetryRecords` where an
  identity depends on them.
- Pulumi's engine, the stock Collector, ClickHouse, the released runner and outbox:
  as this code and its tests use them. `latest_visible` reads one page.
- The lock inside `threading.Event`, a `close()` that fails, the one second in which
  a killed child is reaped, the last "drained" call, which the budget does not
  count: hazards with a note, and no property.
- SHA-256 is injective.

Left to do: a composition of supervisor, host and budget in which the provisioner restarts
the job; the two remaining parts of conformance.
