------------------------------ MODULE LifecycleJob ------------------------------
(***************************************************************************)
(* Lifecycle jobs (jobs/index.ts): the seven builders and the general one  *)
(* make a job specification, sorted and fingerprinted, which               *)
(* MeridianLifecycleJob hands to the provisioner of the caller.  An author *)
(* declares a job, changes it and declares it again.                       *)
(*                                                                         *)
(* An operation is [contract, keys, value]: its versioned contract, the    *)
(* keys it holds at any depth and the values a builder puts in.  The    *)
(* fingerprint of a specification is the specification.                    *)
(***************************************************************************)
EXTENDS DeploymentInputs

CONSTANTS
  Place,            \* the place of a text in the order a list is sorted by (localeCompare, or code units for names)
  Images, Resources, Pins, Texts, Secrets,     \* what an author puts in
  CustomInputs,     \* [kind, keys, secrets, dependsOn, timeout, attempts, extensions] for createLifecycleJobSpec
  MaxDeclarations

VARIABLES
  declared,     \* the last declaration that was accepted and its specification, or None
  earlier,      \* the one accepted before it, or None
  refused,      \* the last declaration was refused
  started,      \* specifications the provisioner was called with
  count

jobVars == <<declared, earlier, refused, started, count>>

Kinds == {"migration", "projection", "cache-warm", "streaming-bootstrap", "backup", "restore", "validation"}
IsPinnedImage(image) == image \notin {"image:tag", "image@sha256:short"}

\* What can be in a list of a job, and has a place in it.  Two texts may share a place only as
\* references to secrets.
Selectors == UNION {Elements(list) : list \in Resources}
References == UNION {Elements(list) : list \in Secrets \cup {custom.secrets : custom \in CustomInputs}}
Names == UNION {Elements(custom.dependsOn) : custom \in CustomInputs}
ASSUME JobAssumption ==
  /\ MaxDeclarations \in Nat
  /\ \A list \in Resources \cup Secrets : IsList(list)
  /\ \A custom \in CustomInputs : IsList(custom.secrets) /\ IsList(custom.dependsOn)
  /\ \A r, q \in Selectors :
       /\ Place[SelectorKey(r)] \in Int
       /\ Place[SelectorKey(r)] = Place[SelectorKey(q)] => SelectorKey(r) = SelectorKey(q)
  /\ \A d, e \in Names : Place[d] \in Int /\ (Place[d] = Place[e] => d = e)
  /\ \A ref \in References : Place[ref.provider \o ref.reference] \in Int
  /\ \E list \in Resources : Len(list) = 2 /\ DistinctBy(list, SelectorKey)

-----------------------------------------------------------------------------
(* createLifecycleJobSpec.                                                 *)
MaxTimeoutSeconds == 86400
SecretKey(ref) == <<ref.provider, ref.reference>>
InputFits(input) ==
  /\ input.kind \in Kinds
  /\ IsPinnedImage(input.image)
  /\ input.resources # <<>> /\ DistinctBy(input.resources, SelectorKey)
  /\ input.operation.keys # {} /\ ~HoldsSecret(input.operation.keys) /\ ~HoldsSecret(input.extensions)
  /\ Distinct(input.dependsOn) /\ \A d \in Elements(input.dependsOn) : IsIdentifier(d)
  /\ input.timeout \in 1..MaxTimeoutSeconds /\ input.attempts \in 1..20
  /\ DistinctBy(input.secrets, SecretKey) /\ \A ref \in Elements(input.secrets) : IsReference(ref)

\* A stable sort: elements of one weight stay as the author wrote them.
StableSorted(seq, weight) ==
  LET before(i, j) == weight[seq[i]] < weight[seq[j]] \/ (weight[seq[i]] = weight[seq[j]] /\ i <= j)
  IN  [k \in DOMAIN seq |-> seq[CHOOSE j \in DOMAIN seq : Cardinality({i \in DOMAIN seq : before(i, j)}) = k]]

ByKey(resources) == StableSorted(resources, [r \in Elements(resources) |-> Place[SelectorKey(r)]])
ByName(names) == StableSorted(names, [d \in Elements(names) |-> Place[d]])
\* The collation ignores the control character between provider and reference.
ByReference(refs) == StableSorted(refs, [ref \in Elements(refs) |-> Place[ref.provider \o ref.reference]])

SpecWith(input, resources) ==
  [kind |-> input.kind, image |-> input.image, resources |-> resources, operation |-> input.operation,
   secrets |-> ByReference(input.secrets), dependsOn |-> ByName(input.dependsOn),
   timeout |-> input.timeout, attempts |-> input.attempts, extensions |-> input.extensions]
\* A specification whose Resources keep the order of the author.
UnsortedSpec(input) == SpecWith(input, input.resources)
SpecOf(input) == SpecWith(input, ByKey(input.resources))

-----------------------------------------------------------------------------
(* The builders.                                                           *)
Operation(contract, value) == [contract |-> contract, keys |-> {"contract", "version", "value"}, value |-> value]
Input(kind, image, resources, contract, value, secrets) ==
  [kind |-> kind, image |-> image, resources |-> resources, operation |-> Operation(contract, value),
   secrets |-> secrets, dependsOn |-> <<>>, timeout |-> 3600, attempts |-> 1, extensions |-> {}]

Declare(input, valueFits) ==
  /\ count' = count + 1
  /\ IF valueFits /\ InputFits(input)
       THEN /\ declared' = [input |-> input, spec |-> SpecOf(input)]
            /\ earlier' = declared /\ refused' = FALSE
       ELSE refused' = TRUE /\ UNCHANGED <<declared, earlier>>
  /\ UNCHANGED started

MigrationJob ==
  /\ count < MaxDeclarations
  /\ \E image \in Images, resources \in Resources, from, to \in Pins, secrets \in Secrets :
       Declare(Input("migration", image, resources, "meridian.migration.apply", <<from, to>>, secrets),
               IsFingerprint(from) /\ IsFingerprint(to))
ProjectionJob ==
  /\ count < MaxDeclarations
  /\ \E image \in Images, source, target \in UNION {Elements(list) : list \in Resources}, pin \in Pins :
       Declare(Input("projection", image, <<source, target>>, "meridian.projection.rebuild", <<pin>>, <<>>),
               IsFingerprint(pin))
CacheWarmJob ==
  /\ count < MaxDeclarations
  /\ \E image \in Images, source, cache \in UNION {Elements(list) : list \in Resources}, generation \in Texts :
       Declare(Input("cache-warm", image, <<source, cache>>, "meridian.cache.warm", <<generation>>, <<>>),
               IsText(generation, 512))
StreamingBootstrapJob ==
  /\ count < MaxDeclarations
  /\ \E image \in Images, resources \in Resources, pin \in Pins :
       Declare(Input("streaming-bootstrap", image, resources, "meridian.streaming.bootstrap", <<pin>>, <<>>),
               IsFingerprint(pin))
BackupJob ==
  /\ count < MaxDeclarations
  /\ \E image \in Images, resources \in Resources, policy \in Texts :
       Declare(Input("backup", image, resources, "meridian.recovery.backup", <<policy>>, <<>>),
               IsText(policy, 2048))
RestoreJob ==
  /\ count < MaxDeclarations
  /\ \E image \in Images, resources \in Resources, point \in Texts :
       Declare(Input("restore", image, resources, "meridian.recovery.restore", <<point>>, <<>>),
               IsText(point, 2048))
ValidationJob ==
  /\ count < MaxDeclarations
  /\ \E image \in Images, resources \in Resources, pin \in Pins :
       Declare(Input("validation", image, resources, "meridian.deployment.validate", <<pin>>, <<>>),
               IsFingerprint(pin))
CustomJob ==
  /\ count < MaxDeclarations
  /\ \E custom \in CustomInputs :
       Declare([kind |-> custom.kind, image |-> CHOOSE i \in Images : IsPinnedImage(i),
                resources |-> CHOOSE list \in Resources : Len(list) = 2 /\ DistinctBy(list, SelectorKey),
                operation |-> [contract |-> "meridian.migration.apply", keys |-> custom.keys, value |-> <<>>],
                secrets |-> custom.secrets, dependsOn |-> custom.dependsOn, timeout |-> custom.timeout,
                attempts |-> custom.attempts, extensions |-> custom.extensions], TRUE)

\* MeridianLifecycleJob with a provider; without one it throws before anything is created.
Provision ==
  /\ declared # None
  /\ \E hasProvider \in BOOLEAN :
       started' = IF hasProvider THEN started \cup {declared.spec} ELSE started
  /\ UNCHANGED <<declared, earlier, refused, count>>

JobInit == declared = None /\ earlier = None /\ refused = FALSE /\ started = {} /\ count = 0
JobNext ==
  \/ MigrationJob \/ ProjectionJob \/ CacheWarmJob \/ StreamingBootstrapJob
  \/ BackupJob \/ RestoreJob \/ ValidationJob \/ CustomJob \/ Provision
JobSpec == JobInit /\ [][JobNext]_jobVars

-----------------------------------------------------------------------------
(* Properties.                                                             *)

\* Only specifications that would pass as inputs, and would come out as they are, are started; the
\* builders' own defaults are within the bounds.
JobTypeOK ==
  /\ count \in 0..MaxDeclarations /\ refused \in BOOLEAN
  /\ (declared # None => count >= 1) /\ (earlier # None => count >= 2)
  /\ \A s \in started : InputFits(s) /\ SpecOf(s) = s

\* What a declaration asks for: the kind, the image, the Resources, the operation, the
\* dependencies, the limits and the references to secrets, in whatever order they were written;
\* and for a projection or a cache warming the way from its source to its target.
Asked(d) ==
  <<d.input.kind, d.input.image, Elements(d.input.resources), d.input.operation, Elements(d.input.secrets),
    Elements(d.input.dependsOn), d.input.timeout, d.input.attempts, d.input.extensions>>
Directed(input) == input.operation.contract \in {"meridian.projection.rebuild", "meridian.cache.warm"}
Way(d) == IF Directed(d.input) THEN d.input.resources ELSE <<>>
Work(d) == <<Asked(d), Way(d)>>

\* The builders put source and target into the list of Resources, which is then sorted, so one of
\* these jobs and the one the other way round are one specification.
Opposite(d, e) == Asked(d) = Asked(e) /\ Directed(d.input) /\ Way(d) = <<Way(e)[2], Way(e)[1]>>

\* Two declarations with one fingerprint ask for the same work or for opposite ways.
Both == declared # None /\ earlier # None
FingerprintTellsWork ==
  Both /\ declared.spec = earlier.spec => Work(declared) = Work(earlier) \/ Opposite(declared, earlier)

\* And two declarations of the same work or of opposite ways have one fingerprint, unless two
\* references read alike when provider and reference are run together.
ReadAlike(d) ==
  \E a, b \in Elements(d.input.secrets) : a # b /\ Place[a.provider \o a.reference] = Place[b.provider \o b.reference]
WorkTellsFingerprint ==
  Both /\ (Work(declared) = Work(earlier) \/ Opposite(declared, earlier)) /\ ~ReadAlike(declared) =>
    declared.spec = earlier.spec

\* References that read alike apart, two declarations have one fingerprint exactly when they ask
\* for the same work, in whatever order its lists were written, or are a projection (a cache
\* warming) and its opposite: source and target are not told apart (jobs/index.ts 193, 229-263).
FingerprintIsWork == JobTypeOK /\ FingerprintTellsWork /\ WorkTellsFingerprint
=============================================================================
