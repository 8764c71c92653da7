---------------------------- MODULE DeploymentProofs ----------------------------
(***************************************************************************)
(* The author who plans deployments and the Pulumi program whose           *)
(* deployment is planned, for any profiles, hosts, authors and programs:   *)
(* where a planned Resource is placed, what its engine admits, what a plan *)
(* depends on, and what a program provisions and publishes.                *)
(***************************************************************************)
EXTENDS DeploymentPlanner, EngineConstructs, RankTheorems, FiniteSetTheorems

(* Lists.                                                                  *)
LEMMA ListFacts ==
  ASSUME NEW seq, IsList(seq)
  PROVE  /\ Len(seq) \in Nat /\ DOMAIN seq = 1..Len(seq)
         /\ IsFiniteSet(Elements(seq))
         /\ \A i \in DOMAIN seq : seq[i] \in Elements(seq)
         /\ \A x \in Elements(seq) : \E i \in DOMAIN seq : seq[i] = x
<1>1. Len(seq) \in Nat /\ DOMAIN seq = 1..Len(seq)
  BY DEF IsList
<1>2. IsFiniteSet(1..Len(seq))
  BY <1>1, FS_Interval
<1>3. seq \in Surjection(DOMAIN seq, Elements(seq))
  BY DEF IsList, Elements, Surjection
<1>4. IsFiniteSet(Elements(seq))
  BY <1>1, <1>2, <1>3, FS_Surjection
<1> QED BY <1>1, <1>4 DEF Elements

\* A list no two of whose elements have one identifier, or one key of a selector.
Identified(seq) == DistinctBy(seq, LAMBDA x : x.id)
LEMMA IdsDiffer ==
  ASSUME NEW seq, IsList(seq), Identified(seq)
  PROVE  \A i, j \in DOMAIN seq : seq[i].id = seq[j].id => i = j
<1> DEFINE n == Len(seq)
           key == [i \in 1..n |-> seq[i].id]
<1>1. n \in Nat /\ DOMAIN seq = 1..n
  BY ListFacts
<1>2. {x.id : x \in Elements(seq)} = {key[i] : i \in 1..n}
  BY <1>1 DEF Elements
<1>3. Cardinality({key[i] : i \in 1..n}) = n
  BY <1>2 DEF Identified, DistinctBy
<1>4. \A i, j \in 1..n : key[i] = key[j] => i = j
  <2>1. DOMAIN key = 1..n
    OBVIOUS
  <2> HIDE DEF n, key
  <2> QED BY <1>1, <1>3, <2>1, DistinctKeys
<1> QED BY <1>1, <1>4

LEMMA SelectorsDiffer ==
  ASSUME NEW seq, IsList(seq), DistinctBy(seq, SelectorKey)
  PROVE  \A x, y \in Elements(seq) : SelectorKey(x) = SelectorKey(y) => x = y
<1> DEFINE n == Len(seq)
           key == [i \in 1..n |-> SelectorKey(seq[i])]
<1>1. n \in Nat /\ DOMAIN seq = 1..n
  BY ListFacts
<1>2. {SelectorKey(x) : x \in Elements(seq)} = {key[i] : i \in 1..n}
  BY <1>1 DEF Elements
<1>3. Cardinality({key[i] : i \in 1..n}) = n
  BY <1>2 DEF DistinctBy
<1>4. \A i, j \in 1..n : key[i] = key[j] => i = j
  <2>1. DOMAIN key = 1..n
    OBVIOUS
  <2> HIDE DEF n, key
  <2> QED BY <1>1, <1>3, <2>1, DistinctKeys
<1>5. ASSUME NEW x \in Elements(seq), NEW y \in Elements(seq), SelectorKey(x) = SelectorKey(y) PROVE x = y
  <2>1. PICK i \in 1..n : seq[i] = x
    BY <1>1 DEF Elements
  <2>2. PICK j \in 1..n : seq[j] = y
    BY <1>1 DEF Elements
  <2> QED BY <1>4, <1>5, <2>1, <2>2
<1> QED BY <1>5

-----------------------------------------------------------------------------
(* Sorting on a host.                                                      *)
IdPlaces(seq, h) == [x \in Elements(seq) |-> Collation[h][x.id]]
LEMMA PicksById ==
  ASSUME NEW seq, IsList(seq), Identified(seq), NEW h \in Hosts, \A x \in Elements(seq) : HasPlace(x.id)
  PROVE  /\ IsFiniteSet(Elements(seq)) /\ KeysDiffer(IdPlaces(seq, h), Elements(seq))
         /\ PicksByKey(SortedById(seq, h), IdPlaces(seq, h), Elements(seq))
<1> DEFINE S == Elements(seq)
           key == [x \in S |-> Collation[h][x.id]]
           sorted == SortedById(seq, h)
           below(x) == Cardinality({y \in S : Collation[h][y.id] < Collation[h][x.id]})
           rank(x) == KeyRank(key, S, x)
<1>1. IsFiniteSet(S)
  BY ListFacts
<1>2. key \in [S -> Int]
  BY CollationAssumption DEF HasPlace, IsOrder
<1>3. \A x, y \in S : key[x] = key[y] => x = y
  <2> SUFFICES ASSUME NEW x \in S, NEW y \in S, key[x] = key[y] PROVE x = y
    OBVIOUS
  <2>1. x.id = y.id
    BY CollationAssumption DEF HasPlace, IsOrder
  <2> QED BY <2>1, ListFacts, IdsDiffer
<1>4. \A x \in S : below(x) = rank(x)
  <2> SUFFICES ASSUME NEW x \in S PROVE below(x) = rank(x)
    OBVIOUS
  <2>1. {y \in S : Collation[h][y.id] < Collation[h][x.id]} = {y \in S : key[y] < key[x]}
    OBVIOUS
  <2> QED BY <2>1 DEF KeyRank
<1>5. DOMAIN sorted = 1..Cardinality(S) /\ \A k \in 1..Cardinality(S) : sorted[k] = CHOOSE x \in S : below(x) = k - 1
  BY DEF SortedById, SortedBy, Sorted, Precedes
<1>6. \A k \in 1..Cardinality(S) : sorted[k] = CHOOSE x \in S : rank(x) = k - 1
  <2> HIDE DEF S, sorted, below, rank
  <2> QED BY <1>4, <1>5
<1>7. PicksByKey(sorted, key, S)
  <2>1. \A k \in 1..Cardinality(S) : sorted[k] = CHOOSE x \in S : KeyRank(key, S, x) = k - 1
    BY <1>6
  <2> HIDE DEF S, sorted, key, rank, below
  <2> QED BY <1>5, <2>1 DEF PicksByKey
<1>8. KeysDiffer(key, S)
  <2> HIDE DEF S, key
  <2> QED BY <1>2, <1>3 DEF KeysDiffer
<1> QED BY <1>1, <1>7, <1>8 DEF IdPlaces

LEMMA SortById ==
  ASSUME NEW seq, IsList(seq), Identified(seq), NEW h \in Hosts, \A x \in Elements(seq) : HasPlace(x.id)
  PROVE  Arranges(SortedById(seq, h), Elements(seq))
BY PicksById, SortByKey

LEMMA SortBySelector ==
  ASSUME NEW seq, IsList(seq), DistinctBy(seq, SelectorKey), NEW h \in Hosts, \A x \in Elements(seq) : HasPlace(SelectorKey(x))
  PROVE  Arranges(SortedBy(seq, SelectorKey, h), Elements(seq))
<1> DEFINE S == Elements(seq)
           key == [x \in S |-> Collation[h][SelectorKey(x)]]
           sorted == SortedBy(seq, SelectorKey, h)
           below(x) == Cardinality({y \in S : Collation[h][SelectorKey(y)] < Collation[h][SelectorKey(x)]})
           rank(x) == KeyRank(key, S, x)
<1>1. IsFiniteSet(S)
  BY ListFacts
<1>2. key \in [S -> Int]
  BY CollationAssumption DEF HasPlace, IsOrder
<1>3. \A x, y \in S : key[x] = key[y] => x = y
  <2> SUFFICES ASSUME NEW x \in S, NEW y \in S, key[x] = key[y] PROVE x = y
    OBVIOUS
  <2>1. SelectorKey(x) = SelectorKey(y)
    BY CollationAssumption DEF HasPlace, IsOrder
  <2> QED BY <2>1, SelectorsDiffer
<1>4. \A x \in S : below(x) = rank(x)
  <2> SUFFICES ASSUME NEW x \in S PROVE below(x) = rank(x)
    OBVIOUS
  <2>1. {y \in S : Collation[h][SelectorKey(y)] < Collation[h][SelectorKey(x)]} = {y \in S : key[y] < key[x]}
    OBVIOUS
  <2> QED BY <2>1 DEF KeyRank
<1>5. DOMAIN sorted = 1..Cardinality(S) /\ \A k \in 1..Cardinality(S) : sorted[k] = CHOOSE x \in S : below(x) = k - 1
  BY DEF SortedBy, Sorted, Precedes
<1>6. \A k \in 1..Cardinality(S) : sorted[k] = CHOOSE x \in S : rank(x) = k - 1
  <2> HIDE DEF S, sorted, below, rank
  <2> QED BY <1>4, <1>5
<1>7. PicksByKey(sorted, key, S)
  <2>1. \A k \in 1..Cardinality(S) : sorted[k] = CHOOSE x \in S : KeyRank(key, S, x) = k - 1
    BY <1>6
  <2> HIDE DEF S, sorted, key, rank, below
  <2> QED BY <1>5, <2>1 DEF PicksByKey
<1>8. KeysDiffer(key, S)
  <2> HIDE DEF S, key
  <2> QED BY <1>2, <1>3 DEF KeysDiffer
<1> HIDE DEF S, sorted, key
<1>9. Arranges(sorted, S)
  BY <1>1, <1>7, <1>8, SortByKey
<1> QED BY <1>9 DEF sorted, S

-----------------------------------------------------------------------------
(* Where a judged specification places its Resources.                      *)
Sound(s) == SpecificationTyped(s) /\ Judged(s)

\* As much of it as tells where they are placed.
Placeable(s) ==
  /\ SpecificationTyped(s) /\ ResourcesValid(s) /\ PlacementsValid(s)
  /\ \A r \in Elements(s.resources) : OneRule(s.placements, r)
LEMMA SoundIsPlaceable == \A s : Sound(s) => Placeable(s)
BY DEF Sound, Judged, Placeable

\* A Resource is found by its key.
LEMMA RequirementFound ==
  ASSUME NEW s, Placeable(s)
  PROVE  /\ \A r \in Elements(s.resources) : Requirement(s, SelectorKey(r.selector)) = r
         /\ \A key \in Keys(s) : Requirement(s, key) \in Elements(s.resources)
                                 /\ SelectorKey(Requirement(s, key).selector) = key
<1> DEFINE seq == s.resources
           n == Len(seq)
           key == [i \in 1..n |-> SelectorKey(seq[i].selector)]
<1>1. n \in Nat /\ DOMAIN seq = 1..n
  BY ListFacts DEF Placeable, SpecificationTyped, ResourcesTyped
<1>2. DistinctBy(seq, LAMBDA r : SelectorKey(r.selector))
  BY DEF Placeable, ResourcesValid
<1>3. {SelectorKey(r.selector) : r \in Elements(seq)} = {key[i] : i \in 1..n}
  BY <1>1 DEF Elements
<1>4. Cardinality({key[i] : i \in 1..n}) = n
  BY <1>2, <1>3 DEF DistinctBy
<1>5. \A i, j \in 1..n : key[i] = key[j] => i = j
  <2>1. DOMAIN key = 1..n
    OBVIOUS
  <2> HIDE DEF n, key
  <2> QED BY <1>1, <1>4, <2>1, DistinctKeys
<1>6. ASSUME NEW x \in Elements(seq), NEW y \in Elements(seq), SelectorKey(x.selector) = SelectorKey(y.selector)
      PROVE  x = y
  <2>1. PICK i \in 1..n : seq[i] = x
    BY <1>1 DEF Elements
  <2>2. PICK j \in 1..n : seq[j] = y
    BY <1>1 DEF Elements
  <2> QED BY <1>5, <1>6, <2>1, <2>2
<1>7. ASSUME NEW k \in Keys(s)
      PROVE  Requirement(s, k) \in Elements(s.resources) /\ SelectorKey(Requirement(s, k).selector) = k
  BY DEF Keys, Requirement
<1>8. ASSUME NEW r \in Elements(s.resources) PROVE Requirement(s, SelectorKey(r.selector)) = r
  <2>1. SelectorKey(r.selector) \in Keys(s)
    BY DEF Keys
  <2> QED BY <1>6, <1>7, <2>1
<1> QED BY <1>7, <1>8

\* The one rule that matches a Resource is at one place, and the Resource is on its binding.
LEMMA Placement ==
  ASSUME NEW s, Placeable(s), NEW key \in Keys(s)
  PROVE  \E i \in DOMAIN s.placements :
           /\ \A j \in DOMAIN s.placements : Matches(s.placements[j], Requirement(s, key)) <=> j = i
           /\ PlacementBindings(s)[key] = s.placements[i].binding
<1> DEFINE seq == s.placements
           r == Requirement(s, key)
<1>1. IsList(seq) /\ Len(seq) \in Nat /\ DOMAIN seq = 1..Len(seq)
  BY ListFacts DEF Placeable, SpecificationTyped, PlacementsTyped
<1>2. Identified(seq)
  BY DEF Placeable, PlacementsValid, Identified
<1>3. Cardinality(Matching(seq, r)) = 1
  BY RequirementFound DEF Placeable, OneRule
<1>4. IsFiniteSet(Matching(seq, r))
  <2>1. IsFiniteSet(Elements(seq)) /\ Matching(seq, r) \in SUBSET Elements(seq)
    BY <1>1, ListFacts DEF Matching
  <2> QED BY <2>1, FS_Subset
<1>5. PICK rule : Matching(seq, r) = {rule}
  BY <1>3, <1>4, FS_Singleton
<1>6. PICK i \in DOMAIN seq : seq[i] = rule
  BY <1>1, <1>5, ListFacts DEF Matching
<1>7. ASSUME NEW j \in DOMAIN seq PROVE Matches(seq[j], r) <=> j = i
  <2>1. Matches(seq[j], r) <=> seq[j] = rule
    BY <1>1, <1>5, ListFacts DEF Matching
  <2>2. seq[j] = seq[i] => j = i
    BY <1>1, <1>2, IdsDiffer
  <2> QED BY <1>6, <2>1, <2>2
<1>8. PlacementBindings(s)[key] = seq[i].binding
  <2> DEFINE first(k) == Matches(seq[k], r) /\ \A j \in 1..(k - 1) : ~Matches(seq[j], r)
  <2>1. first(i)
    <3>1. \A j \in 1..(i - 1) : j \in DOMAIN seq /\ j # i
      BY <1>1
    <3> HIDE DEF r
    <3> QED BY <1>7, <3>1
  <2>2. \A k \in DOMAIN seq : first(k) => k = i
    BY <1>7
  <2>3. PlacementBindings(s)[key] = seq[CHOOSE k \in DOMAIN seq : first(k)].binding
    BY DEF PlacementBindings
  <2> HIDE DEF first
  <2> QED BY <2>1, <2>2, <2>3
<1> QED BY <1>7, <1>8

\* The binding of a placed Resource is one of the deployment's.
LEMMA BindingFound ==
  ASSUME NEW s, Sound(s), NEW key \in Keys(s)
  PROVE  BindingOf(s, PlacementBindings(s)[key]) \in Elements(s.bindings)
         /\ BindingOf(s, PlacementBindings(s)[key]).id = PlacementBindings(s)[key]
<1>1. PICK i \in DOMAIN s.placements : PlacementBindings(s)[key] = s.placements[i].binding
  BY Placement, SoundIsPlaceable
<1>2. s.placements[i] \in Elements(s.placements)
  BY DEF Elements
<1>3. PlacementBindings(s)[key] \in {b.id : b \in Elements(s.bindings)}
  BY <1>1, <1>2 DEF Sound, Judged, PlacementsValid
<1> QED BY <1>3 DEF BindingOf

-----------------------------------------------------------------------------
(* What a planned engine admits.                                           *)
\* The capabilities a binding is selected with, before its settings count.
Selected(b) == SelectedProfile(b, Profiles[b.profile])

LEMMA SelectedFacts ==
  ASSUME NEW b, BindingValid(b)
  PROVE  /\ b.profile \in DOMAIN Profiles /\ IsEngineProfile(Profiles[b.profile])
         /\ DOMAIN Selected(b) = DOMAIN Profiles[b.profile]
         /\ \A field \in DOMAIN Profiles[b.profile] :
              field # "operations" => Selected(b)[field] = Profiles[b.profile][field]
         /\ Selected(b).operations =
              IF b.manifest = None THEN Profiles[b.profile].operations
              ELSE [contract \in b.manifest.available |-> Advertised(b.manifest, contract)]
<1>1. b.profile \in DOMAIN Profiles
  BY DEF BindingValid
<1>2. IsEngineProfile(Profiles[b.profile])
  BY <1>1, ProfilesAssumption
<1> QED BY <1>1, <1>2 DEF Selected, SelectedProfile, IsEngineProfile

LEMMA PlannedFacts ==
  ASSUME NEW b, BindingValid(b)
  PROVE  /\ DOMAIN PlannedProfile(b) = DOMAIN Profiles[b.profile]
         /\ \A field \in DOMAIN Profiles[b.profile] :
              field # "operations" => PlannedProfile(b)[field] = Profiles[b.profile][field]
         /\ DOMAIN PlannedProfile(b).operations = DOMAIN Selected(b).operations
         /\ \A contract \in DOMAIN Selected(b).operations :
              PlannedProfile(b).operations[contract] =
                ConfiguredOperation(contract, Selected(b).operations[contract], Selected(b),
                                    b.connection.settings, b.manifest # None)
<1>1. PlannedProfile(b) = ConfiguredProfile(Selected(b), b.connection.settings, b.manifest # None)
  BY DEF PlannedProfile, Selected
<1>2. "operations" \in DOMAIN Selected(b) /\ DOMAIN Selected(b) = DOMAIN Profiles[b.profile]
  BY SelectedFacts DEF IsEngineProfile
<1> DEFINE p == Selected(b)
           configured == [contract \in DOMAIN p.operations |->
                            ConfiguredOperation(contract, p.operations[contract], p,
                                                b.connection.settings, b.manifest # None)]
<1>3. PlannedProfile(b) = [p EXCEPT !.operations = configured]
  BY <1>1 DEF ConfiguredProfile
<1>4. \A field \in DOMAIN p : field # "operations" => p[field] = Profiles[b.profile][field]
  BY SelectedFacts
<1> HIDE DEF p, configured
<1>5. /\ DOMAIN PlannedProfile(b) = DOMAIN p
      /\ \A field \in DOMAIN p : field # "operations" => PlannedProfile(b)[field] = p[field]
      /\ PlannedProfile(b).operations = configured
  BY <1>2, <1>3 DEF p
<1>6. \A field \in DOMAIN p : field # "operations" => PlannedProfile(b)[field] = Profiles[b.profile][field]
  BY <1>4, <1>5
<1> QED BY <1>2, <1>5, <1>6 DEF p, configured

\* What is selected of an operation is what the profile or the pinned manifest advertises.
LEMMA AdvertisedFacts ==
  ASSUME NEW b, BindingValid(b), NEW contract \in DOMAIN Selected(b).operations
  PROVE  /\ Selected(b).operations[contract].limits = Advertises(b, contract).limits
         /\ Selected(b).operations[contract].guarantees = Advertises(b, contract).guarantees
         /\ \A limit \in DOMAIN Advertises(b, contract).limits : Advertises(b, contract).limits[limit] \in Nat
<1>1. CASE b.manifest = None
  <2>1. Selected(b).operations = Profiles[b.profile].operations /\ Advertises(b, contract) = Profiles[b.profile].operations[contract]
    BY <1>1, SelectedFacts DEF Advertises
  <2>2. AreLimits(Profiles[b.profile].operations[contract].limits)
    BY <2>1, SelectedFacts DEF IsEngineProfile
  <2> QED BY <2>1, <2>2 DEF AreLimits
<1>2. CASE b.manifest # None
  <2> DEFINE m == b.manifest
             c == CHOOSE c \in Elements(m.capabilities) : c.contract = contract
  <2>1. ManifestFits(b, Profiles[b.profile])
    BY <1>2 DEF BindingValid
  <2>2. contract \in m.available /\ Selected(b).operations[contract] = Advertised(m, contract)
    <3>1. Selected(b).operations = [x \in m.available |-> Advertised(m, x)]
      BY <1>2, SelectedFacts
    <3> QED BY <3>1
  <2>3. c \in Elements(m.capabilities)
    <3>1. contract \in {x.contract : x \in Elements(m.capabilities)}
      BY <2>1, <2>2 DEF ManifestFits
    <3> QED BY <3>1
  <2>4. Advertised(m, contract) = Capability(c) /\ Advertises(b, contract) = c
    BY <1>2 DEF Advertised, Advertises
  <2>5. \A limit \in DOMAIN c.limits : c.limits[limit] \in Nat
    <3> HIDE DEF c
    <3> QED BY <2>1, <2>3 DEF ManifestFits, IsManifest
  <2> HIDE DEF c
  <2> QED BY <2>2, <2>4, <2>5 DEF Capability
<1> QED BY <1>1, <1>2

\* A setting that counts is a number.
LEMMA SettingIsNumber ==
  ASSUME NEW b, BindingValid(b), NEW limit \in MappedSettings(Selected(b), b.connection.settings)
  PROVE  b.connection.settings.limits[limit] \in Int
<1> DEFINE range == SettingRanges[Family(Selected(b).adapter)][limit]
<1>1. b.connection.settings.limits[limit] \in range[1]..range[2]
  BY DEF BindingValid, SettingsFit, Selected
<1> HIDE DEF range
<1> QED BY <1>1

\* Settings narrow or retune what is advertised of an operation.
LEMMA ProvidedFacts ==
  ASSUME NEW b, BindingValid(b), NEW contract \in DOMAIN Selected(b).operations
  PROVE  /\ PlannedProfile(b).operations[contract].limits =
              ConfiguredLimits(Advertises(b, contract).limits, Selected(b), b.connection.settings, b.manifest # None)
         /\ PlannedProfile(b).operations[contract].guarantees =
              IF contract = EvidenceAppend
                THEN ConfiguredGuarantees(Advertises(b, contract).guarantees, Selected(b), b.connection.settings,
                                          b.manifest # None)
                ELSE Advertises(b, contract).guarantees
<1> DEFINE o == Selected(b).operations[contract]
           has == b.manifest # None
<1>1. PlannedProfile(b).operations[contract] =
        ConfiguredOperation(contract, o, Selected(b), b.connection.settings, has)
  BY PlannedFacts
<1>2. o.limits = Advertises(b, contract).limits /\ o.guarantees = Advertises(b, contract).guarantees
  BY AdvertisedFacts
<1> HIDE DEF o, has
<1>3. PlannedProfile(b).operations[contract].limits = ConfiguredLimits(o.limits, Selected(b), b.connection.settings, has)
  BY <1>1 DEF ConfiguredOperation
<1>4. PlannedProfile(b).operations[contract].guarantees =
        IF contract = EvidenceAppend THEN ConfiguredGuarantees(o.guarantees, Selected(b), b.connection.settings, has)
        ELSE o.guarantees
  BY <1>1 DEF ConfiguredOperation
<1> QED BY <1>2, <1>3, <1>4 DEF has

\* A required limit that the planned capabilities meet, the engine admits.
LEMMA LimitAdmitted ==
  ASSUME NEW b, BindingValid(b), NEW o, o.contract \in DOMAIN Selected(b).operations, NEW limit,
         limit \in DOMAIN PlannedProfile(b).operations[o.contract].limits,
         NEW value \in Nat, value <= PlannedProfile(b).operations[o.contract].limits[limit]
  PROVE  AdmitsLimit(b, o, limit, value)
<1> DEFINE settings == b.connection.settings
           adv == Advertises(b, o.contract).limits
           mapped == limit \in MappedSettings(Selected(b), settings)
<1>1. PlannedProfile(b).operations[o.contract].limits = ConfiguredLimits(adv, Selected(b), settings, b.manifest # None)
  BY ProvidedFacts
<1>2. limit \in DOMAIN adv /\ adv[limit] \in Nat
  BY <1>1, AdvertisedFacts DEF ConfiguredLimits
<1>3. mapped <=> limit \in DOMAIN settings.limits \cap MappedLimits(Profiles[b.profile].adapter)
  <2>1. Selected(b).adapter = Profiles[b.profile].adapter
    BY SelectedFacts DEF IsEngineProfile
  <2> QED BY <2>1 DEF MappedSettings
<1>4. PlannedProfile(b).operations[o.contract].limits[limit] =
        IF mapped THEN EffectiveLimit(adv[limit], settings.limits[limit], b.manifest # None) ELSE adv[limit]
  BY <1>1, <1>2 DEF ConfiguredLimits
<1>5. mapped => settings.limits[limit] \in Int
  BY SettingIsNumber
<1> HIDE DEF adv, mapped
<1>6. mapped => value <= settings.limits[limit]
  BY <1>2, <1>4, <1>5 DEF EffectiveLimit, Lesser
<1>7. ~mapped \/ b.manifest # None => value <= adv[limit]
  BY <1>2, <1>4, <1>5 DEF EffectiveLimit, Lesser
<1> QED BY <1>3, <1>6, <1>7 DEF AdmitsLimit, adv

LEMMA OperationAdmitted ==
  ASSUME NEW b, BindingValid(b), NEW r, IsRequirement(r), NEW o \in Elements(r.operations),
         OperationProvided(r, o, PlannedProfile(b))
  PROVE  AdmitsOperation(b, r, o)
<1> DEFINE provided == PlannedProfile(b).operations[o.contract]
           adv == Advertises(b, o.contract)
           layouts == b.connection.settings.layouts
<1>1. o.contract \in DOMAIN Selected(b).operations
  BY PlannedFacts DEF OperationProvided
<1>2. o.contract \in IF b.manifest = None THEN DOMAIN Profiles[b.profile].operations ELSE b.manifest.available
  <2>1. CASE b.manifest = None
    <3>1. Selected(b).operations = Profiles[b.profile].operations
      BY <2>1, SelectedFacts
    <3> QED BY <1>1, <2>1, <3>1
  <2>2. CASE b.manifest # None
    <3>1. Selected(b).operations = [x \in b.manifest.available |-> Advertised(b.manifest, x)]
      BY <2>2, SelectedFacts
    <3> QED BY <1>1, <2>2, <3>1
  <2> QED BY <2>1, <2>2
<1>3. AreLimits(r.limits) /\ AreLimits(o.limits)
  BY DEF IsRequirement, IsOperationRequirement
<1>4. ASSUME NEW limit \in DOMAIN r.limits \cup DOMAIN o.limits
      PROVE  /\ limit \in DOMAIN provided.limits
             /\ RequiredLimit(r, o, limit) <= provided.limits[limit]
             /\ provided.limits[limit] \in Int
  <2>1. limit \in DOMAIN provided.limits /\ RequiredLimit(r, o, limit) <= provided.limits[limit]
    BY DEF OperationProvided
  <2> DEFINE settings == b.connection.settings
  <2>2. provided.limits = ConfiguredLimits(adv.limits, Selected(b), settings, b.manifest # None)
    BY <1>1, ProvidedFacts
  <2>3. adv.limits[limit] \in Nat
    BY <1>1, <2>1, <2>2, AdvertisedFacts DEF ConfiguredLimits
  <2>4. limit \in MappedSettings(Selected(b), settings) => settings.limits[limit] \in Int
    BY SettingIsNumber
  <2>5. provided.limits[limit] \in Int
    BY <2>1, <2>2, <2>3, <2>4 DEF ConfiguredLimits, EffectiveLimit, Lesser
  <2> QED BY <2>1, <2>5
<1>5. ASSUME NEW limit \in DOMAIN r.limits PROVE AdmitsLimit(b, o, limit, r.limits[limit])
  <2>1. r.limits[limit] \in Nat /\ (limit \in DOMAIN o.limits => o.limits[limit] \in Nat)
    BY <1>3 DEF AreLimits
  <2>2. r.limits[limit] <= RequiredLimit(r, o, limit) /\ RequiredLimit(r, o, limit) \in Int
    BY <2>1 DEF RequiredLimit, Greater
  <2>3. r.limits[limit] <= provided.limits[limit] /\ limit \in DOMAIN provided.limits
    BY <1>4, <2>1, <2>2
  <2> QED BY <1>1, <2>1, <2>3, LimitAdmitted
<1>6. ASSUME NEW limit \in DOMAIN o.limits PROVE AdmitsLimit(b, o, limit, o.limits[limit])
  <2>1. o.limits[limit] \in Nat /\ (limit \in DOMAIN r.limits => r.limits[limit] \in Nat)
    BY <1>3 DEF AreLimits
  <2>2. o.limits[limit] <= RequiredLimit(r, o, limit) /\ RequiredLimit(r, o, limit) \in Int
    BY <2>1 DEF RequiredLimit, Greater
  <2>3. o.limits[limit] <= provided.limits[limit] /\ limit \in DOMAIN provided.limits
    BY <1>4, <2>1, <2>2
  <2> QED BY <1>1, <2>1, <2>3, LimitAdmitted
<1>7. ASSUME "append-only" \in r.guarantees \cup o.guarantees
      PROVE  /\ b.manifest # None => "append-only" \in adv.guarantees
             /\ o.contract = EvidenceAppend /\ Profiles[b.profile].adapter = ClickHouse /\ layouts # None =>
                  \A l \in Elements(layouts) : l.resource.catalog = "evidence" => l.appendOnly
  <2>1. "append-only" \in provided.guarantees
    BY <1>7 DEF OperationProvided
  <2>2. provided.guarantees =
          IF o.contract = EvidenceAppend
            THEN ConfiguredGuarantees(adv.guarantees, Selected(b), b.connection.settings, b.manifest # None)
            ELSE adv.guarantees
    BY <1>1, ProvidedFacts
  <2>3. LayoutsCount(Selected(b), b.connection.settings) <=> Profiles[b.profile].adapter = ClickHouse /\ layouts # None
    BY SelectedFacts DEF LayoutsCount, IsEngineProfile
  <2>4. b.manifest # None => "append-only" \in adv.guarantees
    BY <2>1, <2>2 DEF ConfiguredGuarantees
  <2>5. o.contract = EvidenceAppend /\ LayoutsCount(Selected(b), b.connection.settings) => AppendOnly(layouts)
    BY <2>1, <2>2 DEF ConfiguredGuarantees
  <2>6. AppendOnly(layouts) => \A l \in Elements(layouts) : l.resource.catalog = "evidence" => l.appendOnly
    BY DEF AppendOnly, EvidenceLayouts
  <2> QED BY <2>3, <2>4, <2>5, <2>6
<1> QED BY <1>2, <1>5, <1>6, <1>7 DEF AdmitsOperation

-----------------------------------------------------------------------------
(* The author: the invariant.                                              *)
\* A plan is that of a specification the planner accepted, and a specification that was refused is
\* one that it does not accept.
PlanSound(p) ==
  p # NoPlan => Sound(p.spec) /\ p.host \in Hosts /\ Accepts(p.spec, p.host) /\ p = PlanOf(p.spec, p.host)

AuthorInv ==
  /\ author \in DOMAIN Authors /\ edits \in 0..Authors[author].edits
  /\ verdict \in {"edited", "accepted", "rejected"}
  /\ SpecificationTyped(spec)
  /\ PlanSound(before) /\ PlanSound(after)
  /\ after = NoPlan => before = NoPlan
  /\ verdict = "rejected" => \E h \in Hosts : ~Accepts(spec, h)

LEMMA PlanFields ==
  ASSUME NEW s, NEW h
  PROVE  /\ PlanOf(s, h) # NoPlan
         /\ PlanOf(s, h).spec = s /\ PlanOf(s, h).host = h /\ PlanOf(s, h).config = Rendered(s, h)
         /\ PlanOf(s, h).placed = PlacementBindings(s)
         /\ DOMAIN PlanOf(s, h).bindings = Keys(s)
<1>1. DOMAIN PlanOf(s, h) # DOMAIN NoPlan
  BY DEF PlanOf, NoPlan
<1>2. PlanOf(s, h) # NoPlan
  BY <1>1
<1> QED BY <1>2 DEF PlanOf

\* The rules of catalogPlacementRules are a list, of one rule for each catalog.
CatalogsInOrder(chosen, h) == Sorted(DOMAIN chosen, LAMBDA x, y : Precedes(h, x, y))
LEMMA CatalogRulesListed ==
  ASSUME NEW catalogs, CatalogsTyped(catalogs), NEW chosen, DOMAIN chosen = NamesOfCatalogs(catalogs),
         NEW h \in Hosts
  PROVE  LET sorted == CatalogsInOrder(chosen, h)
             rules == CatalogPlacementRules(chosen, h)
         IN  /\ Arranges(sorted, DOMAIN chosen) /\ IsList(rules) /\ DOMAIN rules = DOMAIN sorted
             /\ \A i \in DOMAIN rules :
                  rules[i] = [id |-> "primary-" \o sorted[i], binding |-> chosen[sorted[i]],
                              selector |-> [resources |-> <<>>, catalog |-> sorted[i], labels |-> <<>>]]
<1> DEFINE S == DOMAIN chosen
           named == [c \in Elements(catalogs) |-> c.name]
           key == [x \in S |-> Collation[h][x]]
           below(x) == Cardinality({y \in S : Collation[h][y] < Collation[h][x]})
           rank(x) == KeyRank(key, S, x)
           sorted == CatalogsInOrder(chosen, h)
           rules == CatalogPlacementRules(chosen, h)
<1>1. IsFiniteSet(S) /\ Cardinality(S) \in Nat
  <2>1. IsFiniteSet(Elements(catalogs))
    BY ListFacts DEF CatalogsTyped
  <2>2. named \in Surjection(Elements(catalogs), S)
    BY DEF Surjection, NamesOfCatalogs
  <2> HIDE DEF S, named
  <2> QED BY <2>1, <2>2, FS_Surjection, FS_CardinalityType
<1>2. \A x \in S : HasPlace(x)
  BY DEF CatalogsTyped, NamesOfCatalogs
<1>3. KeysDiffer(key, S)
  BY <1>2, CollationAssumption DEF HasPlace, IsOrder, KeysDiffer
<1>4. \A x \in S : below(x) = rank(x)
  <2> SUFFICES ASSUME NEW x \in S PROVE below(x) = rank(x)
    OBVIOUS
  <2>1. {y \in S : Collation[h][y] < Collation[h][x]} = {y \in S : key[y] < key[x]}
    OBVIOUS
  <2> QED BY <2>1 DEF KeyRank
<1>5. DOMAIN sorted = 1..Cardinality(S) /\ \A k \in 1..Cardinality(S) : sorted[k] = CHOOSE x \in S : below(x) = k - 1
  BY DEF CatalogsInOrder, Sorted, Precedes
<1>6. PicksByKey(sorted, key, S)
  <2> HIDE DEF S, sorted, key, below, rank
  <2>1. \A k \in 1..Cardinality(S) : sorted[k] = CHOOSE x \in S : rank(x) = k - 1
    BY <1>4, <1>5
  <2>2. \A k \in 1..Cardinality(S) : sorted[k] = CHOOSE x \in S : KeyRank(key, S, x) = k - 1
    BY <2>1 DEF rank
  <2> QED BY <1>5, <2>2 DEF PicksByKey
<1>7. Arranges(sorted, S)
  <2> HIDE DEF S, sorted, key
  <2> QED BY <1>1, <1>3, <1>6, SortByKey
<1>8. DOMAIN rules = DOMAIN sorted /\ \A i \in DOMAIN rules :
        rules[i] = [id |-> "primary-" \o sorted[i], binding |-> chosen[sorted[i]],
                    selector |-> [resources |-> <<>>, catalog |-> sorted[i], labels |-> <<>>]]
  BY DEF CatalogPlacementRules, CatalogsInOrder
<1>9. rules = [i \in DOMAIN sorted |-> rules[i]]
  BY DEF CatalogPlacementRules, CatalogsInOrder
<1> HIDE DEF S, sorted, rules
<1>10. IsList(rules)
  BY <1>1, <1>5, <1>8, <1>9 DEF IsList, Elements
<1> QED BY <1>7, <1>8, <1>10 DEF S, sorted, rules

LEMMA CatalogRulesTyped ==
  ASSUME NEW catalogs, CatalogsTyped(catalogs), NEW chosen, DOMAIN chosen = NamesOfCatalogs(catalogs),
         NEW h \in Hosts
  PROVE  PlacementsTyped(CatalogPlacementRules(chosen, h))
<1> DEFINE sorted == CatalogsInOrder(chosen, h)
           rules == CatalogPlacementRules(chosen, h)
<1>1. /\ Arranges(sorted, DOMAIN chosen) /\ IsList(rules) /\ DOMAIN rules = DOMAIN sorted
      /\ \A i \in DOMAIN rules :
           rules[i] = [id |-> "primary-" \o sorted[i], binding |-> chosen[sorted[i]],
                       selector |-> [resources |-> <<>>, catalog |-> sorted[i], labels |-> <<>>]]
  BY CatalogRulesListed
<1>2. \A x \in DOMAIN chosen : HasPlace("primary-" \o x)
  BY DEF CatalogsTyped, NamesOfCatalogs
<1> HIDE DEF sorted, rules
<1>3. ASSUME NEW i \in DOMAIN rules PROVE RuleTyped(rules[i])
  <2>1. sorted[i] \in DOMAIN chosen
    BY <1>1 DEF Arranges
  <2>2. rules[i].id = "primary-" \o sorted[i] /\ rules[i].selector = [resources |-> <<>>, catalog |-> sorted[i], labels |-> <<>>]
    BY <1>1
  <2>3. IsList(<<>>) /\ Elements(<<>>) = {}
    BY DEF IsList, Elements
  <2>4. DOMAIN rules[i] = {"id", "selector", "binding"}
    BY <1>1
  <2> QED BY <1>2, <2>1, <2>2, <2>3, <2>4 DEF RuleTyped
<1> QED BY <1>1, <1>3 DEF PlacementsTyped, Elements, rules

\* Every edit puts a typed specification in the place of another.
LEMMA EditsAreTyped ==
  ASSUME AuthorInv, EditSpecification
  PROVE  /\ SpecificationTyped(spec') /\ author' = author /\ edits' \in 0..Authors[author].edits
         /\ verdict' = "edited" /\ UNCHANGED <<before, after>>
<1> DEFINE choice == Authors[author]
           edited(s) == /\ spec' = s /\ verdict' = "edited" /\ edits' = edits + 1
                        /\ UNCHANGED <<author, before, after>>
<1>1. author \in DOMAIN Authors /\ SpecificationTyped(spec) /\ edits \in 0..choice.edits
  BY DEF AuthorInv
<1>2. choice.edits \in Nat
  BY <1>1, AuthorsAssumption
<1>3. edits < choice.edits
  BY DEF EditSpecification
<1>4. \/ EditResources(choice) \/ EditBindings(choice) \/ EditPlacements(choice) \/ EditPolicies(choice)
      \/ EditToCatalogRules
  BY DEF EditSpecification
<1>5. CASE EditResources(choice)
  <2>1. PICK list \in choice.resources : edited([spec EXCEPT !.resources = list])
    BY <1>5 DEF EditResources, Edit
  <2>2. ResourcesTyped(list)
    BY <1>1, AuthorsAssumption
  <2>3. SpecificationTyped([spec EXCEPT !.resources = list])
    BY <1>1, <2>2 DEF SpecificationTyped
  <2> QED BY <1>1, <1>2, <1>3, <2>1, <2>3
<1>6. CASE EditBindings(choice)
  <2>1. PICK list \in choice.bindings : edited([spec EXCEPT !.bindings = list])
    BY <1>6 DEF EditBindings, Edit
  <2>2. BindingsTyped(list)
    BY <1>1, AuthorsAssumption
  <2>3. SpecificationTyped([spec EXCEPT !.bindings = list])
    BY <1>1, <2>2 DEF SpecificationTyped
  <2> QED BY <1>1, <1>2, <1>3, <2>1, <2>3
<1>7. CASE EditPlacements(choice)
  <2>1. PICK list \in choice.placements : edited([spec EXCEPT !.placements = list])
    BY <1>7 DEF EditPlacements, Edit
  <2>2. PlacementsTyped(list)
    BY <1>1, AuthorsAssumption
  <2>3. SpecificationTyped([spec EXCEPT !.placements = list])
    BY <1>1, <2>2 DEF SpecificationTyped
  <2> QED BY <1>1, <1>2, <1>3, <2>1, <2>3
<1>8. CASE EditPolicies(choice)
  <2>1. PICK p \in choice.policies :
          edited([spec EXCEPT !.live = p.live, !.validation = p.validation, !.telemetry = p.telemetry])
    BY <1>8 DEF EditPolicies, Edit
  <2>2. SpecificationTyped([spec EXCEPT !.live = p.live, !.validation = p.validation, !.telemetry = p.telemetry])
    BY <1>1 DEF SpecificationTyped
  <2> QED BY <1>1, <1>2, <1>3, <2>1, <2>2
<1>9. CASE EditToCatalogRules
  <2>1. PICK h \in Hosts, chosen \in [NamesOfCatalogs(spec.catalogs) -> {b.id : b \in Elements(spec.bindings)}] :
          edited([spec EXCEPT !.placements = CatalogPlacementRules(chosen, h)])
    BY <1>9 DEF EditToCatalogRules, Edit
  <2>2. PlacementsTyped(CatalogPlacementRules(chosen, h))
    BY <1>1, CatalogRulesTyped DEF SpecificationTyped
  <2>3. SpecificationTyped([spec EXCEPT !.placements = CatalogPlacementRules(chosen, h)])
    BY <1>1, <2>2 DEF SpecificationTyped
  <2> QED BY <1>1, <1>2, <1>3, <2>1, <2>3
<1> QED BY <1>4, <1>5, <1>6, <1>7, <1>8, <1>9

THEOREM AuthorInvariant == AuthorSpec => []AuthorInv
<1>1. AuthorInit => AuthorInv
  <2> SUFFICES ASSUME AuthorInit PROVE AuthorInv
    OBVIOUS
  <2>1. author \in DOMAIN Authors /\ spec \in Authors[author].starts /\ edits = 0 /\ verdict = "edited"
    BY DEF AuthorInit
  <2>2. Authors[author].edits \in Nat /\ SpecificationTyped(spec)
    BY <2>1, AuthorsAssumption
  <2>3. PlanSound(before) /\ PlanSound(after) /\ before = NoPlan
    BY DEF AuthorInit, PlanSound
  <2> QED BY <2>1, <2>2, <2>3 DEF AuthorInv
<1>2. AuthorInv /\ [AuthorNext]_authorVars => AuthorInv'
  <2> SUFFICES ASSUME AuthorInv, [AuthorNext]_authorVars PROVE AuthorInv'
    OBVIOUS
  <2>1. CASE EditSpecification
    <3>1. PlanSound(before)' /\ PlanSound(after)'
      BY <2>1, EditsAreTyped DEF AuthorInv, PlanSound
    <3> QED BY <2>1, <3>1, EditsAreTyped DEF AuthorInv
  <2>2. ASSUME NEW h \in Hosts, Plan(h) PROVE AuthorInv'
    <3>1. UNCHANGED <<author, spec, edits>>
      BY <2>2 DEF Plan
    <3>2. CASE Accepts(spec, h)
      <4>1. verdict' = "accepted" /\ before' = after /\ after' = PlanOf(spec, h)
        BY <2>2, <3>2 DEF Plan
      <4>2. Sound(spec)
        BY <3>2 DEF AuthorInv, Sound, Accepts
      <4>3. PlanSound(PlanOf(spec, h)) /\ PlanOf(spec, h) # NoPlan
        BY <3>2, <4>2, PlanFields DEF PlanSound
      <4> QED BY <3>1, <4>1, <4>3 DEF AuthorInv, PlanSound
    <3>3. CASE ~Accepts(spec, h)
      <4>1. verdict' = "rejected" /\ before' = before /\ after' = after
        BY <2>2, <3>3 DEF Plan
      <4> QED BY <3>1, <3>3, <4>1 DEF AuthorInv, PlanSound
    <3> QED BY <3>2, <3>3
  <2>3. CASE UNCHANGED authorVars
    BY <2>3 DEF AuthorInv, authorVars, PlanSound
  <2> QED BY <2>1, <2>2, <2>3 DEF AuthorNext
<1> QED BY <1>1, <1>2, PTL DEF AuthorSpec

\* The engine on which a sound specification places a Resource admits its operations.
LEMMA EngineAdmits ==
  ASSUME NEW s, Sound(s), NEW r \in Elements(s.resources), NEW o \in Elements(r.operations)
  PROVE  AdmitsOperation(BindingOf(s, PlacementBindings(s)[SelectorKey(r.selector)]), r, o)
<1> DEFINE key == SelectorKey(r.selector)
           b == BindingOf(s, PlacementBindings(s)[key])
<1>1. key \in Keys(s)
  BY DEF Keys
<1>2. b \in Elements(s.bindings)
  BY <1>1, BindingFound
<1>3. BindingValid(b)
  BY <1>2 DEF Sound, Judged, BindingsValid
<1>4. IsRequirement(r)
  BY DEF Sound, Judged, ResourcesValid
<1>5. OperationProvided(r, o, PlannedProfile(b))
  BY DEF Sound, Judged, RequirementsServed, CapabilitiesProvided
<1> HIDE DEF b
<1>6. AdmitsOperation(b, r, o)
  BY <1>3, <1>4, <1>5, OperationAdmitted
<1> QED BY <1>6 DEF b

\* Whatever the author wrote and wherever it was planned: an engine that runs with the settings
\* of its binding and is what its pinned manifest says admits what a planned Resource requires
\* of it (configuredCapabilityProfile, validateCapabilities).
THEOREM PlannedEnginesAdmit == AuthorSpec => []EnginesAdmit
<1>1. AuthorInv => EnginesAdmit
  <2> SUFFICES ASSUME AuthorInv, after # NoPlan,
                      NEW r \in Elements(after.spec.resources), NEW o \in Elements(r.operations)
               PROVE  AdmitsOperation(BindingOf(after.spec, after.placed[SelectorKey(r.selector)]), r, o)
    BY DEF EnginesAdmit
  <2>1. Sound(after.spec) /\ after = PlanOf(after.spec, after.host)
    BY DEF AuthorInv, PlanSound
  <2>2. after.placed = PlacementBindings(after.spec)
    BY <2>1, PlanFields
  <2> QED BY <2>1, <2>2, EngineAdmits
<1> QED BY <1>1, AuthorInvariant, PTL

-----------------------------------------------------------------------------
(* What a judged specification is rendered as.                             *)
\* The bindings and the rules of a configuration are those that the author wrote, each once.
LEMMA BindingsRendered ==
  ASSUME NEW s, Sound(s), NEW h \in Hosts
  PROVE  /\ Arranges(SortedById(s.bindings, h), Elements(s.bindings))
         /\ DOMAIN RenderedBindings(s, h) = DOMAIN SortedById(s.bindings, h)
         /\ \A i \in DOMAIN RenderedBindings(s, h) :
              RenderedBindings(s, h)[i] = RenderedBinding(SortedById(s.bindings, h)[i])
<1>1. IsList(s.bindings) /\ Identified(s.bindings)
  BY DEF Sound, SpecificationTyped, BindingsTyped, Judged, BindingsValid, Identified
<1>2. \A b \in Elements(s.bindings) : HasPlace(b.id)
  BY DEF Sound, SpecificationTyped, BindingsTyped, Judged, BindingsValid, BindingValid
<1>3. Arranges(SortedById(s.bindings, h), Elements(s.bindings))
  BY <1>1, <1>2, SortById
<1> QED BY <1>3 DEF RenderedBindings

LEMMA RulesRendered ==
  ASSUME NEW s, Sound(s), NEW h \in Hosts
  PROVE  /\ Arranges(SortedById(s.placements, h), Elements(s.placements))
         /\ DOMAIN RenderedRules(s, h) = DOMAIN SortedById(s.placements, h)
         /\ \A i \in DOMAIN RenderedRules(s, h) :
              RenderedRules(s, h)[i] = RenderedRule(SortedById(s.placements, h)[i], h)
<1>1. IsList(s.placements) /\ Identified(s.placements)
  BY DEF Sound, SpecificationTyped, PlacementsTyped, Judged, PlacementsValid, Identified
<1>2. \A p \in Elements(s.placements) : HasPlace(p.id)
  BY DEF Sound, SpecificationTyped, PlacementsTyped, RuleTyped, Judged, PlacementsValid
<1>3. Arranges(SortedById(s.placements, h), Elements(s.placements))
  BY <1>1, <1>2, SortById
<1> QED BY <1>3 DEF RenderedRules

\* The Resources that a rule names are sorted, never lost or added.
LEMMA NamedResources ==
  ASSUME NEW list, IsList(list), DistinctBy(list, SelectorKey), NEW h \in Hosts,
         \A n \in Elements(list) : HasPlace(SelectorKey(n))
  PROVE  /\ Elements(SortedBy(list, SelectorKey, h)) = Elements(list)
         /\ SortedBy(list, SelectorKey, h) = <<>> <=> list = <<>>
<1> DEFINE sorted == SortedBy(list, SelectorKey, h)
<1>1. Arranges(sorted, Elements(list))
  BY SortBySelector
<1>2. DOMAIN sorted = 1..Cardinality(Elements(list))
  BY DEF SortedBy, Sorted
<1>3. sorted = [i \in 1..Cardinality(Elements(list)) |-> sorted[i]]
  <2> DEFINE place(i) == CHOOSE x \in Elements(list) :
                           Cardinality({y \in Elements(list) : Precedes(h, SelectorKey(y), SelectorKey(x))}) = i - 1
  <2>1. sorted = [i \in 1..Cardinality(Elements(list)) |-> place(i)]
    BY DEF SortedBy, Sorted
  <2> HIDE DEF place, sorted
  <2> QED BY <2>1
<1> HIDE DEF sorted
<1>4. Elements(sorted) = Elements(list)
  BY <1>1 DEF Arranges, Elements
<1>5. Cardinality(Elements(list)) \in Nat /\ (Cardinality(Elements(list)) = 0 <=> Elements(list) = {})
  BY ListFacts, FS_CardinalityType, FS_EmptySet
<1>6. list = <<>> <=> Elements(list) = {}
  BY DEF IsList, Elements
<1>7. sorted \in Seq(Elements(list)) /\ Len(sorted) = Cardinality(Elements(list))
  BY <1>1, <1>2, <1>3, <1>5 DEF Arranges
<1>8. sorted = <<>> <=> Len(sorted) = 0
  BY <1>7
<1> QED BY <1>4, <1>5, <1>6, <1>7, <1>8 DEF sorted

\* A rendered rule matches what the rule of the author matches.
LEMMA RenderedRuleMatches ==
  ASSUME NEW s, Sound(s), NEW rule \in Elements(s.placements), NEW h \in Hosts, NEW r
  PROVE  /\ Matches(RenderedRule(rule, h), r) <=> Matches(rule, r)
         /\ RenderedRule(rule, h).binding = rule.binding /\ RenderedRule(rule, h).id = rule.id
<1> DEFINE list == rule.selector.resources
           sorted == SortedBy(list, SelectorKey, h)
           rendered == RenderedRule(rule, h)
<1>1. RuleTyped(rule) /\ IsPlacementSelector(rule.selector)
  BY DEF Sound, SpecificationTyped, PlacementsTyped, Judged, PlacementsValid
<1>2. IsList(list) /\ DistinctBy(list, SelectorKey) /\ \A n \in Elements(list) : HasPlace(SelectorKey(n))
  BY <1>1 DEF RuleTyped, IsPlacementSelector
<1>3. Elements(sorted) = Elements(list) /\ (sorted = <<>> <=> list = <<>>)
  BY <1>2, NamedResources
<1>4. rendered.selector = [rule.selector EXCEPT !.resources = sorted]
  BY DEF RenderedRule
<1> HIDE DEF sorted, rendered
<1>5. rendered.selector.resources = sorted /\ rendered.selector.catalog = rule.selector.catalog
      /\ rendered.selector.labels = rule.selector.labels
  BY <1>1, <1>4 DEF RuleTyped
<1>6. Matches(rendered, r) <=> Matches(rule, r)
  BY <1>3, <1>5 DEF Matches
<1> QED BY <1>6 DEF rendered, RenderedRule

\* One rendered rule matches a Resource, and it names the binding of the plan.
LEMMA PlacedInRendering ==
  ASSUME NEW s, Sound(s), NEW h \in Hosts, NEW key \in Keys(s)
  PROVE  \E i \in DOMAIN RenderedRules(s, h) :
           /\ \A j \in DOMAIN RenderedRules(s, h) : Matches(RenderedRules(s, h)[j], Requirement(s, key)) <=> j = i
           /\ RenderedRules(s, h)[i].binding = PlacementBindings(s)[key]
<1> DEFINE r == Requirement(s, key)
           sorted == SortedById(s.placements, h)
           rules == RenderedRules(s, h)
<1>1. PICK m \in DOMAIN s.placements :
        /\ \A j \in DOMAIN s.placements : Matches(s.placements[j], r) <=> j = m
        /\ PlacementBindings(s)[key] = s.placements[m].binding
  BY Placement, SoundIsPlaceable
<1> DEFINE rule == s.placements[m]
<1>2. rule \in Elements(s.placements)
  BY DEF Elements
<1>3. \A x \in Elements(s.placements) : Matches(x, r) <=> x = rule
  BY <1>1 DEF Elements
<1>4. Arranges(sorted, Elements(s.placements)) /\ DOMAIN rules = DOMAIN sorted
      /\ \A i \in DOMAIN sorted : rules[i] = RenderedRule(sorted[i], h)
  BY RulesRendered
<1> HIDE DEF r, sorted, rules, rule
<1>5. PICK i \in DOMAIN sorted : sorted[i] = rule
  BY <1>2, <1>4 DEF Arranges
<1>6. ASSUME NEW j \in DOMAIN sorted PROVE Matches(rules[j], r) <=> j = i
  <2>1. sorted[j] \in Elements(s.placements)
    BY <1>4 DEF Arranges
  <2>2. Matches(rules[j], r) <=> Matches(sorted[j], r)
    BY <1>4, <2>1, RenderedRuleMatches
  <2>3. sorted[j] = rule <=> j = i
    BY <1>4, <1>5 DEF Arranges
  <2> QED BY <1>3, <2>1, <2>2, <2>3
<1>7. rules[i].binding = rule.binding
  BY <1>2, <1>4, <1>5, RenderedRuleMatches
<1> QED BY <1>1, <1>4, <1>6, <1>7 DEF r, rules, rule

-----------------------------------------------------------------------------
(* Placement: the parts of PlacementSound, of any two sound plans.         *)
LEMMA ConfigOfPlan ==
  ASSUME NEW p, p # NoPlan, PlanSound(p)
  PROVE  /\ Sound(p.spec) /\ p.host \in Hosts
         /\ p.placed = PlacementBindings(p.spec) /\ DOMAIN p.bindings = Keys(p.spec)
         /\ p.config.placements = RenderedRules(p.spec, p.host)
         /\ p.config.bindings = RenderedBindings(p.spec, p.host)
<1>1. Sound(p.spec) /\ p.host \in Hosts /\ p = PlanOf(p.spec, p.host)
  BY DEF PlanSound
<1>2. p.config = Rendered(p.spec, p.host) /\ p.placed = PlacementBindings(p.spec) /\ DOMAIN p.bindings = Keys(p.spec)
  BY <1>1, PlanFields
<1> QED BY <1>1, <1>2 DEF Rendered

LEMMA PlacementIsFunction ==
  ASSUME NEW s
  PROVE  PlacementBindings(s) = [key \in Keys(s) |-> PlacementBindings(s)[key]]
<1> DEFINE at(key) == s.placements[CHOOSE i \in DOMAIN s.placements :
                        /\ Matches(s.placements[i], Requirement(s, key))
                        /\ \A j \in 1..(i - 1) : ~Matches(s.placements[j], Requirement(s, key))].binding
<1>1. PlacementBindings(s) = [key \in Keys(s) |-> at(key)]
  BY DEF PlacementBindings
<1> HIDE DEF at
<1> QED BY <1>1

LEMMA TypesHold == AuthorInv => AuthorTypeOK
<1> SUFFICES ASSUME AuthorInv PROVE AuthorTypeOK
  OBVIOUS
<1>1. ASSUME NEW p \in {before, after}, p.spec # None
      PROVE  p.host \in Hosts /\ DOMAIN p.placed = Keys(p.spec) /\ DOMAIN p.bindings = Keys(p.spec)
  <2>1. p # NoPlan
    BY <1>1 DEF NoPlan
  <2>2. PlanSound(p)
    BY DEF AuthorInv
  <2>3. p.host \in Hosts /\ p.placed = PlacementBindings(p.spec) /\ DOMAIN p.bindings = Keys(p.spec)
    BY <2>1, <2>2, ConfigOfPlan
  <2>4. DOMAIN PlacementBindings(p.spec) = Keys(p.spec)
    BY PlacementIsFunction
  <2> QED BY <2>3, <2>4
<1> QED BY <1>1 DEF AuthorInv, AuthorTypeOK

LEMMA ExactlyOneRule ==
  ASSUME NEW p, p # NoPlan, PlanSound(p), NEW key \in Keys(p.spec)
  PROVE  \E i \in DOMAIN p.config.placements :
           /\ RulesThatPlace(p, key) = {i}
           /\ p.config.placements[i].binding = p.placed[key]
           /\ \E j \in DOMAIN p.config.bindings : p.config.bindings[j].id = p.placed[key]
<1> DEFINE s == p.spec
           h == p.host
           rules == RenderedRules(s, h)
           engines == RenderedBindings(s, h)
           b == BindingOf(s, PlacementBindings(s)[key])
<1>1. Sound(s) /\ h \in Hosts /\ p.placed = PlacementBindings(s)
      /\ p.config.placements = rules /\ p.config.bindings = engines
  BY ConfigOfPlan
<1>2. PICK i \in DOMAIN rules :
        /\ \A j \in DOMAIN rules : Matches(rules[j], Requirement(s, key)) <=> j = i
        /\ rules[i].binding = PlacementBindings(s)[key]
  BY <1>1, PlacedInRendering
<1>3. RulesThatPlace(p, key) = {i}
  BY <1>1, <1>2 DEF RulesThatPlace
<1>4. b \in Elements(s.bindings) /\ b.id = PlacementBindings(s)[key]
  BY <1>1, BindingFound
<1>5. PICK j \in DOMAIN engines : engines[j] = RenderedBinding(b)
  BY <1>1, <1>4, BindingsRendered DEF Arranges
<1>6. engines[j].id = b.id
  BY <1>5 DEF RenderedBinding
<1> QED BY <1>1, <1>2, <1>3, <1>4, <1>6

\* Rules that are only added leave every Resource where it is.
LEMMA AddedRules ==
  ASSUME NEW s, NEW t, Sound(s), Sound(t), s.resources = t.resources,
         Elements(s.placements) \subseteq Elements(t.placements)
  PROVE  PlacementBindings(s) = PlacementBindings(t)
<1>1. Keys(s) = Keys(t)
  BY DEF Keys
<1>2. ASSUME NEW key \in Keys(s) PROVE PlacementBindings(s)[key] = PlacementBindings(t)[key]
  <2>1. Requirement(s, key) = Requirement(t, key)
    BY DEF Requirement
  <2> DEFINE r == Requirement(t, key)
  <2>2. PICK i \in DOMAIN s.placements :
          Matches(s.placements[i], r) /\ PlacementBindings(s)[key] = s.placements[i].binding
    BY <2>1, Placement, SoundIsPlaceable
  <2>3. PICK j \in DOMAIN t.placements :
          /\ \A k \in DOMAIN t.placements : Matches(t.placements[k], r) <=> k = j
          /\ PlacementBindings(t)[key] = t.placements[j].binding
    BY <1>1, Placement, SoundIsPlaceable
  <2>4. PICK k \in DOMAIN t.placements : t.placements[k] = s.placements[i]
    BY DEF Elements
  <2> HIDE DEF r
  <2> QED BY <2>2, <2>3, <2>4
<1>3. PlacementBindings(s) = [key \in Keys(s) |-> PlacementBindings(s)[key]]
      /\ PlacementBindings(t) = [key \in Keys(t) |-> PlacementBindings(t)[key]]
  BY PlacementIsFunction
<1> QED BY <1>1, <1>2, <1>3

\* A rule that the template selects is one that places.
LEMMA TemplateRulesPlace ==
  ASSUME NEW p, p # NoPlan, PlanSound(p), NEW key \in Keys(p.spec)
  PROVE  TemplateRules(p, key) \subseteq RulesThatPlace(p, key)
<1> DEFINE r == Requirement(p.spec, key)
<1>1. SelectorKey(r.selector) = key
  BY ConfigOfPlan, RequirementFound, SoundIsPlaceable
<1>2. ASSUME NEW i \in TemplateRules(p, key) PROVE i \in RulesThatPlace(p, key)
  <2>1. i \in DOMAIN p.config.placements /\ Matches(p.config.placements[i], r)
    BY <1>1 DEF TemplateRules, Matches
  <2> QED BY <2>1 DEF RulesThatPlace
<1> QED BY <1>2

\* The rules of catalogPlacementRules: one of them matches a Resource of an installed catalog, and
\* names what was chosen for the catalog.
LEMMA CatalogRulesMatchOnce ==
  ASSUME NEW catalogs, CatalogsTyped(catalogs), NEW chosen, DOMAIN chosen = NamesOfCatalogs(catalogs),
         NEW h \in Hosts, NEW r, CatalogInstalled(r.selector, catalogs)
  PROVE  LET rules == CatalogPlacementRules(chosen, h)
         IN  /\ \E rule \in Elements(rules) : Matching(rules, r) = {rule}
             /\ \A rule \in Elements(rules) : rule.selector.catalog = r.selector.catalog <=> Matches(rule, r)
<1> DEFINE sorted == CatalogsInOrder(chosen, h)
           rules == CatalogPlacementRules(chosen, h)
           catalog == r.selector.catalog
<1>1. /\ Arranges(sorted, DOMAIN chosen) /\ DOMAIN rules = DOMAIN sorted
      /\ \A i \in DOMAIN rules :
           rules[i] = [id |-> "primary-" \o sorted[i], binding |-> chosen[sorted[i]],
                       selector |-> [resources |-> <<>>, catalog |-> sorted[i], labels |-> <<>>]]
  BY CatalogRulesListed
<1>2. catalog \in DOMAIN chosen /\ None \notin DOMAIN chosen
  BY DEF CatalogInstalled, CatalogsTyped, NamesOfCatalogs
<1> HIDE DEF sorted, rules
<1>3. ASSUME NEW i \in DOMAIN rules
      PROVE  rules[i].selector.catalog = sorted[i] /\ (sorted[i] = catalog <=> Matches(rules[i], r))
  <2>1. rules[i].selector = [resources |-> <<>>, catalog |-> sorted[i], labels |-> <<>>]
    BY <1>1
  <2>2. sorted[i] \in DOMAIN chosen
    BY <1>1 DEF Arranges
  <2>3. rules[i].selector.resources = <<>> /\ rules[i].selector.catalog = sorted[i] /\ rules[i].selector.labels = <<>>
    BY <2>1
  <2> QED BY <1>2, <2>2, <2>3 DEF Matches
<1>4. \A rule \in Elements(rules) : \E i \in DOMAIN rules : rule = rules[i]
  BY DEF Elements
<1>5. \A rule \in Elements(rules) : rule.selector.catalog = catalog <=> Matches(rule, r)
  BY <1>3, <1>4
<1>6. PICK k \in DOMAIN sorted : sorted[k] = catalog
  BY <1>1, <1>2 DEF Arranges
<1>7. Matching(rules, r) = {rules[k]}
  <2>1. \A i \in DOMAIN rules : sorted[i] = catalog => i = k
    BY <1>1, <1>6 DEF Arranges
  <2>2. rules[k] \in Elements(rules)
    BY <1>1, <1>6 DEF Elements
  <2>3. \A rule \in Elements(rules) : Matches(rule, r) <=> rule = rules[k]
    BY <1>1, <1>3, <1>4, <1>6, <2>1
  <2> QED BY <2>2, <2>3 DEF Matching
<1>8. rules[k] \in Elements(rules)
  BY <1>1, <1>6 DEF Elements
<1> QED BY <1>5, <1>7, <1>8 DEF rules

LEMMA CatalogRulesPlace ==
  ASSUME NEW s, SpecificationTyped(s), PlacesByCatalog(s), NEW r, CatalogInstalled(r.selector, s.catalogs)
  PROVE  \E rule \in Elements(s.placements) :
           Matching(s.placements, r) = {rule} /\ rule.binding = BindingOfCatalog(s, r.selector.catalog)
<1> DEFINE chosen == [c \in NamesOfCatalogs(s.catalogs) |-> BindingOfCatalog(s, c)]
           serves(rule) == rule.selector.catalog = r.selector.catalog
<1>1. PICK h \in Hosts : s.placements = CatalogPlacementRules(chosen, h)
  BY DEF PlacesByCatalog
<1>2. CatalogsTyped(s.catalogs) /\ DOMAIN chosen = NamesOfCatalogs(s.catalogs)
  BY DEF SpecificationTyped
<1> HIDE DEF chosen
<1>3. /\ \E rule \in Elements(s.placements) : Matching(s.placements, r) = {rule}
      /\ \A rule \in Elements(s.placements) : serves(rule) <=> Matches(rule, r)
  BY <1>1, <1>2, CatalogRulesMatchOnce
<1>4. PICK rule \in Elements(s.placements) : Matching(s.placements, r) = {rule}
  BY <1>3
<1>5. \A other \in Elements(s.placements) : serves(other) <=> other = rule
  BY <1>3, <1>4 DEF Matching
<1>6. BindingOfCatalog(s, r.selector.catalog) = (CHOOSE other \in Elements(s.placements) : serves(other)).binding
  BY DEF BindingOfCatalog
<1> HIDE DEF serves
<1>7. (CHOOSE other \in Elements(s.placements) : serves(other)) = rule
  BY <1>5
<1> QED BY <1>4, <1>6, <1>7

\* Whatever an author wrote, in whatever order and on whatever host it was planned: of an
\* accepted plan one rendered rule places each Resource, on the binding the plan says, a rule that
\* was added never takes a Resource over, and the template of a projection job finds the same
\* binding; and the rules of the catalogs place everything (resolvePlacementBindings,
\* durableProjectionJob, catalogPlacementRules).
THEOREM PlacementsAreSound == AuthorSpec => []PlacementSound
<1>1. AuthorInv => PlacementSound
  <2> SUFFICES ASSUME AuthorInv PROVE PlacementSound
    OBVIOUS
  <2>1. PlanSound(before) /\ PlanSound(after) /\ (after = NoPlan => before = NoPlan)
    BY DEF AuthorInv
  <2>2. AuthorTypeOK
    BY TypesHold
  <2>3. ExactlyPlaced
    BY <2>1, ExactlyOneRule DEF ExactlyPlaced
  <2>4. AddedRuleNeverRedirects
    <3> SUFFICES ASSUME before # NoPlan,
                        Elements(before.spec.placements) \subseteq Elements(after.spec.placements),
                        before.spec.resources = after.spec.resources
                 PROVE  before.placed = after.placed
      BY DEF AddedRuleNeverRedirects
    <3>1. /\ Sound(before.spec) /\ before.placed = PlacementBindings(before.spec)
          /\ Sound(after.spec) /\ after.placed = PlacementBindings(after.spec)
      BY <2>1, ConfigOfPlan
    <3> QED BY <3>1, AddedRules
  <2>5. TemplateAgrees
    <3> SUFFICES ASSUME after # NoPlan, NEW key \in Keys(after.spec), NEW i \in TemplateRules(after, key)
                 PROVE  after.config.placements[i].binding = after.placed[key]
      BY DEF TemplateAgrees
    <3>1. PICK j \in DOMAIN after.config.placements :
            RulesThatPlace(after, key) = {j} /\ after.config.placements[j].binding = after.placed[key]
      BY <2>1, ExactlyOneRule
    <3>2. i \in RulesThatPlace(after, key)
      BY <2>1, TemplateRulesPlace
    <3> QED BY <3>1, <3>2
  <2>6. CatalogRulesServe
    <3>1. SpecificationTyped(spec)
      BY DEF AuthorInv
    <3> QED BY <3>1, CatalogRulesPlace DEF CatalogRulesServe
  <2> QED BY <2>2, <2>3, <2>4, <2>5, <2>6 DEF PlacementSound
<1> QED BY <1>1, AuthorInvariant, PTL

-----------------------------------------------------------------------------
(* The order in which an author lists things, and what the schema accepts. *)
\* A list written the other way round has the same elements.
LEMMA ReversedList ==
  ASSUME NEW seq, IsList(seq)
  PROVE  /\ IsList(Reversed(seq)) /\ Len(Reversed(seq)) = Len(seq) /\ DOMAIN Reversed(seq) = DOMAIN seq
         /\ Elements(Reversed(seq)) = Elements(seq)
         /\ Reversed(seq) = <<>> <=> seq = <<>>
         /\ \A i \in DOMAIN seq : Len(seq) + 1 - i \in DOMAIN seq /\ Reversed(seq)[i] = seq[Len(seq) + 1 - i]
<1> DEFINE n == Len(seq)
<1>1. n \in Nat /\ DOMAIN seq = 1..n
  BY ListFacts
<1>2. Reversed(seq) = [i \in 1..n |-> seq[n + 1 - i]]
  BY <1>1 DEF Reversed
<1>3. \A i \in 1..n : n + 1 - i \in 1..n /\ n + 1 - (n + 1 - i) = i
  BY <1>1
<1>4. Elements(Reversed(seq)) = Elements(seq)
  <2>1. \A i \in 1..n : Reversed(seq)[i] = seq[n + 1 - i] /\ seq[i] = Reversed(seq)[n + 1 - i]
    BY <1>2, <1>3
  <2>2. DOMAIN Reversed(seq) = 1..n
    BY <1>2
  <2> HIDE DEF n
  <2> QED BY <1>1, <1>3, <2>1, <2>2 DEF Elements
<1>5. Reversed(seq) \in Seq(Elements(seq)) /\ Len(Reversed(seq)) = n
  <2>1. \A i \in 1..n : seq[n + 1 - i] \in Elements(seq)
    BY <1>1, <1>3 DEF Elements
  <2> QED BY <1>1, <1>2, <2>1
<1>6. Reversed(seq) = <<>> <=> seq = <<>>
  BY <1>1, <1>5 DEF IsList
<1> QED BY <1>1, <1>2, <1>3, <1>4, <1>5, <1>6 DEF IsList

LEMMA ReorderedFields ==
  ASSUME NEW r, RequirementTyped(r)
  PROVE  LET q == ReorderedRequirement(r)
         IN  /\ RequirementTyped(q)
             /\ q.selector = r.selector /\ q.dataClass = r.dataClass /\ q.guarantees = r.guarantees
             /\ q.limits = r.limits /\ q.labels = r.labels /\ q.retention = r.retention
             /\ q.schemas = Reversed(r.schemas) /\ q.operations = Reversed(r.operations)
<1> DEFINE q == ReorderedRequirement(r)
<1>1. /\ DOMAIN q = DOMAIN r
      /\ q.selector = r.selector /\ q.dataClass = r.dataClass /\ q.guarantees = r.guarantees
      /\ q.limits = r.limits /\ q.labels = r.labels /\ q.retention = r.retention
      /\ q.schemas = Reversed(r.schemas) /\ q.operations = Reversed(r.operations)
  BY DEF RequirementTyped, ReorderedRequirement
<1>2. IsList(q.schemas) /\ IsList(q.operations)
  BY <1>1, ReversedList DEF RequirementTyped
<1> QED BY <1>1, <1>2 DEF RequirementTyped

LEMMA ReorderedRuleFields ==
  ASSUME NEW rule, RuleTyped(rule)
  PROVE  LET q == ReorderedRule(rule)
         IN  /\ RuleTyped(q) /\ q.id = rule.id /\ q.binding = rule.binding
             /\ q.selector.catalog = rule.selector.catalog /\ q.selector.labels = rule.selector.labels
             /\ q.selector.resources = Reversed(rule.selector.resources)
<1> DEFINE q == ReorderedRule(rule)
<1>1. /\ DOMAIN q = DOMAIN rule /\ q.id = rule.id /\ q.binding = rule.binding
      /\ DOMAIN q.selector = DOMAIN rule.selector
      /\ q.selector.catalog = rule.selector.catalog /\ q.selector.labels = rule.selector.labels
      /\ q.selector.resources = Reversed(rule.selector.resources)
  BY DEF RuleTyped, ReorderedRule
<1>2. IsList(q.selector.resources) /\ Elements(q.selector.resources) = Elements(rule.selector.resources)
  BY <1>1, ReversedList DEF RuleTyped
<1> QED BY <1>1, <1>2 DEF RuleTyped

\* The lists of a specification that was written the other way round.
LEMMA ReorderedLists ==
  ASSUME NEW s, SpecificationTyped(s)
  PROVE  LET o == Reordered(s)
         IN  /\ SpecificationTyped(o)
             /\ o.profile = s.profile /\ o.live = s.live /\ o.validation = s.validation /\ o.telemetry = s.telemetry
             /\ o.catalogs = Reversed(s.catalogs) /\ o.providers = Reversed(s.providers)
             /\ o.bindings = Reversed(s.bindings)
             /\ Len(o.resources) = Len(s.resources) /\ (o.resources = <<>> <=> s.resources = <<>>)
             /\ Elements(o.resources) = {ReorderedRequirement(r) : r \in Elements(s.resources)}
             /\ Len(o.placements) = Len(s.placements) /\ (o.placements = <<>> <=> s.placements = <<>>)
             /\ Elements(o.placements) = {ReorderedRule(rule) : rule \in Elements(s.placements)}
<1> DEFINE o == Reordered(s)
           resources == [i \in DOMAIN s.resources |-> ReorderedRequirement(Reversed(s.resources)[i])]
           placements == [i \in DOMAIN s.placements |-> ReorderedRule(Reversed(s.placements)[i])]
<1>1. /\ DOMAIN o = DOMAIN s /\ o.profile = s.profile /\ o.live = s.live /\ o.validation = s.validation
      /\ o.telemetry = s.telemetry /\ o.catalogs = Reversed(s.catalogs) /\ o.providers = Reversed(s.providers)
      /\ o.bindings = Reversed(s.bindings) /\ o.resources = resources /\ o.placements = placements
  BY DEF SpecificationTyped, Reordered
<1>2. IsList(s.catalogs) /\ IsList(s.providers) /\ IsList(s.bindings) /\ IsList(s.resources) /\ IsList(s.placements)
  BY DEF SpecificationTyped, CatalogsTyped, ProvidersTyped, BindingsTyped, ResourcesTyped, PlacementsTyped
<1>3. /\ IsList(resources) /\ Len(resources) = Len(s.resources) /\ (resources = <<>> <=> s.resources = <<>>)
      /\ Elements(resources) = {ReorderedRequirement(r) : r \in Elements(s.resources)}
  <2> DEFINE seq == Reversed(s.resources)
  <2>1. IsList(seq) /\ Len(seq) = Len(s.resources) /\ DOMAIN seq = DOMAIN s.resources
        /\ Elements(seq) = Elements(s.resources) /\ (seq = <<>> <=> s.resources = <<>>)
    BY <1>2, ReversedList
  <2>2. Len(seq) \in Nat /\ DOMAIN seq = 1..Len(seq)
    BY <2>1, ListFacts
  <2>3. resources = [i \in 1..Len(seq) |-> ReorderedRequirement(seq[i])]
    BY <2>1, <2>2
  <2> HIDE DEF seq, resources
  <2>4. Elements(resources) = {ReorderedRequirement(r) : r \in Elements(seq)}
    BY <2>2, <2>3 DEF Elements
  <2>5. resources \in Seq(Elements(resources)) /\ Len(resources) = Len(seq)
    BY <2>2, <2>3 DEF Elements
  <2>6. resources = <<>> <=> seq = <<>>
    BY <2>1, <2>2, <2>5 DEF IsList
  <2> QED BY <2>1, <2>4, <2>5, <2>6 DEF IsList
<1>4. /\ IsList(placements) /\ Len(placements) = Len(s.placements) /\ (placements = <<>> <=> s.placements = <<>>)
      /\ Elements(placements) = {ReorderedRule(rule) : rule \in Elements(s.placements)}
  <2> DEFINE seq == Reversed(s.placements)
  <2>1. IsList(seq) /\ Len(seq) = Len(s.placements) /\ DOMAIN seq = DOMAIN s.placements
        /\ Elements(seq) = Elements(s.placements) /\ (seq = <<>> <=> s.placements = <<>>)
    BY <1>2, ReversedList
  <2>2. Len(seq) \in Nat /\ DOMAIN seq = 1..Len(seq)
    BY <2>1, ListFacts
  <2>3. placements = [i \in 1..Len(seq) |-> ReorderedRule(seq[i])]
    BY <2>1, <2>2
  <2> HIDE DEF seq, placements
  <2>4. Elements(placements) = {ReorderedRule(rule) : rule \in Elements(seq)}
    BY <2>2, <2>3 DEF Elements
  <2>5. placements \in Seq(Elements(placements)) /\ Len(placements) = Len(seq)
    BY <2>2, <2>3 DEF Elements
  <2>6. placements = <<>> <=> seq = <<>>
    BY <2>1, <2>2, <2>5 DEF IsList
  <2> QED BY <2>1, <2>4, <2>5, <2>6 DEF IsList
<1> HIDE DEF o, resources, placements
<1>5. CatalogsTyped(o.catalogs) /\ ProvidersTyped(o.providers) /\ BindingsTyped(o.bindings)
  BY <1>1, <1>2, ReversedList DEF SpecificationTyped, CatalogsTyped, ProvidersTyped, BindingsTyped
<1>6. ResourcesTyped(o.resources)
  BY <1>1, <1>3, ReorderedFields DEF SpecificationTyped, ResourcesTyped
<1>7. PlacementsTyped(o.placements)
  BY <1>1, <1>4, ReorderedRuleFields DEF SpecificationTyped, PlacementsTyped
<1>8. SpecificationTyped(o)
  BY <1>1, <1>5, <1>6, <1>7 DEF SpecificationTyped
<1> QED BY <1>1, <1>3, <1>4, <1>8 DEF o

\* Each requirement and each rule is judged as it was, and matches what it matched.
LEMMA ReorderedRequirementFits ==
  ASSUME NEW r, RequirementTyped(r), IsRequirement(r)
  PROVE  IsRequirement(ReorderedRequirement(r))
<1> DEFINE q == ReorderedRequirement(r)
<1>1. /\ q.selector = r.selector /\ q.dataClass = r.dataClass /\ q.guarantees = r.guarantees
      /\ q.limits = r.limits /\ q.labels = r.labels /\ q.retention = r.retention
      /\ q.schemas = Reversed(r.schemas) /\ q.operations = Reversed(r.operations)
  BY ReorderedFields
<1>2. /\ Elements(q.schemas) = Elements(r.schemas) /\ Len(q.schemas) = Len(r.schemas)
      /\ (q.schemas = <<>> <=> r.schemas = <<>>)
      /\ Elements(q.operations) = Elements(r.operations) /\ Len(q.operations) = Len(r.operations)
      /\ (q.operations = <<>> <=> r.operations = <<>>)
  BY <1>1, ReversedList DEF RequirementTyped
<1> HIDE DEF q
<1>3. DistinctBy(q.schemas, LAMBDA x : x.provider) /\ DistinctBy(q.operations, LAMBDA x : x.contract)
  BY <1>2 DEF IsRequirement, DistinctBy
<1>4. (\A x \in Elements(q.schemas) : IsSchemaRequirement(x))
      /\ \A x \in Elements(q.operations) : IsOperationRequirement(x)
  BY <1>2 DEF IsRequirement
<1>5. IsRequirement(q)
  BY <1>1, <1>2, <1>3, <1>4 DEF IsRequirement
<1> QED BY <1>5 DEF q

LEMMA ReorderedMatches ==
  ASSUME NEW rule, RuleTyped(rule), NEW r, RequirementTyped(r)
  PROVE  Matches(ReorderedRule(rule), ReorderedRequirement(r)) <=> Matches(rule, r)
<1> DEFINE q == ReorderedRule(rule)
           p == ReorderedRequirement(r)
<1>1. /\ q.selector.catalog = rule.selector.catalog /\ q.selector.labels = rule.selector.labels
      /\ q.selector.resources = Reversed(rule.selector.resources)
  BY ReorderedRuleFields
<1>2. /\ Elements(q.selector.resources) = Elements(rule.selector.resources)
      /\ (q.selector.resources = <<>> <=> rule.selector.resources = <<>>)
  BY <1>1, ReversedList DEF RuleTyped
<1>3. p.selector = r.selector /\ p.labels = r.labels
  BY ReorderedFields
<1> HIDE DEF q, p
<1>4. Matches(q, p) <=> Matches(rule, r)
  BY <1>1, <1>2, <1>3 DEF Matches
<1> QED BY <1>4 DEF q, p

LEMMA ReorderedPlaceable ==
  ASSUME NEW s, Placeable(s)
  PROVE  Placeable(Reordered(s)) /\ Keys(Reordered(s)) = Keys(s)
<1> DEFINE o == Reordered(s)
           flipped == {ReorderedRequirement(r) : r \in Elements(s.resources)}
<1>0. SpecificationTyped(s)
  BY DEF Placeable
<1>1. /\ SpecificationTyped(o) /\ o.catalogs = Reversed(s.catalogs) /\ o.providers = Reversed(s.providers)
      /\ o.bindings = Reversed(s.bindings)
      /\ Len(o.resources) = Len(s.resources) /\ Elements(o.resources) = flipped
      /\ Len(o.placements) = Len(s.placements)
      /\ Elements(o.placements) = {ReorderedRule(rule) : rule \in Elements(s.placements)}
  BY <1>0, ReorderedLists
<1>2. /\ Elements(o.catalogs) = Elements(s.catalogs) /\ Elements(o.providers) = Elements(s.providers)
      /\ Elements(o.bindings) = Elements(s.bindings)
  BY <1>0, <1>1, ReversedList DEF SpecificationTyped, CatalogsTyped, ProvidersTyped, BindingsTyped
<1>3. \A r \in Elements(s.resources) :
        /\ RequirementTyped(r) /\ ReorderedRequirement(r).selector = r.selector
        /\ ReorderedRequirement(r).schemas = Reversed(r.schemas) /\ IsList(r.schemas)
  BY <1>0, ReorderedFields DEF SpecificationTyped, ResourcesTyped, RequirementTyped
<1>4. \A rule \in Elements(s.placements) : RuleTyped(rule)
  BY <1>0 DEF SpecificationTyped, PlacementsTyped
<1>5. Keys(o) = Keys(s)
  <2> HIDE DEF o
  <2> QED BY <1>1, <1>3 DEF Keys
<1>6. ResourcesValid(o)
  <2>1. DistinctBy(o.resources, LAMBDA r : SelectorKey(r.selector))
    <3>1. Cardinality({SelectorKey(r.selector) : r \in Elements(s.resources)}) = Len(s.resources)
      BY DEF Placeable, ResourcesValid, DistinctBy
    <3>2. {SelectorKey(r.selector) : r \in Elements(o.resources)} = {SelectorKey(r.selector) : r \in Elements(s.resources)}
      BY <1>5 DEF Keys
    <3> HIDE DEF o
    <3> QED BY <1>1, <3>1, <3>2 DEF DistinctBy
  <2>2. ASSUME NEW r \in Elements(s.resources)
        PROVE  LET q == ReorderedRequirement(r)
               IN  /\ IsRequirement(q) /\ CatalogInstalled(q.selector, o.catalogs)
                   /\ \A schema \in Elements(q.schemas) :
                        \E p \in Elements(o.providers) : p.id = schema.provider /\ p.package = schema.package
    <3> DEFINE q == ReorderedRequirement(r)
    <3>1. IsRequirement(q)
      BY <1>3, ReorderedRequirementFits DEF Placeable, ResourcesValid
    <3>2. Elements(q.schemas) = Elements(r.schemas) /\ q.selector = r.selector
      BY <1>3, ReversedList
    <3> HIDE DEF q, o
    <3>3. CatalogInstalled(q.selector, o.catalogs)
      BY <1>2, <3>2 DEF Placeable, ResourcesValid, CatalogInstalled, NamesOfCatalogs
    <3>4. \A schema \in Elements(q.schemas) :
            \E p \in Elements(o.providers) : p.id = schema.provider /\ p.package = schema.package
      BY <1>2, <3>2 DEF Placeable, ResourcesValid
    <3> QED BY <3>1, <3>3, <3>4 DEF q
  <2> HIDE DEF o
  <2> QED BY <1>1, <2>1, <2>2 DEF ResourcesValid
<1>7. PlacementsValid(o)
  <2>1. \A rule \in Elements(s.placements) : ReorderedRule(rule).id = rule.id
    BY <1>4, ReorderedRuleFields
  <2>2. DistinctBy(o.placements, LAMBDA p : p.id)
    <3>1. Cardinality({p.id : p \in Elements(s.placements)}) = Len(s.placements)
      BY DEF Placeable, PlacementsValid, DistinctBy
    <3>2. {p.id : p \in Elements(o.placements)} = {p.id : p \in Elements(s.placements)}
      BY <1>1, <2>1
    <3> HIDE DEF o
    <3> QED BY <1>1, <3>1, <3>2 DEF DistinctBy
  <2>3. ASSUME NEW rule \in Elements(s.placements)
        PROVE  LET p == ReorderedRule(rule)
               IN  /\ IsIdentifier(p.id) /\ IsIdentifier(p.binding) /\ IsPlacementSelector(p.selector)
                   /\ p.binding \in {b.id : b \in Elements(o.bindings)}
    <3> DEFINE p == ReorderedRule(rule)
    <3>1. /\ p.id = rule.id /\ p.binding = rule.binding
          /\ p.selector.catalog = rule.selector.catalog /\ p.selector.labels = rule.selector.labels
          /\ p.selector.resources = Reversed(rule.selector.resources)
      BY <1>4, ReorderedRuleFields
    <3>2. /\ Elements(p.selector.resources) = Elements(rule.selector.resources)
          /\ Len(p.selector.resources) = Len(rule.selector.resources)
          /\ (p.selector.resources = <<>> <=> rule.selector.resources = <<>>)
      BY <1>4, <3>1, ReversedList DEF RuleTyped
    <3>3. /\ IsIdentifier(rule.id) /\ IsIdentifier(rule.binding) /\ IsPlacementSelector(rule.selector)
          /\ rule.binding \in {b.id : b \in Elements(s.bindings)}
      BY DEF Placeable, PlacementsValid
    <3> HIDE DEF p, o
    <3>4. DistinctBy(p.selector.resources, SelectorKey)
      BY <3>2, <3>3 DEF IsPlacementSelector, DistinctBy
    <3>5. IsPlacementSelector(p.selector)
      BY <3>1, <3>2, <3>3, <3>4 DEF IsPlacementSelector
    <3> QED BY <1>2, <3>1, <3>3, <3>5 DEF p
  <2> HIDE DEF o
  <2> QED BY <1>1, <2>2, <2>3 DEF PlacementsValid
<1>8. ASSUME NEW r \in Elements(s.resources) PROVE OneRule(o.placements, ReorderedRequirement(r))
  <2>1. IsFiniteSet(Matching(s.placements, r))
    <3>1. IsFiniteSet(Elements(s.placements)) /\ Matching(s.placements, r) \in SUBSET Elements(s.placements)
      BY <1>0, ListFacts DEF Matching, SpecificationTyped, PlacementsTyped
    <3> QED BY <3>1, FS_Subset
  <2>2. Cardinality(Matching(s.placements, r)) = 1
    BY DEF Placeable, OneRule
  <2>3. PICK rule : Matching(s.placements, r) = {rule}
    BY <2>1, <2>2, FS_Singleton
  <2>4. Matching(o.placements, ReorderedRequirement(r)) = {ReorderedRule(x) : x \in Matching(s.placements, r)}
    <3>1. \A x \in Elements(s.placements) :
            Matches(ReorderedRule(x), ReorderedRequirement(r)) <=> Matches(x, r)
      BY <1>3, <1>4, ReorderedMatches
    <3> HIDE DEF o
    <3> QED BY <1>1, <3>1 DEF Matching
  <2>5. Matching(o.placements, ReorderedRequirement(r)) = {ReorderedRule(rule)}
    BY <2>3, <2>4
  <2> QED BY <2>5, FS_Singleton DEF OneRule
<1>9. \A q \in Elements(o.resources) : OneRule(o.placements, q)
  BY <1>1, <1>8
<1> HIDE DEF o
<1> QED BY <1>1, <1>5, <1>6, <1>7, <1>9 DEF Placeable, o

LEMMA ReorderedRequirementOf ==
  ASSUME NEW s, Placeable(s), NEW key \in Keys(s)
  PROVE  Requirement(Reordered(s), key) = ReorderedRequirement(Requirement(s, key))
<1> DEFINE o == Reordered(s)
           r == Requirement(s, key)
           q == ReorderedRequirement(r)
<1>1. r \in Elements(s.resources) /\ SelectorKey(r.selector) = key
  BY RequirementFound
<1>2. SpecificationTyped(s) /\ RequirementTyped(r)
  BY <1>1 DEF Placeable, SpecificationTyped, ResourcesTyped
<1>3. q \in Elements(o.resources)
  BY <1>1, <1>2, ReorderedLists
<1>4. q.selector = r.selector
  BY <1>2, ReorderedFields
<1>5. Placeable(o)
  BY ReorderedPlaceable
<1> HIDE DEF o, q, r
<1>6. Requirement(o, SelectorKey(q.selector)) = q
  BY <1>3, <1>5, RequirementFound
<1> QED BY <1>1, <1>4, <1>6 DEF o, q, r

LEMMA ReorderedPlacement ==
  ASSUME NEW s, Placeable(s)
  PROVE  PlacementBindings(Reordered(s)) = PlacementBindings(s)
<1> DEFINE o == Reordered(s)
           n == Len(s.placements)
<1>1. Placeable(o) /\ Keys(o) = Keys(s)
  BY ReorderedPlaceable
<1>2. SpecificationTyped(s) /\ IsList(s.placements) /\ \A rule \in Elements(s.placements) : RuleTyped(rule)
  BY DEF Placeable, SpecificationTyped, PlacementsTyped
<1>3. DOMAIN o.placements = DOMAIN s.placements
      /\ \A i \in DOMAIN s.placements :
           /\ n + 1 - i \in DOMAIN s.placements /\ o.placements[i] = ReorderedRule(s.placements[n + 1 - i])
           /\ RuleTyped(s.placements[n + 1 - i])
  <2>1. o.placements = [i \in DOMAIN s.placements |-> ReorderedRule(Reversed(s.placements)[i])]
    BY <1>2 DEF SpecificationTyped, Reordered
  <2>2. \A i \in DOMAIN s.placements :
          n + 1 - i \in DOMAIN s.placements /\ Reversed(s.placements)[i] = s.placements[n + 1 - i]
    BY <1>2, ReversedList
  <2>3. \A i \in DOMAIN s.placements : RuleTyped(s.placements[i])
    BY <1>2 DEF Elements
  <2> HIDE DEF n
  <2> QED BY <2>1, <2>2, <2>3
<1>4. ASSUME NEW key \in Keys(s) PROVE PlacementBindings(o)[key] = PlacementBindings(s)[key]
  <2>1. PICK i \in DOMAIN o.placements :
          /\ \A j \in DOMAIN o.placements : Matches(o.placements[j], Requirement(o, key)) <=> j = i
          /\ PlacementBindings(o)[key] = o.placements[i].binding
    <3> HIDE DEF o
    <3> QED BY <1>1, Placement
  <2>2. PICK k \in DOMAIN s.placements :
          /\ \A j \in DOMAIN s.placements : Matches(s.placements[j], Requirement(s, key)) <=> j = k
          /\ PlacementBindings(s)[key] = s.placements[k].binding
    BY Placement
  <2> DEFINE rule == s.placements[n + 1 - i]
  <2>3. n + 1 - i \in DOMAIN s.placements /\ o.placements[i] = ReorderedRule(rule) /\ RuleTyped(rule)
    BY <1>3
  <2>4. Requirement(o, key) = ReorderedRequirement(Requirement(s, key))
    BY ReorderedRequirementOf
  <2>5. RequirementTyped(Requirement(s, key))
    BY RequirementFound DEF Placeable, SpecificationTyped, ResourcesTyped
  <2>6. Matches(o.placements[i], Requirement(o, key))
    BY <2>1
  <2>7. Matches(rule, Requirement(s, key))
    BY <2>3, <2>4, <2>5, <2>6, ReorderedMatches
  <2>8. rule = s.placements[k]
    BY <2>2, <2>3, <2>7
  <2>9. ReorderedRule(rule).binding = rule.binding
    BY <2>3, ReorderedRuleFields
  <2> HIDE DEF o, rule
  <2> QED BY <2>1, <2>2, <2>3, <2>8, <2>9
<1>5. DOMAIN PlacementBindings(o) = Keys(s) /\ DOMAIN PlacementBindings(s) = Keys(s)
  BY <1>1 DEF PlacementBindings
<1>6. PlacementBindings(o) = [key \in Keys(s) |-> PlacementBindings(s)[key]]
  <2>1. PlacementBindings(o) = [key \in Keys(s) |-> PlacementBindings(o)[key]]
    BY <1>1 DEF PlacementBindings
  <2> HIDE DEF o
  <2> QED BY <1>4, <2>1
<1>7. PlacementBindings(s) = [key \in Keys(s) |-> PlacementBindings(s)[key]]
  BY DEF PlacementBindings
<1> QED BY <1>6, <1>7

LEMMA ReorderedJudged ==
  ASSUME NEW s, Sound(s)
  PROVE  Sound(Reordered(s))
<1> DEFINE o == Reordered(s)
<1>0. SpecificationTyped(s) /\ Placeable(s)
  BY SoundIsPlaceable DEF Sound
<1>1. Placeable(o) /\ Keys(o) = Keys(s) /\ PlacementBindings(o) = PlacementBindings(s)
  BY <1>0, ReorderedPlaceable, ReorderedPlacement
<1>2. /\ o.profile = s.profile /\ o.live = s.live /\ o.validation = s.validation /\ o.telemetry = s.telemetry
      /\ o.catalogs = Reversed(s.catalogs) /\ o.providers = Reversed(s.providers)
      /\ o.bindings = Reversed(s.bindings)
      /\ (o.resources = <<>> <=> s.resources = <<>>) /\ (o.placements = <<>> <=> s.placements = <<>>)
      /\ Elements(o.resources) = {ReorderedRequirement(r) : r \in Elements(s.resources)}
  BY <1>0, ReorderedLists
<1>3. /\ Elements(o.catalogs) = Elements(s.catalogs) /\ Len(o.catalogs) = Len(s.catalogs)
      /\ Elements(o.providers) = Elements(s.providers) /\ Len(o.providers) = Len(s.providers)
      /\ Elements(o.bindings) = Elements(s.bindings) /\ Len(o.bindings) = Len(s.bindings)
      /\ (o.catalogs = <<>> <=> s.catalogs = <<>>) /\ (o.providers = <<>> <=> s.providers = <<>>)
      /\ (o.bindings = <<>> <=> s.bindings = <<>>)
  BY <1>0, <1>2, ReversedList DEF SpecificationTyped, CatalogsTyped, ProvidersTyped, BindingsTyped
<1>4. \A r \in Elements(s.resources) : RequirementTyped(r)
  BY <1>0 DEF SpecificationTyped, ResourcesTyped
<1> HIDE DEF o
<1>5. IsText(o.profile, 512) /\ NonEmpty(o)
  BY <1>2, <1>3 DEF Sound, Judged, NonEmpty
<1>6. CatalogsValid(o)
  BY <1>3 DEF Sound, Judged, CatalogsValid, DistinctBy
<1>7. ProvidersValid(o)
  BY <1>3 DEF Sound, Judged, ProvidersValid, DistinctBy
<1>8. BindingsValid(o)
  BY <1>3 DEF Sound, Judged, BindingsValid, DistinctBy
<1>9. PoliciesValid(o)
  BY <1>2, <1>3 DEF Sound, Judged, PoliciesValid, ProviderIds
<1>10. PhysicallyPinned(o)
  BY <1>2, <1>3 DEF Sound, Judged, PhysicallyPinned
<1>11. RequirementsServed(o)
  <2>1. ASSUME NEW r \in Elements(s.resources)
        PROVE  LET q == ReorderedRequirement(r)
                   b == BindingOf(o, PlacementBindings(o)[SelectorKey(q.selector)])
               IN  CapabilitiesProvided(q, PlannedProfile(b)) /\ LifecycleProvided(q, b)
    <3> DEFINE q == ReorderedRequirement(r)
               b == BindingOf(s, PlacementBindings(s)[SelectorKey(r.selector)])
    <3>1. /\ q.selector = r.selector /\ q.guarantees = r.guarantees /\ q.limits = r.limits
          /\ q.retention = r.retention /\ q.operations = Reversed(r.operations) /\ IsList(r.operations)
      BY <1>4, ReorderedFields DEF RequirementTyped
    <3>2. Elements(q.operations) = Elements(r.operations)
      BY <3>1, ReversedList
    <3>3. BindingOf(o, PlacementBindings(o)[SelectorKey(q.selector)]) = b
      BY <1>1, <1>3, <3>1 DEF BindingOf
    <3>4. CapabilitiesProvided(r, PlannedProfile(b)) /\ LifecycleProvided(r, b)
      BY DEF Sound, Judged, RequirementsServed
    <3> HIDE DEF q, b
    <3>5. CapabilitiesProvided(q, PlannedProfile(b))
      <4>1. ASSUME NEW operation, NEW profile, OperationProvided(r, operation, profile)
            PROVE  OperationProvided(q, operation, profile)
        BY <3>1, <4>1 DEF OperationProvided, RequiredLimit
      <4> QED BY <3>1, <3>2, <3>4, <4>1 DEF CapabilitiesProvided
    <3>6. LifecycleProvided(q, b)
      BY <3>1, <3>2, <3>4 DEF LifecycleProvided
    <3> QED BY <3>3, <3>5, <3>6 DEF q
  <2> QED BY <1>2, <2>1 DEF RequirementsServed
<1>12. Judged(o)
  BY <1>1, <1>5, <1>6, <1>7, <1>8, <1>9, <1>10, <1>11 DEF Judged, Placeable
<1> QED BY <1>1, <1>12 DEF Sound, Placeable, o

\* What is rendered depends on the elements of a list.
LEMMA SortedAlone ==
  ASSUME NEW a, NEW b, Elements(a) = Elements(b), NEW h
  PROVE  /\ SortedById(a, h) = SortedById(b, h)
         /\ SortedBy(a, SelectorKey, h) = SortedBy(b, SelectorKey, h)
         /\ SortedBy(a, LAMBDA c : c.name, h) = SortedBy(b, LAMBDA c : c.name, h)
BY DEF SortedById, SortedBy, Sorted

LEMMA ReorderedRuleRendered ==
  ASSUME NEW rule, RuleTyped(rule), NEW h
  PROVE  RenderedRule(ReorderedRule(rule), h) = RenderedRule(rule, h)
<1> DEFINE q == ReorderedRule(rule)
           list == SortedBy(rule.selector.resources, SelectorKey, h)
<1>1. /\ RuleTyped(q) /\ q.id = rule.id /\ q.binding = rule.binding
      /\ q.selector.catalog = rule.selector.catalog /\ q.selector.labels = rule.selector.labels
      /\ q.selector.resources = Reversed(rule.selector.resources)
  BY ReorderedRuleFields
<1>2. q.selector = [rule.selector EXCEPT !.resources = Reversed(rule.selector.resources)]
  BY DEF ReorderedRule, RuleTyped
<1>3. SortedBy(q.selector.resources, SelectorKey, h) = list
  <2>1. Elements(q.selector.resources) = Elements(rule.selector.resources)
    BY <1>1, ReversedList DEF RuleTyped
  <2> QED BY <2>1, SortedAlone
<1> HIDE DEF q, list
<1>4. [q.selector EXCEPT !.resources = list] = [rule.selector EXCEPT !.resources = list]
  BY <1>2 DEF RuleTyped
<1>5. RenderedRule(q, h) = RenderedRule(rule, h)
  BY <1>1, <1>3, <1>4 DEF RenderedRule, list
<1> QED BY <1>5 DEF q

LEMMA ReorderedRulesRendered ==
  ASSUME NEW s, Sound(s), NEW h \in Hosts
  PROVE  RenderedRules(Reordered(s), h) = RenderedRules(s, h)
<1> DEFINE o == Reordered(s)
           S == Elements(s.placements)
           T == Elements(o.placements)
           key == IdPlaces(s.placements, h)
           weight == IdPlaces(o.placements, h)
           f == [rule \in S |-> ReorderedRule(rule)]
           a == SortedById(s.placements, h)
           b == SortedById(o.placements, h)
<1>1. Sound(o) /\ SpecificationTyped(s)
  BY ReorderedJudged DEF Sound
<1>2. \A rule \in S : RuleTyped(rule)
  BY <1>1 DEF SpecificationTyped, PlacementsTyped
<1>3. T = {f[rule] : rule \in S}
  <2>1. T = {ReorderedRule(rule) : rule \in S}
    BY <1>1, ReorderedLists
  <2> HIDE DEF T
  <2> QED BY <2>1
<1>4. ASSUME NEW t, Sound(t)
      PROVE  /\ IsList(t.placements) /\ Identified(t.placements)
             /\ \A x \in Elements(t.placements) : HasPlace(x.id)
  BY <1>4 DEF Sound, SpecificationTyped, PlacementsTyped, RuleTyped, Judged, PlacementsValid, Identified
<1>5. IsFiniteSet(S) /\ KeysDiffer(key, S) /\ PicksByKey(a, key, S)
  BY <1>4, PicksById
<1>6. PicksByKey(b, weight, T)
  <2> HIDE DEF o
  <2> QED BY <1>1, <1>4, PicksById
<1>7. \A rule \in S : weight[f[rule]] = key[rule]
  <2>1. \A rule \in S : f[rule] \in T /\ f[rule].id = rule.id
    BY <1>2, <1>3, ReorderedRuleFields
  <2> HIDE DEF T, f
  <2> QED BY <2>1 DEF IdPlaces, T
<1>8. S \subseteq DOMAIN f
  OBVIOUS
<1>9. \A rule \in S : RenderedRule(f[rule], h) = RenderedRule(rule, h)
  BY <1>2, ReorderedRuleRendered
<1> HIDE DEF S, T, key, weight, f, a, b
<1>10. DOMAIN b = DOMAIN a /\ \A k \in DOMAIN a : a[k] \in S /\ b[k] = f[a[k]]
  BY <1>3, <1>5, <1>6, <1>7, <1>8, SameOrder
<1>11. RenderedRules(s, h) = [i \in DOMAIN a |-> RenderedRule(a[i], h)]
       /\ RenderedRules(o, h) = [i \in DOMAIN b |-> RenderedRule(b[i], h)]
  BY DEF RenderedRules, a, b
<1> QED BY <1>9, <1>10, <1>11

LEMMA ReorderedRendered ==
  ASSUME NEW s, Sound(s), NEW h \in Hosts
  PROVE  Rendered(Reordered(s), h) = Rendered(s, h)
<1> DEFINE o == Reordered(s)
<1>0. SpecificationTyped(s)
  BY DEF Sound
<1>1. /\ o.profile = s.profile /\ o.live = s.live /\ o.validation = s.validation /\ o.telemetry = s.telemetry
      /\ o.catalogs = Reversed(s.catalogs) /\ o.providers = Reversed(s.providers)
      /\ o.bindings = Reversed(s.bindings)
      /\ Elements(o.resources) = {ReorderedRequirement(r) : r \in Elements(s.resources)}
  BY <1>0, ReorderedLists
<1>2. /\ Elements(o.catalogs) = Elements(s.catalogs) /\ Elements(o.providers) = Elements(s.providers)
      /\ Elements(o.bindings) = Elements(s.bindings)
  BY <1>0, <1>1, ReversedList DEF SpecificationTyped, CatalogsTyped, ProvidersTyped, BindingsTyped
<1>3. SortedBy(o.catalogs, LAMBDA c : c.name, h) = SortedBy(s.catalogs, LAMBDA c : c.name, h)
      /\ SortedById(o.providers, h) = SortedById(s.providers, h)
      /\ SortedById(o.bindings, h) = SortedById(s.bindings, h)
  <2> HIDE DEF o
  <2> QED BY <1>2, SortedAlone
<1>4. RenderedBindings(o, h) = RenderedBindings(s, h)
  BY <1>3 DEF RenderedBindings
<1>5. RenderedRules(o, h) = RenderedRules(s, h)
  BY ReorderedRulesRendered
<1>6. RenderedPins(o, h) = RenderedPins(s, h)
  <2> DEFINE pins(r) == {[ref |-> r.selector, provider |-> schema.provider, pin |-> DefinitionFingerprint(schema)] :
                           schema \in Elements(r.schemas)}
  <2>1. ASSUME NEW r \in Elements(s.resources) PROVE pins(ReorderedRequirement(r)) = pins(r)
    <3>1. RequirementTyped(r)
      BY <1>0 DEF SpecificationTyped, ResourcesTyped
    <3>2. ReorderedRequirement(r).selector = r.selector /\ ReorderedRequirement(r).schemas = Reversed(r.schemas)
      BY <3>1, ReorderedFields
    <3>3. Elements(ReorderedRequirement(r).schemas) = Elements(r.schemas)
      BY <3>1, <3>2, ReversedList DEF RequirementTyped
    <3> QED BY <3>2, <3>3
  <2>2. {pins(q) : q \in Elements(o.resources)} = {pins(r) : r \in Elements(s.resources)}
    <3> HIDE DEF pins, o
    <3> QED BY <1>1, <2>1
  <2>3. SchemaPins(o) = SchemaPins(s)
    <3>1. SchemaPins(o) = UNION {pins(q) : q \in Elements(o.resources)}
      BY DEF SchemaPins
    <3>2. SchemaPins(s) = UNION {pins(r) : r \in Elements(s.resources)}
      BY DEF SchemaPins
    <3> HIDE DEF pins, o
    <3> QED BY <2>2, <3>1, <3>2
  <2> HIDE DEF o
  <2> QED BY <2>3 DEF RenderedPins, Sorted
<1> HIDE DEF o
<1>7. Rendered(o, h) = Rendered(s, h)
  BY <1>1, <1>3, <1>4, <1>5, <1>6 DEF Rendered
<1> QED BY <1>7 DEF o

\* Of several Schemas the same definitions occur as often.
LEMMA ReorderedFingerprint ==
  ASSUME NEW r, RequirementTyped(r)
  PROVE  SchemaFingerprint(ReorderedRequirement(r)) = SchemaFingerprint(r)
<1> DEFINE q == ReorderedRequirement(r)
           n == Len(r.schemas)
           of(pin) == {i \in 1..n : DefinitionFingerprint(r.schemas[i]) = pin}
           turned(pin) == {i \in 1..n : DefinitionFingerprint(r.schemas[n + 1 - i]) = pin}
           f == [i \in 1..n |-> n + 1 - i]
<1>1. n \in Nat /\ DOMAIN r.schemas = 1..n
  BY ListFacts DEF RequirementTyped
<1>2. q.schemas = Reversed(r.schemas)
  BY ReorderedFields
<1>3. /\ Elements(q.schemas) = Elements(r.schemas) /\ DOMAIN q.schemas = 1..n
      /\ \A i \in 1..n : n + 1 - i \in 1..n /\ q.schemas[i] = r.schemas[n + 1 - i]
  BY <1>1, <1>2, ReversedList DEF RequirementTyped
<1>4. ASSUME NEW pin PROVE Cardinality(turned(pin)) = Cardinality(of(pin))
  <2>1. of(pin) \in SUBSET (1..n)
    OBVIOUS
  <2>2. IsFiniteSet(of(pin))
    BY <1>1, <2>1, CountTo, FS_Subset
  <2>3. turned(pin) = {f[i] : i \in of(pin)}
    <3>1. \A i \in 1..n : n + 1 - i \in 1..n /\ f[n + 1 - i] = i /\ f[i] = n + 1 - i
      BY <1>1
    <3> HIDE DEF f
    <3> QED BY <1>1, <3>1
  <2>4. \A i, j \in of(pin) : f[i] = f[j] => i = j
    BY <1>1
  <2>5. of(pin) \subseteq DOMAIN f
    OBVIOUS
  <2> HIDE DEF of, turned, f
  <2> QED BY <2>2, <2>3, <2>4, <2>5, ImageSize
<1>5. ASSUME NEW pin PROVE {i \in DOMAIN q.schemas : DefinitionFingerprint(q.schemas[i]) = pin} = turned(pin)
  BY <1>3
<1>6. ASSUME NEW pin PROVE {i \in DOMAIN r.schemas : DefinitionFingerprint(r.schemas[i]) = pin} = of(pin)
  BY <1>1
<1>7. SchemaFingerprint(q) = [pin \in {DefinitionFingerprint(schema) : schema \in Elements(r.schemas)} |->
                                Cardinality(turned(pin))]
  <2> HIDE DEF q, turned
  <2> QED BY <1>3, <1>5 DEF SchemaFingerprint
<1>8. SchemaFingerprint(r) = [pin \in {DefinitionFingerprint(schema) : schema \in Elements(r.schemas)} |->
                                Cardinality(of(pin))]
  <2> HIDE DEF of
  <2> QED BY <1>6 DEF SchemaFingerprint
<1> HIDE DEF of, turned
<1> QED BY <1>4, <1>7, <1>8

LEMMA OrderDoesNotMatter ==
  ASSUME NEW s, Sound(s), NEW h \in Hosts, Accepts(s, h)
  PROVE  LET o == Reordered(s)
         IN  /\ Accepts(o, h) /\ PlanOf(o, h).config = PlanOf(s, h).config
             /\ PlanOf(o, h).bindings = PlanOf(s, h).bindings
             /\ PlacementBindings(o) = PlanOf(s, h).placed
<1> DEFINE o == Reordered(s)
<1>1. Sound(o) /\ Placeable(s) /\ Keys(o) = Keys(s) /\ PlacementBindings(o) = PlacementBindings(s)
  BY ReorderedJudged, SoundIsPlaceable, ReorderedPlaceable, ReorderedPlacement
<1>2. Rendered(o, h) = Rendered(s, h)
  BY ReorderedRendered
<1>3. ASSUME NEW key \in Keys(s), NEW config
      PROVE  ResourceBinding(Requirement(o, key), config) = ResourceBinding(Requirement(s, key), config)
  <2> DEFINE r == Requirement(s, key)
  <2>1. RequirementTyped(r)
    BY <1>1, RequirementFound DEF Placeable, SpecificationTyped, ResourcesTyped
  <2>2. Requirement(o, key) = ReorderedRequirement(r)
    BY <1>1, ReorderedRequirementOf
  <2>3. ReorderedRequirement(r).selector = r.selector
    BY <2>1, ReorderedFields
  <2>4. SchemaFingerprint(ReorderedRequirement(r)) = SchemaFingerprint(r)
    BY <2>1, ReorderedFingerprint
  <2> HIDE DEF o, r
  <2> QED BY <2>2, <2>3, <2>4 DEF ResourceBinding, r
<1> HIDE DEF o
<1>4. Accepts(o, h)
  BY <1>1, <1>2 DEF Accepts, Sound
<1>5. PlanOf(o, h).config = PlanOf(s, h).config /\ PlanOf(s, h).placed = PlacementBindings(s)
  BY <1>2 DEF PlanOf
<1>6. PlanOf(o, h).bindings = [key \in Keys(s) |-> ResourceBinding(Requirement(o, key), Rendered(s, h))]
      /\ PlanOf(s, h).bindings = [key \in Keys(s) |-> ResourceBinding(Requirement(s, key), Rendered(s, h))]
  BY <1>1, <1>2 DEF PlanOf
<1>7. PlanOf(o, h).bindings = PlanOf(s, h).bindings
  BY <1>3, <1>6
<1> QED BY <1>1, <1>4, <1>5, <1>7 DEF o

\* As many names as places, and the names of a catalog are five.
LEMMA AsManyAsPlaces ==
  ASSUME NEW seq, IsList(seq), NEW key, DOMAIN key = Elements(seq),
         Cardinality({key[x] : x \in Elements(seq)}) = Len(seq)
  PROVE  /\ IsFiniteSet(Elements(seq)) /\ Cardinality(Elements(seq)) = Len(seq)
         /\ \A x, y \in Elements(seq) : key[x] = key[y] => x = y
<1> DEFINE n == Len(seq)
           S == Elements(seq)
           place == [i \in 1..n |-> key[seq[i]]]
<1>1. n \in Nat /\ DOMAIN seq = 1..n /\ IsFiniteSet(S)
  BY ListFacts
<1>2. {key[x] : x \in S} = {place[i] : i \in 1..n}
  BY <1>1 DEF Elements
<1>3. \A i, j \in 1..n : place[i] = place[j] => i = j
  <2>1. Cardinality({place[i] : i \in 1..n}) = n /\ DOMAIN place = 1..n
    BY <1>2
  <2> HIDE DEF n, place
  <2> QED BY <1>1, <2>1, DistinctKeys
<1>4. ASSUME NEW x \in S, NEW y \in S, key[x] = key[y] PROVE x = y
  <2>1. PICK i \in 1..n : seq[i] = x
    BY <1>1 DEF Elements
  <2>2. PICK j \in 1..n : seq[j] = y
    BY <1>1 DEF Elements
  <2> QED BY <1>3, <1>4, <2>1, <2>2
<1>5. IsFiniteSet({key[x] : x \in S}) /\ Cardinality({key[x] : x \in S}) = Cardinality(S)
  <2>1. S \subseteq DOMAIN key
    OBVIOUS
  <2> HIDE DEF S
  <2> QED BY <1>1, <1>4, <2>1, ImageSize
<1> QED BY <1>1, <1>4, <1>5

LEMMA FiveCatalogs == IsFiniteSet(CatalogNames) /\ Cardinality(CatalogNames) <= 5
<1> DEFINE f == [i \in 1..5 |-> CASE i = 1 -> "structured" [] i = 2 -> "object" [] i = 3 -> "cache"
                                  [] i = 4 -> "evidence" [] OTHER -> "streaming"]
<1>1. IsFiniteSet(1..5) /\ Cardinality(1..5) = 5
  BY CountTo
<1>2. f \in Surjection(1..5, CatalogNames)
  <2>1. \A i \in 1..5 : f[i] \in CatalogNames
    BY DEF CatalogNames
  <2>2. f[1] = "structured" /\ f[2] = "object" /\ f[3] = "cache" /\ f[4] = "evidence" /\ f[5] = "streaming"
    OBVIOUS
  <2>3. \A name \in CatalogNames : \E i \in 1..5 : f[i] = name
    BY <2>2 DEF CatalogNames
  <2>4. f = [i \in 1..5 |-> f[i]]
    OBVIOUS
  <2> HIDE DEF f
  <2>5. f \in [1..5 -> CatalogNames]
    BY <2>1, <2>4
  <2> QED BY <2>3, <2>5 DEF Surjection
<1> HIDE DEF f
<1> QED BY <1>1, <1>2, FS_Surjection

\* Texts that a typed validator lets through are names of the schema.
LEMMA NamesOfTexts ==
  /\ \A text : IsText(text, 64) \/ IsText(text, 256) \/ IsText(text, 512) => IsSchemaName(text)
  /\ \A text : IsIdentifier(text) => IsSchemaName(text)
<1>1. \A text : IsText(text, 64) \/ IsText(text, 256) \/ IsText(text, 512) => IsSchemaName(text)
  BY DEF IsText, IsSchemaName
<1>2. \A text : IsIdentifier(text) => Bytes(text) = 1
  BY DEF IsIdentifier, NotIdentifiers, Bytes
<1> QED BY <1>1, <1>2 DEF IsSchemaName

CatalogsByName(s, h) == SortedBy(s.catalogs, LAMBDA c : c.name, h)
NamePlaces(seq, h) == [x \in Elements(seq) |-> Collation[h][x.name]]
LEMMA SortByName ==
  ASSUME NEW s, Sound(s), NEW h \in Hosts
  PROVE  LET sorted == CatalogsByName(s, h)
         IN  /\ Arranges(sorted, Elements(s.catalogs))
             /\ DOMAIN sorted = 1..Len(s.catalogs) /\ IsList(sorted)
<1> DEFINE S == Elements(s.catalogs)
           names == [c \in S |-> c.name]
           key == NamePlaces(s.catalogs, h)
           sorted == CatalogsByName(s, h)
<1>1. IsList(s.catalogs) /\ \A c \in S : HasPlace(c.name)
  BY DEF Sound, SpecificationTyped, CatalogsTyped
<1>2. IsFiniteSet(S) /\ Cardinality(S) = Len(s.catalogs) /\ \A c, d \in S : c.name = d.name => c = d
  <2>1. Cardinality({c.name : c \in S}) = Len(s.catalogs)
    BY DEF Sound, Judged, CatalogsValid, DistinctBy
  <2>2. {c.name : c \in S} = {names[c] : c \in S} /\ DOMAIN names = S /\ \A c \in S : names[c] = c.name
    OBVIOUS
  <2> HIDE DEF names
  <2> QED BY <1>1, <2>1, <2>2, AsManyAsPlaces
<1>3. DOMAIN key = S /\ \A c \in S : key[c] = Collation[h][c.name]
  BY DEF NamePlaces
<1>4. KeysDiffer(key, S)
  <2> HIDE DEF key, S
  <2> QED BY <1>1, <1>2, <1>3, CollationAssumption DEF KeysDiffer, HasPlace, IsOrder
<1>5. ASSUME NEW x \in S
      PROVE  Cardinality({y \in S : Collation[h][y.name] < Collation[h][x.name]}) = KeyRank(key, S, x)
  <2>1. {y \in S : Collation[h][y.name] < Collation[h][x.name]} = {y \in S : key[y] < key[x]}
    BY <1>3
  <2> HIDE DEF key, S
  <2> QED BY <2>1 DEF KeyRank
<1>6. DOMAIN sorted = 1..Cardinality(S)
      /\ \A k \in 1..Cardinality(S) :
           sorted[k] = CHOOSE x \in S : Cardinality({y \in S : Collation[h][y.name] < Collation[h][x.name]}) = k - 1
  BY DEF CatalogsByName, SortedBy, Sorted, Precedes
<1>7. sorted = [k \in 1..Cardinality(S) |-> sorted[k]]
  <2> DEFINE least(k) == CHOOSE x \in S : Cardinality({y \in S : Precedes(h, y.name, x.name)}) = k - 1
  <2>1. sorted = [k \in 1..Cardinality(S) |-> least(k)]
    BY DEF CatalogsByName, SortedBy, Sorted
  <2> HIDE DEF least, S, sorted
  <2> QED BY <2>1
<1> HIDE DEF S, key, sorted
<1>8. PicksByKey(sorted, key, S)
  BY <1>5, <1>6 DEF PicksByKey
<1>9. Arranges(sorted, S)
  BY <1>2, <1>4, <1>8, SortByKey
<1>10. IsList(sorted)
  BY <1>2, <1>6, <1>7, FS_CardinalityType DEF IsList, Elements
<1> QED BY <1>2, <1>6, <1>9, <1>10 DEF S, sorted

LEMMA FirstElement ==
  ASSUME NEW seq, IsList(seq), seq # <<>>
  PROVE  seq[1] \in Elements(seq) /\ Len(seq) >= 1
<1>1. seq \in Seq(Elements(seq))
  BY DEF IsList
<1>2. Len(seq) >= 1 /\ 1 \in DOMAIN seq
  BY <1>1
<1> QED BY <1>2 DEF Elements

\* The order of pins: by Resource, then by provider.
PinPrecedes(h, x, y) ==
  \/ Precedes(h, SelectorKey(x.ref), SelectorKey(y.ref))
  \/ x.ref = y.ref /\ Precedes(h, x.provider, y.provider)
LEMMA PinFacts ==
  ASSUME NEW s, Sound(s), NEW h \in Hosts, NEW x \in SchemaPins(s), NEW y \in SchemaPins(s)
  PROVE  /\ CatalogInstalled(x.ref, s.catalogs) /\ HasPlace(SelectorKey(x.ref)) /\ HasPlace(x.provider)
         /\ Collation[h][SelectorKey(x.ref)] \in Int /\ Collation[h][x.provider] \in Int
         /\ Collation[h][SelectorKey(x.ref)] = Collation[h][SelectorKey(y.ref)] => x.ref = y.ref
         /\ x.ref = y.ref /\ Collation[h][x.provider] = Collation[h][y.provider] => x = y
<1> DEFINE PinOf(r, schema) ==
             [ref |-> r.selector, provider |-> schema.provider, pin |-> DefinitionFingerprint(schema)]
<1>1. ASSUME NEW p \in SchemaPins(s)
      PROVE  \E r \in Elements(s.resources) : \E schema \in Elements(r.schemas) : p = PinOf(r, schema)
  BY DEF SchemaPins
<1> HIDE DEF PinOf
<1>2. ASSUME NEW r \in Elements(s.resources)
      PROVE  /\ IsRequirement(r) /\ RequirementTyped(r) /\ HasPlace(SelectorKey(r.selector))
             /\ CatalogInstalled(r.selector, s.catalogs)
             /\ \A schema \in Elements(r.schemas) : HasPlace(schema.provider)
             /\ \A a, b \in Elements(r.schemas) : a.provider = b.provider => a = b
  <2>1. IsRequirement(r) /\ RequirementTyped(r) /\ CatalogInstalled(r.selector, s.catalogs)
        /\ \A schema \in Elements(r.schemas) : \E p \in Elements(s.providers) : p.id = schema.provider
    BY DEF Sound, Judged, ResourcesValid, SpecificationTyped, ResourcesTyped
  <2>2. HasPlace(SelectorKey(r.selector))
    BY <2>1 DEF IsRequirement, RequirementTyped
  <2>3. \A p \in Elements(s.providers) : HasPlace(p.id)
    BY DEF Sound, Judged, ProvidersValid, SpecificationTyped, ProvidersTyped
  <2>4. \A a, b \in Elements(r.schemas) : a.provider = b.provider => a = b
    <3> DEFINE S == Elements(r.schemas)
               provider == [a \in S |-> a.provider]
    <3>1. Cardinality({a.provider : a \in S}) = Len(r.schemas)
      BY <2>1 DEF IsRequirement, DistinctBy
    <3>2. {a.provider : a \in S} = {provider[a] : a \in S} /\ DOMAIN provider = S /\ \A a \in S : provider[a] = a.provider
      OBVIOUS
    <3>3. IsList(r.schemas)
      BY <2>1 DEF RequirementTyped
    <3> HIDE DEF provider
    <3> QED BY <3>1, <3>2, <3>3, AsManyAsPlaces
  <2> QED BY <2>1, <2>2, <2>3, <2>4
<1>3. PICK r \in Elements(s.resources) : \E schema \in Elements(r.schemas) : x = PinOf(r, schema)
  BY <1>1
<1>4. PICK a \in Elements(r.schemas) : x = PinOf(r, a)
  BY <1>3
<1>5. PICK q \in Elements(s.resources) : \E schema \in Elements(q.schemas) : y = PinOf(q, schema)
  BY <1>1
<1>6. PICK b \in Elements(q.schemas) : y = PinOf(q, b)
  BY <1>5
<1>7. x.ref = r.selector /\ x.provider = a.provider /\ y.ref = q.selector /\ y.provider = b.provider
  BY <1>4, <1>6 DEF PinOf
<1>8. \A t, u : HasPlace(t) /\ HasPlace(u) =>
        Collation[h][t] \in Int /\ (Collation[h][t] = Collation[h][u] => t = u)
  BY CollationAssumption DEF HasPlace, IsOrder
<1>9. ASSUME SelectorKey(r.selector) = SelectorKey(q.selector) PROVE r = q
  <2>1. Placeable(s)
    BY SoundIsPlaceable
  <2>2. Requirement(s, SelectorKey(r.selector)) = r /\ Requirement(s, SelectorKey(q.selector)) = q
    BY <2>1, RequirementFound
  <2> QED BY <1>9, <2>2
<1>10. x.ref = y.ref /\ Collation[h][x.provider] = Collation[h][y.provider] => x = y
  <2> SUFFICES ASSUME x.ref = y.ref, Collation[h][x.provider] = Collation[h][y.provider] PROVE x = y
    OBVIOUS
  <2>1. r = q
    BY <1>7, <1>9
  <2>2. a.provider = b.provider
    BY <1>2, <1>7, <1>8
  <2>3. a = b
    BY <1>2, <2>1, <2>2
  <2> QED BY <1>4, <1>6, <2>1, <2>3
<1> QED BY <1>2, <1>7, <1>8, <1>9, <1>10

LEMMA PinsRendered ==
  ASSUME NEW s, Sound(s), NEW h \in Hosts
  PROVE  /\ RenderedPins(s, h) # <<>>
         /\ \A i \in DOMAIN RenderedPins(s, h) : RenderedPins(s, h)[i] \in SchemaPins(s)
         /\ \A x \in SchemaPins(s) : \E i \in DOMAIN RenderedPins(s, h) : RenderedPins(s, h)[i] = x
<1> DEFINE S == SchemaPins(s)
           Before == [y \in S |-> {x \in S : PinPrecedes(h, x, y)}]
           sorted == RenderedPins(s, h)
<1>1. IsFiniteSet(S)
  <2> DEFINE pins(r) == {[ref |-> r.selector, provider |-> schema.provider, pin |-> DefinitionFingerprint(schema)] :
                           schema \in Elements(r.schemas)}
             all == {pins(r) : r \in Elements(s.resources)}
             of == [r \in Elements(s.resources) |-> pins(r)]
  <2>1. IsFiniteSet(Elements(s.resources)) /\ \A r \in Elements(s.resources) : IsFiniteSet(Elements(r.schemas))
    BY ListFacts DEF Sound, SpecificationTyped, ResourcesTyped, RequirementTyped
  <2>2. ASSUME NEW r \in Elements(s.resources) PROVE IsFiniteSet(pins(r))
    <3> DEFINE f == [schema \in Elements(r.schemas) |->
                       [ref |-> r.selector, provider |-> schema.provider, pin |-> DefinitionFingerprint(schema)]]
    <3>1. f \in Surjection(Elements(r.schemas), pins(r))
      BY DEF Surjection
    <3> HIDE DEF f, pins
    <3> QED BY <2>1, <3>1, FS_Surjection
  <2>3. IsFiniteSet(all)
    <3> HIDE DEF pins
    <3>1. of \in Surjection(Elements(s.resources), all)
      BY DEF Surjection
    <3> HIDE DEF of, all
    <3> QED BY <2>1, <3>1, FS_Surjection
  <2>4. S = UNION all
    BY DEF SchemaPins
  <2>5. \A T \in all : IsFiniteSet(T)
    BY <2>2
  <2> HIDE DEF all, S
  <2> QED BY <2>3, <2>4, <2>5, FS_UNION
<1>2. S # {}
  <2>1. s.resources # <<>> /\ IsList(s.resources)
    BY DEF Sound, Judged, NonEmpty, SpecificationTyped, ResourcesTyped
  <2> DEFINE r == s.resources[1]
             schema == r.schemas[1]
             pin == [ref |-> r.selector, provider |-> schema.provider, pin |-> DefinitionFingerprint(schema)]
  <2>2. r \in Elements(s.resources)
    BY <2>1, FirstElement
  <2> HIDE DEF r
  <2>3. r.schemas # <<>> /\ IsList(r.schemas)
    BY <2>2 DEF Sound, Judged, ResourcesValid, IsRequirement, SpecificationTyped, ResourcesTyped, RequirementTyped
  <2>4. schema \in Elements(r.schemas)
    BY <2>3, FirstElement
  <2> HIDE DEF schema
  <2>5. pin \in S
    BY <2>2, <2>4 DEF SchemaPins
  <2> QED BY <2>5
<1>3. IsOrderOf(Before, S)
  <2> DEFINE first(x) == Collation[h][SelectorKey(x.ref)]
             second(x) == Collation[h][x.provider]
  <2>1. \A x, y \in S :
          /\ first(x) \in Int /\ second(x) \in Int
          /\ first(x) = first(y) <=> x.ref = y.ref
          /\ first(x) = first(y) /\ second(x) = second(y) => x = y
    BY PinFacts
  <2>2. \A x, y \in S :
          PinPrecedes(h, x, y) <=> first(x) < first(y) \/ (first(x) = first(y) /\ second(x) < second(y))
    BY <2>1 DEF PinPrecedes, Precedes
  <2> HIDE DEF first, second, S
  <2>3. \A x \in S : ~PinPrecedes(h, x, x)
    BY <2>1, <2>2
  <2>4. \A x, y \in S : x = y \/ PinPrecedes(h, x, y) \/ PinPrecedes(h, y, x)
    BY <2>1, <2>2
  <2>5. \A x, y, z \in S : PinPrecedes(h, x, y) /\ PinPrecedes(h, y, z) => PinPrecedes(h, x, z)
    BY <2>1, <2>2
  <2>6. Before \in [S -> SUBSET S]
    OBVIOUS
  <2>7. \A x, y \in S : x \in Before[y] <=> PinPrecedes(h, x, y)
    OBVIOUS
  <2>8. ASSUME NEW x \in S, NEW y \in S, PinPrecedes(h, x, y) PROVE Before[x] \cup {x} \subseteq Before[y]
    <3> HIDE DEF Before
    <3> QED BY <2>5, <2>6, <2>7, <2>8
  <2> HIDE DEF Before
  <2> QED BY <2>3, <2>4, <2>6, <2>7, <2>8 DEF IsOrderOf
<1>4. DOMAIN sorted = 1..Cardinality(S)
      /\ \A k \in 1..Cardinality(S) :
           sorted[k] = CHOOSE x \in S : Cardinality({y \in S : PinPrecedes(h, y, x)}) = k - 1
  BY DEF RenderedPins, Sorted, PinPrecedes
<1>5. PicksByRank(sorted, Before, S)
  <2>1. ASSUME NEW x \in S PROVE Cardinality({y \in S : PinPrecedes(h, y, x)}) = Cardinality(Before[x])
    OBVIOUS
  <2> DEFINE below(x) == Cardinality({y \in S : PinPrecedes(h, y, x)})
  <2>2. \A k \in 1..Cardinality(S) : sorted[k] = CHOOSE x \in S : below(x) = k - 1
    BY <1>4
  <2>3. \A x \in S : below(x) = Cardinality(Before[x])
    BY <2>1
  <2>4. ASSUME NEW k \in 1..Cardinality(S), NEW x \in S, Cardinality(Before[x]) = k - 1
        PROVE  sorted[k] \in S /\ Cardinality(Before[sorted[k]]) = k - 1
    <3> HIDE DEF below, Before, S, sorted
    <3>1. below(x) = k - 1
      BY <2>3, <2>4
    <3>2. sorted[k] \in S /\ below(sorted[k]) = k - 1
      BY <2>2, <3>1
    <3> QED BY <2>3, <3>2
  <2> HIDE DEF Before, S, sorted
  <2> QED BY <1>4, <2>4 DEF PicksByRank
<1> HIDE DEF Before, S, sorted
<1>6. Sorts(sorted, Before, S)
  BY <1>1, <1>3, <1>5, SortByRank
<1>7. Cardinality(S) \in Nat /\ Cardinality(S) # 0
  BY <1>1, <1>2, FS_CardinalityType, FS_EmptySet
<1>8. DOMAIN sorted # {}
  BY <1>4, <1>7
<1> QED BY <1>6, <1>8 DEF Sorts, S, sorted

\* What a list is sorted into is not empty, and has the same elements.
LEMMA SortedElements ==
  ASSUME NEW seq, IsList(seq), seq # <<>>, NEW sorted, Arranges(sorted, Elements(seq))
  PROVE  sorted # <<>> /\ Elements(sorted) = Elements(seq)
<1>1. seq[1] \in Elements(seq)
  BY FirstElement
<1>2. PICK i \in DOMAIN sorted : sorted[i] = seq[1]
  BY <1>1 DEF Arranges
<1>3. DOMAIN sorted # {}
  BY <1>2
<1>4. Elements(sorted) = Elements(seq)
  BY DEF Arranges, Elements
<1> QED BY <1>3, <1>4

\* A list no two of whose elements have one name.
NamesDiffer(seq) == DistinctBy(seq, LAMBDA c : c.name)

\* The catalogs of a rendering are those of the author, each once and at most five.
LEMMA CatalogsRendered ==
  ASSUME NEW s, Sound(s), NEW h \in Hosts
  PROVE  LET sorted == CatalogsByName(s, h)
         IN  /\ Elements(sorted) = Elements(s.catalogs) /\ Len(sorted) = Len(s.catalogs)
             /\ Len(sorted) \in 1..5
             /\ NamesDiffer(sorted)
<1> DEFINE S == Elements(s.catalogs)
           names == [c \in S |-> c.name]
           sorted == CatalogsByName(s, h)
<1>1. IsList(s.catalogs) /\ s.catalogs # <<>> /\ \A c \in S : c.name \in CatalogNames
  BY DEF Sound, SpecificationTyped, CatalogsTyped, Judged, NonEmpty, CatalogsValid
<1>2. Cardinality({c.name : c \in S}) = Len(s.catalogs)
  BY DEF Sound, Judged, CatalogsValid, DistinctBy
<1>3. Arranges(sorted, S) /\ DOMAIN sorted = 1..Len(s.catalogs) /\ IsList(sorted)
  BY SortByName
<1> HIDE DEF sorted
<1>4. Elements(sorted) = S
  BY <1>1, <1>3, SortedElements
<1>5. Len(sorted) = Len(s.catalogs) /\ Len(s.catalogs) \in Nat
  BY <1>1, <1>3, ListFacts
<1>6. Len(s.catalogs) <= 5
  <2>1. {c.name : c \in S} \in SUBSET CatalogNames
    BY <1>1
  <2>2. Cardinality({c.name : c \in S}) <= Cardinality(CatalogNames) /\ Cardinality(CatalogNames) \in Nat
    BY <2>1, FiveCatalogs, FS_Subset, FS_CardinalityType
  <2> QED BY <1>2, <1>5, <2>2, FiveCatalogs
<1>7. Len(s.catalogs) >= 1
  BY <1>1, FirstElement
<1>8. Len(sorted) \in 1..5
  <2>1. \A n \in Nat : n >= 1 /\ n <= 5 => n \in 1..5
    OBVIOUS
  <2> HIDE DEF S, names
  <2> QED BY <1>5, <1>6, <1>7, <2>1
<1>9. NamesDiffer(sorted)
  BY <1>2, <1>4, <1>5 DEF NamesDiffer, DistinctBy
<1> QED BY <1>4, <1>5, <1>8, <1>9 DEF sorted

LEMMA ProvidersRendered ==
  ASSUME NEW s, Sound(s), NEW h \in Hosts
  PROVE  SortedById(s.providers, h) # <<>> /\ Elements(SortedById(s.providers, h)) = Elements(s.providers)
<1>1. IsList(s.providers) /\ s.providers # <<>> /\ Identified(s.providers)
  BY DEF Sound, SpecificationTyped, ProvidersTyped, Judged, NonEmpty, ProvidersValid, Identified
<1>2. \A p \in Elements(s.providers) : HasPlace(p.id)
  BY DEF Sound, SpecificationTyped, ProvidersTyped, Judged, ProvidersValid
<1> QED BY <1>1, <1>2, SortById, SortedElements

\* The released schema accepts a binding that the typed validators accept.
SchemaBinding(b) ==
  /\ IsSchemaName(b.id) /\ IsSchemaName(b.version) /\ IsSchemaName(b.namespace)
  /\ \A key \in DOMAIN b.runtimePins : IsSchemaName(b.runtimePins[key])
LEMMA BindingAccepted ==
  ASSUME NEW b, BindingValid(b)
  PROVE  SchemaBinding(RenderedBinding(b))
<1>1. IsIdentifier(b.id) /\ IsText(b.connection.namespace, 512) /\ IsText(b.version, 256)
      /\ \A name \in DOMAIN b.runtimePins : IsText(b.runtimePins[name], 512)
  BY DEF BindingValid, IsConnection, StaticSelection, IsEngineVersion
<1>2. /\ RenderedBinding(b).id = b.id /\ RenderedBinding(b).version = b.version
      /\ RenderedBinding(b).namespace = b.connection.namespace
      /\ RenderedBinding(b).runtimePins = b.runtimePins
  BY DEF RenderedBinding
<1> QED BY <1>1, <1>2, NamesOfTexts DEF SchemaBinding

LEMMA RulesAndBindingsAccepted ==
  ASSUME NEW s, Sound(s), NEW h \in Hosts
  PROVE  /\ RenderedBindings(s, h) # <<>> /\ RenderedRules(s, h) # <<>>
         /\ \A b \in Elements(RenderedBindings(s, h)) : SchemaBinding(b)
<1>1. IsList(s.bindings) /\ s.bindings # <<>> /\ IsList(s.placements) /\ s.placements # <<>>
      /\ \A b \in Elements(s.bindings) : BindingValid(b)
  BY DEF Sound, SpecificationTyped, BindingsTyped, PlacementsTyped, Judged, NonEmpty, BindingsValid
<1> DEFINE bindings == SortedById(s.bindings, h)
           rules == SortedById(s.placements, h)
<1>2. Arranges(bindings, Elements(s.bindings)) /\ Arranges(rules, Elements(s.placements))
      /\ DOMAIN RenderedBindings(s, h) = DOMAIN bindings /\ DOMAIN RenderedRules(s, h) = DOMAIN rules
      /\ \A i \in DOMAIN bindings : RenderedBindings(s, h)[i] = RenderedBinding(bindings[i])
  BY BindingsRendered, RulesRendered
<1> HIDE DEF bindings, rules
<1>3. s.bindings[1] \in Elements(s.bindings) /\ s.placements[1] \in Elements(s.placements)
  BY <1>1, FirstElement
<1>4. DOMAIN bindings # {} /\ DOMAIN rules # {}
  BY <1>2, <1>3 DEF Arranges
<1>5. ASSUME NEW i \in DOMAIN bindings PROVE SchemaBinding(RenderedBindings(s, h)[i])
  <2>1. bindings[i] \in Elements(s.bindings)
    BY <1>2 DEF Arranges
  <2> QED BY <1>1, <1>2, <2>1, BindingAccepted
<1>6. RenderedBindings(s, h) # <<>> /\ RenderedRules(s, h) # <<>>
  BY <1>2, <1>4
<1> QED BY <1>2, <1>5, <1>6 DEF Elements

SchemaValidation(v) ==
  /\ v.strict /\ v.attempts \in 1..20
  /\ v.baseDelay \in 0..Milliseconds(60000) /\ v.maxDelay \in 0..Milliseconds(600000)
  /\ IsWholeMillisecond(v.baseDelay) /\ IsWholeMillisecond(v.maxDelay)
LEMMA ValidationAccepted ==
  ASSUME NEW v, IsValidationPolicy(v), IsWholeMillisecond(v.baseDelay), IsWholeMillisecond(v.maxDelay)
  PROVE  SchemaValidation(v)
<1>1. v.strict /\ RetryFits(v)
  BY DEF IsValidationPolicy
<1>2. v.attempts \in 1..20 /\ v.baseDelay \in 0..Milliseconds(60000) /\ v.maxDelay \in 0..Milliseconds(600000)
  BY <1>1, SMT DEF RetryFits
<1> QED BY <1>1, <1>2, SMT DEF SchemaValidation

\* What the typed validators admit the released schema admits, but for fractions of a millisecond.
LEMMA RenderedFits ==
  ASSUME NEW s, Sound(s), NEW h \in Hosts,
         IsWholeMillisecond(s.validation.baseDelay), IsWholeMillisecond(s.validation.maxDelay)
  PROVE  RuntimeConfigValid(Rendered(s, h))
<1> DEFINE c == Rendered(s, h)
           catalogs == CatalogsByName(s, h)
<1>1. /\ c.profile = s.profile /\ c.catalogs = catalogs /\ c.pins = RenderedPins(s, h)
      /\ c.providers = SortedById(s.providers, h) /\ c.bindings = RenderedBindings(s, h)
      /\ c.placements = RenderedRules(s, h) /\ c.validation = s.validation
  BY DEF Rendered, CatalogsByName, SortedBy, SortedById
<1> HIDE DEF c
<1>2. Elements(catalogs) = Elements(s.catalogs) /\ Len(catalogs) \in 1..5 /\ NamesDiffer(catalogs)
  BY CatalogsRendered
<1> HIDE DEF catalogs
<1>3. IsSchemaName(c.profile)
  BY <1>1, NamesOfTexts DEF Sound, Judged
<1>4. \A x \in Elements(c.catalogs) :
        x.name \in CatalogNames /\ IsFingerprint(x.pin) /\ IsSchemaName(x.package) /\ IsSchemaName(x.contract)
  BY <1>1, <1>2, NamesOfTexts DEF Sound, Judged, CatalogsValid
<1>5. Elements(c.providers) = Elements(s.providers) /\ c.providers # <<>>
  BY <1>1, ProvidersRendered
<1>6. \A p \in Elements(c.providers) :
        IsSchemaName(p.id) /\ IsSchemaName(p.package) /\ IsSchemaName(p.contract) /\ IsFingerprint(p.pin)
  BY <1>5, NamesOfTexts DEF Sound, Judged, ProvidersValid
<1>7. c.bindings # <<>> /\ c.placements # <<>> /\ \A b \in Elements(c.bindings) : SchemaBinding(b)
  BY <1>1, RulesAndBindingsAccepted
<1>8. c.pins # <<>> /\ \A i \in DOMAIN c.pins : c.pins[i] \in SchemaPins(s)
  BY <1>1, PinsRendered
<1>9. SchemaValidation(c.validation)
  BY <1>1, ValidationAccepted DEF Sound, Judged, PoliciesValid
<1>10. SchemaAccepts(c)
  BY <1>1, <1>2, <1>3, <1>4, <1>5, <1>6, <1>7, <1>8, <1>9, SMT DEF SchemaAccepts, SchemaBinding, SchemaValidation
<1>11. ASSUME NEW i \in DOMAIN c.pins PROVE CatalogInstalled(c.pins[i].ref, c.catalogs)
  <2>1. CatalogInstalled(c.pins[i].ref, s.catalogs)
    BY <1>8, PinFacts
  <2> QED BY <1>1, <1>2, <2>1 DEF CatalogInstalled, NamesOfCatalogs
<1>12. NamesDiffer(c.catalogs)
  BY <1>1, <1>2
<1> QED BY <1>10, <1>11, <1>12 DEF RuntimeConfigValid, NamesDiffer, c

\* The pins of a Resource are those with its selector, one for each of its Schemas.
PinOfSchema(r, schema) ==
  [ref |-> r.selector, provider |-> schema.provider, pin |-> DefinitionFingerprint(schema)]
PinsOfSelector(s, selector) == {x \in SchemaPins(s) : x.ref = selector}
LEMMA PinsOfResource ==
  ASSUME NEW s, Sound(s), NEW r \in Elements(s.resources)
  PROVE  PinsOfSelector(s, r.selector) = {PinOfSchema(r, schema) : schema \in Elements(r.schemas)}
         /\ PinsOfSelector(s, r.selector) # {}
<1>1. \A x : x \in SchemaPins(s) <=>
        \E q \in Elements(s.resources) : \E schema \in Elements(q.schemas) : x = PinOfSchema(q, schema)
  BY DEF SchemaPins, PinOfSchema
<1>2. ASSUME NEW q \in Elements(s.resources), q.selector = r.selector PROVE q = r
  <2>1. Placeable(s)
    BY SoundIsPlaceable
  <2>2. Requirement(s, SelectorKey(q.selector)) = q /\ Requirement(s, SelectorKey(r.selector)) = r
    BY <2>1, RequirementFound
  <2> QED BY <1>2, <2>2
<1>3. \A q, schema : PinOfSchema(q, schema).ref = q.selector
  BY DEF PinOfSchema
<1>4. PinsOfSelector(s, r.selector) = {PinOfSchema(r, schema) : schema \in Elements(r.schemas)}
  BY <1>1, <1>2, <1>3 DEF PinsOfSelector
<1>5. r.schemas # <<>> /\ IsList(r.schemas)
  BY DEF Sound, Judged, ResourcesValid, IsRequirement, SpecificationTyped, ResourcesTyped, RequirementTyped
<1>6. r.schemas[1] \in Elements(r.schemas)
  BY <1>5, FirstElement
<1> QED BY <1>4, <1>6

\* So the pins tell the fingerprint of its Schemas: how often each definition occurs.
LEMMA PinsTellSchemas ==
  ASSUME NEW s, Sound(s), NEW r \in Elements(s.resources)
  PROVE  SchemaFingerprint(r) =
           [pin \in {x.pin : x \in PinsOfSelector(s, r.selector)} |->
              Cardinality({x \in PinsOfSelector(s, r.selector) : x.pin = pin})]
<1> DEFINE P == PinsOfSelector(s, r.selector)
           n == Len(r.schemas)
           f == [i \in 1..n |-> PinOfSchema(r, r.schemas[i])]
           key == [i \in 1..n |-> r.schemas[i].provider]
           at(pin) == {i \in 1..n : DefinitionFingerprint(r.schemas[i]) = pin}
<1>1. IsList(r.schemas) /\ n \in Nat /\ DOMAIN r.schemas = 1..n
  BY ListFacts DEF Sound, SpecificationTyped, ResourcesTyped, RequirementTyped
<1>2. P = {PinOfSchema(r, schema) : schema \in Elements(r.schemas)}
  BY PinsOfResource
<1>3. P = {f[i] : i \in 1..n} /\ \A i \in 1..n : f[i].pin = DefinitionFingerprint(r.schemas[i])
  BY <1>1, <1>2 DEF Elements, PinOfSchema
<1>4. \A i, j \in 1..n : f[i] = f[j] => i = j
  <2>1. Cardinality({schema.provider : schema \in Elements(r.schemas)}) = n
    BY DEF Sound, Judged, ResourcesValid, IsRequirement, DistinctBy
  <2>2. {schema.provider : schema \in Elements(r.schemas)} = {key[i] : i \in 1..n} /\ DOMAIN key = 1..n
    BY <1>1 DEF Elements
  <2>3. \A i, j \in 1..n : f[i] = f[j] => key[i] = key[j]
    BY DEF PinOfSchema
  <2> HIDE DEF n, f, key
  <2>4. \A i, j \in 1..n : key[i] = key[j] => i = j
    BY <1>1, <2>1, <2>2, DistinctKeys
  <2> QED BY <2>3, <2>4
<1>5. SchemaFingerprint(r) = [pin \in {DefinitionFingerprint(schema) : schema \in Elements(r.schemas)} |-> Cardinality(at(pin))]
  BY <1>1 DEF SchemaFingerprint
<1>6. {DefinitionFingerprint(schema) : schema \in Elements(r.schemas)} = {x.pin : x \in P}
  <2>1. \A schema : PinOfSchema(r, schema).pin = DefinitionFingerprint(schema)
    BY DEF PinOfSchema
  <2> HIDE DEF P
  <2> QED BY <1>2, <2>1
<1>7. ASSUME NEW pin PROVE Cardinality(at(pin)) = Cardinality({x \in P : x.pin = pin})
  <2>1. IsFiniteSet(at(pin))
    <3>1. IsFiniteSet(1..n) /\ at(pin) \in SUBSET (1..n)
      BY <1>1, CountTo
    <3> QED BY <3>1, FS_Subset
  <2>2. DOMAIN f = 1..n /\ at(pin) \subseteq 1..n
    OBVIOUS
  <2>3. {f[i] : i \in at(pin)} = {x \in P : x.pin = pin}
    <3> HIDE DEF f, P, n
    <3> QED BY <1>3
  <2> HIDE DEF f, P, n, at
  <2>4. ASSUME NEW I, IsFiniteSet(I), I \subseteq 1..n PROVE Cardinality({f[i] : i \in I}) = Cardinality(I)
    <3>1. I \subseteq DOMAIN f /\ \A i, j \in I : f[i] = f[j] => i = j
      BY <1>4, <2>2, <2>4
    <3> QED BY <2>4, <3>1, ImageSize
  <2>5. Cardinality({f[i] : i \in at(pin)}) = Cardinality(at(pin))
    BY <2>1, <2>2, <2>4
  <2> QED BY <2>3, <2>5
<1> HIDE DEF at, P
<1>8. SchemaFingerprint(r) = [pin \in {x.pin : x \in P} |-> Cardinality(at(pin))]
  BY <1>5, <1>6
<1> QED BY <1>7, <1>8 DEF P

\* Two plans with one configuration are of the same Resources, with the same selectors and Schemas.
LEMMA OneConfiguration ==
  ASSUME NEW p, PlanSound(p), p # NoPlan, NEW q, PlanSound(q), q # NoPlan, p.config = q.config
  PROVE  /\ Keys(p.spec) = Keys(q.spec)
         /\ \A key \in Keys(q.spec) :
              /\ Requirement(p.spec, key).selector = Requirement(q.spec, key).selector
              /\ SchemaFingerprint(Requirement(p.spec, key)) = SchemaFingerprint(Requirement(q.spec, key))
<1>1. /\ Sound(p.spec) /\ p.host \in Hosts /\ p.config.pins = RenderedPins(p.spec, p.host)
      /\ Sound(q.spec) /\ q.host \in Hosts /\ q.config.pins = RenderedPins(q.spec, q.host)
  <2>1. ASSUME NEW x, PlanSound(x), x # NoPlan
        PROVE  Sound(x.spec) /\ x.host \in Hosts /\ x.config.pins = RenderedPins(x.spec, x.host)
    <3>1. Sound(x.spec) /\ x.host \in Hosts /\ x = PlanOf(x.spec, x.host)
      BY <2>1 DEF PlanSound
    <3>2. x.config = Rendered(x.spec, x.host)
      BY <3>1, PlanFields
    <3> QED BY <3>1, <3>2 DEF Rendered
  <2> QED BY <2>1
<1>2. SchemaPins(p.spec) = SchemaPins(q.spec)
  <2>1. ASSUME NEW s, NEW h \in Hosts, Sound(s), NEW pins, pins = RenderedPins(s, h)
        PROVE  SchemaPins(s) = {pins[i] : i \in DOMAIN pins}
    BY <2>1, PinsRendered
  <2> QED BY <1>1, <2>1
<1>3. \A selector : PinsOfSelector(p.spec, selector) = PinsOfSelector(q.spec, selector)
  BY <1>2 DEF PinsOfSelector
<1>4. ASSUME NEW s, Sound(s), NEW t, Sound(t), SchemaPins(s) = SchemaPins(t), NEW r \in Elements(t.resources)
      PROVE  \E o \in Elements(s.resources) : o.selector = r.selector
  <2>1. PICK x : x \in SchemaPins(t) /\ x.ref = r.selector
    BY <1>4, PinsOfResource DEF PinsOfSelector
  <2>2. \E o \in Elements(s.resources) : \E schema \in Elements(o.schemas) : x = PinOfSchema(o, schema)
    BY <1>4, <2>1 DEF SchemaPins, PinOfSchema
  <2> QED BY <2>1, <2>2 DEF PinOfSchema
<1>5. Keys(p.spec) = Keys(q.spec)
  <2>1. \A r \in Elements(q.spec.resources) : \E o \in Elements(p.spec.resources) : o.selector = r.selector
    BY <1>1, <1>2, <1>4
  <2>2. \A r \in Elements(p.spec.resources) : \E o \in Elements(q.spec.resources) : o.selector = r.selector
    BY <1>1, <1>2, <1>4
  <2>3. \A s, key : key \in Keys(s) <=> \E r \in Elements(s.resources) : key = SelectorKey(r.selector)
    BY DEF Keys
  <2>4. \A key : key \in Keys(p.spec) <=> key \in Keys(q.spec)
    BY <2>1, <2>2, <2>3
  <2> QED BY <2>4
<1>6. ASSUME NEW key \in Keys(q.spec)
      PROVE  /\ Requirement(p.spec, key).selector = Requirement(q.spec, key).selector
             /\ SchemaFingerprint(Requirement(p.spec, key)) = SchemaFingerprint(Requirement(q.spec, key))
  <2> DEFINE r == Requirement(q.spec, key)
  <2>1. Placeable(p.spec) /\ Placeable(q.spec)
    BY <1>1, SoundIsPlaceable
  <2>2. r \in Elements(q.spec.resources) /\ SelectorKey(r.selector) = key
    BY <2>1, RequirementFound
  <2> HIDE DEF r
  <2>3. PICK o \in Elements(p.spec.resources) : o.selector = r.selector
    BY <1>1, <1>2, <1>4, <2>2
  <2>4. Requirement(p.spec, key) = o
    <3>1. Requirement(p.spec, SelectorKey(o.selector)) = o
      BY <2>1, RequirementFound
    <3> QED BY <2>2, <2>3, <3>1
  <2>5. SchemaFingerprint(o) = SchemaFingerprint(r)
    <3>1. SchemaFingerprint(o) = [pin \in {x.pin : x \in PinsOfSelector(p.spec, o.selector)} |->
                                   Cardinality({x \in PinsOfSelector(p.spec, o.selector) : x.pin = pin})]
      BY <1>1, PinsTellSchemas
    <3>2. SchemaFingerprint(r) = [pin \in {x.pin : x \in PinsOfSelector(q.spec, r.selector)} |->
                                   Cardinality({x \in PinsOfSelector(q.spec, r.selector) : x.pin = pin})]
      BY <1>1, <2>2, PinsTellSchemas
    <3>3. PinsOfSelector(p.spec, o.selector) = PinsOfSelector(q.spec, r.selector)
      BY <1>3, <2>3
    <3> QED BY <3>1, <3>2, <3>3
  <2> QED BY <2>3, <2>4, <2>5 DEF r
<1> QED BY <1>5, <1>6

\* Between two plans: whatever is rendered differently is in the fingerprint of each Resource.
LEMMA RenderedTold ==
  ASSUME NEW p, PlanSound(p), p # NoPlan, NEW q, PlanSound(q), q # NoPlan
  PROVE  /\ Diff(p, q).empty <=> p.config = q.config
         /\ \A key \in Keys(p.spec) \cap Keys(q.spec) : p.config # q.config => key \in Diff(p, q).changed
<1>1. ASSUME NEW x, PlanSound(x), x # NoPlan
      PROVE  /\ DOMAIN x.bindings = Keys(x.spec)
             /\ \A key \in Keys(x.spec) : x.bindings[key] = ResourceBinding(Requirement(x.spec, key), x.config)
  <2>1. x = PlanOf(x.spec, x.host)
    BY <1>1 DEF PlanSound
  <2>2. ASSUME NEW s, NEW h
        PROVE  \A key \in Keys(s) :
                 PlanOf(s, h).bindings[key] = ResourceBinding(Requirement(s, key), PlanOf(s, h).config)
    BY DEF PlanOf
  <2> QED BY <2>1, <2>2, PlanFields
<1>2. \A key \in Keys(p.spec) \cap Keys(q.spec) : p.config # q.config => p.bindings[key] # q.bindings[key]
  <2>1. \A r, config : ResourceBinding(r, config).config = config
    BY DEF ResourceBinding
  <2>2. ASSUME NEW key \in Keys(p.spec) \cap Keys(q.spec), p.config # q.config
        PROVE  p.bindings[key] # q.bindings[key]
    <3>1. p.bindings[key].config = p.config /\ q.bindings[key].config = q.config
      BY <1>1, <2>1, <2>2
    <3> QED BY <2>2, <3>1
  <2> QED BY <2>2
<1>3. ASSUME p.config = q.config
      PROVE  /\ Keys(p.spec) = Keys(q.spec)
             /\ \A key \in Keys(q.spec) : p.bindings[key] = q.bindings[key]
  <2>1. Keys(p.spec) = Keys(q.spec)
    BY <1>3, OneConfiguration
  <2>2. ASSUME NEW r, NEW o, o.selector = r.selector, SchemaFingerprint(o) = SchemaFingerprint(r), NEW config
        PROVE  ResourceBinding(o, config) = ResourceBinding(r, config)
    BY <2>2 DEF ResourceBinding
  <2>3. ASSUME NEW key \in Keys(q.spec) PROVE p.bindings[key] = q.bindings[key]
    <3> DEFINE o == Requirement(p.spec, key)
               r == Requirement(q.spec, key)
    <3>1. o.selector = r.selector /\ SchemaFingerprint(o) = SchemaFingerprint(r)
      BY <1>3, OneConfiguration
    <3>2. p.bindings[key] = ResourceBinding(o, q.config) /\ q.bindings[key] = ResourceBinding(r, q.config)
      BY <1>1, <1>3, <2>1
    <3> HIDE DEF o, r
    <3> QED BY <2>2, <3>1, <3>2
  <2> QED BY <2>1, <2>3
<1> QED BY <1>1, <1>2, <1>3 DEF Diff

\* And a Resource that keeps its labels stays on its binding.
LEMMA LabelsTellMoves ==
  ASSUME NEW p, PlanSound(p), p # NoPlan, NEW q, PlanSound(q), q # NoPlan, p.config = q.config,
         NEW key \in Keys(q.spec), Requirement(p.spec, key).labels = Requirement(q.spec, key).labels
  PROVE  p.placed[key] = q.placed[key]
<1>1. key \in Keys(p.spec) /\ Requirement(p.spec, key).selector = Requirement(q.spec, key).selector
  BY OneConfiguration
<1>2. PICK i \in DOMAIN p.config.placements :
        RulesThatPlace(p, key) = {i} /\ p.config.placements[i].binding = p.placed[key]
  BY <1>1, ExactlyOneRule
<1>3. PICK j \in DOMAIN q.config.placements :
        RulesThatPlace(q, key) = {j} /\ q.config.placements[j].binding = q.placed[key]
  BY ExactlyOneRule
<1>4. \A rule : Matches(rule, Requirement(p.spec, key)) <=> Matches(rule, Requirement(q.spec, key))
  BY <1>1 DEF Matches
<1>5. RulesThatPlace(p, key) = RulesThatPlace(q, key)
  BY <1>4 DEF RulesThatPlace
<1> QED BY <1>2, <1>3, <1>5

\* Whatever an author wrote: a plan does not depend on the order of the lists of its
\* specification, the diff of two plans is empty exactly if nothing rendered differs, and then hides
\* no move of a Resource that keeps its labels; it names every Resource that is rendered differently; and what the typed validators admit the released schema
\* admits, but for fractions (planDeployment, diffPlans, validateRuntimeConfig).
THEOREM PlansAreFaithful == AuthorSpec => []PlanFaithful
<1>1. AuthorInv => PlanFaithful
  <2> SUFFICES ASSUME AuthorInv PROVE PlanFaithful
    OBVIOUS
  <2>1. PlanSound(before) /\ PlanSound(after) /\ (before # NoPlan => after # NoPlan)
    BY DEF AuthorInv
  <2>2. OrderIrrelevant
    <3> SUFFICES ASSUME after # NoPlan
                 PROVE  LET other == Reordered(after.spec)
                        IN  /\ Accepts(other, after.host)
                            /\ PlanOf(other, after.host).config = after.config
                            /\ PlanOf(other, after.host).bindings = after.bindings
                            /\ PlacementBindings(other) = after.placed
      BY DEF OrderIrrelevant
    <3>1. /\ Sound(after.spec) /\ after.host \in Hosts /\ Accepts(after.spec, after.host)
          /\ after = PlanOf(after.spec, after.host)
      BY <2>1 DEF PlanSound
    <3> QED BY <3>1, OrderDoesNotMatter
  <2>3. DiffTellsRendered
    <3> SUFFICES ASSUME before # NoPlan PROVE DiffTellsRendered
      BY DEF DiffTellsRendered
    <3>1. /\ Diff(before, after).empty <=> before.config = after.config
          /\ \A key \in Keys(before.spec) \cap Keys(after.spec) :
               before.config # after.config => key \in Diff(before, after).changed
      BY <2>1, RenderedTold
    <3>2. ASSUME NEW key,
                 \/ PinsOf(before, key) # PinsOf(after, key)
                 \/ before.config.placements # after.config.placements
                 \/ before.placed[key] = after.placed[key] /\ EngineOf(before, key) # EngineOf(after, key)
          PROVE  before.config # after.config
      BY <3>2 DEF PinsOf, EngineOf
    <3> QED BY <3>1, <3>2 DEF DiffTellsRendered
  <2>4. RefusedLastForFractions
    <3> SUFFICES ASSUME verdict = "rejected", Judged(spec),
                        IsWholeMillisecond(spec.validation.baseDelay), IsWholeMillisecond(spec.validation.maxDelay)
                 PROVE  FALSE
      BY DEF RefusedLastForFractions
    <3>1. PICK h \in Hosts : ~Accepts(spec, h)
      BY DEF AuthorInv
    <3>2. Sound(spec)
      BY DEF AuthorInv, Sound
    <3>3. RuntimeConfigValid(Rendered(spec, h))
      BY <3>2, RenderedFits
    <3> QED BY <3>1, <3>3 DEF Accepts
  <2>5. DiffTellsPlacement
    <3> SUFFICES ASSUME before # NoPlan, Diff(before, after).empty, NEW key \in Keys(after.spec),
                        Requirement(before.spec, key).labels = Requirement(after.spec, key).labels
                 PROVE  before.placed[key] = after.placed[key]
      BY DEF DiffTellsPlacement
    <3>1. before.config = after.config
      BY <2>1, RenderedTold
    <3> QED BY <2>1, <3>1, LabelsTellMoves
  <2> QED BY <2>2, <2>3, <2>4, <2>5 DEF PlanFaithful
<1> QED BY <1>1, AuthorInvariant, PTL

-----------------------------------------------------------------------------
(* Default limits.                                                         *)
Spelled(limit, value) == [keys |-> {}, limits |-> [l \in {limit} |-> value], layouts |-> None]

LEMMA SpelledOut ==
  ASSUME NEW p, IsProfileRecord(p), NEW limit \in MappedLimits(p.adapter), BoundsAlike(p, limit)
  PROVE  /\ \E c \in DOMAIN p.operations : limit \in DOMAIN p.operations[c].limits
         /\ SettingsFit(p, Spelled(limit, DefaultLimit(p, limit)))
         /\ ConfiguredProfile(p, Spelled(limit, DefaultLimit(p, limit)), FALSE) = p
<1> DEFINE range == SettingRanges[Family(p.adapter)][limit]
           holds(c) == limit \in DOMAIN p.operations[c].limits
<1> DEFINE bounds == {c \in DOMAIN p.operations : holds(c)}
<1>0. PICK first \in bounds :
        /\ p.operations[first].limits[limit] \in range[1]..range[2]
        /\ \A c \in bounds : p.operations[c].limits[limit] = p.operations[first].limits[limit]
  BY DEF BoundsAlike
<1> DEFINE value == p.operations[first].limits[limit]
<1>1. /\ value \in range[1]..range[2]
      /\ \E c \in DOMAIN p.operations : holds(c)
      /\ \A c \in DOMAIN p.operations : holds(c) => p.operations[c].limits[limit] = value
  BY <1>0
<1> HIDE DEF value, bounds
<1>2. DefaultLimit(p, limit) = value
  <2> DEFINE chosen == CHOOSE c \in DOMAIN p.operations : holds(c)
  <2>1. chosen \in DOMAIN p.operations /\ holds(chosen)
    BY <1>1
  <2>2. DefaultLimit(p, limit) = p.operations[chosen].limits[limit]
    BY DEF DefaultLimit
  <2> HIDE DEF chosen
  <2> QED BY <1>1, <2>1, <2>2
<1> DEFINE settings == Spelled(limit, value)
<1>3. /\ settings.limits = [l \in {limit} |-> value] /\ settings.layouts = None
      /\ MappedSettings(p, settings) = {limit} /\ ~LayoutsCount(p, settings)
  BY DEF Spelled, MappedSettings, LayoutsCount
<1> HIDE DEF settings, range
<1>4. SettingsFit(p, settings)
  BY <1>1, <1>3 DEF SettingsFit, range
<1>5. ASSUME NEW c \in DOMAIN p.operations
      PROVE  ConfiguredOperation(c, p.operations[c], p, settings, FALSE) = p.operations[c]
  <2> DEFINE o == p.operations[c]
  <2>1. \A l \in DOMAIN o.limits :
          (IF l \in MappedSettings(p, settings) THEN EffectiveLimit(o.limits[l], settings.limits[l], FALSE)
           ELSE o.limits[l]) = o.limits[l]
    BY <1>1, <1>3 DEF EffectiveLimit
  <2>2. IsOperation(o)
    BY DEF IsProfileRecord
  <2> HIDE DEF o
  <2>3. ConfiguredLimits(o.limits, p, settings, FALSE) = [l \in DOMAIN o.limits |-> o.limits[l]]
    BY <2>1 DEF ConfiguredLimits
  <2>4. ConfiguredGuarantees(o.guarantees, p, settings, FALSE) = o.guarantees
    BY <1>3 DEF ConfiguredGuarantees
  <2>5. ConfiguredOperation(c, o, p, settings, FALSE) =
          [versions |-> o.versions, guarantees |-> o.guarantees, limits |-> [l \in DOMAIN o.limits |-> o.limits[l]]]
    BY <2>3, <2>4 DEF ConfiguredOperation
  <2>6. ConfiguredOperation(c, o, p, settings, FALSE) = o
    BY <2>2, <2>5 DEF IsOperation
  <2> QED BY <2>6 DEF o
<1>6. ConfiguredProfile(p, settings, FALSE) = p
  <2> DEFINE at(c) == ConfiguredOperation(c, p.operations[c], p, settings, FALSE)
  <2>1. ConfiguredProfile(p, settings, FALSE) = [p EXCEPT !.operations = [c \in DOMAIN p.operations |-> at(c)]]
    BY DEF ConfiguredProfile
  <2>2. \A c \in DOMAIN p.operations : at(c) = p.operations[c]
    BY <1>5
  <2> HIDE DEF at
  <2>3. [c \in DOMAIN p.operations |-> at(c)] = p.operations
    BY <2>2 DEF IsProfileRecord
  <2>4. [p EXCEPT !.operations = p.operations] = p
    BY DEF IsProfileRecord
  <2> QED BY <2>1, <2>3, <2>4
<1> QED BY <1>1, <1>2, <1>4, <1>6 DEF settings

\* Where the operations of each profile bound a limit alike and within the range of its setting,
\* writing a default into the settings of a binding changes no plan: the premise is one about the
\* tables (engineProfiles, settings.ts), which does not depend on what an author does.
THEOREM DefaultsMayBeSpelled ==
  (\A id \in DOMAIN Profiles : IsProfileRecord(Profiles[id]) /\ DefaultsInRange(Profiles[id]))
    => (AuthorSpec => []DefaultsConfigurable)
<1> SUFFICES ASSUME \A id \in DOMAIN Profiles : IsProfileRecord(Profiles[id]) /\ DefaultsInRange(Profiles[id])
             PROVE  AuthorSpec => []DefaultsConfigurable
  OBVIOUS
<1>1. AuthorInv => DefaultsConfigurable
  <2> SUFFICES ASSUME AuthorInv, after # NoPlan, NEW b \in Elements(after.spec.bindings),
                      NEW limit \in MappedLimits(Profiles[b.profile].adapter)
               PROVE  LET profile == Profiles[b.profile]
                          spelled == Spelled(limit, DefaultLimit(profile, limit))
                      IN  /\ \E c \in DOMAIN profile.operations : limit \in DOMAIN profile.operations[c].limits
                          /\ SettingsFit(profile, spelled) /\ ConfiguredProfile(profile, spelled, FALSE) = profile
    BY DEF DefaultsConfigurable, Spelled
  <2>1. Sound(after.spec)
    BY DEF AuthorInv, PlanSound
  <2>2. b.profile \in DOMAIN Profiles
    BY <2>1 DEF Sound, Judged, BindingsValid, BindingValid
  <2>3. IsProfileRecord(Profiles[b.profile]) /\ BoundsAlike(Profiles[b.profile], limit)
    BY <2>2 DEF DefaultsInRange
  <2> QED BY <2>3, SpelledOut
<1> QED BY <1>1, AuthorInvariant, PTL

-----------------------------------------------------------------------------
(* Hosts that order texts alike.                                           *)
SameOrderOn(g, h) == \A t, u : HasPlace(t) /\ HasPlace(u) => (Precedes(g, t, u) <=> Precedes(h, t, u))

LEMMA SortedAlike ==
  ASSUME NEW g, NEW h, SameOrderOn(g, h), NEW seq
  PROVE  /\ (\A x \in Elements(seq) : HasPlace(x.id)) => SortedById(seq, g) = SortedById(seq, h)
         /\ (\A x \in Elements(seq) : HasPlace(SelectorKey(x)))
              => SortedBy(seq, SelectorKey, g) = SortedBy(seq, SelectorKey, h)
<1> DEFINE S == Elements(seq)
<1>1. ASSUME \A x \in S : HasPlace(x.id) PROVE SortedById(seq, g) = SortedById(seq, h)
  <2> DEFINE rank(k, x) == Cardinality({y \in S : Precedes(k, y.id, x.id)})
             pick(k, i) == CHOOSE x \in S : rank(k, x) = i - 1
  <2>1. ASSUME NEW x \in S PROVE rank(g, x) = rank(h, x)
    <3>1. {y \in S : Precedes(g, y.id, x.id)} = {y \in S : Precedes(h, y.id, x.id)}
      BY <1>1 DEF SameOrderOn
    <3> QED BY <3>1
  <2>2. ASSUME NEW i PROVE pick(g, i) = pick(h, i)
    <3> HIDE DEF S, rank
    <3> QED BY <2>1
  <2>3. /\ SortedById(seq, g) = [i \in 1..Cardinality(S) |-> pick(g, i)]
        /\ SortedById(seq, h) = [i \in 1..Cardinality(S) |-> pick(h, i)]
    BY DEF SortedById, SortedBy, Sorted
  <2> HIDE DEF S, pick
  <2> QED BY <2>2, <2>3
<1>2. ASSUME \A x \in S : HasPlace(SelectorKey(x))
      PROVE  SortedBy(seq, SelectorKey, g) = SortedBy(seq, SelectorKey, h)
  <2> DEFINE rank(k, x) == Cardinality({y \in S : Precedes(k, SelectorKey(y), SelectorKey(x))})
             pick(k, i) == CHOOSE x \in S : rank(k, x) = i - 1
  <2>1. ASSUME NEW x \in S PROVE rank(g, x) = rank(h, x)
    <3>1. {y \in S : Precedes(g, SelectorKey(y), SelectorKey(x))} = {y \in S : Precedes(h, SelectorKey(y), SelectorKey(x))}
      BY <1>2 DEF SameOrderOn
    <3> QED BY <3>1
  <2>2. ASSUME NEW i PROVE pick(g, i) = pick(h, i)
    <3> HIDE DEF S, rank
    <3> QED BY <2>1
  <2>3. /\ SortedBy(seq, SelectorKey, g) = [i \in 1..Cardinality(S) |-> pick(g, i)]
        /\ SortedBy(seq, SelectorKey, h) = [i \in 1..Cardinality(S) |-> pick(h, i)]
    BY DEF SortedBy, Sorted
  <2> HIDE DEF S, pick
  <2> QED BY <2>2, <2>3
<1> QED BY <1>1, <1>2

LEMMA CatalogsAlike ==
  ASSUME NEW g, NEW h, SameOrderOn(g, h), NEW s, \A c \in Elements(s.catalogs) : HasPlace(c.name)
  PROVE  CatalogsByName(s, g) = CatalogsByName(s, h)
<1> DEFINE S == Elements(s.catalogs)
           rank(k, x) == Cardinality({y \in S : Precedes(k, y.name, x.name)})
           pick(k, i) == CHOOSE x \in S : rank(k, x) = i - 1
<1>1. ASSUME NEW x \in S PROVE rank(g, x) = rank(h, x)
  <2>1. {y \in S : Precedes(g, y.name, x.name)} = {y \in S : Precedes(h, y.name, x.name)}
    BY DEF SameOrderOn
  <2> QED BY <2>1
<1>2. ASSUME NEW i PROVE pick(g, i) = pick(h, i)
  <2> HIDE DEF S, rank
  <2> QED BY <1>1
<1>3. /\ CatalogsByName(s, g) = [i \in 1..Cardinality(S) |-> pick(g, i)]
      /\ CatalogsByName(s, h) = [i \in 1..Cardinality(S) |-> pick(h, i)]
  BY DEF CatalogsByName, SortedBy, Sorted
<1> HIDE DEF S, pick
<1> QED BY <1>2, <1>3

LEMMA PinsAlike ==
  ASSUME NEW g \in Hosts, NEW h \in Hosts, SameOrderOn(g, h), NEW s, Sound(s)
  PROVE  RenderedPins(s, g) = RenderedPins(s, h)
<1> DEFINE S == SchemaPins(s)
           rank(k, x) == Cardinality({y \in S : PinPrecedes(k, y, x)})
           pick(k, i) == CHOOSE x \in S : rank(k, x) = i - 1
<1>1. \A x, y \in S : PinPrecedes(g, x, y) <=> PinPrecedes(h, x, y)
  <2>1. \A x \in S : HasPlace(SelectorKey(x.ref)) /\ HasPlace(x.provider)
    BY PinFacts
  <2> HIDE DEF S
  <2> QED BY <2>1 DEF SameOrderOn, PinPrecedes
<1>2. ASSUME NEW x \in S PROVE rank(g, x) = rank(h, x)
  <2>1. {y \in S : PinPrecedes(g, y, x)} = {y \in S : PinPrecedes(h, y, x)}
    <3> HIDE DEF S
    <3> QED BY <1>1, <1>2
  <2> QED BY <2>1
<1>3. ASSUME NEW i PROVE pick(g, i) = pick(h, i)
  <2> HIDE DEF S, rank
  <2> QED BY <1>2
<1>4. /\ RenderedPins(s, g) = [i \in 1..Cardinality(S) |-> pick(g, i)]
      /\ RenderedPins(s, h) = [i \in 1..Cardinality(S) |-> pick(h, i)]
  BY DEF RenderedPins, Sorted, PinPrecedes
<1> HIDE DEF S, pick
<1> QED BY <1>3, <1>4

LEMMA RulesAlike ==
  ASSUME NEW g \in Hosts, NEW h \in Hosts, SameOrderOn(g, h), NEW s, Sound(s)
  PROVE  RenderedRules(s, g) = RenderedRules(s, h)
<1> DEFINE sorted == SortedById(s.placements, h)
<1>1. \A p \in Elements(s.placements) :
        /\ HasPlace(p.id) /\ \A n \in Elements(p.selector.resources) : HasPlace(SelectorKey(n))
  BY DEF Sound, SpecificationTyped, PlacementsTyped, RuleTyped, Judged, PlacementsValid, IsPlacementSelector
<1>2. SortedById(s.placements, g) = sorted
  BY <1>1, SortedAlike
<1>3. Arranges(sorted, Elements(s.placements))
  BY RulesRendered
<1>4. ASSUME NEW p \in Elements(s.placements) PROVE RenderedRule(p, g) = RenderedRule(p, h)
  <2>1. SortedBy(p.selector.resources, SelectorKey, g) = SortedBy(p.selector.resources, SelectorKey, h)
    BY <1>1, SortedAlike
  <2> QED BY <2>1 DEF RenderedRule
<1>5. ASSUME NEW i \in DOMAIN sorted PROVE RenderedRule(sorted[i], g) = RenderedRule(sorted[i], h)
  BY <1>3, <1>4 DEF Arranges
<1>6. /\ RenderedRules(s, g) = [i \in DOMAIN sorted |-> RenderedRule(sorted[i], g)]
      /\ RenderedRules(s, h) = [i \in DOMAIN sorted |-> RenderedRule(sorted[i], h)]
  BY <1>2 DEF RenderedRules
<1> HIDE DEF sorted
<1> QED BY <1>5, <1>6

LEMMA RenderedAlike ==
  ASSUME NEW g \in Hosts, NEW h \in Hosts, SameOrderOn(g, h), NEW s, Sound(s)
  PROVE  Rendered(s, g) = Rendered(s, h)
<1>1. /\ \A c \in Elements(s.catalogs) : HasPlace(c.name)
      /\ \A p \in Elements(s.providers) : HasPlace(p.id)
      /\ \A b \in Elements(s.bindings) : HasPlace(b.id)
  BY DEF Sound, SpecificationTyped, CatalogsTyped, ProvidersTyped, BindingsTyped, Judged, ProvidersValid, BindingsValid, BindingValid
<1>2. CatalogsByName(s, g) = CatalogsByName(s, h)
  BY <1>1, CatalogsAlike
<1>3. SortedById(s.providers, g) = SortedById(s.providers, h) /\ SortedById(s.bindings, g) = SortedById(s.bindings, h)
  BY <1>1, SortedAlike
<1>4. RenderedBindings(s, g) = RenderedBindings(s, h)
  BY <1>3 DEF RenderedBindings
<1>5. RenderedPins(s, g) = RenderedPins(s, h) /\ RenderedRules(s, g) = RenderedRules(s, h)
  BY PinsAlike, RulesAlike
<1>6. ASSUME NEW k
      PROVE  Rendered(s, k) =
               [profile |-> s.profile, catalogs |-> CatalogsByName(s, k), pins |-> RenderedPins(s, k),
                providers |-> SortedById(s.providers, k), live |-> s.live, bindings |-> RenderedBindings(s, k),
                placements |-> RenderedRules(s, k), validation |-> s.validation, telemetry |-> s.telemetry]
  BY DEF Rendered, CatalogsByName, SortedBy
<1> QED BY <1>2, <1>3, <1>4, <1>5, <1>6

\* The order of texts is all that tells two hosts apart: where all hosts order alike, planning is a
\* function of the specification (planDeployment, localeCompare).
THEOREM OneOrderOnePlan == (\A g, h \in Hosts : SameOrderOn(g, h)) => (AuthorSpec => []PlannedAlike)
<1> SUFFICES ASSUME \A g, h \in Hosts : SameOrderOn(g, h) PROVE AuthorSpec => []PlannedAlike
  OBVIOUS
<1>1. AuthorInv => PlannedAlike
  <2> SUFFICES ASSUME AuthorInv, before # NoPlan, before.spec = after.spec PROVE before.config = after.config
    BY DEF PlannedAlike
  <2>1. /\ Sound(before.spec) /\ before.host \in Hosts /\ before = PlanOf(before.spec, before.host)
        /\ after.host \in Hosts /\ after = PlanOf(after.spec, after.host)
    BY DEF AuthorInv, PlanSound
  <2>2. before.config = Rendered(before.spec, before.host) /\ after.config = Rendered(after.spec, after.host)
    BY <2>1, PlanFields
  <2> QED BY <2>1, <2>2, RenderedAlike
<1> QED BY <1>1, AuthorInvariant, PTL

-----------------------------------------------------------------------------
(* The program: the invariant.                                             *)
\* What was judged of each engine, what was published, and what was planned.
EngineJudged(i) ==
  /\ program.engines[i].kind = "managed" => i \in provisioned
  /\ EvidenceFits(program.engines[i]) /\ ConnectionFits(program.engines[i])
ProgramInv ==
  /\ program \in Programs
  /\ next \in 1..(Deploying + 1) /\ thrown \in BOOLEAN /\ telemetry \in BOOLEAN
  /\ bound \in [Engines -> {"pending", "resolved", "failed"}]
  /\ \A i \in Engines : bound[i] # "pending" => i < next
  /\ provisioned \subseteq {i \in Engines : i < next /\ program.engines[i].kind = "managed"}
  /\ \A i \in provisioned : EvidenceFits(program.engines[i])
  /\ ~thrown => \A i \in Engines : i < next => EngineJudged(i)
  /\ ~thrown /\ next > Deploying => outputs = [key \in Keys(Specification) |-> OutputOf(key)]
  /\ Planned => /\ ~thrown /\ next > Deploying /\ Sound(Specification)
                /\ Accepts(Specification, Home) /\ plan = PlanOf(Specification, Home)

LEMMA EnginesOfProgram ==
  ASSUME program \in Programs
  PROVE  /\ Len(program.engines) \in Nat /\ Engines = 1..Len(program.engines) /\ Deploying = Len(program.engines) + 1
         /\ \A i \in Engines : EngineTyped(program.engines[i])
<1>1. IsList(program.engines) /\ \A e \in Elements(program.engines) : EngineTyped(e)
  BY ProgramsAssumption
<1> QED BY <1>1, ListFacts DEF Engines, Deploying

\* The binding of an engine has the arguments of the author, its kind and its connection.
LEMMA BindingFields ==
  ASSUME NEW e, EngineTyped(e)
  PROVE  /\ DOMAIN BindingSpec(e) = DOMAIN e.binding
         /\ BindingSpec(e).mode = e.kind /\ BindingSpec(e).topology = Topology(e.binding)
         /\ BindingSpec(e).connection = e.connection
         /\ \A field \in DOMAIN e.binding \ {"mode", "topology", "connection"} : BindingSpec(e)[field] = e.binding[field]
BY DEF BindingSpec, EngineTyped

LEMMA SpecificationFields ==
  ASSUME program \in Programs
  PROVE  /\ SpecificationTyped(Specification)
         /\ Specification.bindings = [i \in Engines |-> BindingSpec(program.engines[i])]
<1> DEFINE list == [i \in Engines |-> BindingSpec(program.engines[i])]
           empty == Whole(program.deployment, <<>>)
<1>1. SpecificationTyped(empty)
  BY ProgramsAssumption
<1>2. DOMAIN Specification = DOMAIN empty /\ Specification.bindings = list
      /\ \A field \in DOMAIN empty \ {"bindings"} : Specification[field] = empty[field]
  BY DEF Specification, Whole
<1>3. BindingsTyped(list)
  <2>1. IsList(list)
    BY EnginesOfProgram DEF IsList, Elements
  <2>2. ASSUME NEW b \in Elements(list), IsIdentifier(b.id) PROVE HasPlace(b.id)
    <3>1. PICK i \in Engines : b = BindingSpec(program.engines[i])
      BY DEF Elements
    <3>2. EngineTyped(program.engines[i])
      BY EnginesOfProgram
    <3>3. b.id = program.engines[i].binding.id
      BY <3>1, <3>2, BindingFields DEF EngineTyped
    <3> QED BY <2>2, <3>2, <3>3 DEF EngineTyped
  <2> HIDE DEF list
  <2> QED BY <2>1, <2>2 DEF BindingsTyped
<1> HIDE DEF list, empty
<1>4. SpecificationTyped(Specification)
  BY <1>1, <1>2, <1>3 DEF SpecificationTyped
<1> QED BY <1>2, <1>4 DEF list

LEMMA ProgramStays ==
  ASSUME UNCHANGED program
  PROVE  /\ Engines' = Engines /\ Deploying' = Deploying /\ Specification' = Specification
         /\ [key \in Keys(Specification) |-> OutputOf(key)]' = [key \in Keys(Specification) |-> OutputOf(key)]
<1>1. Engines' = Engines /\ Deploying' = Deploying
  BY DEF Engines, Deploying
<1>2. Specification' = Specification
  BY <1>1 DEF Specification
<1>3. ASSUME NEW key PROVE OutputOf(key)' = OutputOf(key)
  BY <1>1, <1>2 DEF OutputOf, EngineNamed
<1> QED BY <1>1, <1>2, <1>3

THEOREM ProgramInvariant == ProgramSpec => []ProgramInv
<1>1. ProgramInit => ProgramInv
  <2> SUFFICES ASSUME ProgramInit PROVE ProgramInv
    OBVIOUS
  <2>1. /\ program \in Programs /\ next = 1 /\ thrown = FALSE /\ provisioned = {} /\ settled = "pending"
        /\ bound = [i \in Engines |-> "pending"] /\ telemetry \in BOOLEAN
    BY DEF ProgramInit
  <2>2. Len(program.engines) \in Nat /\ Engines = 1..Len(program.engines) /\ Deploying = Len(program.engines) + 1
    BY <2>1, EnginesOfProgram
  <2>3. next \in 1..(Deploying + 1) /\ ~(next > Deploying) /\ \A i \in Engines : ~(i < next)
    BY <2>1, <2>2
  <2>4. ~Planned
    BY <2>1 DEF Planned
  <2> QED BY <2>1, <2>3, <2>4 DEF ProgramInv
<1>2. ProgramInv /\ [ProgramNext]_programVars => ProgramInv'
  <2> SUFFICES ASSUME ProgramInv, [ProgramNext]_programVars PROVE ProgramInv'
    OBVIOUS
  <2>1. /\ Len(program.engines) \in Nat /\ Engines = 1..Len(program.engines)
        /\ Deploying = Len(program.engines) + 1 /\ next \in Nat
    BY EnginesOfProgram DEF ProgramInv
  <2>2. CASE ConstructEngine
    <3> DEFINE e == program.engines[next]
               admitted == EvidenceFits(e)
    <3>1. /\ ~thrown /\ next \in Engines /\ next' = next + 1
          /\ provisioned' = IF admitted /\ e.kind = "managed" THEN provisioned \cup {next} ELSE provisioned
          /\ thrown' = ~(admitted /\ ConnectionFits(e))
          /\ UNCHANGED <<program, bound, telemetry, outputs, settled, plan>>
      BY <2>2 DEF ConstructEngine
    <3>2. Engines' = Engines /\ Deploying' = Deploying
      BY <3>1, ProgramStays
    <3>3. ~(next > Deploying) /\ ~(next' > Deploying) /\ next' \in 1..(Deploying + 1)
      BY <2>1, <3>1
    <3>4. ~Planned /\ ~Planned'
      BY <3>1, <3>3 DEF ProgramInv, Planned
    <3>5. /\ provisioned' \subseteq {i \in Engines : i < next' /\ program.engines[i].kind = "managed"}
          /\ \A i \in provisioned' : EvidenceFits(program.engines[i])
      BY <2>1, <3>1 DEF ProgramInv
    <3>6. ~thrown' => \A i \in Engines : i < next' => EngineJudged(i)'
      <4> SUFFICES ASSUME ~thrown', NEW i \in Engines, i < next' PROVE EngineJudged(i)'
        OBVIOUS
      <4>1. CASE i = next
        BY <3>1, <4>1 DEF EngineJudged
      <4>2. CASE i # next
        <5>1. i < next
          BY <2>1, <3>1, <4>2
        <5> QED BY <3>1, <5>1 DEF EngineJudged, ProgramInv
      <4> QED BY <4>1, <4>2
    <3>7. \A i \in Engines : bound'[i] # "pending" => i < next'
      BY <2>1, <3>1 DEF ProgramInv
    <3>8. bound' \in [Engines -> {"pending", "resolved", "failed"}] /\ program' \in Programs /\ thrown' \in BOOLEAN /\ telemetry' \in BOOLEAN
      BY <3>1 DEF ProgramInv
    <3> QED BY <3>1, <3>2, <3>3, <3>4, <3>5, <3>6, <3>7, <3>8 DEF ProgramInv
  <2>3. CASE ConstructDeployment
    <3>1. /\ ~thrown /\ next = Deploying /\ next' = next + 1 /\ thrown' \in BOOLEAN
          /\ ~thrown' => outputs' = [key \in Keys(Specification) |-> OutputOf(key)]
          /\ UNCHANGED <<program, provisioned, bound, telemetry, settled, plan>>
      BY <2>3 DEF ConstructDeployment
    <3>2. /\ Engines' = Engines /\ Deploying' = Deploying
          /\ [key \in Keys(Specification) |-> OutputOf(key)]' = [key \in Keys(Specification) |-> OutputOf(key)]
      BY <3>1, ProgramStays
    <3>3. next' \in 1..(Deploying + 1) /\ ~(next > Deploying) /\ \A i \in Engines : i < next /\ i < next'
      BY <2>1, <3>1
    <3>4. ~Planned /\ ~Planned'
      BY <3>1, <3>3 DEF ProgramInv, Planned
    <3>5. \A i \in Engines : EngineJudged(i)'
      BY <3>1, <3>3 DEF ProgramInv, EngineJudged
    <3> QED BY <3>1, <3>2, <3>3, <3>4, <3>5 DEF ProgramInv
  <2>4. ASSUME NEW i \in Engines, BindEngine(i) \/ LoseEngine(i) PROVE ProgramInv'
    <3>1. /\ i < next /\ \E value \in {"resolved", "failed"} : bound' = [bound EXCEPT ![i] = value]
          /\ UNCHANGED <<program, next, thrown, provisioned, telemetry, outputs, settled, plan>>
      BY <2>4 DEF BindEngine, LoseEngine
    <3>2. /\ Engines' = Engines /\ Deploying' = Deploying /\ Specification' = Specification
          /\ [key \in Keys(Specification) |-> OutputOf(key)]' = [key \in Keys(Specification) |-> OutputOf(key)]
      BY <3>1, ProgramStays
    <3>3. bound' \in [Engines -> {"pending", "resolved", "failed"}] /\ \A j \in Engines : bound'[j] # "pending" => j < next
      BY <3>1 DEF ProgramInv
    <3> QED BY <3>1, <3>2, <3>3 DEF ProgramInv, EngineJudged, Planned
  <2>5. CASE LearnTelemetry
    <3>1. telemetry' = TRUE /\ UNCHANGED <<program, next, thrown, provisioned, bound, outputs, settled, plan>>
      BY <2>5 DEF LearnTelemetry
    <3>2. /\ Engines' = Engines /\ Deploying' = Deploying /\ Specification' = Specification
          /\ [key \in Keys(Specification) |-> OutputOf(key)]' = [key \in Keys(Specification) |-> OutputOf(key)]
      BY <3>1, ProgramStays
    <3> QED BY <3>1, <3>2 DEF ProgramInv, EngineJudged, Planned
  <2>6. CASE Compile
    <3>1. /\ ~thrown /\ next > Deploying
          /\ Planned' => Accepts(Specification, Home) /\ plan' = PlanOf(Specification, Home)
          /\ UNCHANGED <<program, next, thrown, provisioned, bound, telemetry, outputs>>
      BY <2>6 DEF Compile, Planned
    <3>2. /\ Engines' = Engines /\ Deploying' = Deploying /\ Specification' = Specification
          /\ [key \in Keys(Specification) |-> OutputOf(key)]' = [key \in Keys(Specification) |-> OutputOf(key)]
      BY <3>1, ProgramStays
    <3>3. SpecificationTyped(Specification)
      BY SpecificationFields DEF ProgramInv
    <3>4. Planned' => Sound(Specification)
      BY <3>1, <3>3 DEF Accepts, Sound
    <3> QED BY <3>1, <3>2, <3>4 DEF ProgramInv, EngineJudged
  <2>7. CASE Abandon
    <3>1. ~Planned' /\ UNCHANGED <<program, next, thrown, provisioned, bound, telemetry, outputs, plan>>
      BY <2>7 DEF Abandon, Planned
    <3>2. /\ Engines' = Engines /\ Deploying' = Deploying /\ Specification' = Specification
          /\ [key \in Keys(Specification) |-> OutputOf(key)]' = [key \in Keys(Specification) |-> OutputOf(key)]
      BY <3>1, ProgramStays
    <3> QED BY <3>1, <3>2 DEF ProgramInv, EngineJudged
  <2>8. CASE UNCHANGED programVars
    <3>1. UNCHANGED <<program, next, thrown, provisioned, bound, telemetry, outputs, settled, plan>>
      BY <2>8 DEF programVars
    <3>2. /\ Engines' = Engines /\ Deploying' = Deploying /\ Specification' = Specification
          /\ [key \in Keys(Specification) |-> OutputOf(key)]' = [key \in Keys(Specification) |-> OutputOf(key)]
      BY <3>1, ProgramStays
    <3> QED BY <3>1, <3>2 DEF ProgramInv, EngineJudged, Planned
  <2> QED BY <2>2, <2>3, <2>4, <2>5, <2>6, <2>7, <2>8 DEF ProgramNext
<1> QED BY <1>1, <1>2, PTL DEF ProgramSpec

-----------------------------------------------------------------------------
(* What a program provisions and publishes.                                *)
LEMMA SoundConnectionFits ==
  ASSUME NEW e, EngineTyped(e), e.kind = "managed", RequestFits(e)
  PROVE  IsConnection(SoundConnection(e))
<1> DEFINE c == SoundConnection(e)
<1>1. IsReference(e.request.identity) /\ IsReference(e.request.acl) /\ e.request.acl # None
  BY DEF RequestFits, EngineTyped
<1>2. /\ c.namespace = "namespace" /\ c.identity = e.request.identity /\ c.secret = e.request.acl
      /\ c.endpoint = "https://engine" /\ c.service = None /\ c.physical = None
      /\ c.settings.keys = {} /\ c.extensions = {}
      /\ c.tls = [mode |-> "server", server |-> "engine", ca |-> e.request.acl, certificate |-> None]
  BY DEF SoundConnection
<1>3. Bytes("namespace") = 1 /\ Bytes("engine") = 1 /\ Bytes("https://engine") = 1
  BY DEF Bytes, OddTexts
<1>4. IsText("namespace", 512) /\ IsText("engine", 512) /\ IsText("https://engine", 2048)
  BY <1>3 DEF IsText
<1>5. IsEndpoint("https://engine")
  BY <1>4 DEF IsEndpoint, NotEndpoints
<1>6. None # "engine" /\ None # "https://engine"
  BY ProgramsAssumption
<1>7. IsTlsPolicy(c.tls)
  <2>1. c.tls.mode = "server" /\ c.tls.server = "engine" /\ c.tls.ca = e.request.acl /\ c.tls.certificate = None
    BY <1>2
  <2> HIDE DEF c
  <2> QED BY <1>1, <1>4, <1>6, <2>1 DEF IsTlsPolicy, Optional
<1> HIDE DEF c
<1>8. ~HoldsSecret(c.settings.keys) /\ ~HoldsSecret(c.extensions)
  BY <1>2 DEF HoldsSecret
<1>9. IsConnection(c)
  <2>1. (c.endpoint = None) # (c.service = None)
    BY <1>2, <1>6
  <2>2. Optional(c.endpoint, IsEndpoint) /\ Optional(c.physical, IsFingerprint)
    BY <1>2, <1>5 DEF Optional
  <2>3. Optional(c.service, LAMBDA s : IsText(s, 512) /\ s \notin CrossPlane)
    BY <1>2 DEF Optional
  <2>4. IsText(c.namespace, 512) /\ IsReference(c.identity) /\ IsReference(c.secret)
    BY <1>1, <1>2, <1>4
  <2> QED BY <1>7, <1>8, <2>1, <2>2, <2>3, <2>4 DEF IsConnection, Optional
<1> QED BY <1>9 DEF c

\* The evidence that a constructor judges is all that the planner will ask for.
LEMMA EvidenceSuffices ==
  ASSUME NEW e, EngineTyped(e), e.kind = "managed", EvidenceFits(e)
  PROVE  BindingValid([BindingSpec(e) EXCEPT !.connection = SoundConnection(e), !.runtimePins = <<>>])
<1> DEFINE b == BindingSpec(e)
           c == SoundConnection(e)
           sound == [b EXCEPT !.connection = c, !.runtimePins = <<>>]
           P == Profiles[b.profile]
<1>1. RequestFits(e)
  BY DEF EvidenceFits
<1>2. DOMAIN b = DOMAIN e.binding
  BY BindingFields
<1>3. /\ sound.connection = c /\ sound.runtimePins = <<>>
      /\ sound.id = b.id /\ sound.profile = b.profile /\ sound.capabilityPin = b.capabilityPin
      /\ sound.manifest = b.manifest /\ sound.mode = b.mode /\ sound.topology = b.topology
      /\ sound.version = b.version /\ sound.client = b.client /\ sound.packages = b.packages
      /\ sound.acl = b.acl /\ sound.migration = b.migration /\ sound.observability = b.observability
      /\ sound.recovery = b.recovery
  BY <1>2 DEF EngineTyped
<1>4. /\ IsIdentifier(b.id) /\ IsFingerprint(b.capabilityPin) /\ IsClientPolicy(b.client) /\ IsMetadata(b)
      /\ b.profile \in DOMAIN Profiles /\ StaticSelection(P, b.mode, b.topology, b.version)
      /\ PackagesPinned(P, b.packages) /\ (b.manifest # None => ManifestFits(b, P))
  BY DEF EvidenceFits
<1>5. IsConnection(c)
  BY <1>1, SoundConnectionFits
<1>6. /\ c.tls.mode = "server" /\ c.extensions = {} /\ c.settings.layouts = None /\ c.settings.limits = <<>>
  BY DEF SoundConnection
<1> HIDE DEF b, c, sound, P
<1>7. IsMetadata(sound) /\ (sound.manifest # None => ManifestFits(sound, P))
  <2>1. IsMetadata(sound)
    BY <1>3, <1>4 DEF IsMetadata
  <2>2. sound.manifest # None => ManifestFits(sound, P)
    BY <1>3, <1>4 DEF ManifestFits
  <2> QED BY <2>1, <2>2
<1>8. SettingsFit(SelectedProfile(sound, P), c.settings)
  <2>1. DOMAIN c.settings.limits = {}
    BY <1>6
  <2> QED BY <1>6, <2>1 DEF SettingsFit, MappedSettings, LayoutsCount
<1>9. \A name \in DOMAIN sound.runtimePins : IsText(name, 256) /\ IsText(sound.runtimePins[name], 512)
  <2>1. DOMAIN sound.runtimePins = {}
    BY <1>3
  <2> QED BY <2>1
<1>10. "package-lock" \notin c.extensions /\ c.tls.mode # "disabled"
  BY <1>6
<1>11. BindingValid(sound)
  BY <1>3, <1>4, <1>5, <1>7, <1>8, <1>9, <1>10 DEF BindingValid, P
<1> QED BY <1>11 DEF sound, b, c

\* A binding is found in the configuration by its identifier.
LEMMA EngineInPlan ==
  ASSUME NEW s, Sound(s), NEW h \in Hosts, NEW b \in Elements(s.bindings)
  PROVE  RenderedBindings(s, h)[CHOOSE j \in DOMAIN RenderedBindings(s, h) : RenderedBindings(s, h)[j].id = b.id] =
           RenderedBinding(b)
<1> DEFINE engines == RenderedBindings(s, h)
           sorted == SortedById(s.bindings, h)
           k == CHOOSE j \in DOMAIN engines : engines[j].id = b.id
<1>1. /\ Arranges(sorted, Elements(s.bindings)) /\ DOMAIN engines = DOMAIN sorted
      /\ \A i \in DOMAIN engines : engines[i] = RenderedBinding(sorted[i])
  BY BindingsRendered
<1>2. \A x : RenderedBinding(x).id = x.id
  BY DEF RenderedBinding
<1>3. \E j \in DOMAIN engines : engines[j].id = b.id
  BY <1>1, <1>2 DEF Arranges
<1>4. k \in DOMAIN engines /\ engines[k].id = b.id
  BY <1>3
<1> HIDE DEF k
<1>5. sorted[k] \in Elements(s.bindings) /\ sorted[k].id = b.id
  BY <1>1, <1>2, <1>4 DEF Arranges
<1>6. \A x, y \in Elements(s.bindings) : x.id = y.id => x = y
  <2>1. IsList(s.bindings) /\ Identified(s.bindings)
    BY DEF Sound, SpecificationTyped, BindingsTyped, Judged, BindingsValid, Identified
  <2> QED BY <2>1, IdsDiffer DEF Elements
<1>7. sorted[k] = b
  BY <1>5, <1>6
<1> QED BY <1>1, <1>4, <1>7 DEF k

LEMMA PlannedEngine ==
  ASSUME ProgramInv, Planned, NEW i \in Engines
  PROVE  LET e == program.engines[i]
             c == plan.config.bindings[CHOOSE j \in DOMAIN plan.config.bindings :
                                         plan.config.bindings[j].id = e.binding.id]
         IN  /\ EngineJudged(i) /\ EngineTyped(e) /\ BindingValid(BindingSpec(e))
             /\ c = RenderedBinding(BindingSpec(e))
<1> DEFINE e == program.engines[i]
           b == BindingSpec(e)
           s == Specification
<1>1. ~thrown /\ next > Deploying /\ Sound(s) /\ plan = PlanOf(s, Home) /\ program \in Programs
  BY DEF ProgramInv
<1>2. EngineTyped(e) /\ s.bindings = [j \in Engines |-> BindingSpec(program.engines[j])]
  BY <1>1, EnginesOfProgram, SpecificationFields
<1>3. b \in Elements(s.bindings) /\ b.id = e.binding.id
  <2>1. s.bindings[i] = b /\ i \in DOMAIN s.bindings
    BY <1>2
  <2> HIDE DEF s, b
  <2>2. b.id = e.binding.id
    BY <1>2, BindingFields DEF EngineTyped, b
  <2> QED BY <2>1, <2>2 DEF Elements
<1>4. i < next
  BY <1>1, EnginesOfProgram DEF ProgramInv
<1>5. EngineJudged(i)
  BY <1>1, <1>4 DEF ProgramInv
<1>6. plan.config.bindings = RenderedBindings(s, Home)
  <2>1. plan.config = Rendered(s, Home)
    BY <1>1, PlanFields
  <2> HIDE DEF s
  <2> QED BY <2>1 DEF Rendered
<1>7. Home \in Hosts
  BY ProgramsAssumption
<1>8. BindingValid(b)
  BY <1>1, <1>3 DEF Sound, Judged, BindingsValid
<1> HIDE DEF s, b
<1>9. RenderedBindings(s, Home)[CHOOSE j \in DOMAIN RenderedBindings(s, Home) :
                                  RenderedBindings(s, Home)[j].id = b.id] = RenderedBinding(b)
  BY <1>1, <1>3, <1>7, EngineInPlan
<1> QED BY <1>2, <1>3, <1>5, <1>6, <1>8, <1>9 DEF b

\* Whatever order the Outputs of a program resolve in: an engine is provisioned only after all of
\* its evidence was judged, and what is planned of it is what was requested (EngineBinding,
\* ManagedEngine).
THEOREM EnginesAreProvisionedAsJudged == ProgramSpec => []ProvisionedAsJudged
<1>1. ProgramInv => ProvisionedAsJudged
  <2> SUFFICES ASSUME ProgramInv PROVE ProvisionedAsJudged
    OBVIOUS
  <2>1. ProgramTypeOK
    <3>1. ASSUME Planned PROVE DOMAIN outputs = DOMAIN plan.bindings /\ DOMAIN outputs # {}
      <4>1. outputs = [key \in Keys(Specification) |-> OutputOf(key)] /\ Sound(Specification)
            /\ plan = PlanOf(Specification, Home)
        BY <3>1 DEF ProgramInv
      <4>2. DOMAIN plan.bindings = Keys(Specification)
        BY <4>1, PlanFields
      <4>3. Specification.resources # <<>> /\ IsList(Specification.resources)
        BY <4>1 DEF Sound, Judged, NonEmpty, SpecificationTyped, ResourcesTyped
      <4>4. Elements(Specification.resources) # {}
        BY <4>3 DEF IsList, Elements
      <4>5. Keys(Specification) # {}
        BY <4>4 DEF Keys
      <4> QED BY <4>1, <4>2, <4>5
    <3> QED BY <3>1 DEF ProgramInv, ProgramTypeOK
  <2>2. EvidenceFirst
    <3> SUFFICES ASSUME NEW i \in provisioned
                 PROVE  LET e == program.engines[i]
                        IN  BindingValid([BindingSpec(e) EXCEPT !.connection = SoundConnection(e), !.runtimePins = <<>>])
      BY DEF EvidenceFirst
    <3>1. program.engines[i].kind = "managed" /\ EvidenceFits(program.engines[i]) /\ EngineTyped(program.engines[i])
      BY EnginesOfProgram DEF ProgramInv
    <3> QED BY <3>1, EvidenceSuffices
  <2>3. ManagedAsRequested
    <3> DEFINE b(i) == BindingSpec(program.engines[i])
    <3>1. ASSUME Planned, NEW i \in Engines, program.engines[i].kind = "managed"
          PROVE  LET e == program.engines[i]
                     c == plan.config.bindings[CHOOSE j \in DOMAIN plan.config.bindings :
                                                 plan.config.bindings[j].id = e.binding.id]
                 IN  /\ i \in provisioned
                     /\ c.identity = e.request.identity /\ c.tls = e.request.tls
                     /\ c.acl = e.request.acl /\ c.observability = e.request.observability
                     /\ c.mode = "managed" /\ c.topology = Topology(e.binding) /\ c.version = e.binding.version
      <4> DEFINE e == program.engines[i]
                 c == plan.config.bindings[CHOOSE j \in DOMAIN plan.config.bindings :
                                             plan.config.bindings[j].id = e.binding.id]
      <4>1. EngineJudged(i) /\ EngineTyped(e) /\ c = RenderedBinding(BindingSpec(e))
        BY <3>1, PlannedEngine
      <4> HIDE DEF c
      <4>2. /\ c.identity = BindingSpec(e).connection.identity /\ c.tls = BindingSpec(e).connection.tls
            /\ c.acl = BindingSpec(e).acl /\ c.observability = BindingSpec(e).observability
            /\ c.mode = BindingSpec(e).mode /\ c.topology = BindingSpec(e).topology /\ c.version = BindingSpec(e).version
        BY <4>1 DEF RenderedBinding
      <4>3. /\ BindingSpec(e).connection = e.connection /\ BindingSpec(e).mode = e.kind
            /\ BindingSpec(e).topology = Topology(e.binding)
            /\ BindingSpec(e).acl = e.binding.acl /\ BindingSpec(e).observability = e.binding.observability
            /\ BindingSpec(e).version = e.binding.version
        BY <4>1, BindingFields DEF EngineTyped
      <4>4. i \in provisioned /\ ConnectionFits(e) /\ RequestFits(e)
        BY <3>1, <4>1 DEF EngineJudged, EvidenceFits
      <4>5. e.connection.identity = e.request.identity /\ e.connection.tls = e.request.tls
        BY <3>1, <4>4 DEF ConnectionFits
      <4>6. e.request.acl = e.binding.acl /\ e.request.observability = e.binding.observability
        BY <4>4 DEF RequestFits
      <4> QED BY <3>1, <4>2, <4>3, <4>4, <4>5, <4>6 DEF c
    <3> QED BY <3>1 DEF ManagedAsRequested
  <2> QED BY <2>1, <2>2, <2>3 DEF ProvisionedAsJudged
<1> QED BY <1>1, ProgramInvariant, PTL

\* The outputs that the constructor published and the plan made when everything had resolved put
\* each Resource on the same engine, with the guarantees it requires (createBindingOutput).
THEOREM OutputsAgreeWithPlan == ProgramSpec => []OutputsAgree
<1>1. ProgramInv => OutputsAgree
  <2> SUFFICES ASSUME ProgramInv, Planned, NEW key \in DOMAIN outputs
               PROVE  LET out == outputs[key]
                          c == plan.config.bindings[CHOOSE j \in DOMAIN plan.config.bindings :
                                                      plan.config.bindings[j].id = plan.placed[key]]
                          r == Requirement(plan.spec, key)
                      IN  /\ out.binding = plan.placed[key]
                          /\ out.adapter = c.adapter /\ out.version = c.version /\ out.packages = c.lock
                          /\ out.identity = c.identity /\ out.tls = c.tls /\ out.acl = c.acl
                          /\ \A o \in Elements(r.operations) :
                               \E p \in out.capabilities :
                                 /\ p.contract = o.contract
                                 /\ (r.guarantees \cup o.guarantees) \ {"append-only"} \subseteq p.guarantees
    BY DEF OutputsAgree
  <2> DEFINE s == Specification
             r == Requirement(s, key)
             id == PlacementBindings(s)[key]
             i == EngineNamed(id)
             e == program.engines[i]
             b == BindingSpec(e)
             c == plan.config.bindings[CHOOSE j \in DOMAIN plan.config.bindings : plan.config.bindings[j].id = id]
  <2>1. /\ outputs = [k \in Keys(s) |-> OutputOf(k)] /\ Sound(s) /\ plan = PlanOf(s, Home) /\ program \in Programs
    BY DEF ProgramInv
  <2>2. key \in Keys(s) /\ outputs[key] = BindingOutput(r, e)
    BY <2>1 DEF OutputOf
  <2>3. plan.spec = s /\ plan.placed[key] = id
    BY <2>1, PlanFields
  <2>4. i \in Engines /\ e.binding.id = id
    <3>1. s.bindings = [j \in Engines |-> BindingSpec(program.engines[j])]
      BY <2>1, SpecificationFields
    <3>2. PICK x \in Elements(s.bindings) : x.id = id
      BY <2>1, <2>2, BindingFound
    <3>3. PICK j \in Engines : x = BindingSpec(program.engines[j])
      BY <3>1, <3>2 DEF Elements
    <3>4. program.engines[j].binding.id = id
      BY <2>1, <3>2, <3>3, EnginesOfProgram, BindingFields DEF EngineTyped
    <3> QED BY <3>4 DEF EngineNamed
  <2>5. EngineTyped(e) /\ BindingValid(b) /\ c = RenderedBinding(b)
    BY <2>4, PlannedEngine
  <2>6. /\ b.connection = e.connection /\ b.acl = e.binding.acl /\ b.version = e.binding.version
        /\ b.packages = e.binding.packages /\ b.profile = e.binding.profile /\ b.manifest = e.binding.manifest
        /\ b.id = e.binding.id
    BY <2>5, BindingFields DEF EngineTyped
  <2> HIDE DEF s, r, id, i, e, b, c
  <2>7. EngineProfile(e) = Selected(b)
    BY <2>6 DEF EngineProfile, Selected, SelectedProfile
  <2>8. EngineProfile(e).adapter = c.adapter
    <3>1. c.adapter = PlannedProfile(b).adapter
      BY <2>5 DEF RenderedBinding
    <3>2. "adapter" \in DOMAIN Profiles[b.profile]
      BY <2>5, SelectedFacts DEF IsEngineProfile
    <3>3. Selected(b)["adapter"] = Profiles[b.profile]["adapter"]
      BY <2>5, <3>2, SelectedFacts
    <3>4. PlannedProfile(b)["adapter"] = Profiles[b.profile]["adapter"]
      BY <2>5, <3>2, PlannedFacts
    <3> QED BY <2>7, <3>1, <3>3, <3>4
  <2>9. /\ outputs[key].binding = e.binding.id /\ outputs[key].adapter = EngineProfile(e).adapter
        /\ outputs[key].version = e.binding.version /\ outputs[key].identity = e.connection.identity
        /\ outputs[key].tls = e.connection.tls /\ outputs[key].acl = e.binding.acl
        /\ outputs[key].packages = e.binding.packages
        /\ outputs[key].capabilities = {Promise(o, e) : o \in Elements(r.operations)}
    BY <2>2 DEF BindingOutput
  <2>10. /\ c.version = b.version /\ c.lock = b.packages /\ c.identity = b.connection.identity
         /\ c.tls = b.connection.tls /\ c.acl = b.acl
    BY <2>5 DEF RenderedBinding
  <2>11. ASSUME NEW o \in Elements(r.operations)
         PROVE  \E p \in outputs[key].capabilities :
                  /\ p.contract = o.contract
                  /\ (r.guarantees \cup o.guarantees) \ {"append-only"} \subseteq p.guarantees
    <3>1. r \in Elements(s.resources) /\ SelectorKey(r.selector) = key
      BY <2>1, <2>2, RequirementFound, SoundIsPlaceable DEF r
    <3>2. BindingOf(s, id) = b
      <4>1. b \in Elements(s.bindings)
        <5>1. s.bindings = [j \in Engines |-> BindingSpec(program.engines[j])]
          BY <2>1, SpecificationFields DEF s
        <5> QED BY <2>4, <5>1 DEF Elements, b, e
      <4>2. BindingOf(s, id) \in Elements(s.bindings) /\ BindingOf(s, id).id = id
        BY <2>1, <2>2, BindingFound DEF id
      <4>3. IsList(s.bindings) /\ Identified(s.bindings)
        BY <2>1 DEF Sound, SpecificationTyped, BindingsTyped, Judged, BindingsValid, Identified
      <4>4. b.id = id
        BY <2>4, <2>6
      <4> QED BY <4>1, <4>2, <4>3, <4>4, IdsDiffer DEF Elements
    <3>3. OperationProvided(r, o, PlannedProfile(b))
      BY <2>1, <3>1, <3>2 DEF Sound, Judged, RequirementsServed, CapabilitiesProvided, id
    <3>4. o.contract \in DOMAIN Selected(b).operations
      BY <2>5, <3>3, PlannedFacts DEF OperationProvided
    <3>5. r.guarantees \cup o.guarantees \subseteq PlannedProfile(b).operations[o.contract].guarantees
      BY <3>3 DEF OperationProvided
    <3>6. PlannedProfile(b).operations[o.contract].guarantees \ {"append-only"}
            \subseteq Selected(b).operations[o.contract].guarantees
      <4> DEFINE adv == Advertises(b, o.contract).guarantees
                 got == PlannedProfile(b).operations[o.contract].guarantees
                 configured == ConfiguredGuarantees(adv, Selected(b), b.connection.settings, b.manifest # None)
      <4>1. Selected(b).operations[o.contract].guarantees = adv
        BY <2>5, <3>4, AdvertisedFacts
      <4>2. got = configured \/ got = adv
        BY <2>5, <3>4, ProvidedFacts
      <4>3. configured \ {"append-only"} \subseteq adv
        BY DEF ConfiguredGuarantees
      <4> HIDE DEF adv, configured, got
      <4>4. got \ {"append-only"} \subseteq adv
        BY <4>2, <4>3
      <4> QED BY <4>1, <4>4 DEF got
    <3>7. Promise(o, e) \in outputs[key].capabilities /\ Promise(o, e).contract = o.contract
          /\ Promise(o, e).guarantees = Selected(b).operations[o.contract].guarantees
      BY <2>7, <2>9 DEF Promise
    <3> QED BY <3>5, <3>6, <3>7
  <2> QED BY <2>3, <2>4, <2>6, <2>8, <2>9, <2>10, <2>11 DEF c, r
<1> QED BY <1>1, ProgramInvariant, PTL

-----------------------------------------------------------------------------
(* What a program plans, and that it ends.                                 *)
\* Of the plan of a program what PlacementSound and EnginesAdmit say of the plan of an author.
PlanServes(p) ==
  /\ \A key \in Keys(p.spec) :
       /\ \E i \in DOMAIN p.config.placements :
            RulesThatPlace(p, key) = {i} /\ p.config.placements[i].binding = p.placed[key]
       /\ \A i \in TemplateRules(p, key) : p.config.placements[i].binding = p.placed[key]
  /\ \A r \in Elements(p.spec.resources) : \A o \in Elements(r.operations) :
       AdmitsOperation(BindingOf(p.spec, p.placed[SelectorKey(r.selector)]), r, o)

LEMMA SoundPlanServes ==
  ASSUME NEW p, p # NoPlan, PlanSound(p)
  PROVE  PlanServes(p)
<1>1. ASSUME NEW key \in Keys(p.spec)
      PROVE  /\ \E i \in DOMAIN p.config.placements :
                  RulesThatPlace(p, key) = {i} /\ p.config.placements[i].binding = p.placed[key]
             /\ \A i \in TemplateRules(p, key) : p.config.placements[i].binding = p.placed[key]
  <2>1. PICK j \in DOMAIN p.config.placements :
          RulesThatPlace(p, key) = {j} /\ p.config.placements[j].binding = p.placed[key]
    BY ExactlyOneRule
  <2>2. TemplateRules(p, key) \subseteq {j}
    BY <2>1, TemplateRulesPlace
  <2> QED BY <2>1, <2>2
<1>2. Sound(p.spec) /\ p.placed = PlacementBindings(p.spec)
  BY ConfigOfPlan
<1>3. ASSUME NEW r \in Elements(p.spec.resources), NEW o \in Elements(r.operations)
      PROVE  AdmitsOperation(BindingOf(p.spec, p.placed[SelectorKey(r.selector)]), r, o)
  BY <1>2, EngineAdmits
<1> QED BY <1>1, <1>3 DEF PlanServes

\* What a program plans when its Outputs have resolved, in any order, is placed and admitted as
\* what an author plans: one rule places each Resource, the template of a projection job finds
\* the same binding, and the engine admits its operations (compileEngineBackedResourcePlan).
THEOREM ProgramsPlanSoundly == ProgramSpec => [](Planned => PlanServes(plan))
<1>1. ProgramInv => (Planned => PlanServes(plan))
  <2> SUFFICES ASSUME ProgramInv, Planned PROVE PlanServes(plan)
    OBVIOUS
  <2>1. /\ Sound(Specification) /\ Accepts(Specification, Home)
        /\ plan = PlanOf(Specification, Home) /\ Home \in Hosts
    BY ProgramsAssumption DEF ProgramInv
  <2>2. plan # NoPlan /\ plan.spec = Specification /\ plan.host = Home
    BY <2>1, PlanFields
  <2>3. PlanSound(plan)
    BY <2>1, <2>2 DEF PlanSound
  <2> QED BY <2>2, <2>3, SoundPlanServes
<1> QED BY <1>1, ProgramInvariant, PTL

\* What is left to happen to a program: its constructors, the Outputs of its engines and of the
\* telemetry capability, and its plan.
Unbound == {i \in Engines : bound[i] = "pending"}
Remaining ==
  (Deploying + 1 - next) + Cardinality(Unbound) + (IF telemetry THEN 0 ELSE 1) + (IF settled = "pending" THEN 1 ELSE 0)
\* The guards of the steps that a program waits for.
Constructs == ~thrown /\ next \in Engines \cup {Deploying}
Resolves == ~thrown /\ \/ ~telemetry \/ \E i \in Unbound : i < next
PlansOrFails ==
  ~thrown /\ next > Deploying /\ settled = "pending"
    /\ \/ telemetry /\ \A i \in Engines : bound[i] = "resolved"
       \/ \E i \in Engines : bound[i] = "failed"

LEMMA UnboundCounted ==
  ASSUME ProgramInv
  PROVE  IsFiniteSet(Unbound) /\ Cardinality(Unbound) \in Nat /\ Cardinality(Unbound) <= Len(program.engines)
<1>1. Len(program.engines) \in Nat /\ Engines = 1..Len(program.engines)
  BY EnginesOfProgram DEF ProgramInv
<1>2. IsFiniteSet(Engines) /\ Cardinality(Engines) = Len(program.engines)
  BY <1>1, CountTo
<1>3. Unbound \in SUBSET Engines
  BY DEF Unbound
<1> HIDE DEF Unbound
<1>4. IsFiniteSet(Unbound) /\ Cardinality(Unbound) <= Cardinality(Engines)
  BY <1>2, <1>3, FS_Subset
<1> QED BY <1>2, <1>4, FS_CardinalityType

LEMMA StepsRemain ==
  ASSUME ProgramInv
  PROVE  Remaining \in Nat
<1>1. Deploying = Len(program.engines) + 1 /\ Len(program.engines) \in Nat /\ next \in 1..(Deploying + 1)
  BY EnginesOfProgram DEF ProgramInv
<1> QED BY <1>1, UnboundCounted DEF Remaining

LEMMA OutputsStay ==
  ASSUME UNCHANGED <<program, bound>>
  PROVE  Unbound' = Unbound /\ Engines' = Engines /\ Deploying' = Deploying
BY DEF Unbound, Engines, Deploying

\* A program takes no more steps than its constructors, its Outputs and its plan, whatever order
\* they come in: none is made twice and none is undone.  TLC checks that it ends (Settles).
THEOREM ProgramsAreShort == ProgramSpec => [][Remaining' < Remaining /\ Remaining \in Nat]_programVars
<1>1. ProgramInv /\ [ProgramNext]_programVars => [Remaining' < Remaining /\ Remaining \in Nat]_programVars
  <2> SUFFICES ASSUME ProgramInv, ProgramNext PROVE Remaining' < Remaining
    BY StepsRemain
  <2> DEFINE n == Cardinality(Unbound)
             steps == Deploying + 1 - next
             later == IF telemetry THEN 0 ELSE 1
             open == IF settled = "pending" THEN 1 ELSE 0
  <2>1. n \in Nat /\ steps \in Nat /\ later \in Nat /\ open \in Nat /\ next \in Nat /\ Deploying \in Nat
    <3>1. Deploying = Len(program.engines) + 1 /\ Len(program.engines) \in Nat /\ next \in 1..(Deploying + 1)
      BY EnginesOfProgram DEF ProgramInv
    <3> QED BY <3>1, UnboundCounted
  <2>2. Remaining = steps + n + later + open
    BY DEF Remaining
  <2>3. CASE ConstructEngine \/ ConstructDeployment
    <3>1. next' = next + 1 /\ UNCHANGED <<program, bound, telemetry, settled>>
      BY <2>3 DEF ConstructEngine, ConstructDeployment
    <3>2. Unbound' = Unbound /\ Deploying' = Deploying
      BY <3>1, OutputsStay
    <3>3. Remaining' = (Deploying + 1 - (next + 1)) + n + later + open
      BY <3>1, <3>2 DEF Remaining
    <3> HIDE DEF n, later, open
    <3> QED BY <2>1, <2>2, <3>3
  <2>4. ASSUME NEW i \in Engines, BindEngine(i) \/ LoseEngine(i) PROVE Remaining' < Remaining
    <3>1. /\ bound[i] = "pending" /\ \E value \in {"resolved", "failed"} : bound' = [bound EXCEPT ![i] = value]
          /\ UNCHANGED <<program, next, telemetry, settled>>
      BY <2>4 DEF BindEngine, LoseEngine
    <3>2. Engines' = Engines /\ Deploying' = Deploying
      BY <3>1 DEF Engines, Deploying
    <3>3. Unbound' = Unbound \ {i} /\ i \in Unbound
      BY <3>1, <3>2 DEF Unbound, ProgramInv
    <3>4. Cardinality(Unbound') = n - 1
      BY <3>3, UnboundCounted, FS_RemoveElement
    <3>5. Remaining' = steps + (n - 1) + later + open
      BY <3>1, <3>2, <3>4 DEF Remaining
    <3> HIDE DEF n, steps, later, open
    <3> QED BY <2>1, <2>2, <3>5
  <2>5. CASE LearnTelemetry
    <3>1. ~telemetry /\ telemetry' = TRUE /\ UNCHANGED <<program, next, bound, settled>>
      BY <2>5 DEF LearnTelemetry
    <3>2. Unbound' = Unbound /\ Deploying' = Deploying
      BY <3>1, OutputsStay
    <3>3. Remaining' = steps + n + open /\ later = 1
      BY <2>1, <3>1, <3>2 DEF Remaining
    <3> HIDE DEF n, steps, later, open
    <3> QED BY <2>1, <2>2, <3>3
  <2>6. CASE Compile \/ Abandon
    <3>1. settled = "pending" /\ settled' \in {"planned", "failed"} /\ UNCHANGED <<program, next, bound, telemetry>>
      BY <2>6 DEF Compile, Abandon
    <3>2. Unbound' = Unbound /\ Deploying' = Deploying
      BY <3>1, OutputsStay
    <3>3. Remaining' = steps + n + later /\ open = 1
      BY <2>1, <3>1, <3>2 DEF Remaining
    <3> HIDE DEF n, steps, later, open
    <3> QED BY <2>1, <2>2, <3>3
  <2> QED BY <2>3, <2>4, <2>5, <2>6 DEF ProgramNext
<1> QED BY <1>1, ProgramInvariant, PTL DEF ProgramSpec

\* A program that is not refused never waits for what cannot come: until it is planned or failed
\* a constructor can run, an Output can resolve, or all of them have and the plan can be made.
THEOREM ProgramsNeverWait == ProgramSpec => [](thrown \/ settled # "pending" \/ Constructs \/ Resolves \/ PlansOrFails)
<1>1. ProgramInv => thrown \/ settled # "pending" \/ Constructs \/ Resolves \/ PlansOrFails
  <2> SUFFICES ASSUME ProgramInv, ~thrown, settled = "pending", ~Constructs, ~Resolves PROVE PlansOrFails
    OBVIOUS
  <2>1. /\ Len(program.engines) \in Nat /\ Engines = 1..Len(program.engines)
        /\ Deploying = Len(program.engines) + 1 /\ next \in 1..(Deploying + 1)
    BY EnginesOfProgram DEF ProgramInv
  <2>2. next > Deploying /\ telemetry
    BY <2>1 DEF Constructs, Resolves, ProgramInv
  <2>3. \A i \in Engines : bound[i] \in {"resolved", "failed"}
    BY <2>1, <2>2 DEF Resolves, Unbound, ProgramInv
  <2> QED BY <2>2, <2>3 DEF PlansOrFails
<1> QED BY <1>1, ProgramInvariant, PTL
=============================================================================
