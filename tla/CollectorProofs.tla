--------------------------- MODULE CollectorProofs ---------------------------
(***************************************************************************)
(* The component that configures a Collector, for any programs: what it    *)
(* refuses and what it passes on.  And deployments that share ClickHouse   *)
(* servers, for any deployments, servers and records: what is installed    *)
(* where a Collector serves, and where a record that it took is.           *)
(***************************************************************************)
EXTENDS OtelCollector, TelemetryMigration, RankTheorems, FiniteSetTheorems

(* The component: the invariant.                                           *)
\* The specification of an input that fits.
SpecOfInput(s) ==
  \E p \in Programs : \E c \in Elements(p) : CollectorFits(c) /\ s = CollectorSpecOf(c)

\* What each Collector is, and where each capability that was made comes from.
CollectorInv ==
  /\ program \in Programs /\ next \in Nat \ {0} /\ thrown \in BOOLEAN
  /\ Len(specs) = IF thrown THEN next - 2 ELSE next - 1
  /\ Len(endpoint) = Len(specs) /\ IsList(specs) /\ IsList(endpoint)
  /\ \A c \in Collectors : SpecOfInput(specs[c])
  /\ asked \subseteq Collectors \X Workloads
  /\ DOMAIN capability \subseteq asked
  /\ \A p \in DOMAIN capability : endpoint[p[1]] # "pending"
  /\ \A p \in Published :
       /\ CapabilityFits(specs[p[1]], endpoint[p[1]], p[2])
       /\ capability[p] = CapabilityOf(specs[p[1]], endpoint[p[1]], p[2])

-----------------------------------------------------------------------------
(* Sorting.                                                                *)
\* The sort of a list by places.
LEMMA ListSorted ==
  ASSUME NEW seq, IsList(seq), NEW place \in [DOMAIN seq -> Int], NEW s, DOMAIN s = DOMAIN seq,
         \A k \in DOMAIN seq :
           s[k] = seq[CHOOSE j \in DOMAIN seq : StableRank(place, Len(seq), j) = k]
  PROVE  InOrderOf(s, seq, place)
<1> DEFINE n == Len(seq)
<1>1. n \in Nat /\ DOMAIN seq = 1..n
  BY DEF IsList
<1>2. place \in [1..n -> Int] /\ DOMAIN s = 1..n
  BY <1>1
<1>3. \A k \in 1..n : s[k] = seq[AtRank(place, n, k)]
  BY <1>1 DEF AtRank
<1> HIDE DEF n
<1> QED BY <1>1, <1>2, <1>3, SortedList

\* A sorted list has the elements of the list, each as often.
LEMMA SortKeepsElements ==
  ASSUME NEW seq, IsList(seq), NEW place, NEW s, DOMAIN s = DOMAIN seq, s = [k \in DOMAIN s |-> s[k]],
         InOrderOf(s, seq, place)
  PROVE  Elements(s) = Elements(seq) /\ Len(s) = Len(seq) /\ IsList(s)
<1>1. PICK pick \in [DOMAIN seq -> DOMAIN seq] :
        (\A k \in DOMAIN seq : s[k] = seq[pick[k]]) /\ (\A j \in DOMAIN seq : \E k \in DOMAIN seq : pick[k] = j)
  BY DEF InOrderOf
<1>2. Elements(s) = Elements(seq)
  BY <1>1 DEF Elements
<1>3. Len(seq) \in Nat /\ DOMAIN s = 1..Len(seq)
  BY DEF IsList
<1>4. s \in [1..Len(seq) -> Elements(s)]
  BY <1>3 DEF Elements
<1> HIDE DEF Elements
<1>5. s \in Seq(Elements(s)) /\ Len(s) = Len(seq)
  BY <1>3, <1>4
<1> QED BY <1>2, <1>5 DEF IsList

LEMMA SortedRefs ==
  ASSUME NEW refs, IsList(refs), \A ref \in Elements(refs) : Place[RefKey(ref)] \in Int
  PROVE  LET s == SortedByPlace(refs, RefKey)
         IN  /\ Elements(s) = Elements(refs) /\ Len(s) = Len(refs) /\ IsList(s)
             /\ InPlace(s, RefKey)
<1> DEFINE place == [i \in DOMAIN refs |-> Place[RefKey(refs[i])]]
           s == SortedByPlace(refs, RefKey)
<1>1. place \in [DOMAIN refs -> Int]
  BY DEF Elements
<1>2. DOMAIN refs = 1..Len(refs)
  BY DEF IsList
<1>3. DOMAIN s = DOMAIN refs /\ s = [k \in DOMAIN s |-> s[k]]
  BY DEF SortedByPlace
<1>4. ASSUME NEW j \in DOMAIN refs
      PROVE  StableRank(place, Len(refs), j) =
               Cardinality({i \in DOMAIN refs :
                 \/ Place[RefKey(refs[i])] < Place[RefKey(refs[j])]
                 \/ Place[RefKey(refs[i])] = Place[RefKey(refs[j])] /\ i <= j})
  <2>1. {i \in 1..Len(refs) : place[i] < place[j] \/ (place[i] = place[j] /\ i <= j)} =
        {i \in DOMAIN refs : \/ Place[RefKey(refs[i])] < Place[RefKey(refs[j])]
                             \/ Place[RefKey(refs[i])] = Place[RefKey(refs[j])] /\ i <= j}
    BY <1>2
  <2> QED BY <2>1 DEF StableRank
<1>5. ASSUME NEW k \in DOMAIN refs
      PROVE  s[k] = refs[CHOOSE j \in DOMAIN refs : StableRank(place, Len(refs), j) = k]
  <2> DEFINE upTo(j) == Cardinality({i \in DOMAIN refs :
                          \/ Place[RefKey(refs[i])] < Place[RefKey(refs[j])]
                          \/ Place[RefKey(refs[i])] = Place[RefKey(refs[j])] /\ i <= j})
             rank(j) == StableRank(place, Len(refs), j)
  <2>1. s[k] = refs[CHOOSE j \in DOMAIN refs : upTo(j) = k]
    BY DEF SortedByPlace
  <2>2. \A j \in DOMAIN refs : upTo(j) = rank(j)
    BY <1>4
  <2> HIDE DEF upTo, rank, s, place
  <2>3. (CHOOSE j \in DOMAIN refs : upTo(j) = k) = (CHOOSE j \in DOMAIN refs : rank(j) = k)
    BY <2>2
  <2>4. s[k] = refs[CHOOSE j \in DOMAIN refs : rank(j) = k]
    BY <2>1, <2>3
  <2> QED BY <2>4 DEF rank
<1>6. InOrderOf(s, refs, place)
  <2> HIDE DEF s, place
  <2> QED BY <1>1, <1>3, <1>5, ListSorted
<1>7. Elements(s) = Elements(refs) /\ Len(s) = Len(refs) /\ IsList(s)
  <2> HIDE DEF s, place
  <2> QED BY <1>3, <1>6, SortKeepsElements
<1>8. ASSUME NEW j \in DOMAIN s, NEW k \in DOMAIN s, j < k
      PROVE  Place[RefKey(s[j])] <= Place[RefKey(s[k])]
  <2> HIDE DEF s
  <2>1. PICK pick \in [DOMAIN refs -> DOMAIN refs] :
          /\ \A i \in DOMAIN refs : s[i] = refs[pick[i]]
          /\ \A h, i \in DOMAIN refs : h < i => place[pick[h]] <= place[pick[i]]
    BY <1>6 DEF InOrderOf
  <2>2. place[pick[j]] <= place[pick[k]] /\ pick[j] \in DOMAIN refs /\ pick[k] \in DOMAIN refs
    BY <1>3, <1>8, <2>1
  <2> QED BY <1>3, <2>1, <2>2
<1> QED BY <1>7, <1>8 DEF InPlace

LEMMA SortedTexts ==
  ASSUME NEW texts, IsList(texts), \A text \in Elements(texts) : Place[text] \in Int
  PROVE  LET s == SortedByPlace(texts, LAMBDA x : x)
         IN  /\ Elements(s) = Elements(texts) /\ Len(s) = Len(texts) /\ IsList(s)
             /\ InPlace(s, LAMBDA x : x)
<1> DEFINE place == [i \in DOMAIN texts |-> Place[texts[i]]]
           s == SortedByPlace(texts, LAMBDA x : x)
<1>1. place \in [DOMAIN texts -> Int]
  BY DEF Elements
<1>2. DOMAIN texts = 1..Len(texts)
  BY DEF IsList
<1>3. DOMAIN s = DOMAIN texts /\ s = [k \in DOMAIN s |-> s[k]]
  BY DEF SortedByPlace
<1>4. ASSUME NEW j \in DOMAIN texts
      PROVE  StableRank(place, Len(texts), j) =
               Cardinality({i \in DOMAIN texts :
                 \/ Place[texts[i]] < Place[texts[j]]
                 \/ Place[texts[i]] = Place[texts[j]] /\ i <= j})
  <2>1. {i \in 1..Len(texts) : place[i] < place[j] \/ (place[i] = place[j] /\ i <= j)} =
        {i \in DOMAIN texts : \/ Place[texts[i]] < Place[texts[j]]
                              \/ Place[texts[i]] = Place[texts[j]] /\ i <= j}
    BY <1>2
  <2> QED BY <2>1 DEF StableRank
<1>5. ASSUME NEW k \in DOMAIN texts
      PROVE  s[k] = texts[CHOOSE j \in DOMAIN texts : StableRank(place, Len(texts), j) = k]
  <2> DEFINE upTo(j) == Cardinality({i \in DOMAIN texts :
                          \/ Place[texts[i]] < Place[texts[j]]
                          \/ Place[texts[i]] = Place[texts[j]] /\ i <= j})
             rank(j) == StableRank(place, Len(texts), j)
  <2>1. s[k] = texts[CHOOSE j \in DOMAIN texts : upTo(j) = k]
    BY DEF SortedByPlace
  <2>2. \A j \in DOMAIN texts : upTo(j) = rank(j)
    BY <1>4
  <2> HIDE DEF upTo, rank, s, place
  <2>3. (CHOOSE j \in DOMAIN texts : upTo(j) = k) = (CHOOSE j \in DOMAIN texts : rank(j) = k)
    BY <2>2
  <2>4. s[k] = texts[CHOOSE j \in DOMAIN texts : rank(j) = k]
    BY <2>1, <2>3
  <2> QED BY <2>4 DEF rank
<1>6. InOrderOf(s, texts, place)
  <2> HIDE DEF s, place
  <2> QED BY <1>1, <1>3, <1>5, ListSorted
<1>7. Elements(s) = Elements(texts) /\ Len(s) = Len(texts) /\ IsList(s)
  <2> HIDE DEF s, place
  <2> QED BY <1>3, <1>6, SortKeepsElements
<1>8. ASSUME NEW j \in DOMAIN s, NEW k \in DOMAIN s, j < k
      PROVE  Place[s[j]] <= Place[s[k]]
  <2> HIDE DEF s
  <2>1. PICK pick \in [DOMAIN texts -> DOMAIN texts] :
          /\ \A i \in DOMAIN texts : s[i] = texts[pick[i]]
          /\ \A h, i \in DOMAIN texts : h < i => place[pick[h]] <= place[pick[i]]
    BY <1>6 DEF InOrderOf
  <2>2. place[pick[j]] <= place[pick[k]] /\ pick[j] \in DOMAIN texts /\ pick[k] \in DOMAIN texts
    BY <1>3, <1>8, <2>1
  <2> QED BY <1>3, <2>1, <2>2
<1> QED BY <1>7, <1>8 DEF InPlace

\* The specification of an input fits as the input did, with its lists in order.
LEMMA SpecFits ==
  ASSUME NEW c, InputTyped(c), CollectorFits(c)
  PROVE  LET s == CollectorSpecOf(c)
         IN  /\ CollectorFits(s)
             /\ InPlace(s.credentials, RefKey) /\ InPlace(s.signals, LAMBDA x : x)
             /\ Elements(s.credentials) = Elements(c.credentials)
<1> DEFINE s == CollectorSpecOf(c)
<1>1. /\ s.mode = c.mode /\ s.image = c.image /\ s.config = c.config /\ s.replicas = c.replicas
      /\ s.grpc = c.grpc /\ s.http = c.http /\ s.tls = c.tls /\ s.batching = c.batching
      /\ s.placement = c.placement /\ s.extensions = c.extensions
      /\ s.credentials = SortedByPlace(c.credentials, RefKey)
      /\ s.signals = SortedByPlace(c.signals, LAMBDA x : x)
  BY DEF CollectorSpecOf
<1>2. /\ Elements(s.credentials) = Elements(c.credentials) /\ Len(s.credentials) = Len(c.credentials)
      /\ InPlace(s.credentials, RefKey)
  BY <1>1, SortedRefs DEF InputTyped
<1>3. /\ Elements(s.signals) = Elements(c.signals) /\ Len(s.signals) = Len(c.signals)
      /\ InPlace(s.signals, LAMBDA x : x) /\ IsList(s.signals)
  BY <1>1, SortedTexts DEF InputTyped
<1> HIDE DEF s
<1>4. s.signals # <<>> /\ Distinct(s.signals)
  <2>1. c.signals # <<>> /\ Distinct(c.signals) /\ IsList(c.signals)
    BY DEF CollectorFits, InputTyped
  <2>2. Len(c.signals) # 0
    BY <2>1 DEF IsList
  <2>3. s.signals # <<>>
    BY <1>3, <2>2
  <2> QED BY <1>3, <2>1, <2>3 DEF Distinct
<1>5. CredentialsFit(s.credentials)
  <2>1. CredentialsFit(c.credentials)
    BY DEF CollectorFits
  <2> QED BY <1>2, <2>1 DEF CredentialsFit, DistinctBy
<1>6. \A leaf \in s.config : SubstitutionFits(leaf, Environment(s.credentials))
  <2>1. Environment(s.credentials) = Environment(c.credentials)
    BY <1>2 DEF Environment
  <2> QED BY <1>1, <2>1 DEF CollectorFits
<1>7. ConfigFits(s.config, s.signals)
  <2>1. ConfigFits(c.config, c.signals)
    BY DEF CollectorFits
  <2> QED BY <1>1, <1>3, <2>1 DEF ConfigFits
<1>8. CollectorFits(s)
  BY <1>1, <1>4, <1>5, <1>6, <1>7 DEF CollectorFits
<1> QED BY <1>2, <1>3, <1>8 DEF s

\* What is stated of every specification of an input that fits.
LEMMA SpecOfInputFits ==
  ASSUME NEW s, SpecOfInput(s)
  PROVE  /\ CollectorFits(s)
         /\ InPlace(s.credentials, RefKey) /\ InPlace(s.signals, LAMBDA x : x)
         /\ \A ref \in Elements(s.credentials) : ref = [provider |-> ref.provider, reference |-> ref.reference]
<1>1. PICK p \in Programs : \E c \in Elements(p) : CollectorFits(c) /\ s = CollectorSpecOf(c)
  BY DEF SpecOfInput
<1>2. PICK c \in Elements(p) : CollectorFits(c) /\ s = CollectorSpecOf(c)
  BY <1>1
<1>3. InputTyped(c)
  BY CollectorAssumption
<1> QED BY <1>2, <1>3, SpecFits DEF InputTyped

-----------------------------------------------------------------------------
(* The invariant.                                                          *)
LEMMA CollectorStart == CollectorInit => CollectorInv
<1> SUFFICES ASSUME CollectorInit PROVE CollectorInv
  OBVIOUS
<1>1. specs = <<>> /\ endpoint = <<>> /\ asked = {} /\ capability = <<>> /\ next = 1 /\ thrown = FALSE
      /\ program \in Programs
  BY DEF CollectorInit
<1>2. Collectors = {} /\ DOMAIN capability = {} /\ Published = {}
  BY <1>1 DEF Collectors, Published
<1>3. IsList(specs) /\ Len(specs) = 0 /\ IsList(endpoint) /\ Len(endpoint) = 0
  BY <1>1 DEF IsList, Elements
<1>4. asked \subseteq Collectors \X Workloads /\ DOMAIN capability \subseteq asked
  BY <1>1, <1>2
<1>5. next - 1 = 0 /\ next \in Nat \ {0} /\ thrown = FALSE
  BY <1>1
<1> QED BY <1>1, <1>2, <1>3, <1>4, <1>5 DEF CollectorInv

\* A list that one element is put behind.
LEMMA ListGrows ==
  ASSUME NEW seq, IsList(seq), NEW e
  PROVE  /\ IsList(Append(seq, e)) /\ Len(Append(seq, e)) = Len(seq) + 1
         /\ DOMAIN Append(seq, e) = DOMAIN seq \cup {Len(seq) + 1}
         /\ \A i \in DOMAIN seq : Append(seq, e)[i] = seq[i]
         /\ Append(seq, e)[Len(seq) + 1] = e
<1> DEFINE S == Elements(seq)
           more == Append(seq, e)
<1>1. seq \in Seq(S)
  BY DEF IsList
<1> HIDE DEF S
<1>2. seq \in Seq(S \cup {e}) /\ Len(seq) \in Nat /\ DOMAIN seq = 1..Len(seq)
  BY <1>1
<1>3. more \in Seq(S \cup {e}) /\ Len(more) = Len(seq) + 1
  BY <1>2
<1>4. DOMAIN more = 1..(Len(seq) + 1) /\ (\A i \in DOMAIN seq : more[i] = seq[i]) /\ more[Len(seq) + 1] = e
  BY <1>2, <1>3
<1> HIDE DEF more
<1>5. \A i \in DOMAIN more : more[i] \in Elements(more)
  BY DEF Elements
<1>6. IsList(more)
  <2>1. more = [i \in 1..Len(more) |-> more[i]] /\ Len(more) \in Nat /\ DOMAIN more = 1..Len(more)
    BY <1>2, <1>3
  <2> QED BY <1>5, <2>1 DEF IsList
<1> QED BY <1>2, <1>3, <1>4, <1>6 DEF more

\* A list in which one element is replaced.
LEMMA ListChanges ==
  ASSUME NEW seq, IsList(seq), NEW k \in DOMAIN seq, NEW e
  PROVE  /\ IsList([seq EXCEPT ![k] = e]) /\ Len([seq EXCEPT ![k] = e]) = Len(seq)
         /\ DOMAIN [seq EXCEPT ![k] = e] = DOMAIN seq
<1> DEFINE other == [seq EXCEPT ![k] = e]
<1>1. seq \in Seq(Elements(seq))
  BY DEF IsList
<1>2. Len(seq) \in Nat /\ DOMAIN seq = 1..Len(seq)
  BY <1>1
<1>3. DOMAIN other = 1..Len(seq) /\ other = [i \in 1..Len(seq) |-> other[i]]
  BY <1>2
<1> HIDE DEF other
<1>4. \A i \in DOMAIN other : other[i] \in Elements(other)
  BY DEF Elements
<1>5. other \in Seq(Elements(other)) /\ Len(other) = Len(seq)
  BY <1>2, <1>3, <1>4
<1> QED BY <1>2, <1>3, <1>5 DEF other, IsList

LEMMA ConstructStep == CollectorInv /\ Construct => CollectorInv'
<1> SUFFICES ASSUME CollectorInv, Construct PROVE CollectorInv'
  OBVIOUS
<1>1. /\ ~thrown /\ next <= Len(program) /\ next' = next + 1
      /\ UNCHANGED <<program, asked, capability>>
  BY DEF Construct
<1>2. program' \in Programs /\ next' \in Nat \ {0}
  BY <1>1 DEF CollectorInv
<1>3. CASE thrown' = TRUE /\ UNCHANGED <<specs, endpoint>>
  <2>1. Len(specs') = next' - 2
    BY <1>1, <1>3 DEF CollectorInv
  <2> QED BY <1>1, <1>2, <1>3, <2>1 DEF CollectorInv, Collectors, Published
<1>4. CASE /\ CollectorFits(program[next])
           /\ specs' = Append(specs, CollectorSpecOf(program[next]))
           /\ endpoint' = Append(endpoint, "pending") /\ UNCHANGED thrown
  <2>1. program \in Seq(Elements(program)) /\ next \in 1..Len(program)
    BY <1>1, CollectorAssumption DEF CollectorInv, IsList
  <2>2. program[next] \in Elements(program)
    BY <2>1 DEF Elements
  <2>3. SpecOfInput(CollectorSpecOf(program[next]))
    BY <1>4, <2>2 DEF CollectorInv, SpecOfInput
  <2>4. /\ IsList(specs') /\ Len(specs') = Len(specs) + 1
        /\ Collectors' = Collectors \cup {Len(specs) + 1}
        /\ \A c \in Collectors : specs'[c] = specs[c]
        /\ specs'[Len(specs) + 1] = CollectorSpecOf(program[next])
    <3> DEFINE new == CollectorSpecOf(program[next])
    <3>1. IsList(specs) /\ specs' = Append(specs, new)
      BY <1>4 DEF CollectorInv
    <3> HIDE DEF new
    <3>2. /\ IsList(specs') /\ Len(specs') = Len(specs) + 1
          /\ DOMAIN specs' = DOMAIN specs \cup {Len(specs) + 1}
          /\ \A i \in DOMAIN specs : specs'[i] = specs[i]
          /\ specs'[Len(specs) + 1] = new
      BY <3>1, ListGrows
    <3> QED BY <3>2 DEF Collectors, new
  <2>5. /\ IsList(endpoint') /\ Len(endpoint') = Len(endpoint) + 1
        /\ \A c \in DOMAIN endpoint : endpoint'[c] = endpoint[c]
    BY <1>4, ListGrows DEF CollectorInv
  <2>6. DOMAIN endpoint = Collectors
    BY DEF CollectorInv, IsList, Collectors
  <2>7. \A c \in Collectors' : SpecOfInput(specs'[c])
    BY <2>3, <2>4 DEF CollectorInv
  <2>8. \A p \in DOMAIN capability : p[1] \in Collectors
    BY DEF CollectorInv
  <2>9. Published' = Published /\ Published \subseteq DOMAIN capability
    BY <1>1 DEF Published
  <2>10. Len(specs') = (IF thrown THEN next - 2 ELSE next - 1)' /\ Len(endpoint') = Len(specs')
    BY <1>1, <1>4, <2>4, <2>5 DEF CollectorInv
  <2>11. /\ \A p \in DOMAIN capability' : endpoint'[p[1]] # "pending"
         /\ \A p \in Published' :
              /\ CapabilityFits(specs'[p[1]], endpoint'[p[1]], p[2])
              /\ capability'[p] = CapabilityOf(specs'[p[1]], endpoint'[p[1]], p[2])
    BY <1>1, <2>4, <2>5, <2>6, <2>8, <2>9 DEF CollectorInv
  <2>12. asked' \subseteq Collectors' \X Workloads /\ DOMAIN capability' \subseteq asked' /\ thrown' \in BOOLEAN
    BY <1>1, <1>4, <2>4 DEF CollectorInv
  <2> QED BY <1>2, <2>4, <2>5, <2>7, <2>10, <2>11, <2>12 DEF CollectorInv
<1> QED BY <1>3, <1>4 DEF Construct

LEMMA ResolveStep ==
  ASSUME CollectorInv, NEW c \in Collectors, NEW value, Resolve(c, value)
  PROVE  CollectorInv'
<1>1. /\ ~thrown /\ endpoint[c] = "pending" /\ endpoint' = [endpoint EXCEPT ![c] = value]
      /\ UNCHANGED <<program, next, thrown, specs, asked, capability>>
  BY DEF Resolve
<1>2. DOMAIN endpoint = Collectors
  BY DEF CollectorInv, IsList, Collectors
<1>3. IsList(endpoint') /\ Len(endpoint') = Len(endpoint)
  BY <1>1, <1>2, ListChanges DEF CollectorInv
<1>4. \A p \in DOMAIN capability : p[1] # c /\ p[1] \in DOMAIN endpoint
  BY <1>1, <1>2 DEF CollectorInv
<1>5. \A p \in DOMAIN capability : endpoint'[p[1]] = endpoint[p[1]]
  BY <1>1, <1>4
<1>6. Published' = Published /\ Published \subseteq DOMAIN capability /\ Collectors' = Collectors
  BY <1>1 DEF Published, Collectors
<1> QED BY <1>1, <1>3, <1>5, <1>6 DEF CollectorInv

LEMMA AskStep ==
  ASSUME CollectorInv, NEW c \in Collectors, NEW w \in Workloads, Ask(c, w)
  PROVE  CollectorInv'
BY DEF Ask, CollectorInv, Collectors, Published

LEMMA MakeStep ==
  ASSUME CollectorInv, NEW c \in Collectors, NEW w \in Workloads, Make(c, w)
  PROVE  CollectorInv'
<1> DEFINE made == IF endpoint[c] = "lost" THEN None ELSE Made(c, w, endpoint[c])
<1>1. /\ <<c, w>> \in asked /\ endpoint[c] # "pending"
      /\ UNCHANGED <<program, next, thrown, specs, endpoint, asked>>
      /\ DOMAIN capability' = DOMAIN capability \cup {<<c, w>>}
      /\ capability'[<<c, w>>] = made
      /\ \A p \in DOMAIN capability \ {<<c, w>>} : capability'[p] = capability[p]
      /\ <<c, w>> \notin DOMAIN capability
  BY DEF Make
<1>2. made # None =>
        /\ CapabilityFits(specs[c], endpoint[c], w)
        /\ made = CapabilityOf(specs[c], endpoint[c], w)
  BY DEF Made
<1> HIDE DEF made
<1>3. ASSUME NEW p \in DOMAIN capability'
      PROVE  /\ p \in asked /\ endpoint[p[1]] # "pending"
             /\ capability'[p] # None =>
                  /\ CapabilityFits(specs[p[1]], endpoint[p[1]], p[2])
                  /\ capability'[p] = CapabilityOf(specs[p[1]], endpoint[p[1]], p[2])
  <2>1. CASE p = <<c, w>>
    <3>1. p[1] = c /\ p[2] = w
      BY <2>1
    <3> QED BY <1>1, <1>2, <2>1, <3>1
  <2>2. CASE p \in DOMAIN capability
    BY <1>1, <2>2 DEF CollectorInv, Published
  <2> QED BY <1>1, <2>1, <2>2
<1> QED BY <1>1, <1>3 DEF CollectorInv, Collectors, Published

LEMMA CollectorStep == CollectorInv /\ [CollectorNext]_collectorVars => CollectorInv'
<1> SUFFICES ASSUME CollectorInv, [CollectorNext]_collectorVars PROVE CollectorInv'
  OBVIOUS
<1>1. CASE UNCHANGED collectorVars
  BY <1>1 DEF collectorVars, CollectorInv, Collectors, Published
<1> QED BY <1>1, ConstructStep, ResolveStep, AskStep, MakeStep DEF CollectorNext, Lose

-----------------------------------------------------------------------------
(* What follows from it.                                                   *)
LEMMA CollectorsAreTyped == CollectorInv => CollectorTypeOK
<1> SUFFICES ASSUME CollectorInv PROVE CollectorTypeOK
  OBVIOUS
<1>1. \A c \in Collectors :
        /\ CollectorFits(specs[c])
        /\ InPlace(specs[c].credentials, RefKey) /\ InPlace(specs[c].signals, LAMBDA s : s)
  BY SpecOfInputFits DEF CollectorInv
<1> QED BY <1>1 DEF CollectorInv, CollectorTypeOK

LEMMA CredentialsAreDelivered == CollectorInv => CredentialsDelivered
<1> SUFFICES ASSUME CollectorInv, NEW c \in Collectors, NEW leaf \in specs[c].config
             PROVE  /\ leaf.value.kind = "reference" =>
                         [provider |-> "environment", reference |-> leaf.value.name] \in Elements(specs[c].credentials)
                    /\ IsSensitive(Key(leaf)) => leaf.value.kind = "reference"
  BY DEF CredentialsDelivered
<1>1. /\ CollectorFits(specs[c])
      /\ \A ref \in Elements(specs[c].credentials) : ref = [provider |-> ref.provider, reference |-> ref.reference]
  BY SpecOfInputFits DEF CollectorInv
<1>2. SubstitutionFits(leaf, Environment(specs[c].credentials))
  BY <1>1 DEF CollectorFits
<1>3. ASSUME leaf.value.kind = "reference"
      PROVE  [provider |-> "environment", reference |-> leaf.value.name] \in Elements(specs[c].credentials)
  <2>1. leaf.value.name \in Environment(specs[c].credentials)
    BY <1>2, <1>3 DEF SubstitutionFits, Declared
  <2>2. PICK ref \in Elements(specs[c].credentials) : ref.provider = "environment" /\ ref.reference = leaf.value.name
    BY <2>1 DEF Environment
  <2> QED BY <1>1, <2>2
<1>4. IsSensitive(Key(leaf)) => leaf.value.kind = "reference"
  BY <1>2 DEF SubstitutionFits, Declared
<1> QED BY <1>3, <1>4

LEMMA CapabilitiesArePlannable == CollectorInv => CapabilityPlannable
<1> SUFFICES ASSUME CollectorInv, NEW p \in Published
             PROVE  /\ capability[p].collector.endpoint = endpoint[p[1]]
                    /\ capability[p].collector.protocol = specs[p[1]].protocol
                    /\ IsTelemetry(capability[p])
  BY DEF CapabilityPlannable
<1> DEFINE w == p[2]
           t == capability[p]
<1>1. /\ CapabilityFits(specs[p[1]], endpoint[p[1]], w)
      /\ t = CapabilityOf(specs[p[1]], endpoint[p[1]], w)
  BY DEF CollectorInv
<1>2. w \in Workloads /\ w.service # None
  BY CollectorAssumption DEF CollectorInv, Published
<1> HIDE DEF w, t
<1>3. /\ t.enabled = TRUE /\ t.service = w.service /\ t.suppressRecursion = TRUE
      /\ t.attributes = w.attributes /\ t.extensions = w.extensions
      /\ t.collector.endpoint = endpoint[p[1]] /\ t.collector.protocol = specs[p[1]].protocol
  BY <1>1 DEF CapabilityOf, Collector
<1>4. IsTelemetry(t)
  BY <1>1, <1>2, <1>3 DEF IsTelemetry, CapabilityFits, Optional
<1> QED BY <1>3, <1>4 DEF t

THEOREM CollectorInvariant == CollectorsSpec => []CollectorInv
BY CollectorStart, CollectorStep, PTL DEF CollectorsSpec

THEOREM CollectorsAreSound == CollectorsSpec => []CollectorSound
<1>1. CollectorInv => CollectorSound
  BY CollectorsAreTyped, CredentialsAreDelivered, CapabilitiesArePlannable DEF CollectorSound
<1> QED BY <1>1, CollectorInvariant, PTL

-----------------------------------------------------------------------------
(* Deployments that share servers: lists and the statements of a plan.     *)
\* Two lists, one behind the other.
IsListOf(x, S, m) == x \in Seq(S) /\ Len(x) = m
AreJoined(z, x, y, m, n) ==
  /\ \A k \in 1..m : z[k] = x[k]
  /\ \A k \in 1..n : z[m + k] = y[k]
LEMMA Joined ==
  ASSUME NEW S, NEW x, NEW y, NEW m \in Nat, NEW n \in Nat, IsListOf(x, S, m), IsListOf(y, S, n)
  PROVE  IsListOf(x \o y, S, m + n) /\ AreJoined(x \o y, x, y, m, n)
<1>1. IsListOf(x \o y, S, m + n)
  BY DEF IsListOf
<1>2. ASSUME NEW k \in 1..m PROVE (x \o y)[k] = x[k]
  BY DEF IsListOf
<1>3. ASSUME NEW k \in 1..n PROVE (x \o y)[m + k] = y[k]
  BY DEF IsListOf
<1> QED BY <1>1, <1>2, <1>3 DEF AreJoined

\* Where each statement of a plan is: the functions, the staging table, five objects of each profile.
LEMMA StatementPlaces ==
  /\ DOMAIN Statements = 1..30 /\ Len(Statements) = 30
  /\ \A k \in 1..14 : Statements[k] = Object(FunctionOrder[k], None)
  /\ Statements[15] = Object("staging", None)
  /\ \A k \in 1..5 : /\ Statements[15 + k] = MaterializedView("log")[k]
                     /\ Statements[20 + k] = MaterializedView("span")[k]
                     /\ Statements[25 + k] = MaterializedView("metric")[k]
<1>1. DOMAIN FunctionOrder = 1..14
  BY DEF FunctionOrder
<1>2. Functions \in Seq({Functions[k] : k \in 1..14}) /\ Len(Functions) = 14
      /\ \A k \in 1..14 : Functions[k] = Object(FunctionOrder[k], None)
  <2> HIDE DEF FunctionOrder
  <2> QED BY <1>1 DEF Functions
<1>3. ASSUME NEW profile
      PROVE  /\ MaterializedView(profile) \in Seq({MaterializedView(profile)[k] : k \in 1..5})
             /\ Len(MaterializedView(profile)) = 5
  BY DEF MaterializedView
<1> DEFINE a == MaterializedView("log")
           b == MaterializedView("span")
           c == MaterializedView("metric")
           f == Functions
           g == <<Object("staging", None)>>
           S == {a[k] : k \in 1..5} \cup {b[k] : k \in 1..5} \cup {c[k] : k \in 1..5}
                  \cup {f[k] : k \in 1..14} \cup {Object("staging", None)}
<1>4. /\ IsListOf(a, S, 5) /\ IsListOf(b, S, 5) /\ IsListOf(c, S, 5)
      /\ IsListOf(f, S, 14) /\ IsListOf(g, S, 1) /\ g[1] = Object("staging", None)
  <2>1. /\ IsListOf(a, {a[k] : k \in 1..5}, 5)
        /\ IsListOf(b, {b[k] : k \in 1..5}, 5)
        /\ IsListOf(c, {c[k] : k \in 1..5}, 5)
    BY <1>3 DEF IsListOf
  <2>2. IsListOf(f, {f[k] : k \in 1..14}, 14)
    BY <1>2 DEF IsListOf
  <2> HIDE DEF a, b, c, f
  <2> QED BY <2>1, <2>2 DEF IsListOf
<1>0. 5 \in Nat /\ 10 \in Nat /\ 14 \in Nat /\ 1 \in Nat /\ 15 \in Nat /\ 5 + 5 = 10 /\ 10 + 5 = 15 /\ 14 + 1 = 15
      /\ 15 + 15 = 30
  OBVIOUS
<1> HIDE DEF a, b, c, f, g, S
<1>5. IsListOf(a \o b, S, 10) /\ AreJoined(a \o b, a, b, 5, 5)
  BY <1>0, <1>4, Joined
<1> DEFINE ab == a \o b
<1> HIDE DEF ab
<1>6. IsListOf(ab \o c, S, 15) /\ AreJoined(ab \o c, ab, c, 10, 5)
  <2>1. IsListOf(ab, S, 10)
    BY <1>5 DEF ab
  <2> QED BY <2>1, <1>0, <1>4, Joined
<1>7. IsListOf(f \o g, S, 15) /\ AreJoined(f \o g, f, g, 14, 1)
  BY <1>0, <1>4, Joined
<1> DEFINE views == ab \o c
           fg == f \o g
<1> HIDE DEF views, fg
<1>8. IsListOf(fg \o views, S, 30) /\ AreJoined(fg \o views, fg, views, 15, 15)
  <2>1. IsListOf(fg, S, 15) /\ IsListOf(views, S, 15)
    BY <1>6, <1>7 DEF views, fg
  <2> QED BY <2>1, <1>0, Joined
<1> DEFINE all == fg \o views
<1> HIDE DEF all
<1>9. Statements = all
  BY DEF Statements, Views, f, g, views, a, b, c, ab, fg, all
<1>10. /\ AreJoined(ab, a, b, 5, 5) /\ AreJoined(views, ab, c, 10, 5) /\ AreJoined(fg, f, g, 14, 1)
       /\ AreJoined(all, fg, views, 15, 15) /\ IsListOf(all, S, 30)
  BY <1>5, <1>6, <1>7, <1>8 DEF ab, views, fg, all
<1>11. DOMAIN all = 1..30 /\ Len(all) = 30
  BY <1>10 DEF IsListOf
<1>12. ASSUME NEW k \in 1..14 PROVE all[k] = Object(FunctionOrder[k], None)
  <2>1. k \in 1..15 /\ f[k] = Object(FunctionOrder[k], None)
    BY <1>2 DEF f
  <2> QED BY <1>10, <2>1 DEF AreJoined
<1>13. ASSUME NEW k \in 1..5 PROVE all[15 + k] = a[k] /\ all[20 + k] = b[k] /\ all[25 + k] = c[k]
  <2>1. 15 + (5 + k) = 20 + k /\ 15 + (10 + k) = 25 + k /\ 5 + k \in 1..10 /\ k \in 1..10
        /\ 10 + k \in 1..15 /\ k \in 1..15 /\ 5 + k \in 1..15
    OBVIOUS
  <2>2. views[k] = a[k] /\ views[5 + k] = b[k] /\ views[10 + k] = c[k]
    BY <1>10, <2>1 DEF AreJoined
  <2>3. all[15 + k] = views[k] /\ all[15 + (5 + k)] = views[5 + k] /\ all[15 + (10 + k)] = views[10 + k]
    BY <1>10, <2>1 DEF AreJoined
  <2> QED BY <2>1, <2>2, <2>3
<1>14. all[15] = Object("staging", None)
  <2>1. 1 \in 1..1 /\ 15 \in 1..15 /\ 14 + 1 = 15
    OBVIOUS
  <2>2. fg[15] = g[1] /\ all[15] = fg[15]
    BY <1>10, <2>1 DEF AreJoined
  <2> QED BY <2>2, <1>4
<1> QED BY <1>9, <1>11, <1>12, <1>13, <1>14 DEF a, b, c

\* Every function is made after the ones it calls.
LEMMA CalleesBefore ==
  /\ \A k \in 1..14 : Callees(FunctionOrder[k]) \subseteq {FunctionOrder[m] : m \in 1..(k - 1)}
  /\ \A k \in 1..14 : Tables(Object(FunctionOrder[k], None)) = {}
  /\ \A name \in {"rows", "fields", "split", "map", "view", "staging"} :
       Callees(name) \subseteq {FunctionOrder[m] : m \in 1..14}
<1>1. ASSUME NEW k \in 1..14 PROVE Tables(Object(FunctionOrder[k], None)) = {}
  BY DEF Tables, Object, FunctionOrder
<1>2. ASSUME NEW k \in 1..14 PROVE Callees(FunctionOrder[k]) \subseteq {FunctionOrder[m] : m \in 1..(k - 1)}
  BY DEF Callees, FunctionOrder
<1>3. ASSUME NEW name \in {"rows", "fields", "split", "map", "view", "staging"}
      PROVE  Callees(name) \subseteq {FunctionOrder[m] : m \in 1..14}
  BY DEF Callees, FunctionOrder
<1> QED BY <1>1, <1>2, <1>3

\* What a statement of a view needs is a function, the staging table or an earlier one of its own.
LEMMA ViewNeeds ==
  ASSUME NEW profile, NEW k \in 1..5
  PROVE  Needs(MaterializedView(profile)[k]) \subseteq
           {Statements[m] : m \in 1..15} \cup {MaterializedView(profile)[m] : m \in 1..(k - 1)}
<1> DEFINE name == MaterializedView(profile)[k].name
           Known == {Statements[m] : m \in 1..15} \cup {MaterializedView(profile)[m] : m \in 1..(k - 1)}
<1>1. /\ name \in {"rows", "fields", "split", "map", "view", "staging"}
      /\ MaterializedView(profile)[k].profile = profile
  BY DEF MaterializedView, Object
<1>2. {Object(n, None) : n \in Callees(name)} \subseteq {Statements[m] : m \in 1..15}
  <2> SUFFICES ASSUME NEW n \in Callees(name) PROVE Object(n, None) \in {Statements[m] : m \in 1..15}
    OBVIOUS
  <2>1. PICK m \in 1..14 : n = FunctionOrder[m]
    BY <1>1, CalleesBefore
  <2>2. Object(n, None) = Statements[m] /\ m \in 1..15
    BY <2>1, StatementPlaces
  <2> QED BY <2>2
<1>3. Object("staging", None) \in {Statements[m] : m \in 1..15}
  <2>1. 15 \in 1..15 /\ Statements[15] = Object("staging", None)
    BY StatementPlaces
  <2> QED BY <2>1
<1>4. Tables(MaterializedView(profile)[k]) \subseteq
        {Object("staging", None)} \cup {MaterializedView(profile)[m] : m \in 1..(k - 1)}
  BY DEF Tables, MaterializedView, Object
<1> QED BY <1>2, <1>3, <1>4 DEF Needs

\* The statements of a plan are in an order in which none lacks what it needs.
LEMMA NeedsAreBefore ==
  ASSUME NEW p \in 1..30
  PROVE  Needs(Statements[p]) \subseteq {Statements[m] : m \in 1..(p - 1)}
<1> DEFINE Known == {Statements[m] : m \in 1..(p - 1)}
<1>1. CASE p \in 1..14
  <2>1. Statements[p] = Object(FunctionOrder[p], None) /\ Statements[p].name = FunctionOrder[p]
    BY <1>1, StatementPlaces DEF Object
  <2>2. Tables(Statements[p]) = {}
    BY <1>1, <2>1, CalleesBefore
  <2>3. ASSUME NEW n \in Callees(FunctionOrder[p]) PROVE Object(n, None) \in Known
    <3>1. PICK m \in 1..(p - 1) : n = FunctionOrder[m]
      BY <1>1, CalleesBefore
    <3>2. m \in 1..14
      BY <1>1
    <3>3. Object(n, None) = Statements[m]
      BY <3>1, <3>2, StatementPlaces
    <3> QED BY <3>3
  <2> QED BY <2>1, <2>2, <2>3 DEF Needs
<1>2. CASE p = 15
  <2>1. Statements[15] = Object("staging", None) /\ Object("staging", None).name = "staging"
    BY StatementPlaces DEF Object
  <2>2. Tables(Object("staging", None)) = {}
    BY DEF Tables, Object
  <2>3. Callees("staging") = {}
    BY DEF Callees
  <2> QED BY <1>2, <2>1, <2>2, <2>3 DEF Needs
<1>3. ASSUME NEW b \in {15, 20, 25}, NEW profile, NEW k \in 1..5, p = b + k,
             \A j \in 1..5 : Statements[b + j] = MaterializedView(profile)[j]
      PROVE  Needs(Statements[p]) \subseteq Known
  <2>1. Needs(Statements[p]) \subseteq {Statements[m] : m \in 1..15} \cup {MaterializedView(profile)[m] : m \in 1..(k - 1)}
    BY <1>3, ViewNeeds
  <2>2. {Statements[m] : m \in 1..15} \subseteq Known
    BY <1>3
  <2>3. ASSUME NEW m \in 1..(k - 1) PROVE MaterializedView(profile)[m] \in Known
    <3>1. m \in 1..5 /\ b + m \in 1..(p - 1)
      BY <1>3
    <3>2. MaterializedView(profile)[m] = Statements[b + m]
      BY <1>3, <3>1
    <3> QED BY <3>1, <3>2
  <2> QED BY <2>1, <2>2, <2>3
<1>4. CASE p \in 16..20
  <2>1. p - 15 \in 1..5 /\ p = 15 + (p - 15) /\ 15 \in {15, 20, 25}
    BY <1>4
  <2>2. \A j \in 1..5 : Statements[15 + j] = MaterializedView("log")[j]
    BY StatementPlaces
  <2> QED BY <1>3, <2>1, <2>2
<1>5. CASE p \in 21..25
  <2>1. p - 20 \in 1..5 /\ p = 20 + (p - 20) /\ 20 \in {15, 20, 25}
    BY <1>5
  <2>2. \A j \in 1..5 : Statements[20 + j] = MaterializedView("span")[j]
    BY StatementPlaces
  <2> QED BY <1>3, <2>1, <2>2
<1>6. CASE p \in 26..30
  <2>1. p - 25 \in 1..5 /\ p = 25 + (p - 25) /\ 25 \in {15, 20, 25}
    BY <1>6
  <2>2. \A j \in 1..5 : Statements[25 + j] = MaterializedView("metric")[j]
    BY StatementPlaces
  <2> QED BY <1>3, <2>1, <2>2
<1> QED BY <1>1, <1>2, <1>4, <1>5, <1>6

\* What a deployment inserts into and through is made by its plan.
LEMMA ChainIsMade ==
  ASSUME NEW profile \in Profiles
  PROVE  /\ Elements(MaterializedView(profile)) \subseteq Elements(Statements)
         /\ Object("view", profile) \in Elements(Statements)
         /\ Object("map", profile) \in Elements(Statements)
         /\ Object("staging", None) \in Elements(Statements)
<1>1. PICK b \in {15, 20, 25} : \A j \in 1..5 : Statements[b + j] = MaterializedView(profile)[j]
  <2>1. 15 \in {15, 20, 25} /\ 20 \in {15, 20, 25} /\ 25 \in {15, 20, 25}
    OBVIOUS
  <2> QED BY <2>1, StatementPlaces DEF Profiles
<1>2. ASSUME NEW j \in 1..5 PROVE MaterializedView(profile)[j] \in Elements(Statements)
  <2>1. b + j \in 1..30
    OBVIOUS
  <2> QED BY <1>1, <2>1, StatementPlaces DEF Elements
<1>3. DOMAIN MaterializedView(profile) = 1..5
  BY DEF MaterializedView
<1>4. Elements(MaterializedView(profile)) \subseteq Elements(Statements)
  <2> SUFFICES ASSUME NEW x \in Elements(MaterializedView(profile)) PROVE x \in Elements(Statements)
    OBVIOUS
  <2>1. PICK j \in 1..5 : x = MaterializedView(profile)[j]
    BY <1>3 DEF Elements
  <2> QED BY <2>1, <1>2
<1>5. MaterializedView(profile)[4] = Object("map", profile) /\ MaterializedView(profile)[5] = Object("view", profile)
  BY DEF MaterializedView
<1>6. 15 \in 1..30 /\ 4 \in 1..5 /\ 5 \in 1..5
  OBVIOUS
<1>7. Object("staging", None) \in Elements(Statements)
  BY <1>6, StatementPlaces DEF Elements
<1> QED BY <1>2, <1>4, <1>5, <1>6, <1>7

-----------------------------------------------------------------------------
(* The steps of a plan: every statement on the first server, then on the   *)
(* next.                                                                   *)
PlaceOfStep(k) == ((k - 1) % 30) + 1
LEMMA StepsCount == Len(Servers) \in Nat /\ DOMAIN Servers = 1..Len(Servers) /\ Last = Len(Servers) * 30 /\ Last \in Nat
BY MigrationAssumption, StatementPlaces DEF Last

LEMMA StepIsPlaced ==
  ASSUME NEW k \in 1..Last
  PROVE  /\ Server(k) \in Elements(Servers) /\ PlaceOfStep(k) \in 1..30
         /\ ObjectAt(k) = Statements[PlaceOfStep(k)] /\ ObjectAt(k) \in Elements(Statements)
<1> DEFINE n == Len(Servers)
           s == ((k - 1) \div 30) + 1
<1>1. n \in Nat /\ DOMAIN Servers = 1..n /\ k \in 1..(n * 30) /\ Len(Statements) = 30
  BY StepsCount, StatementPlaces
<1> HIDE DEF n
<1>2. s \in 1..n
  BY <1>1
<1>3. PlaceOfStep(k) \in 1..30
  BY <1>1 DEF PlaceOfStep
<1>4. Server(k) = Servers[s] /\ ObjectAt(k) = Statements[PlaceOfStep(k)]
  BY <1>1 DEF Server, ObjectAt, PlaceOfStep
<1> QED BY <1>1, <1>2, <1>3, <1>4, StatementPlaces DEF Elements

\* The statements before one, on its server, are of earlier steps.
LEMMA EarlierSteps ==
  ASSUME NEW k \in 1..Last, NEW m \in 1..(PlaceOfStep(k) - 1)
  PROVE  \E j \in 1..(k - 1) : Server(j) = Server(k) /\ ObjectAt(j) = Statements[m]
<1> DEFINE j == (k - PlaceOfStep(k)) + m
<1>1. k \in Nat /\ k > 0 /\ PlaceOfStep(k) \in 1..30
  BY StepsCount, StepIsPlaced
<1>2. PlaceOfStep(k) = ((k - 1) % 30) + 1 /\ k - 1 = 30 * ((k - 1) \div 30) + ((k - 1) % 30) /\ (k - 1) \div 30 \in Nat
  BY <1>1 DEF PlaceOfStep
<1> DEFINE q == (k - 1) \div 30
           p == PlaceOfStep(k)
<1>3. q \in Nat /\ p \in 1..30 /\ k = (30 * q) + p /\ m \in 1..(p - 1) /\ j = (30 * q) + m
  BY <1>1, <1>2
<1> HIDE DEF q, p, j
<1>4. j \in 1..(k - 1)
  BY <1>3
<1>5. (j - 1) \div 30 = q /\ (j - 1) % 30 = m - 1
  BY <1>3
<1>6. Server(j) = Server(k)
  BY <1>5, StatementPlaces DEF Server, q
<1>7. ObjectAt(j) = Statements[m]
  BY <1>3, <1>5, StatementPlaces DEF ObjectAt
<1> QED BY <1>4, <1>6, <1>7

\* Every statement is executed on every server.
LEMMA StepsCover ==
  ASSUME NEW server \in Elements(Servers), NEW object \in Elements(Statements)
  PROVE  \E k \in 1..Last : Server(k) = server /\ ObjectAt(k) = object
<1> DEFINE n == Len(Servers)
<1>1. n \in Nat /\ DOMAIN Servers = 1..n /\ Last = n * 30
  BY StepsCount
<1>2. PICK s \in 1..n : server = Servers[s]
  BY <1>1 DEF Elements
<1>3. PICK p \in 1..30 : object = Statements[p]
  BY StatementPlaces DEF Elements
<1> DEFINE k == (s - 1) * 30 + p
<1> HIDE DEF n
<1>4. k \in 1..(n * 30) /\ (k - 1) \div 30 = s - 1 /\ (k - 1) % 30 = p - 1
  BY <1>1, <1>2, <1>3
<1> HIDE DEF k
<1>5. Server(k) = server
  BY <1>2, <1>4, StatementPlaces DEF Server
<1>6. ObjectAt(k) = object
  BY <1>3, <1>4, StatementPlaces DEF ObjectAt
<1> QED BY <1>1, <1>4, <1>5, <1>6

-----------------------------------------------------------------------------
(* What a plan names.                                                      *)
LEMMA MappingNamed ==
  ASSUME NEW d \in Deployments
  PROVE  MappingOf(Inputs[NameOf(MappingOf, d)]) = MappingOf(Inputs[d])
<1>1. \E e \in Deployments : MappingOf(Inputs[e]) = MappingOf(Inputs[d])
  OBVIOUS
<1> HIDE DEF MappingOf
<1> QED BY <1>1 DEF NameOf
LEMMA ViewsNamed ==
  ASSUME NEW d \in Deployments, NEW p \in Profiles
  PROVE  ViewSql(Inputs[NameOf(ViewsSql, d)], p) = ViewSql(Inputs[d], p)
<1>1. \E e \in Deployments : ViewsSql(Inputs[e]) = ViewsSql(Inputs[d])
  OBVIOUS
<1>2. ViewsSql(Inputs[NameOf(ViewsSql, d)]) = ViewsSql(Inputs[d])
  BY <1>1 DEF NameOf
<1>3. \A i : ViewsSql(i)[p] = ViewSql(i, p)
  BY DEF ViewsSql
<1> QED BY <1>2, <1>3
LEMMA MapsNamed ==
  ASSUME NEW d \in Deployments, NEW p \in Profiles
  PROVE  MapSql(Inputs[NameOf(MapsSql, d)], p) = MapSql(Inputs[d], p)
<1>1. \E e \in Deployments : MapsSql(Inputs[e]) = MapsSql(Inputs[d])
  OBVIOUS
<1>2. MapsSql(Inputs[NameOf(MapsSql, d)]) = MapsSql(Inputs[d])
  BY <1>1 DEF NameOf
<1>3. \A i : MapsSql(i)[p] = MapSql(i, p)
  BY DEF MapsSql
<1> QED BY <1>2, <1>3

\* Two plans with the same prefix have the same SQL.
LEMMA PrefixTellsSql ==
  ASSUME NEW d \in Deployments, NEW e \in Deployments, NameOf(MappingOf, d) = NameOf(MappingOf, e)
  PROVE  NameOf(ViewsSql, d) = NameOf(ViewsSql, e) /\ NameOf(MapsSql, d) = NameOf(MapsSql, e)
<1>1. MappingOf(Inputs[d]) = MappingOf(Inputs[e])
  BY MappingNamed
<1>2. \A i : \A p \in Profiles : MappingOf(i)[2][p] = <<ViewSql(i, p), MapSql(i, p)>>
  BY DEF MappingOf
<1>3. ASSUME NEW p \in Profiles
      PROVE  ViewSql(Inputs[d], p) = ViewSql(Inputs[e], p) /\ MapSql(Inputs[d], p) = MapSql(Inputs[e], p)
  <2>1. <<ViewSql(Inputs[d], p), MapSql(Inputs[d], p)>> = <<ViewSql(Inputs[e], p), MapSql(Inputs[e], p)>>
    BY <1>1, <1>2
  <2> QED BY <2>1
<1>4. ViewsSql(Inputs[d]) = ViewsSql(Inputs[e]) /\ MapsSql(Inputs[d]) = MapsSql(Inputs[e])
  BY <1>3 DEF ViewsSql, MapsSql
<1> QED BY <1>4 DEF NameOf

\* The tables of a plan are three, so that each is the table of one layout.
LEMMA TablesDiffer ==
  ASSUME NEW i, LayoutsFit(i), NEW l \in Layouts(i), NEW m \in Layouts(i), l.table = m.table
  PROVE  l = m
<1> DEFINE a == i.layouts["log"]
           b == i.layouts["span"]
           c == i.layouts["metric"]
<1>1. Layouts(i) = {a, b, c}
  BY DEF Layouts, Profiles
<1>2. Cardinality({a.table, b.table, c.table}) = Cardinality(Profiles)
  <2>1. {x.table : x \in Layouts(i)} = {a.table, b.table, c.table}
    BY <1>1
  <2> QED BY <2>1 DEF LayoutsFit
<1>3. \A x, y : IsFiniteSet({x, y}) /\ Cardinality({x, y}) <= 2
  <2> TAKE x, y
  <2>1. IsFiniteSet({y}) /\ Cardinality({y}) = 1
    BY FS_Singleton
  <2>2. {x, y} = {y} \cup {x}
    OBVIOUS
  <2>3. IsFiniteSet({y} \cup {x}) /\ Cardinality({y} \cup {x}) = IF x \in {y} THEN Cardinality({y}) ELSE Cardinality({y}) + 1
    BY <2>1, FS_AddElement
  <2>4. Cardinality({y} \cup {x}) \in {1, 2}
    BY <2>1, <2>3
  <2>5. IsFiniteSet({x, y}) /\ Cardinality({x, y}) \in {1, 2}
    BY <2>2, <2>3, <2>4
  <2> QED BY <2>5
<1>4. Cardinality(Profiles) = 3
  <2>1. IsFiniteSet({"span", "metric"}) /\ Cardinality({"span", "metric"}) = 2
    <3>1. IsFiniteSet({"metric"}) /\ Cardinality({"metric"}) = 1
      BY FS_Singleton
    <3>2. {"span", "metric"} = {"metric"} \cup {"span"} /\ "span" \notin {"metric"}
      OBVIOUS
    <3> QED BY <3>1, <3>2, FS_AddElement
  <2>2. Profiles = {"span", "metric"} \cup {"log"} /\ "log" \notin {"span", "metric"}
    BY DEF Profiles
  <2>3. Cardinality({"span", "metric"} \cup {"log"}) =
          IF "log" \in {"span", "metric"} THEN Cardinality({"span", "metric"}) ELSE Cardinality({"span", "metric"}) + 1
    BY <2>1, FS_AddElement
  <2>4. Cardinality({"span", "metric"} \cup {"log"}) = 3
    BY <2>1, <2>2, <2>3
  <2> QED BY <2>2, <2>4
<1>5. ASSUME NEW x, NEW y PROVE {a.table, b.table, c.table} # {x, y}
  <2>1. Cardinality({x, y}) <= 2 /\ Cardinality({x, y}) \in Nat
    BY <1>3, FS_CardinalityType
  <2> QED BY <2>1, <1>2, <1>4
<1> HIDE DEF a, b, c
<1>6. a.table # b.table /\ a.table # c.table /\ b.table # c.table
  <2>1. a.table # b.table
    BY <1>5
  <2>2. a.table # c.table
    BY <1>5
  <2>3. b.table # c.table
    BY <1>5
  <2> QED BY <2>1, <2>2, <2>3
<1> QED BY <1>1, <1>6

\* What a plan requires of the table of a profile is the layout of that profile.
LEMMA RequiredIsOwn ==
  ASSUME NEW d \in Deployments, PlanFits(Inputs[d]), NEW p \in Profiles
  PROVE  LET required == PlanOf(d, Inputs[d]).required
             t == TableOf(Inputs[d], Inputs[d].layouts[p])
         IN  /\ t \in DOMAIN required
             /\ Inputs[required[t][1]].layouts[required[t][2]] = Inputs[d].layouts[p]
<1> DEFINE i == Inputs[d]
           l == i.layouts[p]
           t == TableOf(i, l)
           required == PlanOf(d, i).required
           chosen == CHOOSE m \in RequiredLayouts(i) : TableOf(i, m) = t
<1>1. LayoutsFit(i) /\ l \in Layouts(i) /\ RequiredLayouts(i) = Layouts(i)
  BY DEF PlanFits, Layouts, RequiredLayouts
<1> HIDE DEF i, l
<1>2. t \in DOMAIN required /\ required[t] = LayoutName(chosen)
  BY <1>1 DEF PlanOf
<1>3. chosen \in Layouts(i) /\ TableOf(i, chosen) = TableOf(i, l)
  BY <1>1
<1> HIDE DEF chosen
<1>4. chosen = l
  <2>1. chosen.table = l.table
    BY <1>3 DEF TableOf
  <2> QED BY <1>1, <1>3, <2>1, TablesDiffer
<1>5. \E n \in Deployments \X Profiles : Inputs[n[1]].layouts[n[2]] = l
  <2>1. <<d, p>> \in Deployments \X Profiles /\ Inputs[<<d, p>>[1]].layouts[<<d, p>>[2]] = l
    BY DEF l, i
  <2> QED BY <2>1
<1>6. Inputs[LayoutName(l)[1]].layouts[LayoutName(l)[2]] = l
  BY <1>5 DEF LayoutName
<1> QED BY <1>2, <1>4, <1>6 DEF l, i

-----------------------------------------------------------------------------
(* The inductive invariant.                                                *)
Rendered(d) == phase[d] \notin {"new", "refused"}
Running(d) == phase[d] \in {"migrating", "serving", "draining"}
Migrated(d) == Running(d) \/ phase[d] = "removed"
Taken(d) == {r \in accepted : r.deployment = d}

DomainsOK ==
  /\ Group \subseteq Deployments
  /\ DOMAIN plan = Group /\ DOMAIN step = Group /\ DOMAIN queues = Group
  /\ DOMAIN installed = Elements(Servers)
PlansInv == \A d \in Group : Rendered(d) => PlanFits(Inputs[d]) /\ plan[d] = PlanOf(d, Inputs[d])
\* The table of every layout that a migrated plan requires has that layout.
TablesInv ==
  \A d \in Group : Migrated(d) =>
    \A t \in DOMAIN plan[d].required : t \in DOMAIN tables /\ tables[t] = plan[d].required[t]
\* What is installed is what some plan has rendered.
InstalledInv ==
  \A server \in Elements(Servers) : \A o \in installed[server] :
    \E d \in Group : /\ Rendered(d) /\ o.object \in Elements(Statements)
                     /\ o.prefix = plan[d].prefix /\ o.by = Sql(d, o.object)
\* What a deployment has executed, itself or by finding it there, is there.
StepsInv ==
  \A d \in Group :
    /\ phase[d] # "failed" /\ step[d] \in 0..Last
    /\ phase[d] \in {"new", "planned"} => step[d] = 0
    /\ Running(d) => \A k \in 1..step[d] : ObjectAt(k) \in ObjectsOn(Server(k), d)
    /\ phase[d] \in {"serving", "draining"} => step[d] = Last
AcceptedInv ==
  /\ \A r \in accepted : r.deployment \in Group /\ r.profile \in Profiles /\ Migrated(r.deployment)
  /\ \A d \in Group : queues[d] \in Seq(Taken(d))
  /\ \A row \in written : /\ row.record \in accepted
                          /\ row.view = plan[row.record.deployment].view
                          /\ row.map = plan[row.record.deployment].map
  /\ \A r \in accepted : r \in Elements(queues[r.deployment]) \/ \E row \in written : row.record = r
MigrationInv == DomainsOK /\ PlansInv /\ TablesInv /\ InstalledInv /\ StepsInv /\ AcceptedInv

\* What a record does not have is a field that it need not have.
AbsentInv == \A r \in accepted : r.absent \subseteq Absent[r.profile]

LEMMA PlanKnown ==
  ASSUME MigrationInv, NEW d \in Group, Rendered(d)
  PROVE  /\ d \in Deployments /\ PlanFits(Inputs[d])
         /\ plan[d].prefix = NameOf(MappingOf, d) /\ plan[d].view = NameOf(ViewsSql, d) /\ plan[d].map = NameOf(MapsSql, d)
         /\ plan[d].required = PlanOf(d, Inputs[d]).required
<1>1. d \in Deployments
  BY DEF MigrationInv, DomainsOK
<1>2. PlanFits(Inputs[d]) /\ plan[d] = PlanOf(d, Inputs[d])
  BY DEF MigrationInv, PlansInv
<1>3. \A i : PlanOf(d, i).prefix = NameOf(MappingOf, d) /\ PlanOf(d, i).view = NameOf(ViewsSql, d)
             /\ PlanOf(d, i).map = NameOf(MapsSql, d)
  BY DEF PlanOf
<1> QED BY <1>1, <1>2, <1>3

\* Whoever has installed an object of a plan's prefix, it has the SQL of that plan.
LEMMA SqlAgrees ==
  ASSUME MigrationInv, NEW d \in Group, Rendered(d), NEW server \in Elements(Servers), NEW o \in On(server, d)
  PROVE  o.object \in Elements(Statements) /\ o.by = Sql(d, o.object)
<1>1. o \in installed[server] /\ o.prefix = plan[d].prefix
  BY DEF On
<1>2. PICK e \in Group : /\ Rendered(e) /\ o.object \in Elements(Statements)
                         /\ o.prefix = plan[e].prefix /\ o.by = Sql(e, o.object)
  BY <1>1 DEF MigrationInv, InstalledInv
<1>3. NameOf(MappingOf, d) = NameOf(MappingOf, e) /\ d \in Deployments /\ e \in Deployments
  BY <1>1, <1>2, PlanKnown
<1>4. plan[d].view = plan[e].view /\ plan[d].map = plan[e].map
  BY <1>2, <1>3, PlanKnown, PrefixTellsSql
<1>5. Sql(d, o.object) = Sql(e, o.object)
  BY <1>4 DEF Sql
<1> QED BY <1>2, <1>5

\* Where a Collector runs, everything its plan makes is there.
LEMMA ServingHasAll ==
  ASSUME MigrationInv, NEW d \in Group, phase[d] \in {"serving", "draining"}, NEW server \in Elements(Servers)
  PROVE  ObjectsOn(server, d) = Elements(Statements)
<1>1. Rendered(d) /\ Running(d) /\ step[d] = Last
  BY DEF Rendered, Running, MigrationInv, StepsInv
<1>2. ASSUME NEW x \in ObjectsOn(server, d) PROVE x \in Elements(Statements)
  <2>1. PICK o \in On(server, d) : x = o.object
    BY DEF ObjectsOn
  <2> QED BY <2>1, <1>1, SqlAgrees
<1>3. ASSUME NEW x \in Elements(Statements) PROVE x \in ObjectsOn(server, d)
  <2>1. PICK k \in 1..Last : Server(k) = server /\ ObjectAt(k) = x
    BY StepsCover
  <2>2. ObjectAt(k) \in ObjectsOn(Server(k), d)
    BY <1>1 DEF MigrationInv, StepsInv
  <2> QED BY <2>1, <2>2
<1> QED BY <1>2, <1>3

LEMMA ByIsSql ==
  ASSUME MigrationInv, NEW d \in Group, Rendered(d), NEW server \in Elements(Servers), NEW x \in ObjectsOn(server, d)
  PROVE  By(server, d, x) = Sql(d, x)
<1> DEFINE o == CHOOSE c \in On(server, d) : c.object = x
<1>1. o \in On(server, d) /\ o.object = x
  BY DEF ObjectsOn
<1>2. o.by = Sql(d, o.object)
  BY <1>1, SqlAgrees
<1> QED BY <1>1, <1>2 DEF By

\* The invariant has what the runs check.
LEMMA InvIsSound ==
  ASSUME MigrationInv, AbsentInv
  PROVE  MigrationTypeOK /\ StatementsApply /\ RoutedAsPlanned /\ NothingLost
<1>1. StatementsApply
  BY DEF StatementsApply, MigrationInv, StepsInv
<1>2. MigrationTypeOK
  <2>1. \A d \in Group : step[d] \in 0..Last
    BY DEF MigrationInv, StepsInv
  <2>2. {row.record : row \in written} \subseteq accepted
    BY DEF MigrationInv, AcceptedInv
  <2>3. ASSUME NEW d \in Group, phase[d] \in {"serving", "draining"}, NEW server \in DOMAIN installed
        PROVE  /\ Elements(Statements) = ObjectsOn(server, d)
               /\ \A o \in On(server, d) : o.by = Sql(d, o.object)
    <3>1. server \in Elements(Servers) /\ Rendered(d)
      BY <2>3 DEF MigrationInv, DomainsOK, Rendered
    <3> QED BY <2>3, <3>1, SqlAgrees, ServingHasAll
  <2> QED BY <2>1, <2>2, <2>3 DEF MigrationTypeOK
<1>3. ASSUME NEW r \in accepted
      PROVE  /\ r.deployment \in Group /\ r.profile \in Profiles /\ Migrated(r.deployment) /\ Rendered(r.deployment)
             /\ r.deployment \in Deployments
  BY DEF MigrationInv, AcceptedInv, Migrated, Running, Rendered, DomainsOK
<1>4. ASSUME NEW row \in written
      PROVE  LET d == row.record.deployment
                 p == row.record.profile
             IN  /\ row.record \in accepted
                 /\ ViewSql(Inputs[row.view], p) = ViewSql(Inputs[d], p) /\ MapSql(Inputs[row.map], p) = MapSql(Inputs[d], p)
  <2> DEFINE d == row.record.deployment
             p == row.record.profile
  <2>1. row.record \in accepted /\ row.view = plan[d].view /\ row.map = plan[d].map
    BY DEF MigrationInv, AcceptedInv
  <2>2. d \in Group /\ p \in Profiles /\ Rendered(d) /\ d \in Deployments
    BY <1>3, <2>1
  <2> HIDE DEF d, p
  <2>3. row.view = NameOf(ViewsSql, d) /\ row.map = NameOf(MapsSql, d)
    BY <2>1, <2>2, PlanKnown
  <2>4. ViewSql(Inputs[row.view], p) = ViewSql(Inputs[d], p) /\ MapSql(Inputs[row.map], p) = MapSql(Inputs[d], p)
    BY <2>2, <2>3, ViewsNamed, MapsNamed
  <2> QED BY <2>1, <2>4 DEF d, p
<1>5. RoutedAsPlanned
  <2> SUFFICES ASSUME NEW row \in written
               PROVE  LET view == ViewSql(Inputs[row.view], row.record.profile)
                          map == MapSql(Inputs[row.map], row.record.profile)
                      IN  /\ view.tenant = Sent(row).tenant /\ view.scope = Sent(row).scope
                          /\ map.tenant = Sent(row).tenant /\ map.scope = Sent(row).scope
                          /\ map.identity = Sent(row).identity
    BY DEF RoutedAsPlanned
  <2>1. \A i, p : /\ ViewSql(i, p).tenant = i.tenant /\ ViewSql(i, p).scope = i.scope
                  /\ MapSql(i, p).tenant = i.tenant /\ MapSql(i, p).scope = i.scope /\ MapSql(i, p).identity = i.identity
    BY DEF ViewSql, MapSql
  <2> QED BY <1>4, <2>1 DEF Sent
<1>6. NothingLost
  <2> SUFFICES ASSUME NEW r \in accepted, r \notin Elements(queues[r.deployment])
               PROVE  \E row \in written :
                        LET view == ViewSql(Inputs[row.view], r.profile)
                        IN  /\ row.record = r
                            /\ view.table = Inputs[r.deployment].layouts[r.profile].table
                            /\ LayoutIn(<<view.database, view.table>>).columns = view.columns
                            /\ \A c \in Elements(view.columns) : c.logical \in r.absent => c.nullable
    BY DEF NothingLost
  <2>1. PICK row \in written : row.record = r
    BY DEF MigrationInv, AcceptedInv
  <2> DEFINE d == r.deployment
             l == Inputs[d].layouts[r.profile]
             t == TableOf(Inputs[d], l)
             view == ViewSql(Inputs[row.view], r.profile)
  <2>2. view.database = Inputs[d].database /\ view.table = l.table /\ view.columns = l.columns
    <3>1. \A i, p : /\ ViewSql(i, p).database = i.database /\ ViewSql(i, p).table = i.layouts[p].table
                    /\ ViewSql(i, p).columns = i.layouts[p].columns
      BY DEF ViewSql
    <3>2. view = ViewSql(Inputs[d], r.profile)
      BY <1>4, <2>1
    <3> QED BY <3>1, <3>2
  <2>3. d \in Group /\ d \in Deployments /\ r.profile \in Profiles /\ Migrated(d) /\ Rendered(d)
    BY <1>3
  <2> HIDE DEF d
  <2>4. /\ PlanFits(Inputs[d]) /\ plan[d].required = PlanOf(d, Inputs[d]).required
    BY <2>3, PlanKnown
  <2>5. t \in DOMAIN plan[d].required /\ Inputs[plan[d].required[t][1]].layouts[plan[d].required[t][2]] = l
    BY <2>3, <2>4, RequiredIsOwn
  <2>6. tables[t] = plan[d].required[t]
    BY <2>3, <2>5 DEF MigrationInv, TablesInv
  <2>7. LayoutIn(t).columns = l.columns
    BY <2>5, <2>6 DEF LayoutIn
  <2>8. t = <<view.database, view.table>>
    BY <2>2 DEF TableOf
  <2>9. ASSUME NEW c \in Elements(l.columns), c.logical \in r.absent PROVE c.nullable
    <3>1. c.logical \in NullableFields[r.profile]
      BY <2>3, <2>9 DEF AbsentInv, Absent, NullableFields, Profiles
    <3>2. IsColumnOf(c, r.profile)
      BY <2>3, <2>4 DEF PlanFits, LayoutsFit, IsTelemetryLayout
    <3> QED BY <3>1, <3>2 DEF IsColumnOf
  <2> QED BY <2>1, <2>2, <2>7, <2>8, <2>9 DEF d
<1> QED BY <1>1, <1>2, <1>5, <1>6

-----------------------------------------------------------------------------
(* Lists.                                                                  *)
LEMMA Appended ==
  ASSUME NEW S, NEW q \in Seq(S), NEW r
  PROVE  /\ Append(q, r) \in Seq(S \cup {r})
         /\ Elements(q) \subseteq Elements(Append(q, r)) /\ r \in Elements(Append(q, r))
<1> DEFINE n == Len(q)
<1>1. n \in Nat /\ DOMAIN q = 1..n /\ q \in Seq(S \cup {r})
  OBVIOUS
<1>2. Append(q, r) \in Seq(S \cup {r}) /\ DOMAIN Append(q, r) = 1..(n + 1)
      /\ Append(q, r)[n + 1] = r /\ \A i \in 1..n : Append(q, r)[i] = q[i]
  BY <1>1
<1> DEFINE more == Append(q, r)
<1> HIDE DEF more, n
<1>3. Elements(q) \subseteq Elements(more)
  <2> SUFFICES ASSUME NEW i \in 1..n PROVE q[i] \in Elements(more)
    BY <1>1 DEF Elements
  <2>1. i \in 1..(n + 1) /\ more[i] = q[i]
    BY <1>1, <1>2 DEF more
  <2> QED BY <1>2, <2>1 DEF Elements, more
<1>4. r \in Elements(more)
  <2>1. n + 1 \in 1..(n + 1)
    BY <1>1
  <2> QED BY <1>2, <2>1 DEF Elements, more
<1> QED BY <1>2, <1>3, <1>4 DEF more

LEMMA Removed ==
  ASSUME NEW S, NEW q \in Seq(S), q # <<>>
  PROVE  Head(q) \in S /\ Tail(q) \in Seq(S) /\ Elements(q) \subseteq {Head(q)} \cup Elements(Tail(q))
<1> DEFINE n == Len(q)
           rest == Tail(q)
<1>1. n \in Nat /\ DOMAIN q = 1..n /\ n > 0
  OBVIOUS
<1>2. Head(q) = q[1] /\ Head(q) \in S /\ rest \in Seq(S)
  BY <1>1
<1>3. DOMAIN rest = 1..(n - 1) /\ \A i \in 1..(n - 1) : rest[i] = q[i + 1]
  BY <1>1
<1> HIDE DEF n, rest
<1>4. ASSUME NEW i \in 1..n PROVE q[i] \in {Head(q)} \cup Elements(rest)
  <2>1. CASE i = 1
    BY <1>2, <2>1
  <2>2. CASE i # 1
    <3>1. i - 1 \in 1..(n - 1) /\ (i - 1) + 1 = i
      BY <1>1, <2>2
    <3>2. rest[i - 1] = q[i]
      BY <1>3, <3>1
    <3> QED BY <1>3, <3>1, <3>2 DEF Elements
  <2> QED BY <2>1, <2>2
<1> QED BY <1>1, <1>2, <1>4 DEF Elements, rest

-----------------------------------------------------------------------------
(* The initial states, and the steps that leave the servers alone.         *)
LEMMA InitIsInv == MigrationInit => MigrationInv
<1> SUFFICES ASSUME MigrationInit PROVE MigrationInv
  OBVIOUS
<1>1. PICK group \in Groups : phase = [d \in group |-> "new"]
  BY DEF MigrationInit
<1>2. Group = group /\ Group \subseteq Deployments /\ \A d \in Group : phase[d] = "new"
  BY <1>1, MigrationAssumption DEF Group, Deployments
<1>3. /\ plan = [d \in Group |-> None] /\ step = [d \in Group |-> 0] /\ queues = [d \in Group |-> <<>>]
      /\ installed = [server \in Elements(Servers) |-> {}] /\ written = {} /\ accepted = {}
  BY DEF MigrationInit
<1>4. DomainsOK
  BY <1>2, <1>3 DEF DomainsOK
<1>5. PlansInv /\ TablesInv
  BY <1>2 DEF PlansInv, TablesInv, Rendered, Migrated, Running
<1>6. InstalledInv
  BY <1>3 DEF InstalledInv
<1>7. StepsInv
  BY <1>2, <1>3, StepsCount DEF StepsInv, Running
<1>8. AcceptedInv
  <2>1. \A d \in Group : queues[d] \in Seq(Taken(d))
    BY <1>3
  <2> QED BY <1>3, <2>1 DEF AcceptedInv
<1> QED BY <1>4, <1>5, <1>6, <1>7, <1>8 DEF MigrationInv

LEMMA RenderStep ==
  ASSUME MigrationInv, NEW d \in Group, Render(d)
  PROVE  MigrationInv'
<1>1. phase[d] = "new" /\ UNCHANGED <<step, tables, installed, queues, written, accepted>>
  BY DEF Render
<1>2. DOMAIN phase = Group /\ DOMAIN plan = Group
  BY DEF Group, MigrationInv, DomainsOK
<1>3. /\ \/ /\ PlanFits(Inputs[d])
            /\ phase' = [phase EXCEPT ![d] = "planned"] /\ plan' = [plan EXCEPT ![d] = PlanOf(d, Inputs[d])]
         \/ phase' = [phase EXCEPT ![d] = "refused"] /\ plan' = plan
  BY DEF Render
<1>4. /\ DOMAIN phase' = Group /\ DOMAIN plan' = Group
      /\ \A e \in Group \ {d} : phase'[e] = phase[e] /\ plan'[e] = plan[e]
      /\ phase'[d] \in {"planned", "refused"}
      /\ phase'[d] = "planned" => PlanFits(Inputs[d]) /\ plan'[d] = PlanOf(d, Inputs[d])
  BY <1>2, <1>3
<1>5. \A e \in Group : Rendered(e) => e # d
  BY <1>1 DEF Rendered
<1>6. \A e \in Group : (Running(e)' => Running(e) /\ e # d) /\ (Migrated(e)' => Migrated(e) /\ e # d)
                       /\ (Running(e) => e # d) /\ (Migrated(e) => e # d /\ Migrated(e)') /\ (Rendered(e) => Rendered(e)')
  BY <1>1, <1>4 DEF Running, Migrated, Rendered
<1>7. Group' = Group
  BY <1>4 DEF Group
<1>8. DomainsOK'
  BY <1>1, <1>4, <1>7 DEF DomainsOK, MigrationInv, Deployments
<1>9. PlansInv'
  BY <1>4, <1>7 DEF PlansInv, MigrationInv, Rendered
<1>10. TablesInv'
  BY <1>1, <1>4, <1>6, <1>7 DEF TablesInv, MigrationInv
<1>11. InstalledInv'
  <2> SUFFICES ASSUME NEW server \in Elements(Servers), NEW o \in installed[server]
               PROVE  \E e \in Group : /\ Rendered(e)' /\ o.object \in Elements(Statements)
                                       /\ o.prefix = plan'[e].prefix /\ o.by = Sql(e, o.object)'
    BY <1>1, <1>7 DEF InstalledInv
  <2>1. PICK e \in Group : /\ Rendered(e) /\ o.object \in Elements(Statements)
                           /\ o.prefix = plan[e].prefix /\ o.by = Sql(e, o.object)
    BY DEF InstalledInv, MigrationInv
  <2>2. Rendered(e)' /\ plan'[e] = plan[e]
    BY <1>4, <1>5, <1>6, <2>1
  <2> QED BY <2>1, <2>2 DEF Sql
<1>12. StepsInv'
  <2> SUFFICES ASSUME NEW e \in Group
               PROVE  /\ phase'[e] # "failed" /\ step[e] \in 0..Last
                      /\ phase'[e] \in {"new", "planned"} => step[e] = 0
                      /\ Running(e)' => \A k \in 1..step[e] : ObjectAt(k) \in ObjectsOn(Server(k), e)'
                      /\ phase'[e] \in {"serving", "draining"} => step[e] = Last
    BY <1>1, <1>7 DEF StepsInv
  <2>1. /\ phase[e] # "failed" /\ step[e] \in 0..Last
        /\ phase[e] \in {"new", "planned"} => step[e] = 0
        /\ Running(e) => \A k \in 1..step[e] : ObjectAt(k) \in ObjectsOn(Server(k), e)
        /\ phase[e] \in {"serving", "draining"} => step[e] = Last
    BY DEF StepsInv, MigrationInv
  <2>2. CASE e = d
    BY <1>1, <1>4, <2>1, <2>2 DEF Running
  <2>3. CASE e # d
    <3>1. \A server : ObjectsOn(server, e)' = ObjectsOn(server, e)
      BY <1>1, <1>4, <2>3 DEF ObjectsOn, On
    <3> QED BY <1>1, <1>4, <1>6, <2>1, <2>3, <3>1
  <2> QED BY <2>2, <2>3
<1>13. AcceptedInv'
  <2>1. \A e \in Group : Taken(e)' = Taken(e)
    BY <1>1 DEF Taken
  <2>2. ASSUME NEW r \in accepted PROVE r.deployment \in Group /\ r.profile \in Profiles /\ Migrated(r.deployment)'
                                        /\ plan'[r.deployment] = plan[r.deployment]
    BY <1>4, <1>6 DEF MigrationInv, AcceptedInv
  <2> QED BY <1>1, <1>7, <2>1, <2>2 DEF AcceptedInv, MigrationInv
<1> QED BY <1>8, <1>9, <1>10, <1>11, <1>12, <1>13 DEF MigrationInv

LEMMA MigrateTablesStep ==
  ASSUME MigrationInv, NEW d \in Group, MigrateTables(d)
  PROVE  MigrationInv'
<1>1. phase[d] = "planned" /\ UNCHANGED <<plan, step, installed, queues, written, accepted>>
  BY DEF MigrateTables
<1>2. DOMAIN phase = Group
  BY DEF Group
<1>3. \/ /\ \A t \in DOMAIN plan[d].required \cap DOMAIN tables : tables[t] = plan[d].required[t]
         /\ tables' = TablesWith(plan[d].required) /\ phase' = [phase EXCEPT ![d] = "migrating"]
      \/ tables' = tables /\ phase' = [phase EXCEPT ![d] = "rejected"]
  BY DEF MigrateTables
<1>4. /\ DOMAIN phase' = Group /\ \A e \in Group \ {d} : phase'[e] = phase[e]
      /\ phase'[d] \in {"migrating", "rejected"}
  BY <1>2, <1>3
<1>5. \A t \in DOMAIN tables : t \in DOMAIN tables' /\ tables'[t] = tables[t]
  BY <1>3 DEF TablesWith
<1>6. phase'[d] = "migrating" =>
        \A t \in DOMAIN plan[d].required : t \in DOMAIN tables' /\ tables'[t] = plan[d].required[t]
  <2> SUFFICES ASSUME phase'[d] = "migrating", NEW t \in DOMAIN plan[d].required
               PROVE  t \in DOMAIN tables' /\ tables'[t] = plan[d].required[t]
    OBVIOUS
  <2>1. /\ \A u \in DOMAIN plan[d].required \cap DOMAIN tables : tables[u] = plan[d].required[u]
        /\ tables' = TablesWith(plan[d].required)
    BY <1>2, <1>3
  <2> QED BY <2>1 DEF TablesWith
<1>7. /\ Group' = Group
      /\ \A e \in Group : Rendered(e)' = Rendered(e)
      /\ \A e \in Group \ {d} : Running(e)' = Running(e) /\ Migrated(e)' = Migrated(e)
      /\ ~Migrated(d)
  BY <1>1, <1>4 DEF Group, Rendered, Running, Migrated
<1>8. DomainsOK'
  BY <1>1, <1>7 DEF DomainsOK, MigrationInv, Deployments
<1>9. PlansInv'
  BY <1>1, <1>7 DEF PlansInv, MigrationInv
<1>10. TablesInv'
  <2> SUFFICES ASSUME NEW e \in Group, Migrated(e)', NEW t \in DOMAIN plan[e].required
               PROVE  t \in DOMAIN tables' /\ tables'[t] = plan[e].required[t]
    BY <1>1, <1>7 DEF TablesInv
  <2>1. CASE e = d
    BY <1>4, <1>6, <2>1 DEF Migrated, Running
  <2>2. CASE e # d
    <3>1. t \in DOMAIN tables /\ tables[t] = plan[e].required[t]
      BY <1>7, <2>2 DEF TablesInv, MigrationInv
    <3> QED BY <1>5, <3>1
  <2> QED BY <2>1, <2>2
<1>11. InstalledInv'
  BY <1>1, <1>7 DEF InstalledInv, MigrationInv, Sql
<1>12. StepsInv'
  <2> SUFFICES ASSUME NEW e \in Group
               PROVE  /\ phase'[e] # "failed" /\ step[e] \in 0..Last
                      /\ phase'[e] \in {"new", "planned"} => step[e] = 0
                      /\ Running(e)' => \A k \in 1..step[e] : ObjectAt(k) \in ObjectsOn(Server(k), e)'
                      /\ phase'[e] \in {"serving", "draining"} => step[e] = Last
    BY <1>1, <1>7 DEF StepsInv
  <2>1. /\ phase[e] # "failed" /\ step[e] \in 0..Last
        /\ phase[e] \in {"new", "planned"} => step[e] = 0
        /\ Running(e) => \A k \in 1..step[e] : ObjectAt(k) \in ObjectsOn(Server(k), e)
        /\ phase[e] \in {"serving", "draining"} => step[e] = Last
    BY DEF StepsInv, MigrationInv
  <2>2. CASE e = d
    <3>1. step[e] = 0
      BY <1>1, <2>1, <2>2
    <3> QED BY <1>4, <2>1, <2>2, <3>1
  <2>3. CASE e # d
    <3>1. \A server : ObjectsOn(server, e)' = ObjectsOn(server, e)
      BY <1>1 DEF ObjectsOn, On
    <3> QED BY <1>1, <1>4, <1>7, <2>1, <2>3, <3>1
  <2> QED BY <2>2, <2>3
<1>13. AcceptedInv'
  <2>1. \A e \in Group : Taken(e)' = Taken(e)
    BY <1>1 DEF Taken
  <2>2. ASSUME NEW r \in accepted PROVE r.deployment \in Group /\ r.profile \in Profiles /\ Migrated(r.deployment)'
    BY <1>7 DEF MigrationInv, AcceptedInv
  <2> QED BY <1>1, <1>7, <2>1, <2>2 DEF AcceptedInv, MigrationInv
<1> QED BY <1>8, <1>9, <1>10, <1>11, <1>12, <1>13 DEF MigrationInv

\* Steps of one deployment that go on with what it has executed, or begin again.
LEMMA PhaseStep ==
  ASSUME MigrationInv, NEW d \in Group, Interrupt(d) \/ Start(d) \/ Retire(d)
  PROVE  MigrationInv'
<1>1. Running(d) /\ UNCHANGED <<plan, tables, installed, queues, written, accepted>>
  BY DEF Interrupt, Start, Retire, Running
<1>2. DOMAIN phase = Group /\ DOMAIN step = Group
  BY DEF Group, MigrationInv, DomainsOK
<1>3. /\ phase[d] # "failed" /\ step[d] \in 0..Last
      /\ phase[d] \in {"serving", "draining"} => step[d] = Last
  BY DEF MigrationInv, StepsInv
<1>4. /\ DOMAIN phase' = Group /\ DOMAIN step' = Group
      /\ \A e \in Group \ {d} : phase'[e] = phase[e] /\ step'[e] = step[e]
      /\ phase'[d] \in {"migrating", "serving", "draining"}
      /\ step'[d] \in {0, step[d]}
      /\ phase'[d] \in {"serving", "draining"} => step'[d] = Last
  BY <1>2, <1>3 DEF Interrupt, Start, Retire
<1>5. /\ Group' = Group
      /\ \A e \in Group : Rendered(e)' = Rendered(e) /\ Running(e)' = Running(e) /\ Migrated(e)' = Migrated(e)
  BY <1>1, <1>4 DEF Group, Rendered, Running, Migrated
<1>6. DomainsOK'
  BY <1>1, <1>4, <1>5 DEF DomainsOK, MigrationInv, Deployments
<1>7. PlansInv' /\ TablesInv'
  BY <1>1, <1>5 DEF PlansInv, TablesInv, MigrationInv
<1>8. InstalledInv'
  BY <1>1, <1>5 DEF InstalledInv, MigrationInv, Sql
<1>9. StepsInv'
  <2> SUFFICES ASSUME NEW e \in Group
               PROVE  /\ phase'[e] # "failed" /\ step'[e] \in 0..Last
                      /\ phase'[e] \in {"new", "planned"} => step'[e] = 0
                      /\ Running(e)' => \A k \in 1..step'[e] : ObjectAt(k) \in ObjectsOn(Server(k), e)'
                      /\ phase'[e] \in {"serving", "draining"} => step'[e] = Last
    BY <1>5 DEF StepsInv
  <2>1. /\ phase[e] # "failed" /\ step[e] \in 0..Last
        /\ phase[e] \in {"new", "planned"} => step[e] = 0
        /\ Running(e) => \A k \in 1..step[e] : ObjectAt(k) \in ObjectsOn(Server(k), e)
        /\ phase[e] \in {"serving", "draining"} => step[e] = Last
    BY DEF StepsInv, MigrationInv
  <2>2. \A server : ObjectsOn(server, e)' = ObjectsOn(server, e)
    BY <1>1 DEF ObjectsOn, On
  <2>3. CASE e = d
    <3>1. step'[e] \in 0..Last /\ \A k \in 1..step'[e] : k \in 1..step[e]
      BY <1>4, <2>1, <2>3, StepsCount
    <3> QED BY <1>1, <1>4, <2>1, <2>2, <2>3, <3>1
  <2>4. CASE e # d
    BY <1>4, <1>5, <2>1, <2>2, <2>4
  <2> QED BY <2>3, <2>4
<1>10. AcceptedInv'
  <2>1. \A e \in Group : Taken(e)' = Taken(e)
    BY <1>1 DEF Taken
  <2>2. ASSUME NEW r \in accepted PROVE r.deployment \in Group /\ r.profile \in Profiles /\ Migrated(r.deployment)'
    BY <1>5 DEF MigrationInv, AcceptedInv
  <2> QED BY <1>1, <1>5, <2>1, <2>2 DEF AcceptedInv, MigrationInv
<1> QED BY <1>6, <1>7, <1>8, <1>9, <1>10 DEF MigrationInv

LEMMA AcceptStep ==
  ASSUME MigrationInv, NEW d \in Group, NEW profile \in Profiles, NEW absent, Accept(d, profile, absent)
  PROVE  MigrationInv'
<1> DEFINE record == [id |-> Cardinality(accepted) + 1, deployment |-> d, profile |-> profile, absent |-> absent]
<1>1. /\ phase[d] = "serving" /\ queues' = [queues EXCEPT ![d] = Append(@, record)]
      /\ accepted' = accepted \cup {record} /\ UNCHANGED <<phase, plan, step, tables, installed, written>>
  BY DEF Accept
<1>2. record.deployment = d /\ record.profile = profile
  OBVIOUS
<1> HIDE DEF record
<1>3. DOMAIN queues = Group /\ Group' = Group /\ queues[d] \in Seq(Taken(d)) /\ Migrated(d)
  BY <1>1 DEF MigrationInv, DomainsOK, AcceptedInv, Migrated, Running, Group
<1>4. DOMAIN queues' = Group /\ queues'[d] = Append(queues[d], record) /\ \A e \in Group \ {d} : queues'[e] = queues[e]
  BY <1>1, <1>3
<1>5. DomainsOK'
  BY <1>1, <1>3, <1>4 DEF DomainsOK, MigrationInv, Deployments
<1>6. PlansInv' /\ TablesInv' /\ InstalledInv'
  BY <1>1, <1>3 DEF PlansInv, TablesInv, InstalledInv, MigrationInv, Rendered, Migrated, Running, Sql
<1>7. StepsInv'
  BY <1>1, <1>3 DEF StepsInv, MigrationInv, Running, ObjectsOn, On
<1>8. AcceptedInv'
  <2>1. \A e \in Group \ {d} : Taken(e)' = Taken(e)
    BY <1>1, <1>2 DEF Taken
  <2>2. Taken(d)' = Taken(d) \cup {record}
    BY <1>1, <1>2 DEF Taken
  <2>3. /\ Append(queues[d], record) \in Seq(Taken(d) \cup {record})
        /\ Elements(queues[d]) \subseteq Elements(Append(queues[d], record))
        /\ record \in Elements(Append(queues[d], record))
    BY <1>3, Appended
  <2>4. \A e \in Group : queues'[e] \in Seq(Taken(e)')
    BY <1>4, <2>1, <2>2, <2>3 DEF MigrationInv, AcceptedInv
  <2>5. \A r \in accepted' : r.deployment \in Group /\ r.profile \in Profiles /\ Migrated(r.deployment)
    BY <1>1, <1>2, <1>3 DEF MigrationInv, AcceptedInv
  <2>6. ASSUME NEW r \in accepted'
        PROVE  r \in Elements(queues'[r.deployment]) \/ \E row \in written : row.record = r
    <3>1. CASE r = record
      BY <1>2, <1>4, <2>3, <3>1
    <3>2. CASE r \in accepted
      <4>1. r.deployment \in Group /\ (r \in Elements(queues[r.deployment]) \/ \E row \in written : row.record = r)
        BY <3>2 DEF MigrationInv, AcceptedInv
      <4>2. Elements(queues[r.deployment]) \subseteq Elements(queues'[r.deployment])
        BY <1>4, <2>3, <4>1
      <4> QED BY <4>1, <4>2
    <3> QED BY <1>1, <3>1, <3>2
  <2>7. \A row \in written : /\ row.record \in accepted'
                             /\ row.view = plan[row.record.deployment].view
                             /\ row.map = plan[row.record.deployment].map
    BY <1>1 DEF MigrationInv, AcceptedInv
  <2>8. \A e : Migrated(e)' = Migrated(e)
    BY <1>1 DEF Migrated, Running
  <2> QED BY <1>1, <1>3, <2>4, <2>5, <2>6, <2>7, <2>8 DEF AcceptedInv
<1> QED BY <1>5, <1>6, <1>7, <1>8 DEF MigrationInv

LEMMA InsertHeadStep ==
  ASSUME MigrationInv, NEW d \in Group, NEW server \in Elements(Servers), NEW answered \in BOOLEAN,
         InsertHead(d, server, answered)
  PROVE  MigrationInv'
<1> DEFINE record == Head(queues[d])
           viewBy == By(server, d, Object("view", record.profile))
           mapBy == By(server, d, Object("map", record.profile))
           row == [record |-> record, view |-> viewBy, map |-> mapBy]
<1>1. /\ phase[d] \in {"serving", "draining"} /\ queues[d] # <<>>
      /\ IF Chain(record.profile) \subseteq ObjectsOn(server, d)
           THEN written' = written \cup {row}
           ELSE written' = written
      /\ queues' = IF answered THEN [queues EXCEPT ![d] = Tail(@)] ELSE queues
      /\ UNCHANGED <<phase, plan, step, tables, installed, accepted>>
  BY DEF InsertHead
<1>2. DOMAIN queues = Group /\ Group' = Group /\ queues[d] \in Seq(Taken(d)) /\ Rendered(d)
  BY <1>1 DEF MigrationInv, DomainsOK, AcceptedInv, Rendered, Group
<1>3. /\ record \in Taken(d) /\ Tail(queues[d]) \in Seq(Taken(d))
      /\ Elements(queues[d]) \subseteq {record} \cup Elements(Tail(queues[d]))
  BY <1>1, <1>2, Removed
<1> HIDE DEF record
<1>4. record \in accepted /\ record.deployment = d /\ record.profile \in Profiles
  BY <1>3 DEF Taken, MigrationInv, AcceptedInv
<1>5. ObjectsOn(server, d) = Elements(Statements)
  BY <1>1, ServingHasAll
<1>6. viewBy = plan[d].view /\ mapBy = plan[d].map
  <2>1. Object("view", record.profile) \in ObjectsOn(server, d) /\ Object("map", record.profile) \in ObjectsOn(server, d)
    BY <1>4, <1>5, ChainIsMade
  <2>2. viewBy = Sql(d, Object("view", record.profile)) /\ mapBy = Sql(d, Object("map", record.profile))
    BY <1>2, <2>1, ByIsSql
  <2>3. Sql(d, Object("view", record.profile)) = plan[d].view /\ Sql(d, Object("map", record.profile)) = plan[d].map
    BY DEF Sql, Object
  <2> QED BY <2>2, <2>3
<1> HIDE DEF viewBy, mapBy
<1>7. written' = written \cup {row}
  <2>1. Chain(record.profile) \subseteq ObjectsOn(server, d)
    BY <1>4, <1>5, ChainIsMade DEF Chain
  <2> QED BY <1>1, <2>1
<1>8. row.record = record /\ row.view = plan[d].view /\ row.map = plan[d].map
  BY <1>6
<1> HIDE DEF row
<1>9. /\ DOMAIN queues' = Group /\ \A e \in Group \ {d} : queues'[e] = queues[e]
      /\ queues'[d] \in {queues[d], Tail(queues[d])}
  BY <1>1, <1>2
<1>10. DomainsOK'
  BY <1>1, <1>2, <1>9 DEF DomainsOK, MigrationInv, Deployments
<1>11. PlansInv' /\ TablesInv' /\ InstalledInv'
  BY <1>1, <1>2 DEF PlansInv, TablesInv, InstalledInv, MigrationInv, Rendered, Migrated, Running, Sql
<1>12. StepsInv'
  BY <1>1, <1>2 DEF StepsInv, MigrationInv, Running, ObjectsOn, On
<1>13. AcceptedInv'
  <2>1. \A e \in Group : Taken(e)' = Taken(e)
    BY <1>1 DEF Taken
  <2>2. \A e \in Group : queues'[e] \in Seq(Taken(e))
    BY <1>3, <1>9 DEF MigrationInv, AcceptedInv
  <2>3. \A r \in accepted : r.deployment \in Group /\ r.profile \in Profiles /\ Migrated(r.deployment)'
    BY <1>1 DEF MigrationInv, AcceptedInv, Migrated, Running
  <2>4. \A w \in written' : /\ w.record \in accepted
                            /\ w.view = plan[w.record.deployment].view
                            /\ w.map = plan[w.record.deployment].map
    BY <1>4, <1>7, <1>8 DEF MigrationInv, AcceptedInv
  <2>5. ASSUME NEW r \in accepted
        PROVE  r \in Elements(queues'[r.deployment]) \/ \E w \in written' : w.record = r
    <3>1. r.deployment \in Group /\ (r \in Elements(queues[r.deployment]) \/ \E w \in written : w.record = r)
      BY DEF MigrationInv, AcceptedInv
    <3>2. CASE r = record
      BY <1>7, <1>8, <3>2
    <3>3. CASE r # record
      <4>1. r \in Elements(queues[r.deployment]) => r \in Elements(queues'[r.deployment])
        BY <1>3, <1>9, <3>1, <3>3
      <4> QED BY <1>7, <3>1, <4>1
    <3> QED BY <3>2, <3>3
  <2> QED BY <1>1, <1>2, <2>1, <2>2, <2>3, <2>4, <2>5 DEF AcceptedInv
<1> QED BY <1>10, <1>11, <1>12, <1>13 DEF MigrationInv

-----------------------------------------------------------------------------
(* The steps that change a server.                                         *)
\* The statements up to the first missing one are there, so that its needs are.
LEMMA BeforeMissing ==
  ASSUME MigrationInv, NEW d \in Group, Running(d), NEW k \in (step[d] + 1)..Last,
         \A j \in (step[d] + 1)..Last : j < k => ObjectAt(j) \in ObjectsOn(Server(j), d)
  PROVE  /\ \A j \in 1..(k - 1) : ObjectAt(j) \in ObjectsOn(Server(j), d)
         /\ Needs(ObjectAt(k)) \subseteq ObjectsOn(Server(k), d)
<1>1. step[d] \in 0..Last /\ \A j \in 1..step[d] : ObjectAt(j) \in ObjectsOn(Server(j), d)
  BY DEF MigrationInv, StepsInv
<1>2. k \in 1..Last
  BY <1>1, StepsCount
<1>3. ASSUME NEW j \in 1..(k - 1) PROVE ObjectAt(j) \in ObjectsOn(Server(j), d)
  <2>1. j \in 1..step[d] \/ (j \in (step[d] + 1)..Last /\ j < k)
    BY <1>1, <1>2, StepsCount
  <2> QED BY <1>1, <2>1
<1>4. ObjectAt(k) = Statements[PlaceOfStep(k)] /\ PlaceOfStep(k) \in 1..30
  BY <1>2, StepIsPlaced
<1>5. Needs(ObjectAt(k)) \subseteq {Statements[m] : m \in 1..(PlaceOfStep(k) - 1)}
  BY <1>4, NeedsAreBefore
<1>6. ASSUME NEW m \in 1..(PlaceOfStep(k) - 1) PROVE Statements[m] \in ObjectsOn(Server(k), d)
  <2>1. PICK j \in 1..(k - 1) : Server(j) = Server(k) /\ ObjectAt(j) = Statements[m]
    BY <1>2, EarlierSteps
  <2> QED BY <1>3, <2>1
<1> QED BY <1>3, <1>5, <1>6

\* A step that makes what was missing, or finds that nothing is.
LEMMA ApplyMakes ==
  ASSUME MigrationInv, NEW d \in Group, Apply(d)
  PROVE  /\ phase[d] = "migrating" /\ UNCHANGED <<phase, plan, tables, queues, written, accepted>>
         /\ \E n \in 0..Last :
              /\ step' = [step EXCEPT ![d] = n]
              /\ \A j \in 1..n : ObjectAt(j) \in ObjectsOn(Server(j), d)'
         /\ \/ UNCHANGED installed
            \/ \E server \in Elements(Servers), object \in Elements(Statements) :
                 installed' = [installed EXCEPT ![server] =
                   @ \cup {[prefix |-> plan[d].prefix, object |-> object, by |-> Sql(d, object)]}]
<1> DEFINE missing == UNION {StepsMissing(server, d) : server \in Elements(Servers)}
<1>1. /\ phase[d] = "migrating" /\ UNCHANGED <<plan, tables, queues, written, accepted>>
      /\ IF missing = {}
           THEN step' = [step EXCEPT ![d] = Last] /\ UNCHANGED <<phase, installed>>
           ELSE \E k \in missing : (\A n \in missing : k <= n) /\ Execute(d, k)
  BY DEF Apply
<1>2. Running(d) /\ step[d] \in 0..Last /\ \A j \in 1..step[d] : ObjectAt(j) \in ObjectsOn(Server(j), d)
  BY <1>1 DEF Running, MigrationInv, StepsInv
<1>3. \A k : k \in missing <=> k \in (step[d] + 1)..Last /\ ObjectAt(k) \notin ObjectsOn(Server(k), d)
  <2>1. \A k \in (step[d] + 1)..Last : Server(k) \in Elements(Servers)
    BY <1>2, StepsCount, StepIsPlaced
  <2> QED BY <2>1 DEF StepsMissing
<1> HIDE DEF missing
<1>4. CASE missing = {}
  <2>1. step' = [step EXCEPT ![d] = Last] /\ UNCHANGED <<phase, installed>>
    BY <1>1, <1>4
  <2>2. ASSUME NEW j \in 1..Last PROVE ObjectAt(j) \in ObjectsOn(Server(j), d)
    <3>1. j \in 1..step[d] \/ j \in (step[d] + 1)..Last
      BY <1>2, StepsCount
    <3> QED BY <1>2, <1>3, <1>4, <3>1
  <2>3. \A server : ObjectsOn(server, d)' = ObjectsOn(server, d)
    BY <1>1, <2>1 DEF ObjectsOn, On
  <2>4. Last \in 0..Last
    BY StepsCount
  <2>5. \A j \in 1..Last : ObjectAt(j) \in ObjectsOn(Server(j), d)'
    BY <2>2, <2>3
  <2> QED BY <1>1, <2>1, <2>4, <2>5
<1>5. CASE missing # {}
  <2>1. PICK k \in missing : (\A n \in missing : k <= n) /\ Execute(d, k)
    BY <1>1, <1>5
  <2>2. k \in (step[d] + 1)..Last /\ k \in 1..Last
    BY <1>2, <1>3, StepsCount
  <2>3. \A j \in (step[d] + 1)..Last : j < k => ObjectAt(j) \in ObjectsOn(Server(j), d)
    BY <1>2, <1>3, <2>1, <2>2, StepsCount
  <2>4. /\ \A j \in 1..(k - 1) : ObjectAt(j) \in ObjectsOn(Server(j), d)
        /\ Needs(ObjectAt(k)) \subseteq ObjectsOn(Server(k), d)
    BY <1>2, <2>2, <2>3, BeforeMissing
  <2> DEFINE o == [prefix |-> plan[d].prefix, object |-> ObjectAt(k), by |-> Sql(d, ObjectAt(k))]
             server == Server(k)
  <2>5. installed' = [installed EXCEPT ![server] = @ \cup {o}] /\ step' = [step EXCEPT ![d] = k] /\ UNCHANGED phase
    BY <2>1, <2>4 DEF Execute
  <2>6. server \in Elements(Servers) /\ ObjectAt(k) \in Elements(Statements) /\ server \in DOMAIN installed
    BY <2>2, StepIsPlaced DEF MigrationInv, DomainsOK
  <2>7. o.prefix = plan[d].prefix /\ o.object = ObjectAt(k)
    OBVIOUS
  <2>8. \A s : ObjectsOn(s, d) \subseteq ObjectsOn(s, d)' /\ ObjectAt(k) \in ObjectsOn(server, d)'
    <3> HIDE DEF o, server
    <3>1. \A s : installed[s] \subseteq installed'[s]
      BY <2>5, <2>6
    <3>2. o \in installed'[server]
      BY <2>5, <2>6
    <3>3. \A s : On(s, d) \subseteq On(s, d)'
      BY <1>1, <3>1 DEF On
    <3>4. o \in On(server, d)'
      BY <1>1, <2>7, <3>2 DEF On
    <3>5. \A s : ObjectsOn(s, d) \subseteq ObjectsOn(s, d)'
      BY <3>3 DEF ObjectsOn
    <3>6. ObjectAt(k) \in ObjectsOn(server, d)'
      BY <2>7, <3>4 DEF ObjectsOn
    <3> QED BY <3>5, <3>6
  <2>9. ASSUME NEW j \in 1..k PROVE ObjectAt(j) \in ObjectsOn(Server(j), d)'
    <3>1. j = k \/ j \in 1..(k - 1)
      BY <2>2
    <3> QED BY <2>4, <2>8, <3>1
  <2>10. k \in 0..Last
    BY <2>2
  <2> QED BY <1>1, <2>5, <2>6, <2>9, <2>10
<1> QED BY <1>4, <1>5

LEMMA ApplyStep ==
  ASSUME MigrationInv, NEW d \in Group, Apply(d)
  PROVE  MigrationInv'
<1>1. phase[d] = "migrating" /\ UNCHANGED <<phase, plan, tables, queues, written, accepted>>
  BY ApplyMakes
<1>2. PICK n \in 0..Last : /\ step' = [step EXCEPT ![d] = n]
                           /\ \A j \in 1..n : ObjectAt(j) \in ObjectsOn(Server(j), d)'
  BY ApplyMakes
<1>3. \/ UNCHANGED installed
      \/ \E server \in Elements(Servers), object \in Elements(Statements) :
           installed' = [installed EXCEPT ![server] =
             @ \cup {[prefix |-> plan[d].prefix, object |-> object, by |-> Sql(d, object)]}]
  BY ApplyMakes
<1>4. /\ Group' = Group /\ DOMAIN step = Group /\ DOMAIN installed = Elements(Servers)
      /\ DOMAIN installed' = Elements(Servers) /\ \A server : installed[server] \subseteq installed'[server]
      /\ \A server \in Elements(Servers) : \A o \in installed'[server] :
           \/ o \in installed[server]
           \/ /\ o.prefix = plan[d].prefix /\ o.object \in Elements(Statements) /\ o.by = Sql(d, o.object)
  <2>1. Group' = Group /\ DOMAIN step = Group /\ DOMAIN installed = Elements(Servers)
    BY <1>1 DEF MigrationInv, DomainsOK, Group
  <2>2. CASE UNCHANGED installed
    BY <2>1, <2>2
  <2>3. ASSUME NEW server \in Elements(Servers), NEW object \in Elements(Statements), NEW made,
               made = [prefix |-> plan[d].prefix, object |-> object, by |-> Sql(d, object)],
               installed' = [installed EXCEPT ![server] = @ \cup {made}]
        PROVE  /\ DOMAIN installed' = Elements(Servers) /\ \A s : installed[s] \subseteq installed'[s]
               /\ \A s \in Elements(Servers) : \A o \in installed'[s] :
                    \/ o \in installed[s]
                    \/ /\ o.prefix = plan[d].prefix /\ o.object \in Elements(Statements) /\ o.by = Sql(d, o.object)
    <3>1. made.prefix = plan[d].prefix /\ made.object = object /\ made.by = Sql(d, object)
      BY <2>3
    <3>2. DOMAIN installed' = Elements(Servers) /\ installed'[server] = installed[server] \cup {made}
          /\ \A s \in Elements(Servers) \ {server} : installed'[s] = installed[s]
      BY <2>1, <2>3
    <3>3. \A s : installed[s] \subseteq installed'[s]
      BY <2>1, <2>3
    <3> QED BY <3>1, <3>2, <3>3
  <2> QED BY <1>3, <2>1, <2>2, <2>3
<1>5. DOMAIN step' = Group /\ step'[d] = n /\ \A e \in Group \ {d} : step'[e] = step[e]
  BY <1>2, <1>4
<1>6. DomainsOK'
  BY <1>1, <1>4, <1>5 DEF DomainsOK, MigrationInv, Deployments
<1>7. PlansInv' /\ TablesInv'
  BY <1>1, <1>4 DEF PlansInv, TablesInv, MigrationInv, Rendered, Migrated, Running
<1>8. InstalledInv'
  <2> SUFFICES ASSUME NEW server \in Elements(Servers), NEW o \in installed'[server]
               PROVE  \E e \in Group : /\ Rendered(e) /\ o.object \in Elements(Statements)
                                       /\ o.prefix = plan[e].prefix /\ o.by = Sql(e, o.object)
    BY <1>1, <1>4 DEF InstalledInv, Rendered, Sql
  <2>1. Rendered(d)
    BY <1>1 DEF Rendered
  <2> QED BY <1>4, <2>1 DEF InstalledInv, MigrationInv
<1>9. StepsInv'
  <2> SUFFICES ASSUME NEW e \in Group
               PROVE  /\ phase[e] # "failed" /\ step'[e] \in 0..Last
                      /\ phase[e] \in {"new", "planned"} => step'[e] = 0
                      /\ Running(e) => \A k \in 1..step'[e] : ObjectAt(k) \in ObjectsOn(Server(k), e)'
                      /\ phase[e] \in {"serving", "draining"} => step'[e] = Last
    BY <1>1, <1>4 DEF StepsInv, Running
  <2>1. /\ phase[e] # "failed" /\ step[e] \in 0..Last
        /\ phase[e] \in {"new", "planned"} => step[e] = 0
        /\ Running(e) => \A k \in 1..step[e] : ObjectAt(k) \in ObjectsOn(Server(k), e)
        /\ phase[e] \in {"serving", "draining"} => step[e] = Last
    BY DEF StepsInv, MigrationInv
  <2>2. CASE e = d
    BY <1>1, <1>2, <1>5, <2>1, <2>2
  <2>3. CASE e # d
    <3>1. \A server : ObjectsOn(server, e) \subseteq ObjectsOn(server, e)'
      BY <1>1, <1>4 DEF ObjectsOn, On
    <3> QED BY <1>5, <2>1, <2>3, <3>1
  <2> QED BY <2>2, <2>3
<1>10. AcceptedInv'
  BY <1>1, <1>4 DEF AcceptedInv, MigrationInv, Taken, Migrated, Running
<1> QED BY <1>6, <1>7, <1>8, <1>9, <1>10 DEF MigrationInv

\* No deployment that runs has the prefix of the objects that are removed.
LEMMA RemoveStep ==
  ASSUME MigrationInv, NEW d \in Group, Remove(d)
  PROVE  MigrationInv'
<1>1. /\ phase[d] = "draining" /\ queues[d] = <<>>
      /\ \A e \in Group \ {d} : Running(e) => plan[e].prefix # plan[d].prefix
      /\ installed' = [server \in DOMAIN installed |-> installed[server] \ On(server, d)]
      /\ phase' = [phase EXCEPT ![d] = "removed"]
      /\ UNCHANGED <<plan, step, tables, queues, written, accepted>>
  BY DEF Remove, Running
<1>2. DOMAIN phase' = Group /\ phase'[d] = "removed" /\ (\A e \in Group \ {d} : phase'[e] = phase[e]) /\ Group' = Group
  BY <1>1 DEF Group
<1>3. DOMAIN installed = Elements(Servers) /\ DOMAIN installed' = Elements(Servers)
      /\ \A server \in Elements(Servers) : installed'[server] = installed[server] \ On(server, d)
  BY <1>1 DEF MigrationInv, DomainsOK
<1>4. /\ \A e \in Group : Rendered(e)' = Rendered(e) /\ Migrated(e)' = Migrated(e)
      /\ \A e \in Group \ {d} : Running(e)' = Running(e)
      /\ ~Running(d)'
  BY <1>1, <1>2 DEF Rendered, Migrated, Running
<1>5. DomainsOK'
  BY <1>1, <1>2, <1>3 DEF DomainsOK, MigrationInv, Deployments
<1>6. PlansInv' /\ TablesInv'
  BY <1>1, <1>2, <1>4 DEF PlansInv, TablesInv, MigrationInv
<1>7. InstalledInv'
  <2> SUFFICES ASSUME NEW server \in Elements(Servers), NEW o \in installed'[server]
               PROVE  \E e \in Group : /\ Rendered(e) /\ o.object \in Elements(Statements)
                                       /\ o.prefix = plan[e].prefix /\ o.by = Sql(e, o.object)
    BY <1>1, <1>2, <1>4 DEF InstalledInv, Sql
  <2>1. o \in installed[server]
    BY <1>3
  <2> QED BY <2>1 DEF InstalledInv, MigrationInv
<1>8. StepsInv'
  <2> SUFFICES ASSUME NEW e \in Group
               PROVE  /\ phase'[e] # "failed" /\ step[e] \in 0..Last
                      /\ phase'[e] \in {"new", "planned"} => step[e] = 0
                      /\ Running(e)' => \A k \in 1..step[e] : ObjectAt(k) \in ObjectsOn(Server(k), e)'
                      /\ phase'[e] \in {"serving", "draining"} => step[e] = Last
    BY <1>1, <1>2 DEF StepsInv
  <2>1. /\ phase[e] # "failed" /\ step[e] \in 0..Last
        /\ phase[e] \in {"new", "planned"} => step[e] = 0
        /\ Running(e) => \A k \in 1..step[e] : ObjectAt(k) \in ObjectsOn(Server(k), e)
        /\ phase[e] \in {"serving", "draining"} => step[e] = Last
    BY DEF StepsInv, MigrationInv
  <2>2. CASE e = d
    BY <1>2, <1>4, <2>1, <2>2
  <2>3. CASE e # d
    <3>1. ASSUME Running(e), NEW server \in Elements(Servers) PROVE ObjectsOn(server, e)' = ObjectsOn(server, e)
      <4>1. plan[e].prefix # plan[d].prefix
        BY <1>1, <2>3, <3>1
      <4>2. On(server, e)' = On(server, e)
        BY <1>1, <1>3, <4>1 DEF On
      <4> QED BY <4>2 DEF ObjectsOn
    <3>2. ASSUME Running(e)', NEW k \in 1..step[e] PROVE ObjectAt(k) \in ObjectsOn(Server(k), e)'
      <4>1. Running(e) /\ k \in 1..Last
        BY <1>4, <2>1, <2>3, <3>2, StepsCount
      <4>2. Server(k) \in Elements(Servers)
        BY <4>1, StepIsPlaced
      <4> QED BY <2>1, <3>1, <4>1, <4>2
    <3> QED BY <1>2, <2>1, <2>3, <3>2
  <2> QED BY <2>2, <2>3
<1>9. AcceptedInv'
  <2>1. \A e \in Group : Taken(e)' = Taken(e)
    BY <1>1 DEF Taken
  <2>2. ASSUME NEW r \in accepted PROVE r.deployment \in Group /\ r.profile \in Profiles /\ Migrated(r.deployment)'
    BY <1>4 DEF MigrationInv, AcceptedInv
  <2> QED BY <1>1, <1>2, <2>1, <2>2 DEF AcceptedInv, MigrationInv
<1> QED BY <1>5, <1>6, <1>7, <1>8, <1>9 DEF MigrationInv

-----------------------------------------------------------------------------
(* The invariant, and what follows from it.                                *)
\* Everything the proofs need of the deployments that share servers is true of every state.
THEOREM MigrationInvariant == MigrationSpec => []MigrationInv
<1>1. ASSUME MigrationInv, [MigrationNext]_migrationVars PROVE MigrationInv'
  <2>1. CASE MigrationNext
    <3>1. PICK d \in Group :
            \/ Render(d) \/ MigrateTables(d)
            \/ Apply(d) \/ Interrupt(d) \/ Start(d)
            \/ \E profile \in Profiles : \E absent \in {{}, Absent[profile]} : Accept(d, profile, absent)
            \/ \E server \in Elements(Servers), answered \in BOOLEAN : InsertHead(d, server, answered)
            \/ Retire(d) \/ Remove(d)
      BY <2>1 DEF MigrationNext
    <3>2. CASE Render(d)
      BY <1>1, <3>2, RenderStep
    <3>3. CASE MigrateTables(d)
      BY <1>1, <3>3, MigrateTablesStep
    <3>4. CASE Apply(d)
      BY <1>1, <3>4, ApplyStep
    <3>5. CASE Interrupt(d) \/ Start(d) \/ Retire(d)
      BY <1>1, <3>5, PhaseStep
    <3>6. CASE \E profile \in Profiles : \E absent \in {{}, Absent[profile]} : Accept(d, profile, absent)
      BY <1>1, <3>6, AcceptStep
    <3>7. CASE \E server \in Elements(Servers), answered \in BOOLEAN : InsertHead(d, server, answered)
      BY <1>1, <3>7, InsertHeadStep
    <3>8. CASE Remove(d)
      BY <1>1, <3>8, RemoveStep
    <3> QED BY <3>1, <3>2, <3>3, <3>4, <3>5, <3>6, <3>7, <3>8
  <2>2. CASE UNCHANGED migrationVars
    <3>1. UNCHANGED <<phase, plan, step, tables, installed, queues, written, accepted>>
      BY <2>2 DEF migrationVars
    <3>2. DomainsOK' /\ PlansInv' /\ TablesInv' /\ InstalledInv'
      BY <1>1, <3>1 DEF MigrationInv, DomainsOK, PlansInv, TablesInv, InstalledInv, Rendered, Migrated, Running, Sql,
                        Group, Deployments
    <3>3. StepsInv'
      BY <1>1, <3>1 DEF MigrationInv, StepsInv, Running, ObjectsOn, On, Group
    <3>4. AcceptedInv'
      BY <1>1, <3>1 DEF MigrationInv, AcceptedInv, Taken, Migrated, Running, Group
    <3> QED BY <3>2, <3>3, <3>4 DEF MigrationInv
  <2> QED BY <1>1, <2>1, <2>2
<1> QED BY <1>1, InitIsInv, PTL DEF MigrationSpec

LEMMA AbsentStep == AbsentInv /\ [MigrationNext]_migrationVars => AbsentInv'
<1> SUFFICES ASSUME AbsentInv, [MigrationNext]_migrationVars PROVE AbsentInv'
  OBVIOUS
<1>1. ASSUME NEW d \in Group, NEW profile \in Profiles, NEW absent \in {{}, Absent[profile]}, Accept(d, profile, absent)
      PROVE  AbsentInv'
  BY <1>1 DEF Accept, AbsentInv, Absent
<1>2. ASSUME accepted' = accepted PROVE AbsentInv'
  BY <1>2 DEF AbsentInv, Absent
<1>3. CASE MigrationNext
  <2>1. ASSUME NEW d \in Group, Render(d) \/ MigrateTables(d) \/ Apply(d) \/ Interrupt(d) \/ Start(d) \/ Retire(d) \/ Remove(d)
        PROVE  accepted' = accepted
    BY <2>1 DEF Render, MigrateTables, Apply, Interrupt, Start, Retire, Remove
  <2>2. ASSUME NEW d \in Group, NEW server \in Elements(Servers), NEW answered \in BOOLEAN, InsertHead(d, server, answered)
        PROVE  accepted' = accepted
    BY <2>2 DEF InsertHead
  <2> QED BY <1>1, <1>2, <1>3, <2>1, <2>2 DEF MigrationNext
<1> QED BY <1>2, <1>3 DEF migrationVars

LEMMA AbsentInvariant == MigrationSpec => []AbsentInv
<1>1. MigrationInit => AbsentInv
  BY DEF MigrationInit, AbsentInv
<1> QED BY <1>1, AbsentStep, PTL DEF MigrationSpec

\* Deployments that share servers install what each of them has planned, in whatever order they come,
\* are interrupted and go; what a Collector has acknowledged is queued or in its own table, and says
\* the tenant and the scope of its deployment.
THEOREM MigrationsAreSound == MigrationSpec => []MigrationSound
<1>1. MigrationInv /\ AbsentInv => MigrationSound
  BY InvIsSound DEF MigrationSound
<1> QED BY <1>1, MigrationInvariant, AbsentInvariant, PTL
==============================================================================
