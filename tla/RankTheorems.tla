------------------------------ MODULE RankTheorems ------------------------------
(***************************************************************************)
(* Sorting by rank.  The deployments and Collectors of this project sort a *)
(* list by taking, for each place, the element that so many others come    *)
(* before.  That this is a sort, of a finite set S in a total order, is    *)
(* proved here once: Before[x] is the set of elements that come before x,  *)
(* and of two elements one comes, with all before it, before the other.    *)
(***************************************************************************)
EXTENDS Integers, FiniteSets, TLAPS, FiniteSetTheorems

IsOrderOf(Before, S) ==
  /\ Before \in [S -> SUBSET S]
  /\ \A x \in S : x \notin Before[x]
  /\ \A x, y \in S : x = y \/ Before[x] \cup {x} \subseteq Before[y] \/ Before[y] \cup {y} \subseteq Before[x]

-----------------------------------------------------------------------------
\* As many numbers as counted.
LEMMA CountTo ==
  ASSUME NEW n \in Nat
  PROVE  IsFiniteSet(1..n) /\ Cardinality(1..n) = n
<1>1. Cardinality(1..n) = IF 1 > n THEN 0 ELSE n - 1 + 1
  BY FS_Interval
<1>2. IsFiniteSet(1..n)
  BY FS_Interval
<1> QED BY <1>1, <1>2

\* The rank of an element is a number below the size of the set.
LEMMA RankIsBounded ==
  ASSUME NEW S, IsFiniteSet(S), NEW Before, IsOrderOf(Before, S), NEW x \in S
  PROVE  /\ IsFiniteSet(Before[x])
         /\ Cardinality(Before[x]) \in Nat
         /\ Cardinality(Before[x]) < Cardinality(S)
<1>1. Before[x] \in SUBSET (S \ {x})
  BY DEF IsOrderOf
<1>2. IsFiniteSet(S \ {x}) /\ Cardinality(S \ {x}) = Cardinality(S) - 1
  BY FS_RemoveElement
<1>3. IsFiniteSet(Before[x]) /\ Cardinality(Before[x]) <= Cardinality(S \ {x})
  BY <1>1, <1>2, FS_Subset
<1>4. Cardinality(Before[x]) \in Nat /\ Cardinality(S) \in Nat
  BY <1>3, FS_CardinalityType
<1> QED BY <1>2, <1>3, <1>4

\* What comes before another element has the smaller rank.
LEMMA RankGrows ==
  ASSUME NEW S, IsFiniteSet(S), NEW Before, IsOrderOf(Before, S), NEW x \in S, NEW y \in S, x \in Before[y]
  PROVE  Cardinality(Before[x]) < Cardinality(Before[y])
<1>1. Before[x] \cup {x} \in SUBSET Before[y]
  BY DEF IsOrderOf
<1>2. IsFiniteSet(Before[x]) /\ Cardinality(Before[x]) \in Nat
      /\ IsFiniteSet(Before[y]) /\ Cardinality(Before[y]) \in Nat
  BY RankIsBounded
<1>3. x \notin Before[x]
  BY DEF IsOrderOf
<1>4. Cardinality(Before[x] \cup {x}) = Cardinality(Before[x]) + 1
  BY <1>2, <1>3, FS_AddElement
<1>5. Cardinality(Before[x] \cup {x}) <= Cardinality(Before[y])
  BY <1>1, <1>2, FS_Subset
<1> QED BY <1>2, <1>4, <1>5

\* The order of ranks is the order of elements; in particular no two elements have one rank.
LEMMA RankTellsOrder ==
  ASSUME NEW S, IsFiniteSet(S), NEW Before, IsOrderOf(Before, S), NEW x \in S, NEW y \in S
  PROVE  /\ (Cardinality(Before[x]) < Cardinality(Before[y])) <=> x \in Before[y]
         /\ Cardinality(Before[x]) = Cardinality(Before[y]) => x = y
<1>1. x = y \/ x \in Before[y] \/ y \in Before[x]
  BY DEF IsOrderOf
<1>2. Cardinality(Before[x]) \in Nat /\ Cardinality(Before[y]) \in Nat
  BY RankIsBounded
<1>3. x \in Before[y] => Cardinality(Before[x]) < Cardinality(Before[y])
  BY RankGrows
<1>4. y \in Before[x] => Cardinality(Before[y]) < Cardinality(Before[x])
  BY RankGrows
<1> QED BY <1>1, <1>2, <1>3, <1>4

\* Every number below the size of the set is the rank of an element.
LEMMA EveryRankIsTaken ==
  ASSUME NEW S, IsFiniteSet(S), NEW Before, IsOrderOf(Before, S), NEW k \in 0..(Cardinality(S) - 1)
  PROVE  \E x \in S : Cardinality(Before[x]) = k
<1> DEFINE T == 0..(Cardinality(S) - 1)
           rank == [x \in S |-> Cardinality(Before[x])]
<1>1. Cardinality(S) \in Nat
  BY FS_CardinalityType
<1>2. IsFiniteSet(T) /\ Cardinality(T) = Cardinality(S)
  BY <1>1, FS_Interval
<1>3. rank \in [S -> T]
  <2>1. ASSUME NEW x \in S PROVE Cardinality(Before[x]) \in T
    BY <1>1, RankIsBounded
  <2> QED BY <2>1
<1>4. \A x, y \in S : rank[x] = rank[y] => x = y
  BY RankTellsOrder
<1>5. rank \in Injection(S, T)
  BY <1>3, <1>4 DEF Injection, IsInjective
<1>6. rank \in Surjection(S, T)
  <2> HIDE DEF T, rank
  <2> QED BY <1>2, <1>5, FS_Injection
<1>7. \E x \in S : rank[x] = k
  <2> HIDE DEF rank
  <2> QED BY <1>6 DEF Surjection
<1> QED BY <1>7

\* A sequence that has the element of rank k - 1 at its place k, if there is one, and a sort:
\* each element is at one place, and a place is before another exactly when its element is.
PicksByRank(sorted, Before, S) ==
  /\ DOMAIN sorted = 1..Cardinality(S)
  /\ \A k \in 1..Cardinality(S) :
       (\E x \in S : Cardinality(Before[x]) = k - 1)
         => sorted[k] \in S /\ Cardinality(Before[sorted[k]]) = k - 1
Sorts(sorted, Before, S) ==
  /\ \A k \in DOMAIN sorted : sorted[k] \in S
  /\ \A x \in S : \E k \in DOMAIN sorted : sorted[k] = x
  /\ \A j, k \in DOMAIN sorted : j < k <=> sorted[j] \in Before[sorted[k]]
  /\ \A j, k \in DOMAIN sorted : sorted[j] = sorted[k] => j = k

\* Taking elements by their rank is a sort.
THEOREM SortByRank ==
  ASSUME NEW S, IsFiniteSet(S), NEW Before, IsOrderOf(Before, S), NEW sorted, PicksByRank(sorted, Before, S)
  PROVE  Sorts(sorted, Before, S)
<1>1. Cardinality(S) \in Nat
  BY FS_CardinalityType
<1>2. ASSUME NEW k \in DOMAIN sorted PROVE sorted[k] \in S /\ Cardinality(Before[sorted[k]]) = k - 1
  <2>1. k - 1 \in 0..(Cardinality(S) - 1)
    BY <1>1 DEF PicksByRank
  <2> QED BY <2>1, EveryRankIsTaken DEF PicksByRank
<1>3. ASSUME NEW x \in S PROVE \E k \in DOMAIN sorted : sorted[k] = x
  <2> DEFINE k == Cardinality(Before[x]) + 1
  <2>1. k \in DOMAIN sorted /\ k - 1 = Cardinality(Before[x])
    BY <1>1, RankIsBounded DEF PicksByRank
  <2>2. sorted[k] \in S /\ Cardinality(Before[sorted[k]]) = Cardinality(Before[x])
    <3> HIDE DEF k
    <3> QED BY <1>2, <2>1
  <2>3. sorted[k] = x
    <3> HIDE DEF k
    <3> QED BY <2>2, RankTellsOrder
  <2> QED BY <2>1, <2>3
<1>4. ASSUME NEW j \in DOMAIN sorted, NEW k \in DOMAIN sorted
      PROVE  (j < k <=> sorted[j] \in Before[sorted[k]]) /\ (sorted[j] = sorted[k] => j = k)
  <2>1. (j - 1 < k - 1) <=> sorted[j] \in Before[sorted[k]]
    BY <1>2, RankTellsOrder
  <2> QED BY <1>1, <1>2, <2>1 DEF PicksByRank
<1> QED BY <1>2, <1>3, <1>4 DEF Sorts

-----------------------------------------------------------------------------
(* A stable sort of n elements that have a place each: of two with one     *)
(* place, the first stays first.                                           *)
StableRank(place, n, j) ==
  Cardinality({i \in 1..n : place[i] < place[j] \/ (place[i] = place[j] /\ i <= j)})

\* The indices in the order of their ranks are a permutation that puts the places in order.
THEOREM StableSort ==
  ASSUME NEW n \in Nat, NEW place \in [1..n -> Int], NEW pick,
         DOMAIN pick = 1..n,
         \A k \in 1..n : (\E j \in 1..n : StableRank(place, n, j) = k)
                           => pick[k] \in 1..n /\ StableRank(place, n, pick[k]) = k
  PROVE  /\ \A k \in 1..n : pick[k] \in 1..n
         /\ \A j \in 1..n : \E k \in 1..n : pick[k] = j
         /\ \A j, k \in 1..n : j < k => place[pick[j]] <= place[pick[k]]
<1> DEFINE S == 1..n
           before(j) == {i \in 1..n : place[i] < place[j] \/ (place[i] = place[j] /\ i < j)}
           Before == [j \in S |-> before(j)]
<1>1. IsFiniteSet(S) /\ Cardinality(S) = n
  BY CountTo
<1>2. IsOrderOf(Before, S)
  <2>1. Before \in [S -> SUBSET S]
    OBVIOUS
  <2>2. \A x \in S : place[x] \in Int
    OBVIOUS
  <2>3. ASSUME NEW x \in S PROVE x \notin Before[x]
    BY <2>2
  <2>4. ASSUME NEW x \in S, NEW y \in S, place[x] < place[y] \/ (place[x] = place[y] /\ x < y)
        PROVE  Before[x] \cup {x} \subseteq Before[y]
    <3>1. ASSUME NEW i \in Before[x] \cup {x} PROVE i \in Before[y]
      <4>1. i \in S /\ (i = x \/ place[i] < place[x] \/ (place[i] = place[x] /\ i < x))
        BY <3>1
      <4>2. place[i] \in Int /\ place[x] \in Int /\ place[y] \in Int /\ i \in Int /\ x \in Int /\ y \in Int
        BY <2>2, <4>1
      <4>3. place[i] < place[y] \/ (place[i] = place[y] /\ i < y)
        BY <2>4, <4>1, <4>2
      <4> QED BY <4>1, <4>3
    <3> QED BY <3>1
  <2>5. \A x, y \in S : \/ x = y
                        \/ place[x] < place[y] \/ (place[x] = place[y] /\ x < y)
                        \/ place[y] < place[x] \/ (place[y] = place[x] /\ y < x)
    BY <2>2
  <2> HIDE DEF S, Before
  <2> QED BY <2>1, <2>3, <2>4, <2>5 DEF IsOrderOf
<1>3. ASSUME NEW j \in S PROVE StableRank(place, n, j) = Cardinality(Before[j]) + 1
  <2>1. {i \in 1..n : place[i] < place[j] \/ (place[i] = place[j] /\ i <= j)} = Before[j] \cup {j}
    OBVIOUS
  <2>2. j \notin Before[j] /\ IsFiniteSet(Before[j])
    <3> HIDE DEF S, Before
    <3> QED BY <1>1, <1>2, RankIsBounded DEF IsOrderOf
  <2>3. Cardinality(Before[j] \cup {j}) = Cardinality(Before[j]) + 1
    <3> HIDE DEF Before
    <3> QED BY <2>2, FS_AddElement
  <2> QED BY <2>1, <2>3 DEF StableRank
<1>4. \A x \in S : Cardinality(Before[x]) \in Nat
  <2> HIDE DEF S, Before
  <2> QED BY <1>1, <1>2, RankIsBounded
<1>5. \A k \in 1..n : (\E x \in S : Cardinality(Before[x]) = k - 1)
                        => pick[k] \in S /\ Cardinality(Before[pick[k]]) = k - 1
  <2> SUFFICES ASSUME NEW k \in 1..n, NEW x \in S, Cardinality(Before[x]) = k - 1
               PROVE  pick[k] \in S /\ Cardinality(Before[pick[k]]) = k - 1
    OBVIOUS
  <2> HIDE DEF Before
  <2>1. StableRank(place, n, x) = k
    BY <1>3
  <2>2. pick[k] \in S /\ StableRank(place, n, pick[k]) = k
    BY <2>1
  <2>3. Cardinality(Before[pick[k]]) \in Nat
    BY <1>4, <2>2
  <2> QED BY <1>3, <2>2, <2>3
<1>6. Sorts(pick, Before, S)
  <2> HIDE DEF Before
  <2>1. PicksByRank(pick, Before, S)
    BY <1>1, <1>5 DEF PicksByRank
  <2> HIDE DEF S
  <2> QED BY <1>1, <1>2, <2>1, SortByRank
<1>7. ASSUME NEW j \in 1..n, NEW k \in 1..n, j < k PROVE place[pick[j]] <= place[pick[k]]
  <2>1. pick[j] \in 1..n /\ pick[k] \in 1..n /\ pick[j] \in Before[pick[k]]
    <3> HIDE DEF Before
    <3> QED BY <1>6, <1>7 DEF Sorts
  <2>2. place[pick[j]] \in Int /\ place[pick[k]] \in Int
    BY <2>1
  <2> QED BY <2>1, <2>2
<1> QED BY <1>6, <1>7 DEF Sorts

\* A list in the order of the places of its texts.
InOrderOf(s, seq, place) ==
  \E pick \in [DOMAIN seq -> DOMAIN seq] :
    /\ \A k \in DOMAIN seq : s[k] = seq[pick[k]]
    /\ \A j \in DOMAIN seq : \E k \in DOMAIN seq : pick[k] = j
    /\ \A j, k \in DOMAIN seq : j < k => place[pick[j]] <= place[pick[k]]

\* The index of rank k.
AtRank(place, n, k) == CHOOSE j \in 1..n : StableRank(place, n, j) = k

\* The list of the elements at the indices so sorted has the elements of the list in that order.
THEOREM SortedList ==
  ASSUME NEW n \in Nat, NEW seq, DOMAIN seq = 1..n, NEW place \in [1..n -> Int], NEW s,
         \A k \in 1..n : s[k] = seq[AtRank(place, n, k)]
  PROVE  InOrderOf(s, seq, place)
<1> DEFINE pick == [k \in 1..n |-> AtRank(place, n, k)]
<1>1. \A k \in 1..n : (\E j \in 1..n : StableRank(place, n, j) = k)
                        => pick[k] \in 1..n /\ StableRank(place, n, pick[k]) = k
  BY DEF AtRank
<1>2. DOMAIN pick = 1..n
  OBVIOUS
<1>3. /\ \A k \in 1..n : pick[k] \in 1..n
      /\ \A j \in 1..n : \E k \in 1..n : pick[k] = j
      /\ \A j, k \in 1..n : j < k => place[pick[j]] <= place[pick[k]]
  <2> HIDE DEF pick
  <2> QED BY <1>1, <1>2, StableSort
<1>4. \A k \in 1..n : s[k] = seq[pick[k]]
  OBVIOUS
<1>5. pick = [k \in 1..n |-> pick[k]]
  OBVIOUS
<1> HIDE DEF pick
<1>6. pick \in [1..n -> 1..n]
  BY <1>3, <1>5
<1> QED BY <1>3, <1>4, <1>6 DEF InOrderOf

\* A list that is in order stays as it is.
THEOREM SortedStays ==
  ASSUME NEW n \in Nat, NEW seq, DOMAIN seq = 1..n, NEW place \in [1..n -> Int], NEW s,
         \A k \in 1..n : s[k] = seq[AtRank(place, n, k)],
         \A j, k \in 1..n : j < k => place[j] <= place[k]
  PROVE  \A k \in 1..n : s[k] = seq[k]
<1>1. ASSUME NEW j \in 1..n PROVE StableRank(place, n, j) = j
  <2>1. ASSUME NEW i \in 1..n PROVE (place[i] < place[j] \/ (place[i] = place[j] /\ i <= j)) <=> i <= j
    <3>1. place[i] \in Int /\ place[j] \in Int
      OBVIOUS
    <3>2. i < j => place[i] <= place[j]
      OBVIOUS
    <3>3. j < i => place[j] <= place[i]
      OBVIOUS
    <3> QED BY <3>1, <3>2, <3>3
  <2>2. {i \in 1..n : place[i] < place[j] \/ (place[i] = place[j] /\ i <= j)} = 1..j
    BY <2>1
  <2>3. Cardinality(1..j) = j
    <3>1. j \in Nat
      OBVIOUS
    <3> QED BY <3>1, CountTo
  <2> QED BY <2>2, <2>3 DEF StableRank
<1>2. ASSUME NEW k \in 1..n PROVE AtRank(place, n, k) = k
  BY <1>1 DEF AtRank
<1> QED BY <1>2

\* Two lists of the same elements, each in strictly increasing order of one weight, are one list.
Increasing(s, n, weight) ==
  /\ \A k \in 1..n : weight[s[k]] \in Int
  /\ \A j, k \in 1..n : j < k => weight[s[j]] < weight[s[k]]
LEMMA PlaceIsRank ==
  ASSUME NEW n \in Nat, NEW s, NEW weight, Increasing(s, n, weight), NEW k \in 1..n
  PROVE  Cardinality({x \in {s[i] : i \in 1..n} : weight[x] < weight[s[k]]}) = k - 1
<1> DEFINE S == {x \in {s[i] : i \in 1..n} : weight[x] < weight[s[k]]}
           f == [i \in 1..(k - 1) |-> s[i]]
<1>1. \A i \in 1..n : weight[s[i]] < weight[s[k]] <=> i < k
  <2> SUFFICES ASSUME NEW i \in 1..n PROVE weight[s[i]] < weight[s[k]] <=> i < k
    OBVIOUS
  <2>1. weight[s[i]] \in Int /\ weight[s[k]] \in Int
    BY DEF Increasing
  <2>2. i < k => weight[s[i]] < weight[s[k]]
    BY DEF Increasing
  <2>3. k < i => weight[s[k]] < weight[s[i]]
    BY DEF Increasing
  <2> QED BY <2>1, <2>2, <2>3
<1>2. S = {s[i] : i \in 1..(k - 1)}
  <2>1. ASSUME NEW x \in S PROVE x \in {s[i] : i \in 1..(k - 1)}
    <3>1. PICK i \in 1..n : x = s[i]
      OBVIOUS
    <3>2. i \in 1..(k - 1)
      BY <1>1, <3>1
    <3> QED BY <3>1, <3>2
  <2>2. ASSUME NEW i \in 1..(k - 1) PROVE s[i] \in S
    <3>1. i \in 1..n /\ i < k
      OBVIOUS
    <3> QED BY <1>1, <3>1
  <2> HIDE DEF S
  <2> QED BY <2>1, <2>2
<1>3. f \in [1..(k - 1) -> S] /\ \A x \in S : \E i \in 1..(k - 1) : f[i] = x
  BY <1>2
<1>4. \A i, j \in 1..(k - 1) : f[i] = f[j] => i = j
  <2> SUFFICES ASSUME NEW i \in 1..(k - 1), NEW j \in 1..(k - 1), s[i] = s[j] PROVE i = j
    OBVIOUS
  <2>1. i \in 1..n /\ j \in 1..n
    OBVIOUS
  <2>2. i < j => weight[s[i]] < weight[s[j]]
    BY <2>1 DEF Increasing
  <2>3. j < i => weight[s[j]] < weight[s[i]]
    BY <2>1 DEF Increasing
  <2>4. weight[s[i]] \in Int
    BY <2>1 DEF Increasing
  <2> QED BY <2>1, <2>2, <2>3, <2>4
<1>5. f \in Bijection(1..(k - 1), S)
  <2> HIDE DEF f, S
  <2> QED BY <1>3, <1>4 DEF Bijection, Injection, Surjection, IsInjective
<1>6. IsFiniteSet(1..(k - 1)) /\ Cardinality(1..(k - 1)) = k - 1
  <2>1. k - 1 \in Nat
    OBVIOUS
  <2> QED BY <2>1, CountTo
<1> HIDE DEF f, S
<1>7. Cardinality(S) = Cardinality(1..(k - 1))
  <2>1. ExistsBijection(1..(k - 1), S)
    BY <1>5 DEF ExistsBijection
  <2> QED BY <1>6, <2>1, FS_Bijection
<1> QED BY <1>6, <1>7 DEF S

Held(s, n) == {s[i] : i \in 1..n}
THEOREM OneOrder ==
  ASSUME NEW n \in Nat, NEW a, NEW b, NEW weight, Increasing(a, n, weight), Increasing(b, n, weight),
         Held(a, n) = Held(b, n)
  PROVE  \A k \in 1..n : a[k] = b[k]
<1> SUFFICES ASSUME NEW k \in 1..n PROVE a[k] = b[k]
  OBVIOUS
<1>0. {a[i] : i \in 1..n} = {b[i] : i \in 1..n}
  BY DEF Held
<1>1. PICK j \in 1..n : a[k] = b[j]
  BY <1>0
<1>2. Cardinality({x \in {a[i] : i \in 1..n} : weight[x] < weight[a[k]]}) = k - 1
  BY PlaceIsRank
<1>3. Cardinality({x \in {b[i] : i \in 1..n} : weight[x] < weight[b[j]]}) = j - 1
  BY PlaceIsRank
<1>4. {x \in {a[i] : i \in 1..n} : weight[x] < weight[a[k]]} =
      {x \in {b[i] : i \in 1..n} : weight[x] < weight[b[j]]}
  BY <1>0, <1>1
<1>5. k - 1 = j - 1
  BY <1>2, <1>3, <1>4
<1> QED BY <1>1, <1>5

-----------------------------------------------------------------------------
(* A sort by keys, numbers that no two elements share.                     *)
KeyRank(key, S, x) == Cardinality({y \in S : key[y] < key[x]})
PicksByKey(sorted, key, S) ==
  /\ DOMAIN sorted = 1..Cardinality(S)
  /\ \A k \in 1..Cardinality(S) : sorted[k] = CHOOSE x \in S : KeyRank(key, S, x) = k - 1
KeysDiffer(key, S) == (\A x \in S : key[x] \in Int) /\ \A x, y \in S : key[x] = key[y] => x = y

\* Two elements of one rank are one element, and every rank below the size of the set is taken.
KeyOrder(key, S) == [x \in S |-> {y \in S : key[y] < key[x]}]
LEMMA KeysOrder ==
  ASSUME NEW S, IsFiniteSet(S), NEW key, KeysDiffer(key, S)
  PROVE  /\ IsOrderOf(KeyOrder(key, S), S)
         /\ \A x \in S : KeyRank(key, S, x) = Cardinality(KeyOrder(key, S)[x])
         /\ \A x, y \in S : KeyRank(key, S, x) = KeyRank(key, S, y) => x = y
         /\ \A k \in 1..Cardinality(S) : \E x \in S : KeyRank(key, S, x) = k - 1
<1> DEFINE Before == KeyOrder(key, S)
<1>1. \A x \in S : key[x] \in Int
  BY DEF KeysDiffer
<1>2. IsOrderOf(Before, S)
  <2>1. Before \in [S -> SUBSET S]
    BY DEF KeyOrder
  <2>2. ASSUME NEW x \in S PROVE x \notin Before[x]
    BY <1>1 DEF KeyOrder
  <2>3. ASSUME NEW x \in S, NEW y \in S, key[x] < key[y] PROVE Before[x] \cup {x} \subseteq Before[y]
    BY <1>1, <2>3 DEF KeyOrder
  <2>4. \A x, y \in S : x = y \/ key[x] < key[y] \/ key[y] < key[x]
    BY <1>1 DEF KeysDiffer
  <2> HIDE DEF Before
  <2> QED BY <2>1, <2>2, <2>3, <2>4 DEF IsOrderOf
<1>3. \A x \in S : KeyRank(key, S, x) = Cardinality(Before[x])
  BY DEF KeyRank, KeyOrder
<1> HIDE DEF Before
<1>4. ASSUME NEW x \in S, NEW y \in S, KeyRank(key, S, x) = KeyRank(key, S, y) PROVE x = y
  BY <1>2, <1>3, <1>4, RankTellsOrder
<1>5. ASSUME NEW k \in 1..Cardinality(S) PROVE \E x \in S : KeyRank(key, S, x) = k - 1
  <2>1. k - 1 \in 0..(Cardinality(S) - 1)
    BY FS_CardinalityType
  <2> QED BY <1>2, <1>3, <2>1, EveryRankIsTaken
<1> QED BY <1>2, <1>3, <1>4, <1>5 DEF Before

\* What is mapped without two becoming one keeps its number.
LEMMA ImageSize ==
  ASSUME NEW S, IsFiniteSet(S), NEW f, S \subseteq DOMAIN f, \A x, y \in S : f[x] = f[y] => x = y
  PROVE  IsFiniteSet({f[x] : x \in S}) /\ Cardinality({f[x] : x \in S}) = Cardinality(S)
<1> DEFINE T == {f[x] : x \in S}
           g == [x \in S |-> f[x]]
<1>1. g \in Bijection(S, T)
  BY DEF Bijection, Injection, Surjection, IsInjective
<1>2. ExistsBijection(S, T)
  BY <1>1 DEF ExistsBijection
<1> HIDE DEF T
<1> QED BY <1>2, FS_Bijection DEF T

\* Elements that are replaced, each keeping its key, are sorted as they were.
THEOREM SameOrder ==
  ASSUME NEW S, IsFiniteSet(S), NEW key, KeysDiffer(key, S), NEW f, S \subseteq DOMAIN f, NEW T, T = {f[x] : x \in S},
         NEW weight, \A x \in S : weight[f[x]] = key[x],
         NEW a, PicksByKey(a, key, S), NEW b, PicksByKey(b, weight, T)
  PROVE  DOMAIN b = DOMAIN a /\ \A k \in DOMAIN a : a[k] \in S /\ b[k] = f[a[k]]
<1>1. \A x, y \in S : f[x] = f[y] => x = y
  BY DEF KeysDiffer
<1>2. IsFiniteSet(T) /\ Cardinality(T) = Cardinality(S)
  BY <1>1, ImageSize
<1>3. KeysDiffer(weight, T)
  BY DEF KeysDiffer
<1>4. ASSUME NEW x \in S PROVE KeyRank(weight, T, f[x]) = KeyRank(key, S, x)
  <2> DEFINE U == {y \in S : key[y] < key[x]}
  <2>1. {z \in T : weight[z] < weight[f[x]]} = {f[y] : y \in U}
    OBVIOUS
  <2>2. U \in SUBSET S
    OBVIOUS
  <2>3. Cardinality({f[y] : y \in U}) = Cardinality(U)
    <3> HIDE DEF U
    <3>1. IsFiniteSet(U)
      BY <2>2, FS_Subset
    <3>2. U \subseteq DOMAIN f /\ \A y, z \in U : f[y] = f[z] => y = z
      BY <1>1, <2>2
    <3> QED BY <3>1, <3>2, ImageSize
  <2> QED BY <2>1, <2>3 DEF KeyRank
<1>5. DOMAIN b = DOMAIN a /\ DOMAIN a = 1..Cardinality(S)
  BY <1>2 DEF PicksByKey
<1>6. ASSUME NEW k \in 1..Cardinality(S) PROVE a[k] \in S /\ b[k] = f[a[k]]
  <2>1. PICK x \in S : KeyRank(key, S, x) = k - 1
    BY KeysOrder
  <2>2. a[k] \in S /\ KeyRank(key, S, a[k]) = k - 1
    BY <2>1 DEF PicksByKey
  <2>3. f[x] \in T /\ KeyRank(weight, T, f[x]) = k - 1
    BY <1>4, <2>1
  <2>4. b[k] \in T /\ KeyRank(weight, T, b[k]) = k - 1
    BY <1>2, <2>3 DEF PicksByKey
  <2>5. f[a[k]] \in T /\ KeyRank(weight, T, f[a[k]]) = k - 1
    BY <1>4, <2>2
  <2> QED BY <1>2, <1>3, <2>2, <2>4, <2>5, KeysOrder
<1> QED BY <1>5, <1>6

\* A sequence of the elements of a set, each once.
Arranges(sorted, S) ==
  /\ \A k \in DOMAIN sorted : sorted[k] \in S
  /\ \A x \in S : \E k \in DOMAIN sorted : sorted[k] = x
  /\ \A j, k \in DOMAIN sorted : sorted[j] = sorted[k] => j = k

\* Taking elements by the rank of their keys arranges them.
THEOREM SortByKey ==
  ASSUME NEW S, IsFiniteSet(S), NEW key, KeysDiffer(key, S), NEW sorted, PicksByKey(sorted, key, S)
  PROVE  Arranges(sorted, S)
<1> DEFINE Before == KeyOrder(key, S)
<1>1. IsOrderOf(Before, S) /\ \A x \in S : KeyRank(key, S, x) = Cardinality(Before[x])
  BY KeysOrder
<1>2. PicksByRank(sorted, Before, S)
  <2>1. ASSUME NEW k \in 1..Cardinality(S), NEW x \in S, Cardinality(Before[x]) = k - 1
        PROVE  sorted[k] \in S /\ Cardinality(Before[sorted[k]]) = k - 1
    <3>1. KeyRank(key, S, x) = k - 1
      BY <1>1, <2>1
    <3>2. sorted[k] \in S /\ KeyRank(key, S, sorted[k]) = k - 1
      BY <3>1 DEF PicksByKey
    <3> HIDE DEF Before
    <3> QED BY <1>1, <3>2
  <2> HIDE DEF Before
  <2> QED BY <2>1 DEF PicksByRank, PicksByKey
<1> HIDE DEF Before
<1>3. Sorts(sorted, Before, S)
  BY <1>1, <1>2, SortByRank
<1> QED BY <1>3 DEF Sorts, Arranges

-----------------------------------------------------------------------------
\* If n places have n keys, no two of them share one.
THEOREM DistinctKeys ==
  ASSUME NEW n \in Nat, NEW key, DOMAIN key = 1..n, Cardinality({key[i] : i \in 1..n}) = n
  PROVE  \A i, j \in 1..n : key[i] = key[j] => i = j
<1> DEFINE T == {key[i] : i \in 1..n}
           f == [i \in 1..n |-> key[i]]
<1>1. IsFiniteSet(1..n) /\ Cardinality(1..n) = n
  BY CountTo
<1>2. f \in [1..n -> T] /\ \A t \in T : \E i \in 1..n : f[i] = t
  OBVIOUS
<1>3. f \in Surjection(1..n, T)
  <2> HIDE DEF f, T
  <2> QED BY <1>2 DEF Surjection
<1>4. f \in Injection(1..n, T)
  <2>1. Cardinality(1..n) = Cardinality(T)
    BY <1>1
  <2> HIDE DEF f, T
  <2> QED BY <1>1, <1>3, <2>1, FS_SurjSameCardinalityImpliesInj
<1>5. \A i, j \in 1..n : f[i] = f[j] => i = j
  <2> HIDE DEF f, T
  <2> QED BY <1>4 DEF Injection, IsInjective
<1> QED BY <1>5
=============================================================================
