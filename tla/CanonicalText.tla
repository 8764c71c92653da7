------------------------------ MODULE CanonicalText ------------------------------
(***************************************************************************)
(* The two canonical texts of the package: canonicalJson (canonical.ts),   *)
(* under every specification and configuration fingerprint, and            *)
(* publicCanonicalJson (clickhouse-layout.ts), under the identities of     *)
(* public layouts.  Both are computed again in Python, over the value that *)
(* was read from the text: the first by the projection host (worker.py),   *)
(* the second by the adapter that compiled the layout.                     *)
(*                                                                         *)
(* A document is an object with scalar members, in the order in which they *)
(* were written.  A fingerprint is the text it is taken of.                *)
(***************************************************************************)
EXTENDS DeploymentInputs

CONSTANTS
  CodeUnits, CodePoints,    \* the rank of a key by UTF-16 code units, and by code points (or UTF-8 bytes)
  Index,                    \* the number an array index stands for; None for other keys
  Scalars,                  \* what may be a member
  Meaning,                  \* the JSON value of a scalar: -0 is 0
  JsText, PyText,           \* how JSON.stringify and json.dumps write it
  SafeIntegers, MaxMembers, MaxDocuments

VARIABLES
  authored,     \* [document, public, text]: what was fingerprinted; the text is None when it was refused
  checked       \* [public, whole, agrees]: how those came out whose fingerprint was computed again

textVars == <<authored, checked>>

Keys == DOMAIN CodeUnits
Orders == UNION {{o \in [1..n -> Keys] : \A i, j \in 1..n : i # j => o[i] # o[j]} : n \in 0..MaxMembers}
Documents == UNION {[1..Len(o) -> Scalars] \X {o} : o \in Orders}

\* The keys of a document sorted by a rank.
Ranked(keys, rank) ==
  [k \in 1..Cardinality(keys) |-> CHOOSE key \in keys : Cardinality({x \in keys : rank[x] <= rank[key]}) = k]

ByCodeUnit(keys) == Ranked(keys, CodeUnits)
ByCodePoint(keys) == Ranked(keys, CodePoints)

\* An object enumerates its array indices first, by number, and its other keys in the order in
\* which they were added.
KeysOf(order) == {order[i] : i \in DOMAIN order}
PositionOf(order, key) == CHOOSE i \in DOMAIN order : order[i] = key
Enumerated(order) ==
  LET indices == {k \in KeysOf(order) : Index[k] # None}
      names == KeysOf(order) \ indices
  IN  Ranked(indices, Index) \o Ranked(names, [k \in names |-> PositionOf(order, k)])

ValueAt(document, key) == document[1][PositionOf(document[2], key)]
Written(document, order, text) == [i \in DOMAIN order |-> <<order[i], text[ValueAt(document, order[i])]>>]

\* normalize assigns the members to a new object.  To assign to "__proto__", which JSON.parse makes
\* a member like any other, sets the prototype of the object and adds no member.
AllKeys(document) == KeysOf(document[2])
KeptKeys(document) == AllKeys(document) \ {"__proto__"}

\* The keys are assigned in sorted order, and JSON.stringify enumerates the new object.
CanonicalJson(document) == Written(document, Enumerated(ByCodeUnit(KeptKeys(document))), JsText)

\* A public text whose keys are sorted as JavaScript sorts.
IsExact(document) == \A key \in KeptKeys(document) : ValueAt(document, key) \in SafeIntegers
CodeUnitCanonicalJson(document) ==
  IF IsExact(document) THEN Written(document, ByCodeUnit(KeptKeys(document)), JsText) ELSE None
PublicCanonicalJson(document) ==
  IF IsExact(document) THEN Written(document, ByCodePoint(KeptKeys(document)), JsText) ELSE None

\* json.dumps with sorted keys.
PythonJson(document, keys) == Written(document, ByCodePoint(keys), PyText)

\* No two keys have one rank, equal values and only these have one text in JavaScript, and Python
\* writes a safe integer as JavaScript does.
ASSUME TextAssumption ==
  /\ MaxDocuments \in Nat /\ MaxMembers \in Nat
  /\ \A rank \in {CodeUnits, CodePoints} :
       rank \in [Keys -> Int] /\ \A j, k \in Keys : rank[j] = rank[k] => j = k
  /\ \A k \in Keys : Index[k] # None => Index[k] \in Int /\ \A j \in Keys : Index[j] = Index[k] => j = k
  /\ \A s, t \in Scalars : JsText[s] = JsText[t] <=> Meaning[s] = Meaning[t]
  /\ \A s \in Scalars \cap SafeIntegers : PyText[s] = JsText[s]
  /\ \A document \in Documents : CanonicalJson(document) # None

Author(public) ==
  /\ Cardinality(authored) < MaxDocuments
  /\ \E document \in Documents :
       authored' = authored \cup
         {[document |-> document, public |-> public,
           text |-> IF public THEN PublicCanonicalJson(document) ELSE CanonicalJson(document)]}
  /\ UNCHANGED checked

\* The compiler of a layout reads its document, validate_job what the text of a job says.  Python
\* keeps every member it reads.
ReadKeys(a) == IF a.public THEN AllKeys(a.document) ELSE KeptKeys(a.document)
Computed(a) ==
  [public |-> a.public, whole |-> ReadKeys(a) = KeptKeys(a.document),
   agrees |-> PythonJson(a.document, ReadKeys(a)) = a.text]
Recompute ==
  /\ \E a \in authored : a.text # None /\ checked' = checked \cup {Computed(a)}
  /\ UNCHANGED authored

TextInit == authored = {} /\ checked = {}
TextNext == (\E public \in BOOLEAN : Author(public)) \/ Recompute
TextSpec == TextInit /\ [][TextNext]_textVars

-----------------------------------------------------------------------------
(* Properties.                                                             *)
Members(a) == {<<key, Meaning[ValueAt(a.document, key)]>> : key \in KeptKeys(a.document)}

\* Only a public text refuses a scalar; what was computed again was fingerprinted.
TextTypeOK ==
  /\ Cardinality(authored) <= MaxDocuments
  /\ \A a \in authored : a.document \in Documents /\ (a.text = None => a.public)
  /\ \A c \in checked : \E a \in authored : a.public = c.public

\* Two documents of one kind have one fingerprint exactly when they have the same members, but for
\* a member "__proto__", in whatever order they were written.
FingerprintTellsMembers ==
  \A a, b \in authored :
    a.public = b.public /\ a.text # None /\ b.text # None => (a.text = b.text) = (Members(a) = Members(b))

\* The identity of a public layout is the one that its compiler computed, exactly when it has no
\* member "__proto__".
LayoutIdentityAgrees == \A c \in checked : c.public => (c.agrees <=> c.whole)

\* Two documents have one fingerprint exactly when they have the same members, and the identity
\* of a public layout is the one that its compiler computes in Python.  Both are so of documents
\* without a member "__proto__", which normalizeJson loses (canonical.ts 64-66).
TextIsMembers == TextTypeOK /\ FingerprintTellsMembers /\ LayoutIdentityAgrees
=============================================================================
