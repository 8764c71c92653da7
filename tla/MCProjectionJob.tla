--------------------------- MODULE MCProjectionJob ---------------------------
(* An instance of ProjectionJob for TLC: two Bindings, one Evidence        *)
(* Resource, and deployments on both sides of every check.                 *)
EXTENDS ProjectionJob, TLC

CONSTANTS b1, b2

NoLock == [p \in Packages |-> Absent]
Lock(p) == [NoLock EXCEPT ![p] = 1]

Placings ==
  [source: {{b1}}, outbox: {{b1}, {b2}}, target: {{b1}, {b2}},
   audit: {{b1}, {b2}, {b1, b2}}]

Deployments ==
  {[place |-> place, postgresql |-> postgresql, alike |-> alike,
    lock |-> (b1 :> lock1 @@ b2 :> lock2), manifest |-> (b1 :> m1 @@ b2 :> m2)] :
     alike \in BOOLEAN,
     place \in Placings, postgresql \in {{b1}, {b1, b2}},
     lock1 \in {Lock(CorePackage)},
     lock2 \in {NoLock, Lock(EvidencePackage)},
     m1 \in {{"base"}, {"base", "evidence"}}, m2 \in {{}, {"base"}}}

\* The languages differ about some deployments that pass the other checks of both gates.
MCConfigurations ==
  {c \in Deployments :
     c.alike \/ (c.lock[b2] = NoLock /\ c.postgresql = Bindings /\ "evidence" \in c.manifest[b1])}

MCInputs ==
  [required: {{}, {"audit"}},
   pins: {(CorePackage :> core @@ EvidencePackage :> evidence) :
            core \in Releases, evidence \in {Absent, 1}}]
=============================================================================
