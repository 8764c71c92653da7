----------------------------- MODULE TelemetryChannel -----------------------------
(***************************************************************************)
(* What authenticated telemetry promises (docs/collector-clickhouse.md,    *)
(* "Bounds, acknowledgements and recovery"): a request that was            *)
(* acknowledged is read from its Resource some day, every record of it     *)
(* once, and nothing that is malformed ever is.                            *)
(***************************************************************************)
EXTENDS Integers, FiniteSets

CONSTANTS
  Content,      \* the records of each envelope
  Malformed     \* envelopes that validation refuses

VARIABLES
  promised,     \* envelopes that were acknowledged
  readings      \* how often a read returns each record

Envelopes == DOMAIN Content
Records == UNION {Content[e] : e \in Envelopes}
WellFormed == Envelopes \ Malformed

vars == <<promised, readings>>

Init == promised = {} /\ readings = [r \in Records |-> 0]

Promise(e) == e \in WellFormed /\ promised' = promised \cup {e} /\ UNCHANGED readings

\* Some records of one envelope become readable, once each.
Show(e) ==
  /\ e \in WellFormed
  /\ \E shown \in SUBSET Content[e] :
       readings' = [r \in Records |-> IF r \in shown THEN 1 ELSE readings[r]]
  /\ UNCHANGED promised

Next == \E e \in Envelopes : Promise(e) \/ Show(e)

Readable(e) == \A r \in Content[e] : readings[r] = 1
ShowPromised(e) == e \in promised /\ Show(e) /\ Readable(e)'

Safely == Init /\ [][Next]_vars
Spec == Safely /\ \A e \in Envelopes : WF_vars(ShowPromised(e))
=============================================================================
