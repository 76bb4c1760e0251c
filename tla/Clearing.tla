-------------------------------- MODULE Clearing --------------------------------
(***************************************************************************)
(* What the facilitator promises about a signed payload: it is charged at  *)
(* most once, and only if nothing spoke against its payer; the row that    *)
(* says what became of it is written once, stays, and says 'settled' only  *)
(* of a payload that was charged before.                                   *)
(***************************************************************************)
CONSTANTS Payloads, None

VARIABLES
    vouched,  \* payloads to settle whose payer passed the screening
    charged,  \* payloads whose transfer was made
    rows      \* the status recorded for each payload

ClearingInit == vouched = {} /\ charged = {} /\ rows = [d \in Payloads |-> None]

Vouch(d) == vouched' = vouched \cup {d} /\ UNCHANGED <<charged, rows>>

Charge(d) ==
    /\ d \in vouched \ charged
    /\ charged' = charged \cup {d}
    /\ UNCHANGED <<vouched, rows>>

File(d) ==
    /\ rows[d] = None
    /\ \/ d \in charged /\ rows' = [rows EXCEPT ![d] = "settled"]
       \/ \E status \in {"failed", "held"} : rows' = [rows EXCEPT ![d] = status]
    /\ UNCHANGED <<vouched, charged>>

ClearingNext == \E d \in Payloads : Vouch(d) \/ Charge(d) \/ File(d)

ClearingSpec == ClearingInit /\ [][ClearingNext]_<<vouched, charged, rows>>
=============================================================================
