---------------------------- MODULE MCSettlement -----------------------------
(* An instance of Settlement for TLC. *)
EXTENDS Settlement

CONSTANTS r1, r2, r3, d1, d2, ann, mel

ThreeRequests == {r1, r2, r3}
TwoPayloads   == {d1, d2}
TwoPayers     == {ann, mel}
PayerOf       == [d \in TwoPayloads |-> IF d = d1 THEN ann ELSE mel]
OneDenied     == {mel}
=============================================================================
