-------------------------- MODULE MCTreasurySweep ---------------------------
(* An instance of TreasurySweep for TLC. *)
EXTENDS TreasurySweep

CONSTANTS r1, r2

TwoReplicas == {r1, r2}
=============================================================================
