----------------------------- MODULE MCReferral ------------------------------
(* An instance of Referral for TLC. *)
EXTENDS Referral

CONSTANTS ann, bob, cleo, s1, s2, k1

ThreeMerchants == {ann, bob, cleo}
TwoMerchants   == {ann, bob}
OneFounder     == {ann}
TwoSweepers    == {s1, s2}
OneRecorder    == {k1}
=============================================================================
