-------------------------------- MODULE Versions --------------------------------
(***************************************************************************)
(* What migrations promise to whoever connects to the database: it is at   *)
(* some version n, made of the first n files, and its tracking table says  *)
(* so.  It goes up and down one version at a time, in one step that        *)
(* changes both, and never down from a version that has no down file.      *)
(***************************************************************************)
EXTENDS Integers

CONSTANTS Files, HasDown

VARIABLES schema, tracked

At(n) == schema = 1..n /\ tracked = 1..n

VersionsInit == At(0)

Upgrade   == \E n \in 1..Files : At(n - 1) /\ At(n)'
Downgrade == \E n \in HasDown : At(n) /\ At(n - 1)'

VersionsSpec == VersionsInit /\ [][Upgrade \/ Downgrade]_<<schema, tracked>>
=============================================================================
