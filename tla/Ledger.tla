------------------------------- MODULE Ledger -------------------------------
(***************************************************************************)
(* What the reconciler promises, without saying how: a book of payments    *)
(* that is filled from an append-only chain.  Every booked entry is a      *)
(* payment that landed and is owed to the book, is booked exactly once,    *)
(* and a position is acknowledged only when everything owed up to it has   *)
(* been booked.  The only thing that may pass over an owed payment is an   *)
(* explicit choice of a position (the start at "now", an operator).        *)
(***************************************************************************)
EXTENDS Integers

VARIABLES
    due,     \* positions of the payments that landed and must be booked
    booked,  \* positions booked
    acked,   \* the durable position; below every payment while it is "now"
    floor    \* the highest position chosen rather than worked up to

lvars == <<due, booked, acked, floor>>

Settled(p) == \A t \in due : floor < t /\ t <= p => t \in booked

LInit ==
    /\ due = {}
    /\ booked = {}
    /\ acked < 0
    /\ floor = 0

\* A payment is confirmed on chain, above everything that landed before it.
Confirm ==
    /\ \E t \in due' \ due : due' = due \cup {t} /\ \A u \in due : u < t
    /\ UNCHANGED <<booked, acked, floor>>

Book ==
    /\ \E t \in due \ booked : booked' = booked \cup {t}
    /\ UNCHANGED <<due, acked, floor>>

\* The durable position moves, forward or back, to one that is settled.
Acknowledge ==
    /\ Settled(acked')
    /\ UNCHANGED <<due, booked, floor>>

\* A position above the floor is chosen, with or without writing it at once.
Choose ==
    /\ floor' > floor
    /\ acked' \in {acked, floor'}
    /\ UNCHANGED <<due, booked>>

LNext == Confirm \/ Book \/ Acknowledge \/ Choose

LSpec == LInit /\ [][LNext]_lvars
=============================================================================
