------------------------------- MODULE Allowance --------------------------------
(***************************************************************************)
(* What the spend guard promises about an account: money leaves it only    *)
(* for rows of a log, once for each row and as much as the row says; rows  *)
(* are added within a daily cap and not while signing is halted.  Without  *)
(* the lock that keeps guards apart, only the first of that is promised.   *)
(***************************************************************************)
EXTENDS Integers, Sequences

CONSTANT Cap

VARIABLES
    log, today,  \* the rows: amounts; the sum of today's
    halted,
    paid, moved, \* the rows that were paid; what left the account
    unguarded    \* the lock was lost

avars == <<log, today, halted, paid, moved, unguarded>>

AInit ==
    /\ log = <<>> /\ today = 0
    /\ halted = FALSE /\ unguarded = FALSE
    /\ paid = {} /\ moved = 0

\* A row of any amount.
Enter ==
    /\ unguarded \/ (~halted /\ today' <= Cap)
    /\ today' >= today
    /\ log' = Append(log, today' - today)
    /\ UNCHANGED <<halted, paid, moved, unguarded>>

Pay(row) ==
    /\ row \notin paid
    /\ paid' = paid \cup {row}
    /\ moved' = moved + log[row]
    /\ UNCHANGED <<log, today, halted, unguarded>>

NewDay ==
    /\ today' = 0
    /\ UNCHANGED <<log, halted, paid, moved, unguarded>>

Switch ==
    /\ halted' \in BOOLEAN
    /\ UNCHANGED <<log, today, paid, moved, unguarded>>

Lose ==
    /\ unguarded' = TRUE
    /\ UNCHANGED <<log, today, halted, paid, moved>>

ANext == Enter \/ (\E row \in 1..Len(log) : Pay(row)) \/ NewDay \/ Switch \/ Lose

ASpec == AInit /\ [][ANext]_avars
=============================================================================
