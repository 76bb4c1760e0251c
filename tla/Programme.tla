------------------------------- MODULE Programme --------------------------------
(***************************************************************************)
(* What the referral programme promises: an account is created once and is *)
(* the youngest then; it is referred at most once, for good, by an older   *)
(* one; it becomes active once, with a paid payment; and only the referral *)
(* of an active account is rewarded.                                       *)
(***************************************************************************)
EXTENDS Integers

CONSTANTS Emails, Founders, None

VARIABLES
    joined,   \* the age of each account, as a rank; 0 without one
    referrer, \* who referred
    active,   \* the accounts that were paid
    rewards   \* rewards for each referral

pvars == <<joined, referrer, active, rewards>>

ProgrammeInit ==
    /\ joined = [e \in Emails |-> IF e \in Founders THEN 1 ELSE 0]
    /\ referrer = [e \in Emails |-> None]
    /\ active = {}
    /\ rewards = [e \in Emails |-> 0]

Join(e) ==
    /\ joined[e] = 0
    /\ \A other \in Emails : joined'[e] > joined[other]
    /\ joined' = [joined EXCEPT ![e] = joined'[e]]
    /\ UNCHANGED <<referrer, active, rewards>>

Refer(e, by) ==
    /\ referrer[e] = None
    /\ joined[by] > 0 /\ joined[by] < joined[e]
    /\ referrer' = [referrer EXCEPT ![e] = by]
    /\ UNCHANGED <<joined, active, rewards>>

Activate(e) ==
    /\ joined[e] > 0
    /\ active' = active \cup {e}
    /\ UNCHANGED <<joined, referrer, rewards>>

RewardFor(e) ==
    /\ referrer[e] # None /\ e \in active
    /\ rewards' = [rewards EXCEPT ![e] = @ + 1]
    /\ UNCHANGED <<joined, referrer, active>>

ProgrammeNext ==
    \E e \in Emails :
        Join(e) \/ (\E by \in Emails : Refer(e, by)) \/ Activate(e) \/ RewardFor(e)

ProgrammeSpec == ProgrammeInit /\ [][ProgrammeNext]_pvars
=============================================================================
