------------------------------- MODULE Referral -------------------------------
(***************************************************************************)
(* Sign-up with a referral code (src/auth/auth.service.ts), the sweep that *)
(* rewards the referrer once the referred merchant is paid                 *)
(* (src/referrals/referral-rewards.service.ts) and the fee the reconciler  *)
(* takes from a payment under a promo (reconciler/src/store.rs), which     *)
(* share three columns of `merchants` and nothing else.                    *)
(*                                                                         *)
(* An account is its e-mail address and a referral code is its owner: both *)
(* columns are unique.  Every payment is of one unit of volume.            *)
(***************************************************************************)
EXTENDS Integers, FiniteSets

CONSTANTS
    Emails, Founders,  \* accounts; those that exist at the start
    Sweepers,          \* reward sweeps that may overlap: of several API processes,
                       \* or slow ones of one process
    Recorders,         \* reconciler processes
    None,              \* no referrer, no merchant
    BaseFee,           \* merchants.fee_bps
    TrialCap,          \* REFERRAL_TRIAL_VOLUME_CAP_USDC
    MaxRequests,       \* bound: concurrent POST /auth/signup
    MaxPayments,       \* bound: payments of all merchants
    MaxChanges,        \* bound: payments held or released, promos that expire
    MaxDisruptions     \* bound: failed statements and crashes

ASSUME ReferralAssumption ==
    /\ None \notin Emails
    /\ Founders \subseteq Emails /\ IsFiniteSet(Emails)
    /\ IsFiniteSet(Recorders) /\ IsFiniteSet(Sweepers)
    /\ {BaseFee, TrialCap} \subseteq Nat \ {0}
    /\ {MaxRequests, MaxPayments, MaxChanges, MaxDisruptions} \subseteq Nat

VARIABLES
    joined,    \* merchants.created_at, as a rank; 0 without an account
    promo,     \* the promo columns of each account
    referrer,  \* referrals: who referred
    granted,   \* referrals: reward_granted_at is set
    paid, held,      \* each merchant's volume with that status
    signups,   \* what each sign-up request that is under way knows
    sweeping,  \* where each sweep is
    seen,      \* the rows its statement selected, or still has to reward
    pricing,   \* the payment each reconciler is about to insert
    free,      \* history: volume recorded at the trial's rate
    uncounted, \* history: volume that was held at some time
    active,    \* history: merchants that had a paid payment
    rewards,   \* history: rewards written for a referral
    dropped,   \* history: referrals claimed by a sweep that then failed
    payments, changes, disruptions

accounts == <<joined, promo, referrer, granted>>
volume   == <<paid, held, free, uncounted, active>>
rewarded == <<rewards, dropped>>
sweeps   == <<sweeping, seen>>
counters == <<payments, changes, disruptions>>
vars == <<accounts, volume, rewarded, signups, sweeps, pricing, counters>>

NoPromo == [fee |-> BaseFee, valid |-> FALSE, capped |-> FALSE]
Trial   == [fee |-> 0, valid |-> TRUE, capped |-> TRUE]
Reward  == [fee |-> BaseFee \div 2, valid |-> TRUE, capped |-> FALSE]

SignupRequest == [state : {"checked", "inserted"}, email : Emails, code : Emails \cup {None}]
NoPayment == [merchant |-> None, fee |-> 0, trial |-> FALSE]

Ranks == Cardinality({e \in Emails : joined[e] > 0})

Init ==
    /\ joined = [e \in Emails |-> IF e \in Founders THEN 1 ELSE 0]
    /\ promo = [e \in Emails |-> NoPromo]
    /\ referrer = [e \in Emails |-> None]
    /\ granted = [e \in Emails |-> FALSE]
    /\ paid = [e \in Emails |-> 0] /\ held = [e \in Emails |-> 0]
    /\ free = [e \in Emails |-> 0] /\ uncounted = [e \in Emails |-> 0]
    /\ active = {} /\ dropped = {}
    /\ rewards = [e \in Emails |-> 0]
    /\ signups = {}
    /\ sweeping = [s \in Sweepers |-> "idle"]
    /\ seen = [s \in Sweepers |-> {}]
    /\ pricing = [r \in Recorders |-> NoPayment]
    /\ payments = 0 /\ changes = 0 /\ disruptions = 0

Disrupt ==
    /\ disruptions < MaxDisruptions
    /\ disruptions' = disruptions + 1

-----------------------------------------------------------------------------
(* AuthService.signup                                                       *)

\* The e-mail address is free, the code is looked up: a wrong one is ignored.
\* (An address that is taken between the two SELECTs fails at the INSERT.)
SignupCheck(e, code) ==
    /\ Cardinality(signups) < MaxRequests
    /\ joined[e] = 0
    /\ signups' = signups \cup
           {[state |-> "checked", email |-> e,
             code |-> IF code # None /\ joined[code] > 0 THEN code ELSE None]}
    /\ UNCHANGED <<accounts, volume, rewarded, sweeps, pricing, counters>>

Enroll(q) ==
    /\ joined' = [joined EXCEPT ![q.email] = Ranks + 1]
    /\ promo' = [promo EXCEPT ![q.email] = IF q.code = None THEN NoPromo ELSE Trial]
    /\ signups' = (signups \ {q}) \cup
           {p \in {[q EXCEPT !.state = "inserted"]} : q.code # None}

\* Broken variant of InsertMerchant: ON CONFLICT (email) DO UPDATE.
InsertMerchantUpsert(q) ==
    /\ q.state = "checked"
    /\ Enroll(q)
    /\ UNCHANGED <<referrer, granted, volume, rewarded, sweeps, pricing, counters>>

\* The unique address ends the request if it was taken meanwhile.
InsertMerchant(q) ==
    /\ q.state = "checked"
    /\ IF joined[q.email] = 0
       THEN Enroll(q)
       ELSE signups' = signups \ {q} /\ UNCHANGED <<joined, promo>>
    /\ UNCHANGED <<referrer, granted, volume, rewarded, sweeps, pricing, counters>>

InsertReferral(q) ==
    /\ q.state = "inserted"
    /\ referrer' = [referrer EXCEPT ![q.email] = q.code]
    /\ signups' = signups \ {q}
    /\ UNCHANGED <<joined, promo, granted, volume, rewarded, sweeps, pricing, counters>>

\* A statement fails, also on a referral code drawn twice, or the process dies.
SignupFails(q) ==
    /\ Disrupt
    /\ signups' = signups \ {q}
    /\ UNCHANGED <<accounts, volume, rewarded, sweeps, pricing, payments, changes>>

-----------------------------------------------------------------------------
(* ReferralRewardsService.sweep                                             *)

\* Broken variant of SweepSelect: without EXISTS (a paid payment).
SweepSelectAll(s) ==
    LET due == {e \in Emails : referrer[e] # None /\ ~granted[e]} IN
    /\ sweeping[s] = "idle"
    /\ due # {}
    /\ sweeping' = [sweeping EXCEPT ![s] = "claiming"]
    /\ seen' = [seen EXCEPT ![s] = due]
    /\ UNCHANGED <<accounts, volume, rewarded, signups, pricing, counters>>

Due == {e \in Emails : referrer[e] # None /\ ~granted[e] /\ paid[e] > 0}

\* WITH activated: evaluated on the statement's snapshot.
SweepSelect(s) ==
    /\ sweeping[s] = "idle"
    /\ Due # {}
    /\ sweeping' = [sweeping EXCEPT ![s] = "claiming"]
    /\ seen' = [seen EXCEPT ![s] = Due]
    /\ UNCHANGED <<accounts, volume, rewarded, signups, pricing, counters>>

\* Broken variant of SweepClaim: reward_granted_at is left to the loop.
SweepClaimNothing(s) ==
    /\ sweeping[s] = "claiming"
    /\ sweeping' = [sweeping EXCEPT ![s] = "granting"]
    /\ UNCHANGED <<accounts, seen, volume, rewarded, signups, pricing, counters>>

\* UPDATE .. WHERE id IN (SELECT id FROM activated) RETURNING.  A row that
\* another sweep has updated meanwhile is compared by its id again, not by the
\* subquery's reward_granted_at: it is updated and returned once more.
SweepClaim(s) ==
    /\ sweeping[s] = "claiming"
    /\ sweeping' = [sweeping EXCEPT ![s] = "granting"]
    /\ granted' = [e \in Emails |-> granted[e] \/ e \in seen[s]]
    /\ UNCHANGED <<joined, promo, referrer, seen, volume, rewarded, signups, pricing, counters>>

\* Broken variant of Grant: stops after the first row.
GrantFirst(s) ==
    /\ sweeping[s] = "granting"
    /\ \E e \in seen[s] :
        /\ promo' = [promo EXCEPT ![referrer[e]] = Reward]
        /\ rewards' = [rewards EXCEPT ![e] = @ + 1]
    /\ seen' = [seen EXCEPT ![s] = {}]
    /\ sweeping' = [sweeping EXCEPT ![s] = "idle"]
    /\ UNCHANGED <<joined, referrer, granted, volume, dropped, signups, pricing, counters>>

\* The loop: one UPDATE of `merchants` for each claimed row.
Grant(s) ==
    /\ sweeping[s] = "granting"
    /\ \E e \in seen[s] :
        /\ promo' = [promo EXCEPT ![referrer[e]] = Reward]
        /\ rewards' = [rewards EXCEPT ![e] = @ + 1]
        /\ seen' = [seen EXCEPT ![s] = @ \ {e}]
        /\ sweeping' = [sweeping EXCEPT ![s] = IF seen[s] = {e} THEN "idle" ELSE @]
    /\ UNCHANGED <<joined, referrer, granted, volume, dropped, signups, pricing, counters>>

\* A statement fails and ends the loop, or the process dies.
SweepFails(s) ==
    /\ Disrupt
    /\ sweeping[s] # "idle"
    /\ dropped' = IF sweeping[s] = "granting" THEN dropped \cup seen[s] ELSE dropped
    /\ sweeping' = [sweeping EXCEPT ![s] = "idle"]
    /\ seen' = [seen EXCEPT ![s] = {}]
    /\ UNCHANGED <<accounts, volume, rewards, signups, pricing, payments, changes>>

-----------------------------------------------------------------------------
(* The reconciler's fee, and what becomes of a payment                      *)

\* Broken variant of PromoApplies: `<=`.
PromoAppliesAtCap(e) ==
    promo[e].valid /\ (promo[e].capped => paid[e] <= TrialCap)

\* resolve_effective_fee_bps
PromoApplies(e) ==
    promo[e].valid /\ (promo[e].capped => paid[e] < TrialCap)

\* effective_fee_bps, for each payment anew.
Price(r, e) ==
    /\ payments < MaxPayments
    /\ payments' = payments + 1
    /\ pricing[r].merchant = None
    /\ joined[e] > 0
    /\ pricing' = [pricing EXCEPT ![r] =
           [merchant |-> e,
            fee |-> IF PromoApplies(e) THEN promo[e].fee ELSE BaseFee,
            trial |-> PromoApplies(e) /\ promo[e].capped]]
    /\ UNCHANGED <<accounts, volume, rewarded, signups, sweeps, changes, disruptions>>

\* INSERT INTO payments, 'held' for a blocked payer.
Insert(r, blocked) ==
    LET e == pricing[r].merchant IN
    /\ e # None
    /\ IF blocked
       THEN /\ held' = [held EXCEPT ![e] = @ + 1]
            /\ uncounted' = [uncounted EXCEPT ![e] = @ + 1]
            /\ UNCHANGED <<paid, active>>
       ELSE /\ paid' = [paid EXCEPT ![e] = @ + 1]
            /\ active' = active \cup {e}
            /\ UNCHANGED <<held, uncounted>>
    /\ free' = IF pricing[r].trial THEN [free EXCEPT ![e] = @ + 1] ELSE free
    /\ pricing' = [pricing EXCEPT ![r] = NoPayment]
    /\ UNCHANGED <<accounts, rewarded, signups, sweeps, counters>>

\* ON CONFLICT (paging_token) DO NOTHING, or the reconciler exits.
Discard(r) ==
    /\ pricing[r].merchant # None
    /\ pricing' = [pricing EXCEPT ![r] = NoPayment]
    /\ UNCHANGED <<accounts, volume, rewarded, signups, sweeps, counters>>

\* mark_held, or AdminPaymentsService.setStatus with 'held' or 'disputed'.
Hold(e) ==
    /\ changes < MaxChanges
    /\ changes' = changes + 1
    /\ paid[e] > 0
    /\ paid' = [paid EXCEPT ![e] = @ - 1]
    /\ held' = [held EXCEPT ![e] = @ + 1]
    /\ uncounted' = [uncounted EXCEPT ![e] = @ + 1]
    /\ UNCHANGED <<accounts, free, active, rewarded, signups, sweeps, pricing, payments, disruptions>>

\* Broken variant of Release: counts a payment that is paid already.
ReleaseAny(e) ==
    /\ changes < MaxChanges
    /\ changes' = changes + 1
    /\ held' = [held EXCEPT ![e] = @ - 1]
    /\ paid' = [paid EXCEPT ![e] = @ + 1]
    /\ active' = active \cup {e}
    /\ UNCHANGED <<accounts, free, uncounted, rewarded, signups, sweeps, pricing, payments, disruptions>>

\* AdminPaymentsService.setStatus(id, 'paid')
Release(e) ==
    /\ changes < MaxChanges
    /\ changes' = changes + 1
    /\ held[e] > 0
    /\ held' = [held EXCEPT ![e] = @ - 1]
    /\ paid' = [paid EXCEPT ![e] = @ + 1]
    /\ active' = active \cup {e}
    /\ UNCHANGED <<accounts, free, uncounted, rewarded, signups, sweeps, pricing, payments, disruptions>>

\* Thirty days are over.
Expire(e) ==
    /\ changes < MaxChanges
    /\ changes' = changes + 1
    /\ promo[e].valid
    /\ promo' = [promo EXCEPT ![e].valid = FALSE]
    /\ UNCHANGED <<joined, referrer, granted, volume, rewarded, signups, sweeps, pricing, payments, disruptions>>

-----------------------------------------------------------------------------

Sweep(s) == SweepSelect(s) \/ SweepClaim(s) \/ Grant(s)

Next ==
    \/ \E e \in Emails, code \in Emails \cup {None} : SignupCheck(e, code)
    \/ \E q \in signups : InsertMerchant(q) \/ InsertReferral(q) \/ SignupFails(q)
    \/ \E s \in Sweepers : Sweep(s) \/ SweepFails(s)
    \/ \E r \in Recorders, e \in Emails : Price(r, e)
    \/ \E r \in Recorders, blocked \in BOOLEAN : Insert(r, blocked)
    \/ \E r \in Recorders : Discard(r)
    \/ \E e \in Emails : Hold(e) \/ Release(e) \/ Expire(e)

\* @Cron('*/5 * * * *') runs for ever, and a sweep goes on.
Fairness == \A s \in Sweepers : WF_vars(Sweep(s))

Spec     == Init /\ [][Next]_vars
FairSpec == Spec /\ Fairness

-----------------------------------------------------------------------------

Promo == [fee : {0, BaseFee \div 2, BaseFee}, valid : BOOLEAN, capped : BOOLEAN]

\* Every variable has its type.
TypeOK ==
    /\ joined \in [Emails -> Nat]
    /\ promo \in [Emails -> Promo]
    /\ referrer \in [Emails -> Emails \cup {None}]
    /\ granted \in [Emails -> BOOLEAN]
    /\ paid \in [Emails -> Nat] /\ held \in [Emails -> Nat]
    /\ free \in [Emails -> Nat] /\ uncounted \in [Emails -> Nat]
    /\ active \subseteq Emails /\ dropped \subseteq Emails
    /\ rewards \in [Emails -> Nat]
    /\ signups \subseteq SignupRequest
    /\ sweeping \in [Sweepers -> {"idle", "claiming", "granting"}]
    /\ seen \in [Sweepers -> SUBSET Emails]
    /\ pricing \in [Recorders -> [merchant : Emails \cup {None},
                                  fee : {0, BaseFee \div 2, BaseFee}, trial : BOOLEAN]]
    /\ payments \in 0..MaxPayments /\ changes \in 0..MaxChanges
    /\ disruptions \in 0..MaxDisruptions

\* "A merchant can be referred at most once", by one that was there before:
\* however sign-ups race, no chain of referrals leads back to its start.
NoReferralCycle ==
    \A e \in Emails : referrer[e] # None => joined[referrer[e]] \in 1..(joined[e] - 1)

\* "Triggers only on the referred merchant's real activation (a genuine paid
\* payment), never on mere signup".
RewardAfterActivation == \A e \in Emails : rewards[e] > 0 => e \in active

\* However sweeps overlap and fail, none of them rewards a referral a second
\* time.  That all of them together reward it once is what the code's comment
\* says and does not hold (RewardedOnce).
RewardsBounded == \A e \in Emails : rewards[e] <= Cardinality(Sweepers)

\* The trial is rationed: what a merchant is given at its rate stays below the
\* cap and one payment for each reconciler, but for volume that was held.
TrialRationed ==
    \A e \in Emails : free[e] < TrialCap + Cardinality(Recorders) + uncounted[e]

\* "A merchant can be referred at most once" (db/migrations/014_referrals.up.sql:
\* 5-6): however sign-ups, sweeps and payments race, an account is created once,
\* referred once and for good, and rewards are for active referrals only (see
\* Programme).  The address's uniqueness is what that rests on; the one of
\* referrals.referred_id never has to refuse a row.
P == INSTANCE Programme
ProgrammeKept == P!ProgrammeSpec

\* An active referral is rewarded in the end, unless its payment is held or
\* the sweep that claimed it failed before it wrote the reward.
EventuallyRewarded ==
    \A e \in Emails :
        referrer[e] # None /\ paid[e] > 0 ~> rewards[e] > 0 \/ e \in dropped \/ paid[e] = 0

\* "Two overlapping sweeps can never both grant the same referral's reward
\* twice" (referral-rewards.service.ts:32-33).
RewardedOnce == \A e \in Emails : rewards[e] <= 1

\* "NULL means not yet granted; set exactly once"
\* (db/migrations/015_referral_promos.up.sql:13-14): a referral whose
\* reward_granted_at is set has its reward, in the end.
GrantedIsRewarded == \A e \in Emails : granted[e] ~> rewards[e] > 0
=============================================================================
