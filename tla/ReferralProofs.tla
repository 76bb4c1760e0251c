---------------------------- MODULE ReferralProofs ----------------------------
(***************************************************************************)
(* What TLAPS proves about Referral, for any number of merchants, sign-ups *)
(* under way, sweeps and reconcilers at a time.                            *)
(***************************************************************************)
EXTENDS Referral, FiniteSetTheorems, TLAPS

LEMMA Constants ==
    /\ None \notin Emails /\ Founders \subseteq Emails
    /\ IsFiniteSet(Emails) /\ IsFiniteSet(Recorders) /\ IsFiniteSet(Sweepers)
    /\ BaseFee \in Nat \ {0} /\ TrialCap \in Nat \ {0}
    /\ MaxRequests \in Nat /\ MaxPayments \in Nat /\ MaxChanges \in Nat /\ MaxDisruptions \in Nat
BY ReferralAssumption DEF ReferralAssumption

\* A part of a finite set is finite and not larger.
LEMMA PartSize ==
    ASSUME NEW S, IsFiniteSet(S), NEW T, T \subseteq S
    PROVE  IsFiniteSet(T) /\ Cardinality(T) \in Nat /\ Cardinality(T) <= Cardinality(S)
BY FS_Subset, FS_CardinalityType

\* One payment more, or one less, on a merchant's account.
LEMMA OneMore ==
    ASSUME NEW f \in [Emails -> Nat], NEW e \in Emails
    PROVE  [f EXCEPT ![e] = @ + 1] \in [Emails -> Nat]
OBVIOUS

LEMMA OneLess ==
    ASSUME NEW f \in [Emails -> Nat], NEW e \in Emails, f[e] > 0
    PROVE  [f EXCEPT ![e] = @ - 1] \in [Emails -> Nat]
<1>1. f[e] \in Nat /\ f[e] - 1 \in Nat
    OBVIOUS
<1>2. QED
    BY <1>1

LEMMA RanksType == Ranks \in Nat
BY Constants, PartSize DEF Ranks

-----------------------------------------------------------------------------
(* Type correctness.                                                        *)

LEMMA PromosTyped == NoPromo \in Promo /\ Trial \in Promo /\ Reward \in Promo
BY DEF NoPromo, Trial, Reward, Promo

LEMMA InitType == Init => TypeOK
<1> SUFFICES ASSUME Init PROVE TypeOK
    OBVIOUS
<1>1. promo \in [Emails -> Promo]
    BY PromosTyped DEF Init
<1>2. pricing \in [Recorders -> [merchant : Emails \cup {None},
                                 fee : {0, BaseFee \div 2, BaseFee}, trial : BOOLEAN]]
    BY DEF Init, NoPayment
<1>3. payments \in 0..MaxPayments /\ changes \in 0..MaxChanges /\ disruptions \in 0..MaxDisruptions
    BY Constants DEF Init
<1>4. QED
    BY <1>1, <1>2, <1>3 DEF Init, TypeOK

LEMMA EnrollType ==
    ASSUME TypeOK, NEW q \in signups, Enroll(q)
    PROVE  joined' \in [Emails -> Nat] /\ promo' \in [Emails -> Promo] /\ signups' \subseteq SignupRequest
<1>1. q \in SignupRequest
    BY DEF TypeOK
<1>2. [q EXCEPT !.state = "inserted"] \in SignupRequest
    BY <1>1 DEF SignupRequest
<1>3. signups' \subseteq SignupRequest
    BY <1>2 DEF Enroll, TypeOK
<1>4. joined \in [Emails -> Nat] /\ promo \in [Emails -> Promo]
    BY DEF TypeOK
<1>5. joined' = [joined EXCEPT ![q.email] = Ranks + 1] /\ Ranks + 1 \in Nat
    BY RanksType DEF Enroll
<1>6. PICK p \in Promo : promo' = [promo EXCEPT ![q.email] = p]
    BY PromosTyped DEF Enroll
<1>7. QED
    BY <1>3, <1>4, <1>5, <1>6

LEMMA DisruptType ==
    ASSUME disruptions \in 0..MaxDisruptions, Disrupt
    PROVE  disruptions' \in 0..MaxDisruptions
BY Constants DEF Disrupt

LEMMA TypeStep == TypeOK /\ [Next]_vars => TypeOK'
<1> SUFFICES ASSUME TypeOK, [Next]_vars PROVE TypeOK'
    OBVIOUS
<1> USE DEF accounts, volume, rewarded, sweeps, counters
<1>1. ASSUME NEW e \in Emails, NEW code \in Emails \cup {None}, SignupCheck(e, code) PROVE TypeOK'
    <2>1. signups' \subseteq SignupRequest
        BY <1>1 DEF SignupCheck, TypeOK, SignupRequest
    <2>2. QED
        BY <1>1, <2>1 DEF SignupCheck, TypeOK
<1>2. ASSUME NEW q \in signups, InsertMerchant(q) PROVE TypeOK'
    <2>1. joined' \in [Emails -> Nat] /\ promo' \in [Emails -> Promo] /\ signups' \subseteq SignupRequest
        BY <1>2, EnrollType DEF InsertMerchant, TypeOK
    <2>2. QED
        BY <1>2, <2>1 DEF InsertMerchant, TypeOK
<1>3. ASSUME NEW q \in signups, InsertReferral(q) \/ SignupFails(q) PROVE TypeOK'
    <2>1. q \in SignupRequest
        BY DEF TypeOK
    <2>2. referrer' \in [Emails -> Emails \cup {None}] /\ signups' \subseteq SignupRequest
        BY <1>3, <2>1 DEF InsertReferral, SignupFails, TypeOK, SignupRequest
    <2>3. disruptions' \in 0..MaxDisruptions
        BY <1>3, DisruptType DEF InsertReferral, SignupFails, TypeOK
    <2>4. QED
        BY <1>3, <2>2, <2>3 DEF InsertReferral, SignupFails, TypeOK
<1>4. ASSUME NEW s \in Sweepers, SweepSelect(s) \/ SweepClaim(s) PROVE TypeOK'
    BY <1>4 DEF SweepSelect, SweepClaim, Due, TypeOK
<1>5. ASSUME NEW s \in Sweepers, Grant(s) PROVE TypeOK'
    <2>1. promo' \in [Emails -> Promo] /\ rewards' \in [Emails -> Nat]
        <3>1. PICK e \in seen[s] :
                 /\ promo' = [promo EXCEPT ![referrer[e]] = Reward]
                 /\ rewards' = [rewards EXCEPT ![e] = @ + 1]
            BY <1>5 DEF Grant
        <3>2. promo \in [Emails -> Promo] /\ rewards \in [Emails -> Nat] /\ e \in Emails
            BY DEF TypeOK
        <3>3. rewards' \in [Emails -> Nat]
            BY <3>1, <3>2, OneMore
        <3>4. promo' \in [Emails -> Promo]
            BY <3>1, <3>2, PromosTyped
        <3>5. QED
            BY <3>3, <3>4
    <2>2. seen' \in [Sweepers -> SUBSET Emails]
        BY <1>5 DEF Grant, TypeOK
    <2>3. sweeping' \in [Sweepers -> {"idle", "claiming", "granting"}]
        BY <1>5 DEF Grant, TypeOK
    <2>4. QED
        BY <1>5, <2>1, <2>2, <2>3 DEF Grant, TypeOK
<1>6. ASSUME NEW s \in Sweepers, SweepFails(s) PROVE TypeOK'
    <2>1. disruptions' \in 0..MaxDisruptions
        BY <1>6, DisruptType DEF SweepFails, TypeOK
    <2>2. QED
        BY <1>6, <2>1 DEF SweepFails, TypeOK
<1>7. ASSUME NEW r \in Recorders, NEW e \in Emails, Price(r, e) PROVE TypeOK'
    <2>1. payments' \in 0..MaxPayments
        BY <1>7, Constants DEF Price, TypeOK
    <2>2. promo[e].fee \in {0, BaseFee \div 2, BaseFee} /\ promo[e].capped \in BOOLEAN
        BY DEF TypeOK, Promo
    <2>3. (PromoApplies(e) /\ promo[e].capped) \in BOOLEAN
        OBVIOUS
    <2>4. pricing' \in [Recorders -> [merchant : Emails \cup {None},
                                      fee : {0, BaseFee \div 2, BaseFee}, trial : BOOLEAN]]
        BY <1>7, <2>2, <2>3 DEF Price, TypeOK
    <2>5. QED
        BY <1>7, <2>1, <2>4 DEF Price, TypeOK
<1>8. ASSUME NEW r \in Recorders, NEW blocked \in BOOLEAN, Insert(r, blocked) PROVE TypeOK'
    <2>1. pricing[r].merchant \in Emails
        <3>1. pricing[r].merchant \in Emails \cup {None}
            BY DEF TypeOK
        <3>2. QED
            BY <1>8, <3>1 DEF Insert
    <2>2. /\ held' \in [Emails -> Nat] /\ paid' \in [Emails -> Nat] /\ uncounted' \in [Emails -> Nat]
          /\ active' \subseteq Emails
        <3>1. CASE blocked
            <4>1. /\ held' = [held EXCEPT ![pricing[r].merchant] = @ + 1]
                  /\ uncounted' = [uncounted EXCEPT ![pricing[r].merchant] = @ + 1]
                  /\ paid' = paid /\ active' = active
                BY <1>8, <3>1 DEF Insert
            <4>2. QED
                BY <2>1, <4>1, OneMore DEF TypeOK
        <3>2. CASE ~blocked
            <4>1. /\ paid' = [paid EXCEPT ![pricing[r].merchant] = @ + 1]
                  /\ active' = active \cup {pricing[r].merchant}
                  /\ held' = held /\ uncounted' = uncounted
                BY <1>8, <3>2 DEF Insert
            <4>2. QED
                BY <2>1, <4>1, OneMore DEF TypeOK
        <3>3. QED
            BY <3>1, <3>2
    <2>3. free' \in [Emails -> Nat]
        BY <1>8, <2>1, OneMore DEF Insert, TypeOK
    <2>4. pricing' \in [Recorders -> [merchant : Emails \cup {None},
                                      fee : {0, BaseFee \div 2, BaseFee}, trial : BOOLEAN]]
        BY <1>8 DEF Insert, TypeOK, NoPayment
    <2>5. QED
        BY <1>8, <2>2, <2>3, <2>4 DEF Insert, TypeOK
<1>9. ASSUME NEW e \in Emails, Hold(e) \/ Release(e) PROVE TypeOK'
    <2>1. /\ held' \in [Emails -> Nat] /\ paid' \in [Emails -> Nat] /\ uncounted' \in [Emails -> Nat]
          /\ active' \subseteq Emails
        <3>1. /\ held \in [Emails -> Nat] /\ paid \in [Emails -> Nat] /\ uncounted \in [Emails -> Nat]
              /\ active \subseteq Emails
            BY DEF TypeOK
        <3>2. CASE Hold(e)
            BY <3>1, <3>2, OneMore, OneLess DEF Hold
        <3>3. CASE Release(e)
            BY <3>1, <3>3, OneMore, OneLess DEF Release
        <3>4. QED
            BY <1>9, <3>2, <3>3
    <2>2. changes' \in 0..MaxChanges
        BY <1>9, Constants DEF Hold, Release, TypeOK
    <2>3. QED
        BY <1>9, <2>1, <2>2 DEF Hold, Release, TypeOK
<1>10. ASSUME NEW e \in Emails, Expire(e) PROVE TypeOK'
    <2>1. promo' \in [Emails -> Promo]
        <3>1. promo \in [Emails -> Promo] /\ promo' = [promo EXCEPT ![e] = [promo[e] EXCEPT !.valid = FALSE]]
            BY <1>10 DEF Expire, TypeOK
        <3>2. [promo[e] EXCEPT !.valid = FALSE] \in Promo
            BY <3>1 DEF Promo
        <3>3. QED
            BY <3>1, <3>2
    <2>2. changes' \in 0..MaxChanges
        BY <1>10, Constants DEF Expire, TypeOK
    <2>3. QED
        BY <1>10, <2>1, <2>2 DEF Expire, TypeOK
<1>11. ASSUME NEW r \in Recorders, Discard(r) PROVE TypeOK'
    BY <1>11 DEF Discard, TypeOK, NoPayment
<1>12. CASE UNCHANGED vars
    BY <1>12 DEF vars, TypeOK
<1>13. QED
    BY <1>1, <1>2, <1>3, <1>4, <1>5, <1>6, <1>7, <1>8, <1>9, <1>10, <1>11, <1>12 DEF Next, Sweep

\* Every variable keeps its type.
THEOREM ReferralTypeCorrect == Spec => []TypeOK
BY InitType, TypeStep, PTL DEF Spec

-----------------------------------------------------------------------------
(* Referrals follow the order of the accounts.  The referrer a request       *)
(* looked up has an account already; the new one gets a later rank.          *)

OldestFirst == \A e \in Emails : joined[e] <= Ranks

KnownCode ==
    \A q \in signups :
        /\ q.code # None => joined[q.code] > 0
        /\ q.state = "inserted" => q.code # None /\ joined[q.code] < joined[q.email]

OrderInv == OldestFirst /\ KnownCode /\ NoReferralCycle

LEMMA InitOrder == Init => OrderInv
<1> SUFFICES ASSUME Init PROVE OrderInv
    OBVIOUS
<1>1. ASSUME NEW e \in Emails PROVE joined[e] <= Ranks
    <2>1. CASE e \in Founders
        <3> DEFINE There == {x \in Emails : joined[x] > 0}
        <3>1. IsFiniteSet(There) /\ e \in There /\ joined[e] = 1
            <4>1. joined[e] = 1
                BY <2>1 DEF Init
            <4>2. There \subseteq Emails /\ IsFiniteSet(Emails)
                BY Constants
            <4>3. IsFiniteSet(There)
                BY <4>2, PartSize
            <4>4. QED
                BY <4>1, <4>3
        <3>2. Ranks = Cardinality(There) /\ Ranks \in Nat
            BY RanksType DEF Ranks
        <3>3. There # {}
            BY <3>1
        <3>4. Cardinality(There) # 0
            BY <3>1, <3>3, FS_EmptySet
        <3>5. QED
            BY <3>1, <3>2, <3>4
    <2>2. CASE e \notin Founders
        BY <2>2, RanksType DEF Init
    <2>3. QED
        BY <2>1, <2>2
<1>2. QED
    BY <1>1 DEF Init, OrderInv, OldestFirst, KnownCode, NoReferralCycle

\* A new account is younger than all others.
LEMMA EnrollRank ==
    ASSUME TypeOK, OldestFirst, NEW q \in signups, joined[q.email] = 0, Enroll(q)
    PROVE  /\ OldestFirst'
           /\ joined'[q.email] = Ranks + 1
           /\ \A e \in Emails : joined[e] < joined'[q.email] /\ (e # q.email => joined'[e] = joined[e])
<1> DEFINE There == {x \in Emails : joined[x] > 0}
<1>1. q.email \in Emails /\ joined \in [Emails -> Nat]
    BY DEF TypeOK, SignupRequest
<1>2. joined' = [joined EXCEPT ![q.email] = Ranks + 1] /\ Ranks \in Nat
    BY RanksType DEF Enroll
<1>3. {x \in Emails : joined'[x] > 0} = There \cup {q.email}
    BY <1>1, <1>2
<1>4. IsFiniteSet(There) /\ q.email \notin There
    BY Constants, PartSize
<1>5. Cardinality(There \cup {q.email}) = Cardinality(There) + 1
    BY <1>4, FS_AddElement
<1>6. Ranks' = Ranks + 1
    BY <1>3, <1>5 DEF Ranks
<1>7. \A e \in Emails : joined'[e] <= Ranks'
    BY <1>1, <1>2, <1>6 DEF OldestFirst
<1>8. QED
    BY <1>1, <1>2, <1>7 DEF OldestFirst

LEMMA OrderStep == TypeOK /\ OrderInv /\ [Next]_vars => OrderInv'
<1> SUFFICES ASSUME TypeOK, OrderInv, [Next]_vars PROVE OrderInv'
    OBVIOUS
<1>0. /\ signups \subseteq SignupRequest /\ joined \in [Emails -> Nat]
      /\ referrer \in [Emails -> Emails \cup {None}] /\ None \notin Emails
    BY Constants DEF TypeOK
<1> USE DEF accounts, volume, rewarded, sweeps, counters
<1>1. ASSUME NEW e \in Emails, NEW code \in Emails \cup {None}, SignupCheck(e, code) PROVE OrderInv'
    <2>1. joined' = joined /\ referrer' = referrer
        BY <1>1 DEF SignupCheck
    <2>2. KnownCode'
        BY <1>1, <2>1 DEF SignupCheck, OrderInv, KnownCode
    <2>3. QED
        BY <2>1, <2>2 DEF OrderInv, OldestFirst, Ranks, NoReferralCycle
<1>2. ASSUME NEW q \in signups, InsertMerchant(q) PROVE OrderInv'
    <2>1. CASE joined[q.email] = 0
        <3>1. Enroll(q) /\ referrer' = referrer
            BY <1>2, <2>1 DEF InsertMerchant
        <3>2. /\ OldestFirst'
              /\ \A e \in Emails : joined[e] < joined'[q.email] /\ (e # q.email => joined'[e] = joined[e])
            BY <2>1, <3>1, EnrollRank DEF OrderInv
        <3>3. \A e \in Emails : joined'[e] \in Nat /\ joined[e] <= joined'[e]
            BY <1>0, <3>2, TypeStep DEF TypeOK
        <3>4. ASSUME NEW p \in signups' PROVE /\ p.code # None => joined'[p.code] > 0
                                              /\ p.state = "inserted" => p.code # None /\ joined'[p.code] < joined'[p.email]
            <4>1. CASE p \in signups
                <5>1. p.email \in Emails /\ p.code \in Emails \cup {None}
                    BY <1>0, <4>1 DEF SignupRequest
                <5>2. p.code # None => joined[p.code] > 0 /\ joined'[p.code] > 0
                    BY <1>0, <3>3, <4>1, <5>1 DEF OrderInv, KnownCode
                <5>3. ASSUME p.state = "inserted" PROVE p.code # None /\ joined'[p.code] < joined'[p.email]
                    <6>1. p.code # None /\ joined[p.code] < joined[p.email]
                        BY <4>1, <5>3 DEF OrderInv, KnownCode
                    <6>2. p.code # q.email /\ p.email # q.email
                        BY <1>0, <2>1, <5>1, <5>2, <6>1
                    <6>3. QED
                        BY <3>2, <5>1, <6>1, <6>2
                <5>4. QED
                    BY <5>2, <5>3
            <4>2. CASE p \notin signups
                <5>1. p = [q EXCEPT !.state = "inserted"] /\ q.code # None
                    BY <3>1, <4>2 DEF Enroll
                <5>2. p.code = q.code /\ p.email = q.email /\ q.email \in Emails /\ q.code \in Emails
                    BY <1>0, <5>1 DEF SignupRequest
                <5>3. joined[q.code] > 0
                    BY <5>1 DEF OrderInv, KnownCode
                <5>4. q.code # q.email
                    BY <2>1, <5>3
                <5>5. QED
                    BY <3>2, <5>1, <5>2, <5>3, <5>4
            <4>3. QED
                BY <4>1, <4>2
        <3>5. ASSUME NEW e \in Emails, referrer[e] # None PROVE joined'[referrer[e]] \in 1..(joined'[e] - 1)
            <4>1. joined[referrer[e]] \in 1..(joined[e] - 1) /\ referrer[e] \in Emails
                BY <1>0, <3>5 DEF OrderInv, NoReferralCycle
            <4>2. e # q.email /\ referrer[e] # q.email
                BY <1>0, <2>1, <4>1
            <4>3. QED
                BY <3>2, <4>1, <4>2
        <3>6. QED
            BY <3>1, <3>2, <3>4, <3>5 DEF OrderInv, KnownCode, NoReferralCycle
    <2>2. CASE joined[q.email] # 0
        <3>1. q.email \in Emails
            BY <1>0 DEF SignupRequest
        <3>2. joined' = joined /\ referrer' = referrer /\ signups' = signups \ {q}
            BY <1>2, <2>2 DEF InsertMerchant
        <3>3. QED
            BY <3>2 DEF OrderInv, OldestFirst, Ranks, KnownCode, NoReferralCycle
    <2>3. QED
        BY <2>1, <2>2
<1>3. ASSUME NEW q \in signups, InsertReferral(q) PROVE OrderInv'
    <2>1. joined' = joined /\ signups' = signups \ {q} /\ referrer' = [referrer EXCEPT ![q.email] = q.code]
        BY <1>3 DEF InsertReferral
    <2>2. q.code # None /\ joined[q.code] > 0 /\ joined[q.code] < joined[q.email]
        BY <1>3 DEF InsertReferral, OrderInv, KnownCode
    <2>3. q.email \in Emails /\ q.code \in Emails
        BY <1>0, <2>2 DEF SignupRequest
    <2>4. joined[q.code] \in 1..(joined[q.email] - 1)
        BY <1>0, <2>2, <2>3
    <2>5. NoReferralCycle'
        BY <1>0, <2>1, <2>3, <2>4 DEF OrderInv, NoReferralCycle
    <2>6. QED
        BY <2>1, <2>5 DEF OrderInv, OldestFirst, Ranks, KnownCode
<1>4. ASSUME NEW q \in signups, SignupFails(q) PROVE OrderInv'
    BY <1>4 DEF SignupFails, OrderInv, OldestFirst, Ranks, KnownCode, NoReferralCycle
<1>5. CASE UNCHANGED <<joined, referrer, signups>>
    BY <1>5 DEF OrderInv, OldestFirst, Ranks, KnownCode, NoReferralCycle
<1>6. QED
    BY <1>1, <1>2, <1>3, <1>4, <1>5
       DEF Next, Sweep, vars, SweepSelect, SweepClaim, Grant, SweepFails, Price, Insert, Discard, Hold, Release, Expire

\* However sign-ups race and fail, referrals lead from younger accounts to
\* older ones and never in a circle.
THEOREM ReferralsAreOrdered == Spec => []NoReferralCycle
<1>1. OrderInv => NoReferralCycle
    BY DEF OrderInv
<1>2. QED
    BY <1>1, InitType, TypeStep, InitOrder, OrderStep, PTL DEF Spec

-----------------------------------------------------------------------------
(* Rewards.  A sweep that holds a referral may still reward it once; a        *)
(* referral is only selected while nobody has claimed it.                     *)

Holders(e) == {s \in Sweepers : e \in seen[s]}

PaidIsActive == \A e \in Emails : paid[e] > 0 \/ rewards[e] > 0 => e \in active

SeenIsActive == \A s \in Sweepers : seen[s] \subseteq active

ClaimedFirst ==
    /\ \A s \in Sweepers : sweeping[s] = "granting" => \A e \in seen[s] : granted[e]
    /\ \A e \in Emails : ~granted[e] => rewards[e] = 0

OneEach == \A e \in Emails : rewards[e] + Cardinality(Holders(e)) <= Cardinality(Sweepers)

RewardInv == PaidIsActive /\ SeenIsActive /\ ClaimedFirst /\ OneEach

LEMMA HoldersSize ==
    ASSUME NEW e \in Emails
    PROVE  /\ IsFiniteSet(Holders(e)) /\ Cardinality(Holders(e)) \in Nat
           /\ Cardinality(Sweepers) \in Nat /\ Cardinality(Holders(e)) <= Cardinality(Sweepers)
<1>1. Holders(e) \subseteq Sweepers
    BY DEF Holders
<1>2. QED
    BY <1>1, Constants, PartSize, FS_CardinalityType

LEMMA InitReward == Init => RewardInv
<1> SUFFICES ASSUME Init PROVE RewardInv
    OBVIOUS
<1>1. ASSUME NEW e \in Emails PROVE rewards[e] + Cardinality(Holders(e)) <= Cardinality(Sweepers)
    BY HoldersSize DEF Init
<1>2. QED
    BY <1>1 DEF Init, RewardInv, PaidIsActive, SeenIsActive, ClaimedFirst, OneEach

\* A sweep that lets go of referrals without a reward.
LEMMA FewerHolders ==
    ASSUME TypeOK, OneEach, rewards' = rewards, NEW s \in Sweepers, NEW T \in SUBSET seen[s],
           seen' = [seen EXCEPT ![s] = T]
    PROVE  OneEach'
<1>1. ASSUME NEW e \in Emails PROVE rewards'[e] + Cardinality(Holders(e)') <= Cardinality(Sweepers)
    <2>1. Holders(e)' \subseteq Holders(e)
        BY DEF Holders, TypeOK
    <2>2. Cardinality(Holders(e)') \in Nat /\ Cardinality(Holders(e)') <= Cardinality(Holders(e))
        BY <2>1, HoldersSize, PartSize
    <2>3. rewards'[e] = rewards[e] /\ rewards[e] \in Nat
        BY DEF TypeOK
    <2>4. QED
        BY <2>2, <2>3, HoldersSize DEF OneEach
<1>2. QED
    BY <1>1 DEF OneEach

LEMMA RewardStep == TypeOK /\ RewardInv /\ [Next]_vars => RewardInv'
<1> SUFFICES ASSUME TypeOK, RewardInv, [Next]_vars PROVE RewardInv'
    OBVIOUS
<1>0. /\ seen \in [Sweepers -> SUBSET Emails] /\ granted \in [Emails -> BOOLEAN]
      /\ sweeping \in [Sweepers -> {"idle", "claiming", "granting"}]
      /\ rewards \in [Emails -> Nat] /\ paid \in [Emails -> Nat] /\ active \subseteq Emails
    BY DEF TypeOK
<1> USE DEF accounts, volume, rewarded, sweeps, counters
<1>1. ASSUME NEW s \in Sweepers, SweepSelect(s) PROVE RewardInv'
    <2>1. /\ seen' = [seen EXCEPT ![s] = Due] /\ sweeping' = [sweeping EXCEPT ![s] = "claiming"]
          /\ rewards' = rewards /\ granted' = granted /\ paid' = paid /\ active' = active
        BY <1>1 DEF SweepSelect
    <2>2. Due \subseteq active /\ \A e \in Due : ~granted[e] /\ rewards[e] = 0
        BY DEF Due, RewardInv, PaidIsActive, ClaimedFirst
    <2>3. SeenIsActive'
        BY <1>0, <2>1, <2>2 DEF RewardInv, SeenIsActive
    <2>4. ClaimedFirst'
        BY <1>0, <2>1 DEF RewardInv, ClaimedFirst
    <2>5. ASSUME NEW e \in Emails PROVE rewards'[e] + Cardinality(Holders(e)') <= Cardinality(Sweepers)
        <3>1. CASE e \in Due
            <4>1. Holders(e)' \subseteq Sweepers
                BY DEF Holders
            <4>2. Cardinality(Holders(e)') \in Nat /\ Cardinality(Holders(e)') <= Cardinality(Sweepers)
                BY <4>1, Constants, PartSize
            <4>3. QED
                BY <2>1, <2>2, <3>1, <4>2, HoldersSize
        <3>2. CASE e \notin Due
            <4>1. Holders(e)' \subseteq Holders(e)
                BY <1>0, <2>1, <3>2 DEF Holders
            <4>2. Cardinality(Holders(e)') \in Nat /\ Cardinality(Holders(e)') <= Cardinality(Holders(e))
                BY <4>1, HoldersSize, PartSize
            <4>3. QED
                BY <1>0, <2>1, <4>2, HoldersSize DEF RewardInv, OneEach
        <3>3. QED
            BY <3>1, <3>2
    <2>6. QED
        BY <2>1, <2>3, <2>4, <2>5 DEF RewardInv, PaidIsActive, OneEach
<1>2. ASSUME NEW s \in Sweepers, SweepClaim(s) PROVE RewardInv'
    <2>1. /\ seen' = seen /\ sweeping' = [sweeping EXCEPT ![s] = "granting"]
          /\ rewards' = rewards /\ paid' = paid /\ active' = active
          /\ granted' = [e \in Emails |-> granted[e] \/ e \in seen[s]]
        BY <1>2 DEF SweepClaim
    <2>2. ASSUME NEW z \in Sweepers, sweeping'[z] = "granting", NEW e \in seen[z] PROVE granted'[e]
        <3>1. e \in Emails /\ (z # s => sweeping[z] = "granting")
            BY <1>0, <2>1, <2>2
        <3>2. QED
            BY <2>1, <3>1 DEF RewardInv, ClaimedFirst
    <2>3. ASSUME NEW e \in Emails, ~granted'[e] PROVE rewards'[e] = 0
        BY <2>1, <2>3 DEF RewardInv, ClaimedFirst
    <2>4. QED
        BY <2>1, <2>2, <2>3 DEF RewardInv, PaidIsActive, SeenIsActive, ClaimedFirst, OneEach, Holders
<1>3. ASSUME NEW s \in Sweepers, Grant(s) PROVE RewardInv'
    <2>1. PICK d \in seen[s] :
             /\ rewards' = [rewards EXCEPT ![d] = @ + 1]
             /\ seen' = [seen EXCEPT ![s] = @ \ {d}]
             /\ sweeping' = [sweeping EXCEPT ![s] = IF seen[s] = {d} THEN "idle" ELSE @]
        BY <1>3 DEF Grant
    <2>2. /\ sweeping[s] = "granting" /\ granted' = granted /\ paid' = paid /\ active' = active
          /\ d \in Emails /\ granted[d] /\ d \in active
        BY <1>0, <1>3 DEF Grant, RewardInv, ClaimedFirst, SeenIsActive
    <2>3. PaidIsActive'
        BY <1>0, <2>1, <2>2 DEF RewardInv, PaidIsActive
    <2>4. SeenIsActive'
        BY <1>0, <2>1, <2>2 DEF RewardInv, SeenIsActive
    <2>5. ClaimedFirst'
        <3>1. ASSUME NEW z \in Sweepers, sweeping'[z] = "granting", NEW e \in seen'[z] PROVE granted[e]
            <4>1. e \in seen[z] /\ sweeping[z] = "granting"
                BY <1>0, <2>1, <2>2, <3>1
            <4>2. QED
                BY <4>1 DEF RewardInv, ClaimedFirst
        <3>2. ASSUME NEW e \in Emails, ~granted[e] PROVE rewards'[e] = 0
            BY <1>0, <2>1, <2>2, <3>2 DEF RewardInv, ClaimedFirst
        <3>3. QED
            BY <2>2, <3>1, <3>2 DEF ClaimedFirst
    <2>6. ASSUME NEW e \in Emails PROVE rewards'[e] + Cardinality(Holders(e)') <= Cardinality(Sweepers)
        <3>1. CASE e = d
            <4>1. Holders(e)' = Holders(e) \ {s} /\ s \in Holders(e)
                BY <1>0, <2>1, <3>1 DEF Holders
            <4>2. Cardinality(Holders(e)') = Cardinality(Holders(e)) - 1
                BY <4>1, HoldersSize, FS_RemoveElement
            <4>3. rewards'[e] = rewards[e] + 1 /\ rewards[e] \in Nat
                BY <1>0, <2>1, <2>2, <3>1
            <4>4. QED
                BY <4>2, <4>3, HoldersSize DEF RewardInv, OneEach
        <3>2. CASE e # d
            <4>1. Holders(e)' = Holders(e) /\ rewards'[e] = rewards[e]
                BY <1>0, <2>1, <3>2 DEF Holders
            <4>2. QED
                BY <4>1 DEF RewardInv, OneEach
        <3>3. QED
            BY <3>1, <3>2
    <2>7. QED
        BY <2>3, <2>4, <2>5, <2>6 DEF RewardInv, OneEach
<1>4. ASSUME NEW s \in Sweepers, SweepFails(s) PROVE RewardInv'
    <2>1. /\ seen' = [seen EXCEPT ![s] = {}] /\ sweeping' = [sweeping EXCEPT ![s] = "idle"]
          /\ rewards' = rewards /\ granted' = granted /\ paid' = paid /\ active' = active
        BY <1>4 DEF SweepFails
    <2>2. OneEach'
        BY <2>1, FewerHolders DEF RewardInv
    <2>3. SeenIsActive'
        BY <1>0, <2>1 DEF RewardInv, SeenIsActive
    <2>4. ClaimedFirst'
        BY <1>0, <2>1 DEF RewardInv, ClaimedFirst
    <2>5. QED
        BY <2>1, <2>2, <2>3, <2>4 DEF RewardInv, PaidIsActive
<1>5. ASSUME UNCHANGED <<seen, sweeping, rewards, granted>>, active \subseteq active', PaidIsActive'
      PROVE  RewardInv'
    BY <1>5 DEF RewardInv, SeenIsActive, ClaimedFirst, OneEach, Holders
<1>6. ASSUME NEW r \in Recorders, NEW blocked \in BOOLEAN, Insert(r, blocked) PROVE RewardInv'
    <2>1. /\ UNCHANGED <<seen, sweeping, rewards, granted>>
          /\ \/ paid' = paid /\ active' = active
             \/ /\ paid' = [paid EXCEPT ![pricing[r].merchant] = @ + 1]
                /\ active' = active \cup {pricing[r].merchant}
        BY <1>6 DEF Insert
    <2>2. PaidIsActive'
        BY <1>0, <2>1 DEF RewardInv, PaidIsActive
    <2>3. QED
        BY <1>5, <2>1, <2>2
<1>7. ASSUME NEW e \in Emails, Hold(e) \/ Release(e) PROVE RewardInv'
    <2>1. /\ UNCHANGED <<seen, sweeping, rewards, granted>>
          /\ \/ paid' = [paid EXCEPT ![e] = @ - 1] /\ active' = active /\ paid[e] > 0
             \/ paid' = [paid EXCEPT ![e] = @ + 1] /\ active' = active \cup {e}
        BY <1>7 DEF Hold, Release
    <2>2. PaidIsActive'
        BY <1>0, <2>1 DEF RewardInv, PaidIsActive
    <2>3. QED
        BY <1>5, <2>1, <2>2
<1>8. CASE UNCHANGED <<seen, sweeping, rewards, granted, paid, active>>
    <2>1. PaidIsActive'
        BY <1>8 DEF RewardInv, PaidIsActive
    <2>2. QED
        BY <1>5, <1>8, <2>1
<1>9. QED
    BY <1>1, <1>2, <1>3, <1>4, <1>6, <1>7, <1>8
       DEF Next, Sweep, vars, SignupCheck, InsertMerchant, Enroll, InsertReferral, SignupFails, Price, Discard, Expire

LEMMA RewardInvariant == Spec => []RewardInv
BY InitType, TypeStep, InitReward, RewardStep, PTL DEF Spec

\* Signing up alone never earns a reward.
THEOREM RewardsAreEarned == Spec => []RewardAfterActivation
<1>1. RewardInv => RewardAfterActivation
    BY DEF RewardInv, PaidIsActive, RewardAfterActivation
<1>2. QED
    BY <1>1, RewardInvariant, PTL

\* However sweeps overlap and fail, a referral is rewarded at most once by each.
THEOREM RewardsAreBounded == Spec => []RewardsBounded
<1>1. TypeOK /\ RewardInv => RewardsBounded
    <2> SUFFICES ASSUME TypeOK, RewardInv, NEW e \in Emails PROVE rewards[e] <= Cardinality(Sweepers)
        BY DEF RewardsBounded
    <2>1. rewards[e] \in Nat
        BY DEF TypeOK
    <2>2. QED
        BY <2>1, HoldersSize DEF RewardInv, OneEach
<1>2. QED
    BY <1>1, RewardInvariant, ReferralTypeCorrect, PTL

-----------------------------------------------------------------------------
(* The trial's ration.  A price is set at the trial's rate only while the     *)
(* paid volume is below the cap; what is set and not yet inserted is at most  *)
(* one payment for each reconciler.                                           *)

Pending(e) == {r \in Recorders : pricing[r].merchant = e /\ pricing[r].trial}

Counted == \A e \in Emails : free[e] <= paid[e] + held[e] /\ held[e] <= uncounted[e]

Rationed ==
    \A e \in Emails : free[e] + Cardinality(Pending(e)) < TrialCap + Cardinality(Recorders) + uncounted[e]

TrialInv == Counted /\ Rationed

LEMMA PendingSize ==
    ASSUME NEW e \in Emails
    PROVE  /\ IsFiniteSet(Pending(e)) /\ Cardinality(Pending(e)) \in Nat
           /\ Cardinality(Recorders) \in Nat /\ Cardinality(Pending(e)) <= Cardinality(Recorders)
<1>1. Pending(e) \subseteq Recorders
    BY DEF Pending
<1>2. QED
    BY <1>1, Constants, PartSize, FS_CardinalityType

LEMMA InitTrial == Init => TrialInv
<1> SUFFICES ASSUME Init PROVE TrialInv
    OBVIOUS
<1>1. ASSUME NEW e \in Emails
      PROVE  free[e] + Cardinality(Pending(e)) < TrialCap + Cardinality(Recorders) + uncounted[e]
    BY PendingSize, Constants DEF Init
<1>2. QED
    BY <1>1 DEF Init, TrialInv, Counted, Rationed

LEMMA TrialStep == TypeOK /\ TrialInv /\ [Next]_vars => TrialInv'
<1> SUFFICES ASSUME TypeOK, TrialInv, [Next]_vars PROVE TrialInv'
    OBVIOUS
<1>0. /\ paid \in [Emails -> Nat] /\ held \in [Emails -> Nat]
      /\ free \in [Emails -> Nat] /\ uncounted \in [Emails -> Nat]
      /\ pricing \in [Recorders -> [merchant : Emails \cup {None},
                                    fee : {0, BaseFee \div 2, BaseFee}, trial : BOOLEAN]]
      /\ TrialCap \in Nat /\ None \notin Emails
    BY Constants DEF TypeOK
<1> USE DEF accounts, volume, rewarded, sweeps, counters
<1>1. ASSUME NEW r \in Recorders, NEW m \in Emails, Price(r, m) PROVE TrialInv'
    <2>1. /\ UNCHANGED <<paid, held, free, uncounted>> /\ pricing[r].merchant = None
          /\ pricing' = [pricing EXCEPT ![r] =
                 [merchant |-> m,
                  fee |-> IF PromoApplies(m) THEN promo[m].fee ELSE BaseFee,
                  trial |-> PromoApplies(m) /\ promo[m].capped]]
        BY <1>1 DEF Price
    <2>2. pricing'[r].merchant = m /\ pricing'[r].trial = (PromoApplies(m) /\ promo[m].capped)
        BY <1>0, <2>1
    <2>3. \A z \in Recorders \ {r} : pricing'[z] = pricing[z]
        BY <1>0, <2>1
    <2>4. ASSUME NEW e \in Emails
          PROVE  free'[e] + Cardinality(Pending(e)') < TrialCap + Cardinality(Recorders) + uncounted'[e]
        <3>1. CASE e = m /\ PromoApplies(m) /\ promo[m].capped
            <4>1. paid[e] < TrialCap
                BY <3>1 DEF PromoApplies
            <4>2. free[e] <= paid[e] + held[e] /\ held[e] <= uncounted[e]
                BY DEF TrialInv, Counted
            <4>3. Pending(e)' \subseteq Recorders
                BY DEF Pending
            <4>4. Cardinality(Pending(e)') \in Nat /\ Cardinality(Pending(e)') <= Cardinality(Recorders)
                BY <4>3, Constants, PartSize
            <4>5. QED
                BY <1>0, <2>1, <4>1, <4>2, <4>4, PendingSize
        <3>2. CASE ~(e = m /\ PromoApplies(m) /\ promo[m].capped)
            <4>1. Pending(e)' = Pending(e)
                BY <1>0, <2>1, <2>2, <2>3, <3>2 DEF Pending
            <4>2. QED
                BY <2>1, <4>1 DEF TrialInv, Rationed
        <3>3. QED
            BY <3>1, <3>2
    <2>5. QED
        BY <2>1, <2>4 DEF TrialInv, Counted, Rationed
<1>2. ASSUME NEW r \in Recorders, NEW blocked \in BOOLEAN, Insert(r, blocked) PROVE TrialInv'
    <2> DEFINE m == pricing[r].merchant
    <2>1. m \in Emails
        <3>1. m \in Emails \cup {None}
            BY <1>0
        <3>2. QED
            BY <1>2, <3>1 DEF Insert
    <2>2. /\ \/ /\ paid' = paid /\ held' = [held EXCEPT ![m] = @ + 1]
                /\ uncounted' = [uncounted EXCEPT ![m] = @ + 1]
             \/ paid' = [paid EXCEPT ![m] = @ + 1] /\ held' = held /\ uncounted' = uncounted
          /\ free' = IF pricing[r].trial THEN [free EXCEPT ![m] = @ + 1] ELSE free
          /\ pricing' = [pricing EXCEPT ![r] = NoPayment]
        BY <1>2 DEF Insert
    <2>3. Counted'
        BY <1>0, <2>1, <2>2 DEF TrialInv, Counted
    <2>4. pricing'[r].merchant = None /\ \A z \in Recorders \ {r} : pricing'[z] = pricing[z]
        BY <1>0, <2>2 DEF NoPayment
    <2>5. ASSUME NEW e \in Emails
          PROVE  free'[e] + Cardinality(Pending(e)') < TrialCap + Cardinality(Recorders) + uncounted'[e]
        <3>1. uncounted[e] <= uncounted'[e] /\ uncounted'[e] \in Nat
            BY <1>0, <2>1, <2>2
        <3>2. CASE e = m /\ pricing[r].trial
            <4>1. r \in Pending(e) /\ Pending(e)' = Pending(e) \ {r}
                BY <1>0, <2>1, <2>4, <3>2 DEF Pending
            <4>2. Cardinality(Pending(e)') = Cardinality(Pending(e)) - 1
                BY <4>1, PendingSize, FS_RemoveElement
            <4>3. free'[e] = free[e] + 1
                BY <1>0, <2>1, <2>2, <3>2
            <4>4. QED
                BY <1>0, <3>1, <4>2, <4>3, PendingSize DEF TrialInv, Rationed
        <3>3. CASE ~(e = m /\ pricing[r].trial)
            <4>1. Pending(e)' = Pending(e)
                BY <1>0, <2>1, <2>4, <3>3 DEF Pending
            <4>2. free'[e] = free[e]
                BY <1>0, <2>1, <2>2, <3>3
            <4>3. QED
                BY <1>0, <3>1, <4>1, <4>2, PendingSize DEF TrialInv, Rationed
        <3>4. QED
            BY <3>2, <3>3
    <2>6. QED
        BY <2>3, <2>5 DEF TrialInv, Rationed
<1>3. ASSUME NEW m \in Emails, Hold(m) \/ Release(m) PROVE TrialInv'
    <2>1. /\ free' = free /\ pricing' = pricing
          /\ \/ /\ paid' = [paid EXCEPT ![m] = @ - 1] /\ held' = [held EXCEPT ![m] = @ + 1]
                /\ uncounted' = [uncounted EXCEPT ![m] = @ + 1]
             \/ /\ paid' = [paid EXCEPT ![m] = @ + 1] /\ held' = [held EXCEPT ![m] = @ - 1]
                /\ uncounted' = uncounted
        BY <1>3 DEF Hold, Release
    <2>2. Counted'
        BY <1>0, <2>1 DEF TrialInv, Counted
    <2>3. ASSUME NEW e \in Emails
          PROVE  free'[e] + Cardinality(Pending(e)') < TrialCap + Cardinality(Recorders) + uncounted'[e]
        <3>1. uncounted[e] <= uncounted'[e] /\ uncounted'[e] \in Nat
            BY <1>0, <2>1
        <3>2. Pending(e)' = Pending(e) /\ free'[e] = free[e]
            BY <2>1 DEF Pending
        <3>3. QED
            BY <1>0, <3>1, <3>2, PendingSize DEF TrialInv, Rationed
    <2>4. QED
        BY <2>2, <2>3 DEF TrialInv, Rationed
<1>4. ASSUME NEW r \in Recorders, Discard(r) PROVE TrialInv'
    <2>1. UNCHANGED <<paid, held, free, uncounted>> /\ pricing' = [pricing EXCEPT ![r] = NoPayment]
        BY <1>4 DEF Discard
    <2>2. ASSUME NEW e \in Emails
          PROVE  free'[e] + Cardinality(Pending(e)') < TrialCap + Cardinality(Recorders) + uncounted'[e]
        <3>1. Pending(e)' \subseteq Pending(e)
            BY <1>0, <2>1 DEF Pending, NoPayment
        <3>2. Cardinality(Pending(e)') \in Nat /\ Cardinality(Pending(e)') <= Cardinality(Pending(e))
            BY <3>1, PendingSize, PartSize
        <3>3. QED
            BY <1>0, <2>1, <3>2, PendingSize DEF TrialInv, Rationed
    <2>3. QED
        BY <2>1, <2>2 DEF TrialInv, Counted, Rationed
<1>5. CASE UNCHANGED <<paid, held, free, uncounted, pricing>>
    BY <1>5 DEF TrialInv, Counted, Rationed, Pending
<1>6. QED
    BY <1>1, <1>2, <1>3, <1>4, <1>5
       DEF Next, Sweep, vars, SignupCheck, InsertMerchant, Enroll, InsertReferral, SignupFails,
           SweepSelect, SweepClaim, Grant, SweepFails, Expire

\* The trial's rate is given to less than the cap and one payment for each
\* reconciler, but for volume that was held.
THEOREM TrialsAreRationed == Spec => []TrialRationed
<1>1. TypeOK /\ TrialInv => TrialRationed
    <2> SUFFICES ASSUME TypeOK, TrialInv, NEW e \in Emails
                 PROVE  free[e] < TrialCap + Cardinality(Recorders) + uncounted[e]
        BY DEF TrialRationed
    <2>1. free[e] \in Nat /\ uncounted[e] \in Nat /\ TrialCap \in Nat
        BY Constants DEF TypeOK
    <2>2. QED
        BY <2>1, PendingSize DEF TrialInv, Rationed
<1>2. QED
    BY <1>1, InitType, TypeStep, InitTrial, TrialStep, PTL DEF Spec

-----------------------------------------------------------------------------
(* Referral implements Programme.  An account has one request that is about to  *)
(* write its referral, and none once it is written; whatever has a payment, or  *)
(* is about to, has an account.                                                 *)

OneRequest ==
    \A q \in signups : q.state = "inserted" =>
        /\ referrer[q.email] = None
        /\ \A p \in signups : p.state = "inserted" /\ p.email = q.email => p = q

Known(e) == joined[e] > 0

HaveAccounts ==
    /\ \A r \in Recorders : pricing[r].merchant # None => Known(pricing[r].merchant)
    /\ \A e \in Emails : held[e] > 0 \/ paid[e] > 0 => Known(e)

SeenAreReferred == \A s \in Sweepers : \A e \in seen[s] : referrer[e] # None

ProgrammeInv == OneRequest /\ HaveAccounts /\ SeenAreReferred

LEMMA InitProgramme == Init => ProgrammeInv
BY DEF Init, ProgrammeInv, OneRequest, HaveAccounts, SeenAreReferred, NoPayment

\* Accounts stay, and so do referrals.
LEMMA JoinedForGood ==
    ASSUME TypeOK, [Next]_vars
    PROVE  \A e \in Emails : Known(e) => Known(e)'
<1>1. joined \in [Emails -> Nat] /\ signups \subseteq SignupRequest
    BY DEF TypeOK
<1>2. ASSUME NEW q \in signups, InsertMerchant(q) PROVE \A e \in Emails : Known(e) => Known(e)'
    <2>1. joined' = joined \/ (joined' = [joined EXCEPT ![q.email] = Ranks + 1])
        BY <1>2 DEF InsertMerchant, Enroll
    <2>2. QED
        BY <1>1, <2>1, RanksType DEF Known
<1>3. CASE UNCHANGED joined
    BY <1>3 DEF Known
<1>4. QED
    BY <1>2, <1>3
       DEF Next, Sweep, vars, accounts, SignupCheck, InsertReferral, SignupFails, SweepSelect, SweepClaim,
           Grant, SweepFails, Price, Insert, Discard, Hold, Release, Expire

LEMMA OneRequestStep == TypeOK /\ OrderInv /\ OneRequest /\ [Next]_vars => OneRequest'
<1> SUFFICES ASSUME TypeOK, OrderInv, OneRequest, [Next]_vars PROVE OneRequest'
    OBVIOUS
<1>0. /\ signups \subseteq SignupRequest /\ joined \in [Emails -> Nat]
      /\ referrer \in [Emails -> Emails \cup {None}] /\ None \notin Emails
    BY Constants DEF TypeOK
<1> USE DEF accounts, volume, rewarded, sweeps, counters
<1>1. ASSUME referrer' = referrer,
             \A q \in signups' : q.state = "inserted" => q \in signups
      PROVE  OneRequest'
    BY <1>1 DEF OneRequest
<1>2. ASSUME NEW e \in Emails, NEW code \in Emails \cup {None}, SignupCheck(e, code) PROVE OneRequest'
    BY <1>1, <1>2 DEF SignupCheck
<1>3. ASSUME NEW q \in signups, InsertMerchant(q) PROVE OneRequest'
    <2>1. CASE joined[q.email] = 0
        <3> DEFINE now == [q EXCEPT !.state = "inserted"]
        <3>1. referrer' = referrer /\ signups' \subseteq (signups \ {q}) \cup {now}
            BY <1>3, <2>1 DEF InsertMerchant, Enroll
        <3>2. q.email \in Emails /\ now.email = q.email
            BY <1>0 DEF SignupRequest
        <3> HIDE DEF now
        <3>3. referrer[q.email] = None
            BY <1>0, <2>1, <3>2 DEF OrderInv, NoReferralCycle
        <3>4. ASSUME NEW p \in signups, p.state = "inserted" PROVE p.email # q.email
            <4>1. p.code # None /\ joined[p.code] < joined[p.email] /\ p.code \in Emails \cup {None}
                BY <1>0, <3>4 DEF OrderInv, KnownCode, SignupRequest
            <4>2. joined[p.code] \in Nat
                BY <1>0, <4>1
            <4>3. joined[p.email] # 0
                BY <4>1, <4>2
            <4>4. QED
                BY <2>1, <4>3
        <3>5. QED
            BY <3>1, <3>2, <3>3, <3>4 DEF OneRequest
    <2>2. CASE joined[q.email] # 0
        BY <1>1, <1>3, <2>2 DEF InsertMerchant
    <2>3. QED
        BY <2>1, <2>2
<1>4. ASSUME NEW q \in signups, InsertReferral(q) PROVE OneRequest'
    <2>1. /\ q.state = "inserted" /\ q.email \in Emails /\ signups' = signups \ {q}
          /\ referrer' = [referrer EXCEPT ![q.email] = q.code]
        BY <1>0, <1>4 DEF InsertReferral, SignupRequest
    <2>2. \A p \in signups' : p.state = "inserted" => p.email # q.email /\ p.email \in Emails
        BY <1>0, <2>1 DEF OneRequest, SignupRequest
    <2>3. \A p \in signups' : p.state = "inserted" => referrer'[p.email] = referrer[p.email]
        BY <1>0, <2>1, <2>2
    <2>4. QED
        BY <2>1, <2>3 DEF OneRequest
<1>5. ASSUME NEW q \in signups, SignupFails(q) PROVE OneRequest'
    BY <1>1, <1>5 DEF SignupFails
<1>6. CASE UNCHANGED <<referrer, signups>>
    BY <1>1, <1>6
<1>7. QED
    BY <1>2, <1>3, <1>4, <1>5, <1>6
       DEF Next, Sweep, vars, SweepSelect, SweepClaim, Grant, SweepFails, Price, Insert, Discard, Hold,
           Release, Expire

LEMMA HaveAccountsStep == TypeOK /\ HaveAccounts /\ [Next]_vars => HaveAccounts'
<1> SUFFICES ASSUME TypeOK, HaveAccounts, [Next]_vars PROVE HaveAccounts'
    OBVIOUS
<1>0. /\ paid \in [Emails -> Nat] /\ held \in [Emails -> Nat] /\ None \notin Emails
      /\ DOMAIN pricing = Recorders
      /\ \A r \in Recorders : pricing[r].merchant \in Emails \cup {None}
    BY Constants DEF TypeOK
<1>1. \A e \in Emails : Known(e) => Known(e)'
    BY JoinedForGood
<1> USE DEF accounts, volume, rewarded, sweeps, counters
<1>2. ASSUME \A r \in Recorders : pricing'[r] = pricing[r] \/ pricing'[r].merchant = None
                                  \/ Known(pricing[r].merchant)',
             \A e \in Emails : held'[e] > 0 \/ paid'[e] > 0 =>
                                  held[e] > 0 \/ paid[e] > 0 \/ Known(e)
      PROVE  HaveAccounts'
    <2>1. ASSUME NEW r \in Recorders, pricing'[r].merchant # None PROVE Known(pricing[r].merchant)'
        BY <1>0, <1>1, <1>2, <2>1 DEF HaveAccounts
    <2>2. ASSUME NEW e \in Emails, held'[e] > 0 \/ paid'[e] > 0 PROVE Known(e)'
        BY <1>1, <1>2, <2>2 DEF HaveAccounts
    <2>3. QED
        BY <2>1, <2>2 DEF HaveAccounts
<1>3. ASSUME NEW r \in Recorders, NEW e \in Emails, Price(r, e) PROVE HaveAccounts'
    <2>1. UNCHANGED <<held, paid>> /\ Known(e)
        BY <1>3 DEF Price, Known
    <2>2. pricing'[r].merchant = e /\ \A z \in Recorders \ {r} : pricing'[z] = pricing[z]
        BY <1>0, <1>3 DEF Price
    <2>3. QED
        BY <1>1, <1>2, <2>1, <2>2
<1>4. ASSUME NEW r \in Recorders, NEW blocked \in BOOLEAN, Insert(r, blocked) PROVE HaveAccounts'
    <2> DEFINE e == pricing[r].merchant
    <2>1. pricing' = [pricing EXCEPT ![r] = NoPayment] /\ e \in Emails
        BY <1>0, <1>4 DEF Insert
    <2>2. Known(e)
        BY <1>4 DEF Insert, HaveAccounts
    <2>3. \A z \in Recorders : pricing'[z] = pricing[z] \/ pricing'[z].merchant = None
        BY <1>0, <2>1 DEF NoPayment
    <2>4. \A other \in Emails \ {e} : held'[other] = held[other] /\ paid'[other] = paid[other]
        BY <1>0, <1>4 DEF Insert
    <2>5. QED
        BY <1>2, <2>2, <2>3, <2>4
<1>5. ASSUME NEW r \in Recorders, Discard(r) PROVE HaveAccounts'
    <2>1. pricing' = [pricing EXCEPT ![r] = NoPayment] /\ UNCHANGED <<held, paid>>
        BY <1>5 DEF Discard
    <2>2. \A z \in Recorders : pricing'[z] = pricing[z] \/ pricing'[z].merchant = None
        BY <1>0, <2>1 DEF NoPayment
    <2>3. QED
        BY <1>2, <2>1, <2>2
<1>6. ASSUME NEW e \in Emails, Hold(e) \/ Release(e) PROVE HaveAccounts'
    <2>1. pricing' = pricing /\ (held[e] > 0 \/ paid[e] > 0)
        BY <1>6 DEF Hold, Release
    <2>2. \A other \in Emails \ {e} : held'[other] = held[other] /\ paid'[other] = paid[other]
        BY <1>0, <1>6 DEF Hold, Release
    <2>3. QED
        BY <1>2, <2>1, <2>2
<1>7. CASE UNCHANGED <<pricing, held, paid>>
    BY <1>2, <1>7
<1>8. QED
    BY <1>3, <1>4, <1>5, <1>6, <1>7
       DEF Next, Sweep, vars, SignupCheck, InsertMerchant, InsertReferral, SignupFails, SweepSelect,
           SweepClaim, Grant, SweepFails, Expire

LEMMA SeenAreReferredStep == TypeOK /\ OrderInv /\ SeenAreReferred /\ [Next]_vars => SeenAreReferred'
<1> SUFFICES ASSUME TypeOK, OrderInv, SeenAreReferred, [Next]_vars PROVE SeenAreReferred'
    OBVIOUS
<1>0. /\ seen \in [Sweepers -> SUBSET Emails] /\ referrer \in [Emails -> Emails \cup {None}]
      /\ signups \subseteq SignupRequest
    BY DEF TypeOK
<1> USE DEF accounts, volume, rewarded, sweeps, counters
<1>1. ASSUME NEW q \in signups, InsertReferral(q) PROVE SeenAreReferred'
    <2>1. q.state = "inserted" /\ seen' = seen /\ referrer' = [referrer EXCEPT ![q.email] = q.code]
        BY <1>1 DEF InsertReferral
    <2>2. q.code # None
        BY <2>1 DEF OrderInv, KnownCode
    <2>3. QED
        BY <1>0, <2>1, <2>2 DEF SeenAreReferred
<1>2. ASSUME referrer' = referrer,
             \A s \in Sweepers : \A e \in seen'[s] : e \in seen[s] \/ referrer[e] # None
      PROVE  SeenAreReferred'
    BY <1>2 DEF SeenAreReferred
<1>3. ASSUME NEW s \in Sweepers, SweepSelect(s) PROVE SeenAreReferred'
    BY <1>0, <1>2, <1>3 DEF SweepSelect, Due
<1>4. ASSUME NEW s \in Sweepers, Grant(s) \/ SweepFails(s) PROVE SeenAreReferred'
    <2>1. referrer' = referrer
        BY <1>4 DEF Grant, SweepFails
    <2>2. \A z \in Sweepers : seen'[z] \subseteq seen[z]
        BY <1>0, <1>4 DEF Grant, SweepFails
    <2>3. QED
        BY <1>2, <2>1, <2>2
<1>5. CASE UNCHANGED <<referrer, seen>>
    BY <1>2, <1>5
<1>6. QED
    BY <1>1, <1>3, <1>4, <1>5
       DEF Next, Sweep, vars, SignupCheck, InsertMerchant, SignupFails, SweepClaim, Price, Insert, Discard,
           Hold, Release, Expire

LEMMA ProgrammeInvariant == Spec => [](TypeOK /\ OrderInv /\ RewardInv /\ ProgrammeInv)
<1>1. TypeOK /\ OrderInv /\ ProgrammeInv /\ [Next]_vars => ProgrammeInv'
    BY OneRequestStep, HaveAccountsStep, SeenAreReferredStep DEF ProgrammeInv
<1>2. QED
    BY <1>1, InitType, TypeStep, InitOrder, OrderStep, InitReward, RewardStep, InitProgramme, PTL DEF Spec

LEMMA ProgrammeStep ==
    TypeOK /\ OrderInv /\ RewardInv /\ ProgrammeInv /\ [Next]_vars => [P!ProgrammeNext]_(P!pvars)
<1> SUFFICES ASSUME TypeOK, OrderInv, RewardInv, ProgrammeInv, [Next]_vars
             PROVE  P!ProgrammeNext \/ UNCHANGED P!pvars
    OBVIOUS
<1>0. /\ signups \subseteq SignupRequest /\ joined \in [Emails -> Nat] /\ None \notin Emails
      /\ \A r \in Recorders : pricing[r].merchant \in Emails \cup {None}
      /\ seen \in [Sweepers -> SUBSET Emails]
    BY Constants DEF TypeOK
<1> USE DEF accounts, volume, rewarded, sweeps, counters
<1>1. ASSUME NEW q \in signups, InsertMerchant(q) PROVE P!ProgrammeNext \/ UNCHANGED P!pvars
    <2>1. UNCHANGED <<referrer, active, rewards>> /\ q.email \in Emails
        BY <1>0, <1>1 DEF InsertMerchant, SignupRequest
    <2>2. CASE joined[q.email] = 0
        <3>1. Enroll(q)
            BY <1>1, <2>2 DEF InsertMerchant
        <3>2. /\ joined' = [joined EXCEPT ![q.email] = joined'[q.email]]
              /\ \A e \in Emails : joined'[q.email] > joined[e]
            <4>1. joined'[q.email] = Ranks + 1 /\ \A e \in Emails : joined[e] < joined'[q.email]
                BY <2>2, <3>1, EnrollRank DEF OrderInv
            <4>2. joined' = [joined EXCEPT ![q.email] = Ranks + 1]
                BY <3>1 DEF Enroll
            <4>3. \A e \in Emails : joined[e] \in Nat /\ Ranks \in Nat
                BY <1>0, RanksType
            <4>4. QED
                BY <4>1, <4>2, <4>3
        <3>3. P!Join(q.email)
            BY <2>1, <2>2, <3>2 DEF P!Join
        <3>4. QED
            BY <2>1, <3>3 DEF P!ProgrammeNext
    <2>3. CASE joined[q.email] # 0
        BY <1>1, <2>1, <2>3 DEF InsertMerchant, P!pvars
    <2>4. QED
        BY <2>2, <2>3
<1>2. ASSUME NEW q \in signups, InsertReferral(q) PROVE P!ProgrammeNext
    <2>1. /\ q.state = "inserted" /\ referrer' = [referrer EXCEPT ![q.email] = q.code]
          /\ UNCHANGED <<joined, active, rewards>>
        BY <1>2 DEF InsertReferral
    <2>2. q.code # None /\ joined[q.code] > 0 /\ joined[q.code] < joined[q.email] /\ referrer[q.email] = None
        BY <2>1 DEF OrderInv, KnownCode, ProgrammeInv, OneRequest
    <2>3. q.email \in Emails /\ q.code \in Emails
        BY <1>0, <2>2 DEF SignupRequest
    <2>4. P!Refer(q.email, q.code)
        BY <2>1, <2>2 DEF P!Refer
    <2>5. QED
        BY <2>3, <2>4 DEF P!ProgrammeNext
<1>3. ASSUME NEW s \in Sweepers, Grant(s) PROVE P!ProgrammeNext
    <2>1. PICK e \in seen[s] : rewards' = [rewards EXCEPT ![e] = @ + 1]
        BY <1>3 DEF Grant
    <2>2. e \in Emails /\ e \in active /\ referrer[e] # None
        BY <1>0 DEF RewardInv, SeenIsActive, ProgrammeInv, SeenAreReferred
    <2>3. UNCHANGED <<joined, referrer, active>>
        BY <1>3 DEF Grant
    <2>4. P!RewardFor(e)
        BY <2>1, <2>2, <2>3 DEF P!RewardFor
    <2>5. QED
        BY <2>2, <2>4 DEF P!ProgrammeNext
<1>4. ASSUME NEW e \in Emails, Known(e), active' \in {active, active \cup {e}},
             UNCHANGED <<joined, referrer, rewards>>
      PROVE  P!ProgrammeNext \/ UNCHANGED P!pvars
    BY <1>4 DEF Known, P!ProgrammeNext, P!Activate, P!pvars
<1>5. ASSUME NEW r \in Recorders, NEW blocked \in BOOLEAN, Insert(r, blocked)
      PROVE  P!ProgrammeNext \/ UNCHANGED P!pvars
    <2>1. pricing[r].merchant \in Emails /\ Known(pricing[r].merchant)
        BY <1>0, <1>5 DEF Insert, ProgrammeInv, HaveAccounts
    <2>2. /\ active' \in {active, active \cup {pricing[r].merchant}}
          /\ UNCHANGED <<joined, referrer, rewards>>
        BY <1>5 DEF Insert
    <2>3. QED
        BY <1>4, <2>1, <2>2
<1>6. ASSUME NEW e \in Emails, Release(e) PROVE P!ProgrammeNext \/ UNCHANGED P!pvars
    <2>1. Known(e)
        BY <1>6 DEF Release, ProgrammeInv, HaveAccounts
    <2>2. active' = active \cup {e} /\ UNCHANGED <<joined, referrer, rewards>>
        BY <1>6 DEF Release
    <2>3. QED
        BY <1>4, <2>1, <2>2
<1>7. CASE UNCHANGED <<joined, referrer, active, rewards>>
    BY <1>7 DEF P!pvars
<1>8. QED
    BY <1>1, <1>2, <1>3, <1>5, <1>6, <1>7
       DEF Next, Sweep, vars, SignupCheck, SignupFails, SweepSelect, SweepClaim, SweepFails, Price, Discard,
           Hold, Expire

\* Whatever races and fails: an account is created once, referred at most once
\* and for good by an older one, and only referrals of accounts that were paid
\* are rewarded.
THEOREM ReferralImplementsProgramme == Spec => ProgrammeKept
<1>1. Init => P!ProgrammeInit
    BY DEF Init, P!ProgrammeInit
<1>2. QED
    BY <1>1, ProgrammeInvariant, ProgrammeStep, PTL DEF Spec, ProgrammeKept, P!ProgrammeSpec

=============================================================================
