---------------------------- MODULE NettingProofs ---------------------------
(***************************************************************************)
(* TLAPS proof that Channel implements Netting: the row, the requests, the *)
(* keeper and the contract, however they interleave and fail, accept       *)
(* claims in increasing order and settle accepted claims only.             *)
(***************************************************************************)
EXTENDS ChannelProofs

-----------------------------------------------------------------------------
(* The refinement.                                                          *)

LEMMA InitImplements == Init => N!NInit
BY DEF Init, N!NInit

\* An included call settles an accepted claim or nothing.
LEMMA SettleStep ==
    ASSUME TypeInv, NEW fn, NEW c \in accepted \cup {Zero}, Apply(fn, c),
           accepted' = accepted
    PROVE  (\E d \in accepted : N!Settle(d)) \/ UNCHANGED N!nvars
<1>0. chain \in ContractState /\ accepted \subseteq Signed
    BY DEF TypeInv, TypeOK
<1>1. chain.nonce \in Nat /\ c \in [nonce : Nat, amount : Nat] /\ c \in Claims \cup {Zero}
    BY <1>0, ConstantsTyped DEF ContractState
<1>2. CASE ~Accepts(fn, c)
    BY <1>2 DEF Apply, N!nvars
<1>3. CASE Accepts(fn, c)
    <2>1. chain' = Effect(fn, c)
        BY <1>3 DEF Apply
    <2>2. \/ chain'.claimed = chain.claimed /\ chain'.nonce = chain.nonce
          \/ fn = "checkpoint" /\ chain'.claimed = c.amount /\ chain'.nonce = c.nonce
        BY <1>0, <1>1, <1>3, <2>1, CallNone, EffectType
    <2>3. CASE chain'.claimed = chain.claimed /\ chain'.nonce = chain.nonce
        BY <2>3 DEF N!nvars
    <2>4. CASE fn = "checkpoint" /\ chain'.claimed = c.amount /\ chain'.nonce = c.nonce
        <3>1. chain.nonce < c.nonce /\ chain.claimed < c.amount
            BY <1>3, <2>4 DEF Accepts
        <3>2. c # Zero
            BY <1>1, <3>1 DEF Zero
        <3>3. c = [nonce |-> c.nonce, amount |-> c.amount]
            BY <1>1
        <3>4. N!Settle(c)
            BY <2>4, <3>1, <3>3 DEF N!Settle
        <3>5. QED
            BY <3>2, <3>4
    <2>5. QED
        BY <2>2, <2>3, <2>4
<1>4. QED
    BY <1>2, <1>3

\* Storing a claim accepts it.
LEMMA AcceptStep ==
    ASSUME Monotone, TypeInv, AcceptedIsStored, UNCHANGED chain,
           NEW h \in Handlers, hpc[h] = "checked", row.pending.nonce < hclaim[h].nonce,
           accepted' = accepted \cup {hclaim[h]}
    PROVE  \E c \in Signed : N!Accept(c)
<1>1. hclaim[h] \in Signed /\ hclaim[h].amount <= Deposit /\ accepted \subseteq Signed
    BY DEF TypeInv, TypeOK, CappedRequests
<1>2. Signed \subseteq [nonce : Nat, amount : Nat] /\ row.pending.nonce \in Nat
    BY ConstantsTyped DEF TypeInv, TypeOK, Row
<1>3. ASSUME NEW d \in accepted PROVE d.nonce < hclaim[h].nonce /\ d.amount < hclaim[h].amount
    <2>1. d \in Signed /\ d.nonce \in Nat /\ hclaim[h].nonce \in Nat
        BY <1>1, <1>2
    <2>2. d.nonce <= row.pending.nonce
        BY DEF AcceptedIsStored
    <2>3. d.nonce < hclaim[h].nonce
        BY <1>2, <2>1, <2>2
    <2>4. QED
        BY <1>1, <2>1, <2>3 DEF Monotone
<1>4. N!Accept(hclaim[h])
    BY <1>1, <1>3 DEF N!Accept
<1>5. QED
    BY <1>1, <1>4

LEMMA ImplementsStep ==
    ASSUME Monotone, TypeInv, AcceptedIsStored, KnownClaims, [Next]_vars
    PROVE  [N!NNext]_(N!nvars)
<1> USE DEF history
<1>1. ASSUME NEW fn, NEW c \in accepted \cup {Zero}, Apply(fn, c), accepted' = accepted
      PROVE  [N!NNext]_(N!nvars)
    BY <1>1, SettleStep DEF N!NNext
<1>2. ASSUME NEW s \in Submitters, Land(s) PROVE [N!NNext]_(N!nvars)
    <2>1. tx[s].claim \in accepted \cup {Zero}
        BY DEF KnownClaims
    <2>2. Apply(tx[s].fn, tx[s].claim) /\ accepted' = accepted
        BY <1>2 DEF Land
    <2>3. QED
        BY <1>1, <2>1, <2>2
<1>3. ASSUME NEW call \in orphans, LandLate(call) PROVE [N!NNext]_(N!nvars)
    <2>1. call.claim \in accepted \cup {Zero}
        BY DEF KnownClaims
    <2>2. Apply(call.fn, call.claim) /\ accepted' = accepted
        BY <1>3 DEF LandLate
    <2>3. QED
        BY <1>1, <2>1, <2>2
<1>4. ASSUME NEW fn, PartyCalls(fn) PROVE [N!NNext]_(N!nvars)
    <2>1. Apply(fn, Zero) /\ accepted' = accepted
        BY <1>4 DEF PartyCalls, Apply
    <2>2. QED
        BY <1>1, <2>1
<1>5. CASE Sweep \/ MissedSweep
    <2>1. chain \in ContractState /\ row \in Row
        BY DEF TypeInv, TypeOK
    <2>2. chain'.claimed = chain.claimed /\ chain'.nonce = chain.nonce /\ accepted' = accepted
        BY <1>5, <2>1, PeriodType DEF Sweep, MissedSweep
    <2>3. QED
        BY <2>2 DEF N!nvars
<1>6. CASE UNCHANGED chain
    <2>1. CASE accepted' = accepted
        BY <1>6, <2>1 DEF N!nvars
    <2>2. CASE \E h \in Handlers : /\ hpc[h] = "checked"
                                   /\ row.pending.nonce < hclaim[h].nonce
                                   /\ accepted' = accepted \cup {hclaim[h]}
        BY <1>6, <2>2, AcceptStep DEF N!NNext
    <2>3. QED
        BY <2>1, <2>2, StoredClaim
<1>7. QED
    BY <1>2, <1>3, <1>4, <1>5, <1>6
       DEF Next, Keeper, vars, PollEnds, PollTimesOut, SendFails, ClaimStore, ClaimCheck,
           OpenSend, CloseCheck, ResyncFails, Crash, Select, KeeperSend, ReadInfo, WriteInfo,
           OpenInsert, CloseSimulate, CloseSend, CloseWrite

\* The channel implements the netting it promises its payee.
THEOREM ImplementsNetting ==
    ASSUME Monotone
    PROVE  Spec => NettingSpec
<1>1. TypeInv /\ AcceptedIsStored /\ [Next]_vars => AcceptedIsStored'
    BY AcceptedStep
<1>2. TypeInv /\ KnownClaims /\ [Next]_vars => KnownClaims'
    BY KnownStep
<1>3. TypeInv /\ AcceptedIsStored /\ KnownClaims /\ [Next]_vars => [N!NNext]_(N!nvars)
    BY ImplementsStep
<1>4. QED
    BY <1>1, <1>2, <1>3, InitAccepted, InitKnown, InitImplements, TypeInvariant, PTL
       DEF Spec, NettingSpec, N!NSpec
=============================================================================
