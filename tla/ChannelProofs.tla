---------------------------- MODULE ChannelProofs ---------------------------
(***************************************************************************)
(* What TLAPS proves about Channel, for every set of requests and claims,  *)
(* every deposit, challenge period and number of disruptions.              *)
(***************************************************************************)
EXTENDS Channel, TLAPS

\* An honest client signs a higher amount under a higher nonce.
Monotone == \A c, d \in Signed : c.nonce < d.nonce => c.amount < d.amount

-----------------------------------------------------------------------------
(* Type correctness.  A stored amount is within the deposit because a       *)
(* request only gets to its UPDATE with a claim that is.                    *)

CappedRequests ==
    \A h \in Handlers : hpc[h] = "checked" => hclaim[h] \in Signed /\ hclaim[h].amount <= Deposit

StoredIsSigned == row.pending \in Signed \cup {Zero}

TypeInv == TypeOK /\ CappedRequests /\ StoredIsSigned

LEMMA ConstantsTyped ==
    /\ Claims \cup {Zero} \subseteq [nonce : Nat, amount : Nat]
    /\ Signed \subseteq Claims
    /\ Deposit \in Nat
    /\ Challenge \in Nat \ {0}
    /\ MaxDirect \in Nat /\ MaxDisruptions \in Nat
BY ChannelAssumption DEF ChannelAssumption, Zero

LEMMA ZeroIsCall == Idle \in Call
BY DEF Idle, Call

LEMMA ZeroIsRow == NoRow \in Row
BY ConstantsTyped DEF NoRow, Row, Zero, Null

\* What an included call does to the contract.
LEMMA EffectType ==
    ASSUME chain \in ContractState, NEW fn \in Functions, NEW c \in Claims \cup {Zero},
           Accepts(fn, c)
    PROVE  /\ Effect(fn, c) \in ContractState
           /\ chain.claimed <= Effect(fn, c).claimed
           /\ \/ /\ Effect(fn, c).claimed = chain.claimed
                 /\ Effect(fn, c).nonce = chain.nonce
              \/ /\ fn = "checkpoint"
                 /\ Effect(fn, c).claimed = c.amount
                 /\ Effect(fn, c).nonce = c.nonce
<1>1. c.nonce \in Nat /\ c.amount \in Nat /\ Deposit \in Nat
    BY ConstantsTyped
<1>2. CASE fn = "checkpoint"
    <2>1. chain.claimed < c.amount /\ c.amount <= Deposit
        BY <1>2 DEF Accepts
    <2>2. Effect(fn, c) = [chain EXCEPT !.nonce = c.nonce, !.claimed = c.amount]
        BY <1>2 DEF Effect
    <2>3. c.amount \in 0..Deposit
        BY <1>1, <2>1
    <2>4. chain.claimed \in 0..Deposit
        BY DEF ContractState
    <2>5. /\ Effect(fn, c) \in ContractState
          /\ Effect(fn, c).claimed = c.amount
          /\ Effect(fn, c).nonce = c.nonce
        BY <1>1, <2>2, <2>3 DEF ContractState
    <2>6. QED
        BY <1>1, <1>2, <2>1, <2>4, <2>5
<1>3. ASSUME NEW to \in ChainStatuses, Effect(fn, c) = [chain EXCEPT !.status = to]
      PROVE  /\ Effect(fn, c) \in ContractState
             /\ chain.claimed <= Effect(fn, c).claimed
             /\ Effect(fn, c).claimed = chain.claimed
             /\ Effect(fn, c).nonce = chain.nonce
    BY <1>1, <1>3 DEF ContractState
<1>4. CASE fn # "checkpoint"
    <2>1. PICK to \in ChainStatuses : Effect(fn, c) = [chain EXCEPT !.status = to]
        BY <1>4 DEF Functions, Effect, ChainStatuses
    <2>2. QED
        BY <1>3, <2>1
<1>5. QED
    BY <1>2, <1>4

LEMMA CallNone ==
    ASSUME NEW fn, NEW c, Accepts(fn, c)
    PROVE  fn \in Functions
BY DEF Accepts, Functions

LEMMA ApplyType ==
    ASSUME chain \in ContractState, NEW fn, NEW c \in Claims \cup {Zero}, Apply(fn, c)
    PROVE  chain' \in ContractState /\ chain.claimed <= chain'.claimed
<1>1. CASE Accepts(fn, c)
    BY <1>1, CallNone, EffectType DEF Apply
<1>2. CASE ~Accepts(fn, c)
    <2>1. chain' = chain /\ chain.claimed \in 0..Deposit
        BY <1>2 DEF Apply, ContractState
    <2>2. QED
        BY <2>1, ConstantsTyped
<1>3. QED
    BY <1>1, <1>2

LEMMA GotoType ==
    ASSUME pc \in [Submitters -> PcValues], NEW s, NEW where \in PcValues, Goto(s, where)
    PROVE  pc' \in [Submitters -> PcValues]
BY DEF Goto

LEMMA SendType ==
    ASSUME tx \in [Submitters -> Call], NEW s, NEW fn \in Functions,
           NEW c \in Claims \cup {Zero}, Send(s, fn, c)
    PROVE  tx' \in [Submitters -> Call]
<1>1. [fn |-> fn, claim |-> c, result |-> "pending"] \in Call
    BY DEF Call
<1>2. QED
    BY <1>1 DEF Send

LEMMA InitTypeInv == Init => TypeInv
<1> SUFFICES ASSUME Init PROVE TypeInv
    OBVIOUS
<1>1. chain \in ContractState /\ seen \in Info
    BY ConstantsTyped DEF Init, ContractState, ChainStatuses, Info
<1>2. row \in Row /\ \A s \in Submitters : tx[s] \in Call
    BY ZeroIsRow, ZeroIsCall DEF Init
<1>3. pc \in [Submitters -> PcValues] /\ tx \in [Submitters -> Call]
    BY <1>2 DEF Init, PcValues
<1>4. orphans \subseteq Call /\ accepted \subseteq Signed
    BY DEF Init
<1>5. /\ phase \in Phases /\ captured \in Claims \cup {Zero}
      /\ hpc \in [Handlers -> {"idle", "checked"}]
      /\ hclaim \in [Handlers -> Claims \cup {Zero}]
      /\ reopened \in BOOLEAN
    BY DEF Init, Phases
<1>6. direct \in 0..MaxDirect /\ disruptions \in 0..MaxDisruptions
    BY ConstantsTyped DEF Init
<1>7. CappedRequests /\ StoredIsSigned
    BY DEF Init, NoRow, CappedRequests, StoredIsSigned
<1>8. QED
    BY <1>1, <1>2, <1>3, <1>4, <1>5, <1>6, <1>7 DEF TypeInv, TypeOK

\* The steps of the keeper that go on to its next query.
LEMMA NextQueryType ==
    ASSUME pc \in [Submitters -> PcValues], phase \in Phases, NextQuery
    PROVE  pc' \in [Submitters -> PcValues] /\ phase' \in Phases
<1>1. phase' \in Phases
    BY DEF NextQuery, Phases
<1>2. Goto("keeper", "selecting") \/ Goto("keeper", "idle")
    BY DEF NextQuery
<1>3. {"selecting", "idle"} \subseteq PcValues
    BY DEF PcValues
<1>4. QED
    BY <1>1, <1>2, <1>3, GotoType

LEMMA DisruptType ==
    ASSUME disruptions \in 0..MaxDisruptions, Disrupt
    PROVE  disruptions' \in 0..MaxDisruptions
BY ConstantsTyped DEF Disrupt

LEMMA PeriodType ==
    ASSUME chain \in ContractState, row \in Row, PeriodPasses
    PROVE  /\ chain' \in ContractState /\ row' \in Row
           /\ chain'.claimed = chain.claimed /\ chain'.nonce = chain.nonce
           /\ row'.claimed = row.claimed /\ row'.pending = row.pending
<1>1. Challenge \in Nat \ {0}
    BY ConstantsTyped
<1>2. chain.age \in 0..Challenge /\ row.age \in 0..Challenge \cup {Null}
    BY DEF ContractState, Row
<1>3. Older(chain.age) \in 0..Challenge /\ Older(row.age) \in 0..Challenge \cup {Null}
    BY <1>1, <1>2 DEF Older, Null
<1>4. chain' \in ContractState /\ chain'.claimed = chain.claimed /\ chain'.nonce = chain.nonce
    BY <1>3 DEF PeriodPasses, ContractState
<1>5. row' \in Row /\ row'.claimed = row.claimed /\ row'.pending = row.pending
    BY <1>3 DEF PeriodPasses, Row
<1>6. QED
    BY <1>4, <1>5

LEMMA TypeStep == TypeInv /\ [Next]_vars => TypeInv'
<1> SUFFICES ASSUME TypeInv, [Next]_vars PROVE TypeInv'
    OBVIOUS
<1>0. TypeOK /\ CappedRequests /\ StoredIsSigned
    BY DEF TypeInv
<1>w. /\ {"idle", "selecting", "simulating", "sending", "polling", "reading", "writing", "done"}
             \subseteq PcValues
      /\ {"opener", "closer", "keeper"} \subseteq Submitters
      /\ {"open_channel", "checkpoint", "initiate_close", "finalize_close"} \subseteq Functions
    BY DEF PcValues, Submitters, Functions
<1>z. Zero \in Claims \cup {Zero}
    OBVIOUS
<1> USE DEF keeperVars, handlerVars, history
<1>1. ASSUME NEW s \in Submitters, Land(s) PROVE TypeInv'
    <2>1. tx[s] \in Call /\ tx[s].claim \in Claims \cup {Zero}
        BY <1>0 DEF TypeOK, Call
    <2>2. chain' \in ContractState
        BY <1>0, <1>1, <2>1, ApplyType DEF Land, TypeOK
    <2>3. tx' \in [Submitters -> Call]
        BY <1>0, <1>1, <2>1 DEF Land, TypeOK, Call
    <2>4. QED
        BY <1>0, <1>1, <2>2, <2>3 DEF Land, TypeInv, TypeOK, CappedRequests, StoredIsSigned
<1>2. ASSUME NEW s \in Submitters, PollEnds(s) \/ PollTimesOut(s) \/ SendFails(s) PROVE TypeInv'
    <2>1. tx' \in [Submitters -> Call] /\ orphans' \subseteq Call
        BY <1>0, <1>2, ZeroIsCall DEF PollEnds, PollTimesOut, SendFails, TypeOK
    <2>2. OnSuccess[s] \in PcValues /\ OnFailure[s] \in PcValues
        BY DEF OnSuccess, OnFailure, Submitters, PcValues
    <2>3. \E where \in PcValues : Goto(s, where)
        BY <1>2, <2>2 DEF PollEnds, PollTimesOut, SendFails
    <2>4. pc' \in [Submitters -> PcValues]
        BY <1>0, <2>3, GotoType DEF TypeOK
    <2>5. disruptions' \in 0..MaxDisruptions
        BY <1>0, <1>2, DisruptType DEF PollEnds, PollTimesOut, SendFails, TypeOK
    <2>6. QED
        BY <1>0, <1>2, <2>1, <2>4, <2>5
           DEF PollEnds, PollTimesOut, SendFails, TypeInv, TypeOK, CappedRequests, StoredIsSigned
<1>3. ASSUME NEW call \in orphans, LandLate(call) PROVE TypeInv'
    <2>1. call.claim \in Claims \cup {Zero}
        BY <1>0 DEF TypeOK, Call
    <2>2. chain' \in ContractState
        BY <1>0, <1>3, <2>1, ApplyType DEF LandLate, TypeOK
    <2>3. QED
        BY <1>0, <1>3, <2>2 DEF LandLate, TypeInv, TypeOK, CappedRequests, StoredIsSigned
<1>4. ASSUME NEW fn \in {"initiate_close", "finalize_close"}, PartyCalls(fn) PROVE TypeInv'
    <2>1. chain' \in ContractState
        BY <1>0, <1>4, <1>z, CallNone, EffectType DEF PartyCalls, TypeOK
    <2>2. direct' \in 0..MaxDirect
        BY <1>0, <1>4, ConstantsTyped DEF PartyCalls, TypeOK
    <2>3. QED
        BY <1>0, <1>4, <2>1, <2>2 DEF PartyCalls, TypeInv, TypeOK, CappedRequests, StoredIsSigned
<1>5. ASSUME NEW h \in Handlers, NEW c \in Claims, ClaimCheck(h, c) PROVE TypeInv'
    <2>1. hpc' \in [Handlers -> {"idle", "checked"}] /\ hclaim' \in [Handlers -> Claims \cup {Zero}]
        BY <1>0, <1>5 DEF ClaimCheck, TypeOK
    <2>2. CappedRequests'
        BY <1>0, <1>5 DEF ClaimCheck, TypeOK, CappedRequests
    <2>3. QED
        BY <1>0, <1>5, <2>1, <2>2 DEF ClaimCheck, TypeInv, TypeOK, StoredIsSigned
<1>6. ASSUME NEW h \in Handlers, ClaimStore(h) PROVE TypeInv'
    <2>1. hclaim[h] \in Signed /\ hclaim[h] \in [nonce : Nat, amount : 0..Deposit]
        <3>1. hclaim[h] \in Signed /\ hclaim[h].amount <= Deposit
            BY <1>0, <1>6 DEF ClaimStore, CappedRequests
        <3>2. hclaim[h] \in [nonce : Nat, amount : Nat]
            BY <3>1, ConstantsTyped
        <3>3. QED
            BY <3>1, <3>2, ConstantsTyped
    <2>2. row' \in Row
        BY <1>0, <1>6, <2>1 DEF ClaimStore, Row, TypeOK
    <2>3. accepted' \subseteq Signed
        BY <1>0, <1>6, <2>1 DEF ClaimStore, TypeOK
    <2>4. hpc' \in [Handlers -> {"idle", "checked"}] /\ hclaim' \in [Handlers -> Claims \cup {Zero}]
        BY <1>0, <1>6, <1>z DEF ClaimStore, TypeOK
    <2>5. CappedRequests' /\ StoredIsSigned'
        BY <1>0, <1>6, <2>1 DEF ClaimStore, TypeOK, Row, CappedRequests, StoredIsSigned
    <2>6. QED
        BY <1>0, <1>6, <2>2, <2>3, <2>4, <2>5 DEF ClaimStore, TypeInv, TypeOK
<1>7. CASE OpenSend
    <2>1. tx' \in [Submitters -> Call]
        BY <1>0, <1>7, <1>w, <1>z, SendType DEF OpenSend, TypeOK
    <2>2. pc' \in [Submitters -> PcValues]
        BY <1>0, <1>7, <1>w, GotoType DEF OpenSend, TypeOK
    <2>3. QED
        BY <1>0, <1>7, <2>1, <2>2 DEF OpenSend, TypeInv, TypeOK, CappedRequests, StoredIsSigned
<1>8. CASE OpenInsert
    <2>1. row' \in Row
        <3>1. [NoRow EXCEPT !.status = "open"] \in Row
            BY ZeroIsRow DEF Row
        <3>2. QED
            BY <1>0, <1>8, <3>1 DEF OpenInsert, TypeOK
    <2>2. pc' \in [Submitters -> PcValues]
        BY <1>0, <1>8, <1>w, GotoType DEF OpenInsert, TypeOK
    <2>3. StoredIsSigned'
        BY <1>0, <1>8 DEF OpenInsert, StoredIsSigned, NoRow
    <2>4. QED
        BY <1>0, <1>8, <2>1, <2>2, <2>3 DEF OpenInsert, TypeInv, TypeOK, CappedRequests, StoredIsSigned
<1>9. CASE CloseCheck \/ CloseSimulate
    <2>1. Goto("closer", "simulating") \/ Goto("closer", "sending") \/ Goto("closer", "idle")
        BY <1>9 DEF CloseCheck, CloseSimulate
    <2>2. pc' \in [Submitters -> PcValues]
        BY <1>0, <2>1, <1>w, GotoType DEF TypeOK
    <2>3. QED
        BY <1>0, <1>9, <2>2 DEF CloseCheck, CloseSimulate, TypeInv, TypeOK, CappedRequests, StoredIsSigned
<1>10. CASE CloseSend
    <2>1. tx' \in [Submitters -> Call]
        BY <1>0, <1>10, <1>w, <1>z, SendType DEF CloseSend, TypeOK
    <2>2. pc' \in [Submitters -> PcValues]
        BY <1>0, <1>10, <1>w, GotoType DEF CloseSend, TypeOK
    <2>3. QED
        BY <1>0, <1>10, <2>1, <2>2 DEF CloseSend, TypeInv, TypeOK, CappedRequests, StoredIsSigned
<1>11. CASE CloseWrite
    <2>1. row' \in Row
        <3>1. row' = [row EXCEPT !.status = "closing", !.age = 0]
            BY <1>11 DEF CloseWrite
        <3>2. 0 \in 0..Challenge \cup {Null}
            BY ConstantsTyped
        <3>3. QED
            BY <1>0, <3>1, <3>2 DEF Row, TypeOK
    <2>2. pc' \in [Submitters -> PcValues]
        BY <1>0, <1>11, <1>w, GotoType DEF CloseWrite, TypeOK
    <2>3. StoredIsSigned'
        BY <1>0, <1>11 DEF CloseWrite, StoredIsSigned, TypeOK, Row
    <2>4. QED
        BY <1>0, <1>11, <2>1, <2>2, <2>3 DEF CloseWrite, TypeInv, TypeOK, CappedRequests
<1>12. CASE Sweep \/ MissedSweep
    <2>1. chain' \in ContractState /\ row' \in Row /\ row'.pending = row.pending
        BY <1>0, <1>12, PeriodType DEF Sweep, MissedSweep, TypeOK
    <2>2. pc' \in [Submitters -> PcValues]
        BY <1>0, <1>12, <1>w, GotoType DEF Sweep, MissedSweep, TypeOK
    <2>3. disruptions' \in 0..MaxDisruptions
        BY <1>0, <1>12, DisruptType DEF Sweep, MissedSweep, TypeOK
    <2>4. QED
        BY <1>0, <1>12, <2>1, <2>2, <2>3 DEF Sweep, MissedSweep, TypeInv, TypeOK, CappedRequests, StoredIsSigned
<1>13. CASE Select
    <2>1. row.pending \in Claims \cup {Zero}
        BY <1>0, ConstantsTyped DEF StoredIsSigned
    <2>2. captured' \in Claims \cup {Zero}
        BY <1>0, <1>13, <2>1 DEF Select, TypeOK
    <2>3. pc' \in [Submitters -> PcValues] /\ phase' \in Phases
        BY <1>0, <1>13, <1>w, GotoType, NextQueryType DEF Select, TypeOK
    <2>4. QED
        BY <1>0, <1>13, <2>2, <2>3 DEF Select, TypeInv, TypeOK, CappedRequests, StoredIsSigned
<1>14. CASE KeeperSend
    <2>1. tx' \in [Submitters -> Call]
        BY <1>0, <1>14, <1>w, SendType DEF KeeperSend, TypeOK
    <2>2. pc' \in [Submitters -> PcValues]
        BY <1>0, <1>14, <1>w, GotoType DEF KeeperSend, TypeOK
    <2>3. QED
        BY <1>0, <1>14, <2>1, <2>2 DEF KeeperSend, TypeInv, TypeOK, CappedRequests, StoredIsSigned
<1>15. CASE ReadInfo
    <2>1. seen' \in Info
        BY <1>0, <1>15 DEF ReadInfo, Info, ContractState, TypeOK
    <2>2. pc' \in [Submitters -> PcValues]
        BY <1>0, <1>15, <1>w, GotoType DEF ReadInfo, TypeOK
    <2>3. QED
        BY <1>0, <1>15, <2>1, <2>2 DEF ReadInfo, TypeInv, TypeOK, CappedRequests, StoredIsSigned
<1>16. CASE WriteInfo
    <2>1. seen.claimed \in 0..Deposit /\ RowStatus[seen.status] \in {"none", "open", "closing", "closed"}
        BY <1>0 DEF TypeOK, Info, ChainStatuses, RowStatus
    <2>2. row' = [row EXCEPT !.claimed = seen.claimed, !.status = RowStatus[seen.status]]
        BY <1>16 DEF WriteInfo
    <2>3. row' \in Row /\ StoredIsSigned'
        BY <1>0, <2>1, <2>2 DEF TypeOK, Row, StoredIsSigned
    <2>6. reopened' \in BOOLEAN
        BY <1>0, <1>16 DEF WriteInfo, TypeOK
    <2>4. pc' \in [Submitters -> PcValues] /\ phase' \in Phases
        BY <1>0, <1>16, NextQueryType DEF WriteInfo, TypeOK
    <2>5. QED
        BY <1>0, <1>16, <2>3, <2>4, <2>6 DEF WriteInfo, TypeInv, TypeOK, CappedRequests
<1>17. CASE ResyncFails
    <2>1. pc' \in [Submitters -> PcValues] /\ phase' \in Phases
        BY <1>0, <1>17, NextQueryType DEF ResyncFails, TypeOK
    <2>2. disruptions' \in 0..MaxDisruptions
        BY <1>0, <1>17, DisruptType DEF ResyncFails, TypeOK
    <2>3. QED
        BY <1>0, <1>17, <2>1, <2>2 DEF ResyncFails, TypeInv, TypeOK, CappedRequests, StoredIsSigned
<1>18. CASE Crash
    <2>1. tx' \in [Submitters -> Call] /\ orphans' \subseteq Call
        BY <1>0, <1>18, ZeroIsCall DEF Crash, TypeOK
    <2>2. pc' \in [Submitters -> PcValues]
        BY <1>18, <1>w DEF Crash
    <2>3. phase' \in Phases /\ disruptions' \in 0..MaxDisruptions
        BY <1>0, <1>18, DisruptType DEF Crash, TypeOK, Phases
    <2>4. /\ hpc' \in [Handlers -> {"idle", "checked"}]
          /\ hclaim' \in [Handlers -> Claims \cup {Zero}]
          /\ CappedRequests'
        BY <1>18, <1>z DEF Crash, CappedRequests
    <2>5. QED
        BY <1>0, <1>18, <2>1, <2>2, <2>3, <2>4 DEF Crash, TypeInv, TypeOK, StoredIsSigned
<1>19. CASE UNCHANGED vars
    BY <1>0, <1>19 DEF vars, TypeInv, TypeOK, CappedRequests, StoredIsSigned
<1>20. QED
    BY <1>1, <1>2, <1>3, <1>4, <1>5, <1>6, <1>7, <1>8, <1>9, <1>10, <1>11, <1>12, <1>13, <1>14,
       <1>15, <1>16, <1>17, <1>18, <1>19 DEF Next, Keeper

\* Every variable keeps its type: no claim beyond the deposit is ever stored.
THEOREM ChannelTypeCorrect == Spec => []TypeOK
<1>1. TypeInv => TypeOK
    BY DEF TypeInv
<1>2. QED
    BY <1>1, InitTypeInv, TypeStep, PTL DEF Spec

LEMMA TypeInvariant == Spec => []TypeInv
BY InitTypeInv, TypeStep, PTL DEF Spec

-----------------------------------------------------------------------------
(* What is settled.  The contract only pays more and more, so what a resync *)
(* read is still settled when it is written.                                *)

LEMMA ChainGrows ==
    ASSUME TypeInv, [Next]_vars
    PROVE  chain.claimed <= chain'.claimed
<1>0. chain \in ContractState /\ row \in Row
    BY DEF TypeInv, TypeOK
<1>1. CASE UNCHANGED chain
    <2>1. chain.claimed \in 0..Deposit
        BY <1>0 DEF ContractState
    <2>2. QED
        BY <1>1, <2>1, ConstantsTyped
<1>2. ASSUME NEW fn, NEW c \in Claims \cup {Zero}, Apply(fn, c)
      PROVE  chain.claimed <= chain'.claimed
    BY <1>0, <1>2, ApplyType
<1>3. ASSUME NEW s \in Submitters, Land(s) PROVE chain.claimed <= chain'.claimed
    <2>1. tx[s].claim \in Claims \cup {Zero}
        BY DEF TypeInv, TypeOK, Call
    <2>2. QED
        BY <1>2, <1>3, <2>1 DEF Land
<1>4. ASSUME NEW call \in orphans, LandLate(call) PROVE chain.claimed <= chain'.claimed
    <2>1. call.claim \in Claims \cup {Zero}
        BY DEF TypeInv, TypeOK, Call
    <2>2. QED
        BY <1>2, <1>4, <2>1 DEF LandLate
<1>5. ASSUME NEW fn, PartyCalls(fn) PROVE chain.claimed <= chain'.claimed
    <2>1. Apply(fn, Zero)
        BY <1>5 DEF PartyCalls, Apply
    <2>2. QED
        BY <1>2, <2>1
<1>6. CASE Sweep \/ MissedSweep
    <2>1. chain'.claimed = chain.claimed /\ chain.claimed \in 0..Deposit
        BY <1>0, <1>6, PeriodType DEF Sweep, MissedSweep, ContractState
    <2>2. QED
        BY <2>1, ConstantsTyped
<1>7. QED
    BY <1>1, <1>3, <1>4, <1>5, <1>6
       DEF Next, Keeper, vars, PollEnds, PollTimesOut, SendFails, ClaimStore, ClaimCheck,
           OpenSend, CloseCheck, ResyncFails, Crash, Select, KeeperSend, ReadInfo, WriteInfo,
           OpenInsert, CloseSimulate, CloseSend, CloseWrite

SettledInv == row.claimed <= chain.claimed /\ seen.claimed <= chain.claimed

\* What a step does to the two amounts that were copied from the chain.
LEMMA CopiesOfTheChain ==
    ASSUME TypeInv, [Next]_vars
    PROVE  /\ row'.claimed \in {row.claimed, seen.claimed}
           /\ seen'.claimed \in {seen.claimed, chain.claimed}
<1>0. row \in Row /\ chain \in ContractState
    BY DEF TypeInv, TypeOK
<1>1. CASE UNCHANGED <<row, seen>>
    BY <1>1
<1>2. ASSUME NEW h \in Handlers, ClaimStore(h)
      PROVE  row'.claimed = row.claimed /\ seen' = seen
    BY <1>0, <1>2 DEF ClaimStore, Row, keeperVars
<1>3. CASE OpenInsert
    <2>1. row'.claimed = row.claimed
        BY <1>0, <1>3 DEF OpenInsert, NoRow, Row
    <2>2. QED
        BY <1>3, <2>1 DEF OpenInsert, keeperVars
<1>4. CASE CloseWrite
    <2>1. row'.claimed = row.claimed
        BY <1>0, <1>4 DEF CloseWrite, Row
    <2>2. QED
        BY <1>4, <2>1 DEF CloseWrite, keeperVars
<1>5. CASE Sweep \/ MissedSweep
    <2>1. row'.claimed = row.claimed
        BY <1>0, <1>5, PeriodType DEF Sweep, MissedSweep
    <2>2. QED
        BY <1>5, <2>1 DEF Sweep, MissedSweep, keeperVars
<1>6. CASE ReadInfo
    BY <1>6 DEF ReadInfo
<1>7. CASE WriteInfo
    <2>1. row' = [row EXCEPT !.claimed = seen.claimed, !.status = RowStatus[seen.status]]
        BY <1>7 DEF WriteInfo
    <2>2. row'.claimed = seen.claimed
        BY <1>0, <2>1 DEF Row
    <2>3. QED
        BY <1>7, <2>2 DEF WriteInfo
<1>8. QED
    BY <1>1, <1>2, <1>3, <1>4, <1>5, <1>6, <1>7
       DEF Next, Keeper, vars, keeperVars, PollEnds, PollTimesOut, SendFails, ClaimCheck,
           Land, LandLate, PartyCalls, OpenSend, CloseCheck, ResyncFails, Crash, Select,
           KeeperSend, CloseSimulate, CloseSend

LEMMA SettledInvariant == Spec => []SettledInv
<1>1. Init => SettledInv
    BY DEF Init, NoRow, SettledInv
<1>2. TypeInv /\ TypeInv' /\ SettledInv /\ [Next]_vars => SettledInv'
    <2> SUFFICES ASSUME TypeInv, TypeInv', SettledInv, [Next]_vars PROVE SettledInv'
        OBVIOUS
    <2>1. /\ chain.claimed \in 0..Deposit /\ chain'.claimed \in 0..Deposit
          /\ row.claimed \in 0..Deposit /\ seen.claimed \in 0..Deposit
        BY DEF TypeInv, TypeOK, ContractState, Row, Info
    <2>2. chain.claimed <= chain'.claimed
        BY ChainGrows
    <2>3. /\ row'.claimed \in {row.claimed, seen.claimed}
          /\ seen'.claimed \in {seen.claimed, chain.claimed}
        BY CopiesOfTheChain
    <2>4. QED
        BY <2>1, <2>2, <2>3, ConstantsTyped DEF SettledInv
<1>3. QED
    BY <1>1, <1>2, TypeInvariant, PTL DEF Spec

\* `claimed` never runs ahead of the contract, however sweeps, failed
\* resyncs, crashes and late transactions interleave.
THEOREM NeverAheadOfChain == Spec => []ClaimedIsSettled
<1>1. SettledInv => ClaimedIsSettled
    BY DEF SettledInv, ClaimedIsSettled
<1>2. QED
    BY <1>1, SettledInvariant, PTL

-----------------------------------------------------------------------------
(* What is accepted.                                                        *)

\* What a step does to the stored claim.
LEMMA StoredClaim ==
    ASSUME TypeInv, [Next]_vars
    PROVE  \/ row'.pending = row.pending /\ accepted' = accepted
           \/ \E h \in Handlers :
                 /\ hpc[h] = "checked"
                 /\ row.pending.nonce < hclaim[h].nonce
                 /\ row'.pending = hclaim[h]
                 /\ accepted' = accepted \cup {hclaim[h]}
<1>0. row \in Row /\ chain \in ContractState
    BY DEF TypeInv, TypeOK
<1> USE DEF history
<1>1. CASE UNCHANGED <<row, accepted>>
    BY <1>1
<1>2. ASSUME NEW h \in Handlers, ClaimStore(h)
      PROVE  \/ UNCHANGED <<row, accepted>>
             \/ /\ hpc[h] = "checked"
                /\ row.pending.nonce < hclaim[h].nonce
                /\ row'.pending = hclaim[h]
                /\ accepted' = accepted \cup {hclaim[h]}
    <2>1. CASE row.pending.nonce < hclaim[h].nonce
        <3>1. row' = [row EXCEPT !.pending = hclaim[h]] /\ accepted' = accepted \cup {hclaim[h]}
            BY <1>2, <2>1 DEF ClaimStore
        <3>2. row'.pending = hclaim[h]
            BY <1>0, <3>1 DEF Row
        <3>3. QED
            BY <1>2, <2>1, <3>1, <3>2 DEF ClaimStore
    <2>2. CASE ~(row.pending.nonce < hclaim[h].nonce)
        BY <1>2, <2>2 DEF ClaimStore
    <2>3. QED
        BY <2>1, <2>2
<1>3. ASSUME OpenInsert PROVE UNCHANGED accepted /\ row'.pending = row.pending
    <2>1. [NoRow EXCEPT !.status = "open"].pending = NoRow.pending
        BY DEF NoRow
    <2>2. QED
        BY <1>3, <2>1 DEF OpenInsert
<1>4. ASSUME CloseWrite PROVE UNCHANGED accepted /\ row'.pending = row.pending
    BY <1>0, <1>4 DEF CloseWrite, Row
<1>5. ASSUME Sweep \/ MissedSweep PROVE UNCHANGED accepted /\ row'.pending = row.pending
    BY <1>0, <1>5, PeriodType DEF Sweep, MissedSweep
<1>6. ASSUME WriteInfo PROVE UNCHANGED accepted /\ row'.pending = row.pending
    <2>1. row' = [row EXCEPT !.claimed = seen.claimed, !.status = RowStatus[seen.status]]
        BY <1>6 DEF WriteInfo
    <2>2. row'.pending = row.pending
        BY <1>0, <2>1 DEF Row
    <2>3. QED
        BY <1>6, <2>2 DEF WriteInfo
<1>7. \/ UNCHANGED <<row, accepted>>
      \/ \E h \in Handlers : ClaimStore(h)
      \/ OpenInsert \/ CloseWrite \/ Sweep \/ MissedSweep \/ WriteInfo
    BY DEF Next, Keeper, vars, PollEnds, PollTimesOut, SendFails, ClaimCheck,
           Land, LandLate, PartyCalls, OpenSend, CloseCheck, ResyncFails, Crash, Select,
           KeeperSend, ReadInfo, CloseSimulate, CloseSend
<1>8. CASE OpenInsert \/ CloseWrite \/ Sweep \/ MissedSweep \/ WriteInfo
    <2>1. UNCHANGED accepted /\ row'.pending = row.pending
        BY <1>3, <1>4, <1>5, <1>6, <1>8
    <2>2. QED
        BY <2>1
<1>9. QED
    BY <1>1, <1>2, <1>7, <1>8

LEMMA AcceptedStep ==
    ASSUME Monotone, TypeInv, AcceptedIsStored, [Next]_vars
    PROVE  AcceptedIsStored'
<1>1. CASE row'.pending = row.pending /\ accepted' = accepted
    BY <1>1 DEF AcceptedIsStored
<1>2. ASSUME NEW h \in Handlers, hpc[h] = "checked", row.pending.nonce < hclaim[h].nonce,
             row'.pending = hclaim[h], accepted' = accepted \cup {hclaim[h]}
      PROVE  AcceptedIsStored'
    <2>1. hclaim[h] \in Signed /\ row.pending \in Signed \cup {Zero} /\ accepted \subseteq Signed
        BY <1>2 DEF TypeInv, TypeOK, CappedRequests, StoredIsSigned
    <2>2. Signed \cup {Zero} \subseteq [nonce : Nat, amount : Nat]
        BY ConstantsTyped
    <2>3. row.pending.amount <= hclaim[h].amount
        <3>1. CASE row.pending \in Signed
            BY <1>2, <2>1, <2>2, <3>1 DEF Monotone
        <3>2. CASE row.pending = Zero
            BY <2>1, <2>2, <3>2 DEF Zero
        <3>3. QED
            BY <2>1, <3>1, <3>2
    <2>4. ASSUME NEW c \in accepted
          PROVE  c.nonce <= hclaim[h].nonce /\ c.amount <= hclaim[h].amount
        <3>1. c.nonce <= row.pending.nonce /\ c.amount <= row.pending.amount
            BY DEF AcceptedIsStored
        <3>2. c \in [nonce : Nat, amount : Nat] /\ row.pending \in [nonce : Nat, amount : Nat]
              /\ hclaim[h] \in [nonce : Nat, amount : Nat]
            BY <2>1, <2>2
        <3>3. QED
            BY <1>2, <2>3, <3>1, <3>2
    <2>5. hclaim[h].nonce <= hclaim[h].nonce /\ hclaim[h].amount <= hclaim[h].amount
        BY <2>1, <2>2
    <2>6. QED
        BY <1>2, <2>4, <2>5 DEF AcceptedIsStored
<1>3. QED
    BY <1>1, <1>2, StoredClaim

LEMMA InitAccepted == Init => AcceptedIsStored
BY DEF Init, AcceptedIsStored

\* However many claim requests race, no accepted claim is overwritten by a
\* lower one, if the payer signs higher amounts under higher nonces.
THEOREM NoAcceptedClaimLost ==
    ASSUME Monotone
    PROVE  Spec => []AcceptedIsStored
<1>1. TypeInv /\ AcceptedIsStored /\ [Next]_vars => AcceptedIsStored'
    BY AcceptedStep
<1>2. QED
    BY <1>1, InitAccepted, TypeInvariant, PTL DEF Spec
-----------------------------------------------------------------------------
(* What is on its way to the contract.                                      *)

\* Nothing that was not accepted is ever on its way to the contract.
KnownClaims ==
    /\ row.pending \in accepted \cup {Zero}
    /\ captured \in accepted \cup {Zero}
    /\ \A s \in Submitters : tx[s].claim \in accepted \cup {Zero}
    /\ \A call \in orphans : call.claim \in accepted \cup {Zero}

LEMMA InitKnown == Init => KnownClaims
BY DEF Init, KnownClaims, NoRow, Idle

\* accepted only grows, and the stored claim is an accepted one.
LEMMA StoredIsKnown ==
    ASSUME TypeInv, KnownClaims, [Next]_vars
    PROVE  accepted \subseteq accepted' /\ row'.pending \in accepted' \cup {Zero}
BY StoredClaim DEF KnownClaims

LEMMA CapturedIsKnown ==
    ASSUME TypeInv, KnownClaims, [Next]_vars
    PROVE  captured' \in accepted \cup {Zero}
<1>1. CASE UNCHANGED captured
    BY <1>1 DEF KnownClaims
<1>2. CASE Select
    BY <1>2 DEF Select, KnownClaims
<1>3. QED
    BY <1>1, <1>2
       DEF Next, Keeper, vars, keeperVars, PollEnds, PollTimesOut, SendFails, ClaimCheck,
           ClaimStore, Land, LandLate, PartyCalls, OpenSend, OpenInsert, CloseCheck,
           CloseSimulate, CloseSend, CloseWrite, Sweep, MissedSweep, ResyncFails, Crash,
           KeeperSend, ReadInfo, WriteInfo

LEMMA SendIsKnown ==
    ASSUME TypeInv, KnownClaims, NEW s \in Submitters, NEW fn, NEW c \in accepted \cup {Zero},
           Send(s, fn, c)
    PROVE  \A r \in Submitters : tx'[r].claim \in accepted \cup {Zero}
<1>1. [fn |-> fn, claim |-> c, result |-> "pending"].claim = c
    OBVIOUS
<1>2. \A r \in Submitters :
         tx'[r] = IF r = s THEN [fn |-> fn, claim |-> c, result |-> "pending"] ELSE tx[r]
    BY DEF Send, TypeInv, TypeOK
<1>3. QED
    BY <1>1, <1>2 DEF KnownClaims

LEMMA CallsAreKnown ==
    ASSUME TypeInv, KnownClaims, [Next]_vars
    PROVE  /\ \A s \in Submitters : tx'[s].claim \in accepted \cup {Zero}
           /\ \A call \in orphans' : call.claim \in accepted \cup {Zero}
<1>0. tx \in [Submitters -> Call] /\ "opener" \in Submitters /\ "closer" \in Submitters
      /\ "keeper" \in Submitters
    BY DEF TypeInv, TypeOK, Submitters
<1>i. Idle.claim = Zero
    BY DEF Idle
<1>1. CASE UNCHANGED <<tx, orphans>>
    BY <1>1 DEF KnownClaims
<1>2. ASSUME NEW s \in Submitters, Land(s)
      PROVE  /\ \A r \in Submitters : tx'[r].claim \in accepted \cup {Zero}
             /\ orphans' = orphans
    <2>1. \A r \in Submitters : tx'[r].claim = tx[r].claim
        BY <1>0, <1>2 DEF Land, Call
    <2>2. QED
        BY <1>2, <2>1 DEF Land, KnownClaims
<1>3. ASSUME NEW s \in Submitters, PollEnds(s) \/ PollTimesOut(s) \/ SendFails(s)
      PROVE  /\ \A r \in Submitters : tx'[r].claim \in accepted \cup {Zero}
             /\ \A call \in orphans' : call.claim \in accepted \cup {Zero}
    <2>1. \A r \in Submitters : tx'[r] \in {tx[r], Idle}
        BY <1>0, <1>3 DEF PollEnds, PollTimesOut, SendFails
    <2>2. orphans' \subseteq orphans \cup {tx[s]}
        BY <1>3 DEF PollEnds, PollTimesOut, SendFails
    <2>3. QED
        BY <1>i, <2>1, <2>2 DEF KnownClaims
<1>4. ASSUME NEW call \in orphans, LandLate(call)
      PROVE  tx' = tx /\ orphans' \subseteq orphans
    BY <1>4 DEF LandLate
<1>5. CASE OpenSend \/ CloseSend \/ KeeperSend
    <2>1. orphans' = orphans
        BY <1>5 DEF OpenSend, CloseSend, KeeperSend
    <2>2. \/ UNCHANGED tx
          \/ \E s \in Submitters, fn \in Functions, c \in accepted \cup {Zero} : Send(s, fn, c)
        BY <1>0, <1>5 DEF OpenSend, CloseSend, KeeperSend, KnownClaims, Functions
    <2>3. QED
        BY <2>1, <2>2, SendIsKnown DEF KnownClaims
<1>6. CASE Crash
    <2>1. \A r \in Submitters : tx'[r] = Idle
        BY <1>6 DEF Crash
    <2>2. orphans' \subseteq orphans \cup {tx[s] : s \in Submitters}
        BY <1>6 DEF Crash
    <2>3. QED
        BY <1>i, <2>1, <2>2 DEF KnownClaims
<1>7. \/ UNCHANGED <<tx, orphans>>
      \/ \E s \in Submitters : Land(s) \/ PollEnds(s) \/ PollTimesOut(s) \/ SendFails(s)
      \/ \E call \in orphans : LandLate(call)
      \/ OpenSend \/ CloseSend \/ KeeperSend \/ Crash
    BY DEF Next, Keeper, vars, PartyCalls, ClaimCheck, ClaimStore, OpenInsert, CloseCheck,
           CloseSimulate, CloseWrite, Sweep, MissedSweep, ResyncFails, Select, ReadInfo, WriteInfo
<1>8. QED
    BY <1>1, <1>2, <1>3, <1>4, <1>5, <1>6, <1>7 DEF KnownClaims

LEMMA KnownStep ==
    ASSUME TypeInv, KnownClaims, [Next]_vars
    PROVE  KnownClaims'
<1>1. accepted \subseteq accepted' /\ row'.pending \in accepted' \cup {Zero}
    BY StoredIsKnown
<1>2. captured' \in accepted \cup {Zero}
    BY CapturedIsKnown
<1>3. /\ \A s \in Submitters : tx'[s].claim \in accepted \cup {Zero}
      /\ \A call \in orphans' : call.claim \in accepted \cup {Zero}
    BY CallsAreKnown
<1>4. QED
    BY <1>1, <1>2, <1>3 DEF KnownClaims

\* What the contract has settled is a claim that was accepted.
SettledIsKnown ==
    \/ chain.claimed = 0 /\ chain.nonce = 0
    \/ \E d \in accepted : chain.claimed = d.amount /\ chain.nonce = d.nonce

LEMMA SettledStep ==
    ASSUME TypeInv, KnownClaims, SettledIsKnown, [Next]_vars
    PROVE  SettledIsKnown'
<1>0. chain \in ContractState /\ row \in Row /\ accepted \subseteq accepted'
    BY StoredIsKnown DEF TypeInv, TypeOK
<1>1. CASE chain'.claimed = chain.claimed /\ chain'.nonce = chain.nonce
    BY <1>0, <1>1 DEF SettledIsKnown
<1>2. ASSUME NEW fn, NEW c \in accepted \cup {Zero}, Apply(fn, c)
      PROVE  SettledIsKnown'
    <2>1. accepted \subseteq Claims
        BY ConstantsTyped DEF TypeInv, TypeOK
    <2>2. CASE Accepts(fn, c)
        <3>1. \/ chain'.claimed = chain.claimed /\ chain'.nonce = chain.nonce
              \/ chain'.claimed = c.amount /\ chain'.nonce = c.nonce
            BY <1>0, <1>2, <2>1, <2>2, CallNone, EffectType DEF Apply
        <3>2. QED
            BY <1>0, <1>1, <1>2, <3>1 DEF SettledIsKnown, Zero
    <2>3. CASE ~Accepts(fn, c)
        BY <1>1, <1>2, <2>3 DEF Apply
    <2>4. QED
        BY <2>2, <2>3
<1>3. ASSUME NEW s \in Submitters, Land(s) PROVE SettledIsKnown'
    BY <1>2, <1>3 DEF Land, KnownClaims
<1>4. ASSUME NEW call \in orphans, LandLate(call) PROVE SettledIsKnown'
    BY <1>2, <1>4 DEF LandLate, KnownClaims
<1>5. ASSUME NEW fn, PartyCalls(fn) PROVE SettledIsKnown'
    BY <1>2, <1>5 DEF PartyCalls, Apply
<1>6. CASE Sweep \/ MissedSweep
    BY <1>0, <1>1, <1>6, PeriodType DEF Sweep, MissedSweep
<1>7. CASE UNCHANGED chain
    BY <1>1, <1>7
<1>8. QED
    BY <1>3, <1>4, <1>5, <1>6, <1>7
       DEF Next, Keeper, vars, PollEnds, PollTimesOut, SendFails, ClaimStore, ClaimCheck,
           OpenSend, CloseCheck, ResyncFails, Crash, Select, KeeperSend, ReadInfo, WriteInfo,
           OpenInsert, CloseSimulate, CloseSend, CloseWrite

\* Accepted claims have nonces of their own, the stored one the highest.
AcceptedInOrder ==
    \A d \in accepted : d.nonce > 0 /\ (d = row.pending \/ d.nonce < row.pending.nonce)

LEMMA OrderStep ==
    ASSUME TypeInv, AcceptedInOrder, [Next]_vars
    PROVE  AcceptedInOrder'
<1>1. CASE row'.pending = row.pending /\ accepted' = accepted
    BY <1>1 DEF AcceptedInOrder
<1>2. ASSUME NEW h \in Handlers, hpc[h] = "checked", row.pending.nonce < hclaim[h].nonce,
             row'.pending = hclaim[h], accepted' = accepted \cup {hclaim[h]}
      PROVE  AcceptedInOrder'
    <2>1. /\ hclaim[h] \in Signed /\ accepted \subseteq Signed
          /\ row.pending \in Signed \cup {Zero}
          /\ Signed \cup {Zero} \subseteq [nonce : Nat, amount : Nat]
        BY <1>2, ConstantsTyped DEF TypeInv, TypeOK, CappedRequests, StoredIsSigned
    <2>2. ASSUME NEW d \in accepted PROVE d.nonce > 0 /\ d.nonce < hclaim[h].nonce
        <3>1. d.nonce \in Nat /\ row.pending.nonce \in Nat /\ hclaim[h].nonce \in Nat
            BY <2>1
        <3>2. d.nonce > 0 /\ (d = row.pending \/ d.nonce < row.pending.nonce)
            BY DEF AcceptedInOrder
        <3>3. d.nonce <= row.pending.nonce
            BY <3>1, <3>2
        <3>4. QED
            BY <1>2, <3>1, <3>2, <3>3
    <2>3. hclaim[h].nonce > 0
        BY <1>2, <2>1
    <2>4. QED
        BY <1>2, <2>2, <2>3 DEF AcceptedInOrder
<1>3. QED
    BY <1>1, <1>2, StoredClaim

\* A checkpoint of the stored claim is only refused once that much is settled.
LEMMA RefusedIsSettled ==
    ASSUME TypeInv, AcceptedIsStored, KnownClaims, SettledIsKnown, AcceptedInOrder,
           chain.status \in {"Open", "Closing"}, ~Accepts("checkpoint", row.pending)
    PROVE  AllSettled
<1>0. /\ chain \in ContractState /\ row \in Row /\ accepted \subseteq Signed
      /\ row.pending \in accepted \cup {Zero}
      /\ Signed \cup {Zero} \subseteq [nonce : Nat, amount : Nat]
    BY ConstantsTyped DEF TypeInv, TypeOK, KnownClaims
<1>1. /\ row.pending.amount \in 0..Deposit /\ row.pending.nonce \in Nat
      /\ chain.claimed \in 0..Deposit /\ chain.nonce \in Nat /\ Deposit \in Nat
    BY <1>0, ConstantsTyped DEF Row, ContractState
<1>2. row.pending.amount <= chain.claimed
    <2>1. CASE row.pending = Zero
        <3>1. row.pending.amount = 0
            BY <2>1 DEF Zero
        <3>2. QED
            BY <1>1, <3>1
    <2>2. CASE row.pending # Zero
        <3>1. row.pending \in accepted /\ row.pending \in Signed /\ row.pending.amount <= Deposit
            BY <1>0, <1>1, <2>2
        <3>2. chain.nonce >= row.pending.nonce \/ chain.claimed >= row.pending.amount
            BY <1>1, <3>1 DEF Accepts
        <3>3. ASSUME chain.nonce >= row.pending.nonce PROVE row.pending.amount <= chain.claimed
            <4>1. row.pending.nonce > 0
                BY <3>1 DEF AcceptedInOrder
            <4>2. PICK d \in accepted : chain.claimed = d.amount /\ chain.nonce = d.nonce
                BY <1>1, <3>3, <4>1 DEF SettledIsKnown
            <4>3. d = row.pending
                BY <1>1, <3>3, <4>2 DEF AcceptedInOrder
            <4>4. QED
                BY <1>1, <4>2, <4>3
        <3>4. QED
            BY <1>1, <3>2, <3>3
    <2>3. QED
        BY <2>1, <2>2
<1>3. ASSUME NEW c \in accepted PROVE c.amount <= chain.claimed
    <2>1. c.amount \in Nat /\ c.amount <= row.pending.amount
        BY <1>0 DEF AcceptedIsStored
    <2>2. QED
        BY <1>1, <1>2, <2>1
<1>4. QED
    BY <1>3 DEF AllSettled
-----------------------------------------------------------------------------
(* The defence of a close.  What a party does without the API, and a resync *)
(* that reopens the row, end the argument; OnlyApi says neither happened.   *)

OnlyApi == direct = 0 /\ ~reopened

\* Whoever has a call polls for it, and it is a call of that caller; the
\* keeper's is the one its query asks for.
CallInv ==
    /\ \A s \in Submitters : tx[s] # Idle => pc[s] = "polling"
    /\ tx["opener"].fn \in {"none", "open_channel"}
    /\ tx["closer"].fn \in {"none", "initiate_close"}
    /\ tx["keeper"] # Idle =>
          /\ tx["keeper"].fn = (IF phase = "finalize" THEN "finalize_close" ELSE "checkpoint")
          /\ tx["keeper"].claim = captured

LEMMA CallStep ==
    ASSUME TypeInv, CallInv, [Next]_vars
    PROVE  CallInv'
<1>0. /\ tx \in [Submitters -> Call] /\ pc \in [Submitters -> PcValues]
      /\ Submitters = {"opener", "closer", "keeper"}
      /\ Idle.fn = "none" /\ Idle.result = "none"
    BY DEF TypeInv, TypeOK, Submitters, Idle
<1> USE DEF keeperVars, handlerVars, history
<1>1. CASE UNCHANGED <<tx, pc, phase, captured>>
    BY <1>1 DEF CallInv
<1>2. ASSUME NEW s \in Submitters, Land(s) PROVE CallInv'
    <2>1. /\ tx[s] # Idle
          /\ tx'[s].fn = tx[s].fn /\ tx'[s].claim = tx[s].claim
          /\ \A r \in Submitters \ {s} : tx'[r] = tx[r]
        BY <1>0, <1>2 DEF Land, Call
    <2>2. UNCHANGED <<pc, phase, captured>>
        BY <1>2 DEF Land
    <2>3. QED
        BY <1>0, <2>1, <2>2 DEF CallInv
<1>3. ASSUME NEW s \in Submitters, PollEnds(s) \/ PollTimesOut(s) \/ SendFails(s) PROVE CallInv'
    <2>1. UNCHANGED <<phase, captured>>
        BY <1>3 DEF PollEnds, PollTimesOut, SendFails
    <2>2. \A r \in Submitters \ {s} : tx'[r] = tx[r] /\ pc'[r] = pc[r]
        BY <1>0, <1>3 DEF PollEnds, PollTimesOut, SendFails, Goto
    <2>3. tx'[s] = Idle
        BY <1>0, <1>3 DEF PollEnds, PollTimesOut, SendFails, CallInv
    <2>4. QED
        BY <1>0, <2>1, <2>2, <2>3 DEF CallInv
<1>4. CASE OpenSend \/ CloseSend
    BY <1>0, <1>4 DEF OpenSend, CloseSend, Send, Goto, CallInv
<1>5. CASE KeeperSend
    <2>1. UNCHANGED <<phase, captured>> /\ pc["keeper"] = "sending"
        BY <1>5 DEF KeeperSend
    <2>2. \A r \in Submitters \ {"keeper"} : tx'[r] = tx[r] /\ pc'[r] = pc[r]
        BY <1>0, <1>5 DEF KeeperSend, Send, Goto
    <2>3. CASE tx' = tx
        BY <1>0, <2>1, <2>2, <2>3 DEF CallInv
    <2>4. CASE tx' # tx
        <3>1. /\ tx'["keeper"] =
                    [fn     |-> IF phase = "finalize" THEN "finalize_close" ELSE "checkpoint",
                     claim  |-> captured, result |-> "pending"]
              /\ pc'["keeper"] = "polling"
            BY <1>0, <1>5, <2>4 DEF KeeperSend, Send, Goto
        <3>2. QED
            BY <1>0, <2>1, <2>2, <3>1 DEF CallInv
    <2>5. QED
        BY <2>3, <2>4
<1>6. CASE OpenInsert \/ CloseCheck \/ CloseSimulate \/ CloseWrite \/ Sweep \/ ReadInfo
    BY <1>0, <1>6
       DEF OpenInsert, CloseCheck, CloseSimulate, CloseWrite, Sweep, ReadInfo, Goto, CallInv
<1>7. CASE Select \/ WriteInfo \/ ResyncFails
    <2>1. tx' = tx /\ tx["keeper"] = Idle
        BY <1>0, <1>7 DEF Select, WriteInfo, ResyncFails, CallInv
    <2>2. \A r \in Submitters \ {"keeper"} : pc'[r] = pc[r]
        BY <1>0, <1>7 DEF Select, WriteInfo, ResyncFails, NextQuery, Goto
    <2>3. QED
        BY <1>0, <2>1, <2>2 DEF CallInv
<1>8. CASE Crash
    BY <1>0, <1>8 DEF Crash, CallInv
<1>9. QED
    BY <1>1, <1>2, <1>3, <1>4, <1>5, <1>6, <1>7, <1>8
       DEF Next, Keeper, vars, LandLate, PartyCalls, ClaimCheck, ClaimStore, MissedSweep

-----------------------------------------------------------------------------
(* Who changes what.                                                        *)

\* What an included call does to the status.
LEMMA ApplyMoves ==
    ASSUME chain \in ContractState, NEW fn, NEW c, Apply(fn, c)
    PROVE  \/ chain'.status = chain.status
           \/ fn = "open_channel" /\ chain.status = "None" /\ chain'.status = "Open"
           \/ fn = "initiate_close" /\ chain.status = "Open" /\ chain'.status = "Closing"
           \/ fn = "finalize_close" /\ chain.status = "Closing" /\ chain'.status = "Closed"
<1>1. CASE ~Accepts(fn, c)
    BY <1>1 DEF Apply
<1>2. CASE Accepts(fn, c) /\ fn = "checkpoint"
    BY <1>2 DEF Apply, Effect, ContractState
<1>3. CASE Accepts(fn, c) /\ fn # "checkpoint"
    <2>1. fn \in {"open_channel", "initiate_close", "finalize_close"}
        BY <1>3, CallNone DEF Functions
    <2>2. CASE fn = "open_channel"
        BY <1>3, <2>2 DEF Apply, Effect, Accepts, ContractState
    <2>3. CASE fn = "initiate_close"
        BY <1>3, <2>3 DEF Apply, Effect, Accepts, ContractState
    <2>4. CASE fn = "finalize_close"
        BY <1>3, <2>4 DEF Apply, Effect, Accepts, ContractState
    <2>5. QED
        BY <2>1, <2>2, <2>3, <2>4
<1>4. QED
    BY <1>1, <1>2, <1>3

\* A finalization is under way, or done.
Finalizing ==
    \/ chain.status = "Closed"
    \/ phase = "finalize" /\ pc["keeper"] = "sending"
    \/ tx["keeper"].fn = "finalize_close"
    \/ \E call \in orphans : call.fn = "finalize_close"

LEMMA ChainMoves ==
    ASSUME TypeInv, CallInv, [Next]_vars
    PROVE  \/ chain'.status = chain.status
           \/ chain.status = "None" /\ chain'.status = "Open"
           \/ chain.status = "Open" /\ chain'.status = "Closing" /\ UNCHANGED row
           \/ /\ chain.status = "Closing" /\ chain'.status = "Closed" /\ UNCHANGED row
              /\ Finalizing \/ direct' # 0
<1>0. chain \in ContractState /\ Submitters = {"opener", "closer", "keeper"}
    BY DEF TypeInv, TypeOK, Submitters
<1>1. CASE chain' = chain
    BY <1>1
<1>2. ASSUME NEW s \in Submitters, Land(s), tx[s].fn = "finalize_close" PROVE Finalizing
    BY <1>0, <1>2 DEF CallInv, Finalizing
<1>3. ASSUME NEW s \in Submitters, Land(s)
      PROVE  UNCHANGED row /\ Apply(tx[s].fn, tx[s].claim)
    BY <1>3 DEF Land
<1>4. ASSUME NEW call \in orphans, LandLate(call)
      PROVE  /\ UNCHANGED row /\ Apply(call.fn, call.claim)
             /\ call.fn = "finalize_close" => Finalizing
    BY <1>4 DEF LandLate, Finalizing
<1>5. ASSUME NEW fn, PartyCalls(fn) PROVE UNCHANGED row /\ Apply(fn, Zero) /\ direct' # 0
    BY <1>5 DEF PartyCalls, Apply, TypeInv, TypeOK
<1>6. CASE Sweep \/ MissedSweep
    BY <1>0, <1>6 DEF Sweep, MissedSweep, PeriodPasses, ContractState
<1>7. CASE \E s \in Submitters : Land(s)
    BY <1>0, <1>2, <1>3, <1>7, ApplyMoves
<1>8. CASE \E call \in orphans : LandLate(call)
    BY <1>0, <1>4, <1>8, ApplyMoves
<1>9. CASE \E fn \in {"initiate_close", "finalize_close"} : PartyCalls(fn)
    BY <1>0, <1>5, <1>9, ApplyMoves
<1>10. QED
    BY <1>1, <1>6, <1>7, <1>8, <1>9
       DEF Next, Keeper, vars, PollEnds, PollTimesOut, SendFails, ClaimStore, ClaimCheck,
           OpenSend, CloseCheck, ResyncFails, Crash, Select, KeeperSend, ReadInfo, WriteInfo,
           OpenInsert, CloseSimulate, CloseSend, CloseWrite

LEMMA RowMoves ==
    ASSUME TypeInv, [Next]_vars
    PROVE  \/ row'.status = row.status /\ row'.age = row.age
           \/ OpenInsert /\ row.status = "none" /\ row'.status = "open"
                         /\ row.age = Null /\ row'.age = Null
           \/ CloseWrite /\ row'.status = "closing" /\ row'.age = 0
           \/ /\ Sweep \/ MissedSweep
              /\ row'.status = row.status /\ row'.age = Older(row.age)
           \/ WriteInfo /\ row'.status = RowStatus[seen.status] /\ row'.age = row.age
<1>0. row \in Row
    BY DEF TypeInv, TypeOK
<1>1. CASE row' = row
    BY <1>1
<1>2. ASSUME NEW h \in Handlers, ClaimStore(h)
      PROVE  row'.status = row.status /\ row'.age = row.age
    BY <1>0, <1>2 DEF ClaimStore, Row
<1>3. CASE OpenInsert /\ row = NoRow
    BY <1>3 DEF OpenInsert, NoRow
<1>4. CASE CloseWrite
    BY <1>0, <1>4 DEF CloseWrite, Row
<1>5. CASE Sweep \/ MissedSweep
    BY <1>0, <1>5 DEF Sweep, MissedSweep, PeriodPasses, Row
<1>6. CASE WriteInfo
    BY <1>0, <1>6 DEF WriteInfo, Row
<1>7. QED
    BY <1>1, <1>2, <1>3, <1>4, <1>5, <1>6
       DEF Next, Keeper, vars, PollEnds, PollTimesOut, SendFails, ClaimCheck, Land, LandLate,
           PartyCalls, OpenSend, OpenInsert, CloseCheck, ResyncFails, Crash, Select, KeeperSend,
           ReadInfo, CloseSimulate, CloseSend

-----------------------------------------------------------------------------
(* What the row and the keeper know of the chain.                           *)

\* Before the channel is opened nobody confirms anything and the keeper has
\* nothing to do; a status that was read is the chain's or an earlier one.
StatusInv ==
    /\ chain.status = "None" =>
          /\ row.status = "none"
          /\ \A s \in Submitters : tx[s].result # "success"
          /\ pc["opener"] # "writing" /\ pc["closer"] # "writing"
          /\ pc["keeper"] \in {"idle", "selecting"}
    /\ row.status = "closed" => chain.status = "Closed"
    /\ pc["keeper"] = "writing" =>
          /\ seen.status # "None"
          /\ seen.status = "Closed" => chain.status = "Closed"
          /\ row.status = "closed" => seen.status = "Closed"

\* Who writes next, and who has just had a call confirmed.
LEMMA WritersMove ==
    ASSUME TypeInv, CallInv, [Next]_vars
    PROVE  /\ \A s \in Submitters : tx'[s].result = "success" =>
                 \/ tx[s].result = "success"
                 \/ Land(s) /\ Accepts(tx[s].fn, tx[s].claim)
           /\ \A s \in {"opener", "closer"} : pc'[s] = "writing" =>
                 pc[s] = "writing" \/ tx[s].result = "success"
           /\ pc'["keeper"] \in {"idle", "selecting"} \/ pc'["keeper"] = pc["keeper"]
                 \/ (Select /\ Due) \/ pc["keeper"] \notin {"idle", "selecting"}
<1>0. /\ tx \in [Submitters -> Call] /\ pc \in [Submitters -> PcValues]
      /\ Submitters = {"opener", "closer", "keeper"}
      /\ Idle.result = "none"
    BY DEF TypeInv, TypeOK, Submitters, Idle
<1>1. CASE UNCHANGED <<tx, pc>>
    BY <1>0, <1>1
<1>2. ASSUME NEW s \in Submitters, Land(s) PROVE
           /\ \A r \in Submitters : tx'[r].result = "success" =>
                 tx[r].result = "success" \/ (Land(r) /\ Accepts(tx[r].fn, tx[r].claim))
           /\ pc' = pc
    <2>1. \A r \in Submitters \ {s} : tx'[r] = tx[r]
        BY <1>0, <1>2 DEF Land
    <2>2. tx'[s].result = IF Accepts(tx[s].fn, tx[s].claim) THEN "success" ELSE "failed"
        BY <1>0, <1>2 DEF Land, Call
    <2>3. pc' = pc
        BY <1>2 DEF Land
    <2>4. QED
        BY <1>2, <2>1, <2>2, <2>3
<1>3. ASSUME NEW s \in Submitters, PollEnds(s) \/ PollTimesOut(s) \/ SendFails(s) PROVE
           /\ \A r \in Submitters : tx'[r] \in {tx[r], Idle}
           /\ \A r \in {"opener", "closer"} : pc'[r] = "writing" =>
                 pc[r] = "writing" \/ tx[r].result = "success"
           /\ pc'["keeper"] = pc["keeper"] \/ pc["keeper"] \notin {"idle", "selecting"}
    <2>1. \A r \in Submitters : tx'[r] \in {tx[r], Idle}
        BY <1>0, <1>3 DEF PollEnds, PollTimesOut, SendFails
    <2>2. \A r \in Submitters \ {s} : pc'[r] = pc[r]
        BY <1>0, <1>3 DEF PollEnds, PollTimesOut, SendFails, Goto
    <2>3. pc'[s] = "writing" => s = "keeper" \/ tx[s].result = "success"
        BY <1>0, <1>3 DEF PollEnds, PollTimesOut, SendFails, Goto, OnSuccess, OnFailure
    <2>4. pc[s] \in {"polling", "sending", "simulating"}
        BY <1>0, <1>3 DEF PollEnds, PollTimesOut, SendFails, CallInv, Idle
    <2>5. QED
        BY <1>0, <2>1, <2>2, <2>3, <2>4
<1>4. CASE OpenSend \/ CloseSend \/ KeeperSend
    BY <1>0, <1>4 DEF OpenSend, CloseSend, KeeperSend, Send, Goto
<1>5. CASE OpenInsert \/ CloseCheck \/ CloseSimulate \/ CloseWrite \/ Sweep \/ ReadInfo
    BY <1>0, <1>5 DEF OpenInsert, CloseCheck, CloseSimulate, CloseWrite, Sweep, ReadInfo, Goto
<1>6. CASE Select \/ WriteInfo \/ ResyncFails
    BY <1>0, <1>6 DEF Select, WriteInfo, ResyncFails, NextQuery, Goto
<1>7. CASE Crash
    BY <1>0, <1>7 DEF Crash
<1>8. CASE \E s \in Submitters : Land(s)
    BY <1>0, <1>2, <1>8
<1>9. CASE \E s \in Submitters : PollEnds(s) \/ PollTimesOut(s) \/ SendFails(s)
    BY <1>0, <1>3, <1>9
<1>10. QED
    BY <1>1, <1>4, <1>5, <1>6, <1>7, <1>8, <1>9
       DEF Next, Keeper, vars, LandLate, PartyCalls, ClaimCheck, ClaimStore, MissedSweep

\* The keeper only writes what it has read.
LEMMA KeeperWrites ==
    ASSUME TypeInv, CallInv, [Next]_vars, pc'["keeper"] = "writing"
    PROVE  ReadInfo \/ (pc["keeper"] = "writing" /\ seen' = seen /\ ~WriteInfo)
<1>0. pc \in [Submitters -> PcValues] /\ Submitters = {"opener", "closer", "keeper"}
    BY DEF TypeInv, TypeOK, Submitters
<1>1. ~WriteInfo
    BY <1>0 DEF WriteInfo, NextQuery, Goto
<1>2. CASE UNCHANGED <<pc, seen>>
    BY <1>1, <1>2
<1>3. ASSUME NEW s \in Submitters, PollEnds(s) \/ PollTimesOut(s) \/ SendFails(s)
      PROVE  pc'["keeper"] = pc["keeper"] /\ seen' = seen
    <2>1. pc' = [pc EXCEPT ![s] = OnSuccess[s]] \/ pc' = [pc EXCEPT ![s] = OnFailure[s]]
        BY <1>3 DEF PollEnds, PollTimesOut, SendFails, Goto
    <2>2. s # "keeper"
        BY <1>0, <2>1 DEF OnSuccess, OnFailure
    <2>3. QED
        BY <1>0, <1>3, <2>1, <2>2 DEF PollEnds, PollTimesOut, SendFails, keeperVars
<1>4. CASE OpenSend \/ CloseSend \/ OpenInsert \/ CloseCheck \/ CloseSimulate \/ CloseWrite
    BY <1>0, <1>1, <1>4
       DEF OpenSend, CloseSend, OpenInsert, CloseCheck, CloseSimulate, CloseWrite, Goto, keeperVars
<1>5. CASE KeeperSend \/ Sweep \/ Select \/ ResyncFails \/ Crash
    BY <1>0, <1>5 DEF KeeperSend, Sweep, Select, ResyncFails, Crash, NextQuery, Goto
<1>6. CASE \E s \in Submitters : PollEnds(s) \/ PollTimesOut(s) \/ SendFails(s)
    BY <1>1, <1>3, <1>6
<1>7. QED
    BY <1>1, <1>2, <1>4, <1>5, <1>6
       DEF Next, Keeper, vars, keeperVars, Land, LandLate, PartyCalls, ClaimCheck, ClaimStore,
           MissedSweep

LEMMA StatusStep ==
    ASSUME TypeInv, CallInv, StatusInv, [Next]_vars
    PROVE  StatusInv'
<1>0. /\ Submitters = {"opener", "closer", "keeper"}
      /\ chain.status \in ChainStatuses /\ seen.status \in ChainStatuses
      /\ pc \in [Submitters -> PcValues] /\ row \in Row
    BY DEF TypeInv, TypeOK, Submitters, ContractState, Info
<1>1. ASSUME chain'.status = "None"
      PROVE  /\ row'.status = "none"
             /\ \A s \in Submitters : tx'[s].result # "success"
             /\ pc'["opener"] # "writing" /\ pc'["closer"] # "writing"
             /\ pc'["keeper"] \in {"idle", "selecting"}
    <2>1. chain.status = "None"
        BY <1>1, ChainMoves
    <2>2. /\ row.status = "none"
          /\ \A s \in Submitters : tx[s].result # "success"
          /\ pc["opener"] # "writing" /\ pc["closer"] # "writing"
          /\ pc["keeper"] \in {"idle", "selecting"}
        BY <2>1 DEF StatusInv
    <2>3. ~OpenInsert /\ ~CloseWrite /\ ~WriteInfo
        BY <2>2 DEF OpenInsert, CloseWrite, WriteInfo
    <2>4. row'.status = "none"
        BY <2>2, <2>3, RowMoves
    <2>5. ASSUME NEW s \in Submitters, tx'[s].result = "success" PROVE FALSE
        <3>1. Land(s) /\ Accepts(tx[s].fn, tx[s].claim)
            BY <2>2, <2>5, WritersMove
        <3>2. chain' = Effect(tx[s].fn, tx[s].claim) /\ tx[s].fn = "open_channel"
            BY <2>1, <3>1 DEF Land, Apply, Accepts
        <3>3. chain'.status = "Open"
            BY <3>2 DEF Effect, TypeInv, TypeOK, ContractState
        <3>4. QED
            BY <1>1, <3>3
    <2>6. ~Due
        BY <2>2 DEF Due
    <2>7. QED
        BY <1>0, <2>2, <2>4, <2>5, <2>6, WritersMove
<1>2. ASSUME row'.status = "closed" PROVE chain'.status = "Closed"
    <2>1. CASE row.status = "closed"
        BY <2>1, ChainMoves DEF StatusInv
    <2>2. CASE WriteInfo /\ RowStatus[seen.status] = "closed"
        <3>1. seen.status = "Closed" /\ pc["keeper"] = "writing" /\ UNCHANGED chain
            BY <1>0, <2>2 DEF RowStatus, ChainStatuses, WriteInfo
        <3>2. QED
            BY <3>1 DEF StatusInv
    <2>3. QED
        BY <1>2, <2>1, <2>2, RowMoves
<1>3. ASSUME pc'["keeper"] = "writing"
      PROVE  /\ seen'.status # "None"
             /\ seen'.status = "Closed" => chain'.status = "Closed"
             /\ row'.status = "closed" => seen'.status = "Closed"
    <2>1. CASE ReadInfo
        <3>1. seen'.status = chain.status /\ chain' = chain /\ row' = row /\ pc["keeper"] = "reading"
            BY <2>1 DEF ReadInfo
        <3>2. QED
            BY <3>1 DEF StatusInv
    <2>2. CASE ~ReadInfo
        <3>1. pc["keeper"] = "writing" /\ seen' = seen /\ ~WriteInfo
            BY <1>3, <2>2, KeeperWrites
        <3>2. row'.status = "closed" => row.status = "closed"
            BY <3>1, RowMoves
        <3>3. chain.status = "Closed" => chain'.status = "Closed"
            BY ChainMoves
        <3>4. QED
            BY <3>1, <3>2, <3>3 DEF StatusInv
    <2>3. QED
        BY <2>1, <2>2
<1>4. QED
    BY <1>1, <1>2, <1>3 DEF StatusInv

-----------------------------------------------------------------------------
(* A close that was written.  From its first period on no claim is accepted *)
(* any more, and only the keeper can finalize it.                           *)

CloseInv ==
    /\ pc["closer"] = "writing" \/ tx["closer"].result = "success" =>
          row.age = Null /\ chain.status = "Closing"
    /\ row.age # Null =>
          row.status \in {"closing", "closed"} /\ chain.status \in {"Closing", "Closed"}
    /\ row.age >= 1 => \A h \in Handlers : hpc[h] = "idle"

LEMMA OnlyApiBefore ==
    ASSUME TypeInv, [Next]_vars, OnlyApi'
    PROVE  /\ OnlyApi
           /\ WriteInfo => ~(row.status = "closing" /\ seen.status = "Open")
<1>1. direct' = direct \/ \E fn : PartyCalls(fn)
    BY DEF Next, Keeper, vars, PollEnds, PollTimesOut, SendFails, ClaimStore, ClaimCheck, Land,
           LandLate, OpenSend, CloseCheck, ResyncFails, Crash, Select, KeeperSend, ReadInfo,
           WriteInfo, OpenInsert, CloseSimulate, CloseSend, CloseWrite, Sweep, MissedSweep
<1>2. reopened' = reopened \/ WriteInfo
    BY DEF Next, Keeper, vars, history, PollEnds, PollTimesOut, SendFails, ClaimStore, ClaimCheck,
           Land, LandLate, PartyCalls, OpenSend, CloseCheck, ResyncFails, Crash, Select,
           KeeperSend, ReadInfo, OpenInsert, CloseSimulate, CloseSend, CloseWrite, Sweep,
           MissedSweep
<1>3. direct = 0
    BY <1>1 DEF OnlyApi, PartyCalls, TypeInv, TypeOK
<1>4. ASSUME WriteInfo PROVE ~reopened /\ ~(row.status = "closing" /\ seen.status = "Open")
    <2>1. reopened' = (reopened \/ (row.status = "closing" /\ seen.status = "Open"))
        BY <1>4 DEF WriteInfo
    <2>2. QED
        BY <2>1, Zenon DEF OnlyApi
<1>5. QED
    BY <1>2, <1>3, <1>4 DEF OnlyApi

LEMMA AgeType ==
    ASSUME TypeInv
    PROVE  /\ row.age \in Nat \cup {Null} /\ row.age <= Challenge
           /\ Older(Null) = Null /\ Older(Challenge) = Challenge
           /\ Challenge \in Nat \ {0} /\ Challenge # Null
           /\ row.age # Null => Older(row.age) \in {row.age, row.age + 1} /\ row.age >= 0
<1>1. row.age \in 0..Challenge \cup {Null} /\ Challenge \in Nat \ {0}
    BY ConstantsTyped DEF TypeInv, TypeOK, Row
<1>2. QED
    BY <1>1 DEF Older, Null

LEMMA CloseStep ==
    ASSUME TypeInv, CallInv, StatusInv, CloseInv, Finalizing => row.age = Challenge,
           [Next]_vars, OnlyApi'
    PROVE  CloseInv'
<1>0. /\ Submitters = {"opener", "closer", "keeper"}
      /\ chain.status \in ChainStatuses /\ seen.status \in ChainStatuses
      /\ pc \in [Submitters -> PcValues] /\ direct' = 0
    BY DEF TypeInv, TypeOK, Submitters, ContractState, Info, OnlyApi
<1>1. ASSUME pc'["closer"] = "writing" \/ tx'["closer"].result = "success"
      PROVE  row'.age = Null /\ chain'.status = "Closing"
    <2>1. ~CloseWrite
        BY <1>0, <1>1 DEF CloseWrite, Goto, CallInv, Idle
    <2>2. CASE pc["closer"] = "writing" \/ tx["closer"].result = "success"
        <3>1. row.age = Null /\ chain.status = "Closing"
            BY <2>2 DEF CloseInv
        <3>2. chain'.status = "Closing"
            BY <1>0, <3>1, ChainMoves, AgeType
        <3>3. row'.age = Null
            BY <2>1, <3>1, RowMoves, AgeType
        <3>4. QED
            BY <3>2, <3>3
    <2>3. CASE Land("closer") /\ Accepts(tx["closer"].fn, tx["closer"].claim)
        <3>1. tx["closer"].fn = "initiate_close"
            BY <2>3, CallNone DEF CallInv, Functions
        <3>2. chain.status = "Open" /\ chain' = [chain EXCEPT !.status = "Closing"] /\ row' = row
            BY <2>3, <3>1 DEF Land, Apply, Accepts, Effect
        <3>3. chain'.status = "Closing"
            BY <3>2 DEF TypeInv, TypeOK, ContractState
        <3>4. QED
            BY <3>2, <3>3 DEF CloseInv
    <2>4. QED
        BY <1>0, <1>1, <2>2, <2>3, WritersMove
<1>2. ASSUME row'.age # Null
      PROVE  row'.status \in {"closing", "closed"} /\ chain'.status \in {"Closing", "Closed"}
    <2>1. CASE row.age # Null
        <3>1. row.status \in {"closing", "closed"} /\ chain.status \in {"Closing", "Closed"}
            BY <2>1 DEF CloseInv
        <3>2. chain'.status \in {"Closing", "Closed"}
            BY <3>1, ChainMoves
        <3>3. CASE WriteInfo /\ row'.status = RowStatus[seen.status]
            <4>1. seen.status \in {"Closing", "Closed"}
                BY <1>0, <3>1, <3>3, OnlyApiBefore DEF WriteInfo, StatusInv, ChainStatuses
            <4>2. QED
                BY <3>2, <3>3, <4>1 DEF RowStatus
        <3>4. QED
            BY <3>1, <3>2, <3>3, RowMoves
    <2>2. CASE row.age = Null /\ CloseWrite /\ row'.status = "closing"
        BY <2>2 DEF CloseWrite, CloseInv
    <2>3. QED
        BY <1>2, <2>1, <2>2, RowMoves, AgeType
<1>3. ASSUME row'.age >= 1, NEW h \in Handlers PROVE hpc'[h] = "idle"
    <2>1. CASE Sweep \/ MissedSweep
        BY <2>1 DEF Sweep, MissedSweep, PeriodPasses, handlerVars
    <2>2. CASE row'.age = row.age
        <3>1. hpc[h] = "idle" /\ row.status # "open"
            BY <1>3, <2>2, AgeType DEF CloseInv, Null
        <3>2. hpc \in [Handlers -> {"idle", "checked"}]
            BY DEF TypeInv, TypeOK
        <3>3. QED
            BY <3>1, <3>2
               DEF Next, Keeper, vars, handlerVars, PollEnds, PollTimesOut, SendFails, ClaimStore,
                   ClaimCheck, Land, LandLate, PartyCalls, OpenSend, CloseCheck, ResyncFails,
                   Crash, Select, KeeperSend, ReadInfo, WriteInfo, OpenInsert, CloseSimulate,
                   CloseSend, CloseWrite, Sweep, MissedSweep
    <2>3. QED
        BY <1>3, <2>1, <2>2, RowMoves DEF Null
<1>4. QED
    BY <1>1, <1>2, <1>3 DEF CloseInv

-----------------------------------------------------------------------------
(* Sweeps are counted.  Every period since the close was written has had a  *)
(* disruption, or a sweep that settled the stored claim.                    *)

\* The keeper is in a sweep whose watchtower query is still to come, or whose
\* checkpoint is not included yet.
InSweep ==
    \/ pc["keeper"] = "selecting"
    \/ phase # "watchtower" /\ pc["keeper"] # "idle"
    \/ phase = "watchtower" /\ pc["keeper"] = "sending"
    \/ phase = "watchtower" /\ pc["keeper"] = "polling" /\ tx["keeper"].result = "pending"

SweepInv ==
    /\ Finalizing => row.age = Challenge /\ (AllSettled \/ disruptions + 1 >= Challenge)
    /\ chain.status # "Closed" /\ row.age >= 1 =>
          \/ AllSettled
          \/ disruptions >= row.age
          \/ InSweep /\ disruptions + 1 >= row.age
    /\ row.age >= 1 /\ phase = "watchtower" /\ pc["keeper"] \in {"sending", "polling"} =>
          captured = row.pending

LEMMA DisruptionsMove ==
    ASSUME TypeInv, [Next]_vars
    PROVE  disruptions \in Nat /\ disruptions' \in {disruptions, disruptions + 1}
<1>1. disruptions \in Nat
    BY ConstantsTyped DEF TypeInv, TypeOK
<1>2. disruptions' = disruptions \/ Disrupt
    BY DEF Next, Keeper, vars, PollEnds, PollTimesOut, SendFails, ClaimStore, ClaimCheck, Land,
           LandLate, PartyCalls, OpenSend, CloseCheck, ResyncFails, Crash, Select, KeeperSend,
           ReadInfo, WriteInfo, OpenInsert, CloseSimulate, CloseSend, CloseWrite, Sweep,
           MissedSweep
<1>3. QED
    BY <1>1, <1>2 DEF Disrupt

\* What is settled stays so while no request can add a claim.
LEMMA SettledKept ==
    ASSUME TypeInv, [Next]_vars, \A h \in Handlers : hpc[h] = "idle"
    PROVE  /\ row'.pending = row.pending /\ accepted' = accepted
           /\ AllSettled => AllSettled'
<1>1. row'.pending = row.pending /\ accepted' = accepted
    BY StoredClaim
<1>2. chain.claimed <= chain'.claimed
    BY ChainGrows
<1>3. accepted \subseteq [nonce : Nat, amount : Nat] /\ chain.claimed \in Nat
    BY ConstantsTyped DEF TypeInv, TypeOK, ContractState
<1>4. chain'.claimed \in Nat
    BY TypeStep, ConstantsTyped DEF TypeInv, TypeOK, ContractState
<1>5. ASSUME AllSettled, NEW c \in accepted PROVE c.amount <= chain'.claimed
    BY <1>2, <1>3, <1>4, <1>5 DEF AllSettled
<1>6. QED
    BY <1>1, <1>5 DEF AllSettled

\* From its choice to the end of its poll the keeper keeps to one claim.
LEMMA KeeperHolds ==
    ASSUME TypeInv, CallInv, [Next]_vars, pc'["keeper"] \in {"sending", "polling"}
    PROVE  /\ phase' = phase
           /\ \/ Select /\ Due /\ captured' = row.pending /\ UNCHANGED row
              \/ pc["keeper"] \in {"sending", "polling"} /\ captured' = captured
           /\ pc'["keeper"] = "sending" => (Select /\ Due) \/ pc["keeper"] = "sending"
<1>0. pc \in [Submitters -> PcValues] /\ Submitters = {"opener", "closer", "keeper"}
    BY DEF TypeInv, TypeOK, Submitters
<1>1. CASE UNCHANGED <<pc, phase, captured>>
    BY <1>1
<1>2. ASSUME NEW s \in Submitters, PollEnds(s) \/ PollTimesOut(s) \/ SendFails(s)
      PROVE  pc'["keeper"] = pc["keeper"] /\ UNCHANGED <<phase, captured>>
    <2>1. pc' = [pc EXCEPT ![s] = OnSuccess[s]] \/ pc' = [pc EXCEPT ![s] = OnFailure[s]]
        BY <1>2 DEF PollEnds, PollTimesOut, SendFails, Goto
    <2>2. s # "keeper"
        BY <1>0, <2>1 DEF OnSuccess, OnFailure
    <2>3. QED
        BY <1>0, <1>2, <2>1, <2>2 DEF PollEnds, PollTimesOut, SendFails, keeperVars
<1>3. CASE OpenSend \/ CloseSend \/ OpenInsert \/ CloseCheck \/ CloseSimulate \/ CloseWrite
    BY <1>0, <1>3
       DEF OpenSend, CloseSend, OpenInsert, CloseCheck, CloseSimulate, CloseWrite, Goto, keeperVars
<1>4. CASE KeeperSend
    BY <1>0, <1>4 DEF KeeperSend, Goto, keeperVars
<1>5. CASE Select
    BY <1>0, <1>5 DEF Select, NextQuery, Goto
<1>6. CASE Sweep \/ ReadInfo \/ WriteInfo \/ ResyncFails \/ Crash
    BY <1>0, <1>6 DEF Sweep, ReadInfo, WriteInfo, ResyncFails, Crash, NextQuery, Goto
<1>7. CASE \E s \in Submitters : PollEnds(s) \/ PollTimesOut(s) \/ SendFails(s)
    BY <1>2, <1>7
<1>8. QED
    BY <1>1, <1>3, <1>4, <1>5, <1>6, <1>7
       DEF Next, Keeper, vars, keeperVars, Land, LandLate, PartyCalls, ClaimCheck, ClaimStore,
           MissedSweep

\* Nobody but the keeper begins to finalize.
LEMMA FinalizingMoves ==
    ASSUME TypeInv, CallInv, [Next]_vars, direct' = 0, Finalizing'
    PROVE  Finalizing \/ (Select /\ phase = "finalize" /\ Due)
<1>0. /\ tx \in [Submitters -> Call] /\ Submitters = {"opener", "closer", "keeper"}
      /\ Idle.fn = "none"
    BY DEF TypeInv, TypeOK, Submitters, Idle
<1>1. CASE chain'.status = "Closed"
    BY <1>1, ChainMoves DEF Finalizing
<1>2. CASE phase' = "finalize" /\ pc'["keeper"] = "sending"
    BY <1>2, KeeperHolds DEF Finalizing
<1>3. ASSUME tx'["keeper"].fn = "finalize_close" PROVE Finalizing
    <2>1. CASE KeeperSend
        BY <1>0, <1>3, <2>1 DEF KeeperSend, Send, Finalizing
    <2>2. CASE OpenSend \/ CloseSend
        BY <1>0, <1>3, <2>2 DEF OpenSend, CloseSend, Send, Finalizing
    <2>3. ASSUME NEW s \in Submitters, Land(s) PROVE tx'["keeper"].fn = tx["keeper"].fn
        BY <1>0, <2>3 DEF Land, Call
    <2>4. ASSUME NEW s \in Submitters, PollEnds(s) \/ PollTimesOut(s) \/ SendFails(s)
          PROVE  tx'["keeper"] \in {tx["keeper"], Idle}
        BY <1>0, <2>4 DEF PollEnds, PollTimesOut, SendFails
    <2>5. CASE Crash
        BY <1>0, <1>3, <2>5 DEF Crash
    <2>6. CASE tx' = tx
        BY <1>3, <2>6 DEF Finalizing
    <2>7. QED
        BY <1>0, <1>3, <2>1, <2>2, <2>3, <2>4, <2>5, <2>6
           DEF Finalizing, Next, Keeper, vars, LandLate, PartyCalls, ClaimCheck, ClaimStore,
               CloseCheck, ResyncFails, Select, ReadInfo, WriteInfo, OpenInsert, CloseSimulate,
               CloseWrite, Sweep, MissedSweep
<1>4. ASSUME NEW call \in orphans', call.fn = "finalize_close" PROVE Finalizing
    <2>1. orphans' \subseteq orphans \cup {tx[s] : s \in Submitters}
        BY DEF Next, Keeper, vars, PollEnds, PollTimesOut, SendFails, ClaimStore, ClaimCheck, Land,
               LandLate, PartyCalls, OpenSend, CloseCheck, ResyncFails, Crash, Select, KeeperSend,
               ReadInfo, WriteInfo, OpenInsert, CloseSimulate, CloseSend, CloseWrite, Sweep,
               MissedSweep
    <2>2. QED
        BY <1>0, <1>4, <2>1 DEF Finalizing, CallInv
<1>5. QED
    BY <1>1, <1>2, <1>3, <1>4 DEF Finalizing

\* How a sweep gets past its watchtower query.
LEMMA SweepMoves ==
    ASSUME TypeInv, CallInv, [Next]_vars, InSweep
    PROVE  \/ InSweep'
           \/ disruptions' = disruptions + 1
           \/ phase = "watchtower" /\ Select /\ ~Due
           \/ phase = "watchtower" /\ KeeperSend /\ ~Accepts("checkpoint", captured)
           \/ phase = "watchtower" /\ pc["keeper"] = "polling" /\ Land("keeper")
<1>0. /\ pc \in [Submitters -> PcValues] /\ tx \in [Submitters -> Call]
      /\ Submitters = {"opener", "closer", "keeper"} /\ phase \in Phases
    BY DEF TypeInv, TypeOK, Submitters
<1>1. CASE UNCHANGED <<phase, pc, tx>>
    BY <1>1 DEF InSweep
<1>2. CASE Disrupt
    BY <1>2 DEF Disrupt
<1>3. ASSUME NEW s \in Submitters, Land(s), s # "keeper"
      PROVE  UNCHANGED <<phase, pc>> /\ tx'["keeper"] = tx["keeper"]
    BY <1>0, <1>3 DEF Land, keeperVars
<1>4. ASSUME Land("keeper")
      PROVE  InSweep' \/ (phase = "watchtower" /\ pc["keeper"] = "polling")
    BY <1>0, <1>4 DEF Land, keeperVars, InSweep
<1>5. ASSUME NEW s \in Submitters, PollEnds(s) PROVE InSweep'
    <2>1. phase' = phase /\ pc[s] = "polling" /\ tx[s].result # "pending"
        BY <1>5 DEF PollEnds, keeperVars
    <2>2. CASE s = "keeper"
        <3>1. phase # "watchtower"
            BY <2>1, <2>2 DEF InSweep
        <3>2. pc'["keeper"] = "reading"
            BY <1>0, <1>5, <2>2 DEF PollEnds, Goto, OnSuccess, OnFailure
        <3>3. QED
            BY <2>1, <3>1, <3>2 DEF InSweep
    <2>3. CASE s # "keeper"
        <3>1. pc'["keeper"] = pc["keeper"] /\ tx'["keeper"] = tx["keeper"]
            BY <1>0, <1>5, <2>3 DEF PollEnds, Goto
        <3>2. QED
            BY <2>1, <3>1 DEF InSweep
    <2>4. QED
        BY <2>2, <2>3
<1>6. CASE OpenSend \/ CloseSend \/ OpenInsert \/ CloseCheck \/ CloseSimulate \/ CloseWrite
    <2>1. pc'["keeper"] = pc["keeper"] /\ tx'["keeper"] = tx["keeper"] /\ phase' = phase
        BY <1>0, <1>6 DEF OpenSend, CloseSend, OpenInsert, CloseCheck, CloseSimulate, CloseWrite,
                          Send, Goto, keeperVars
    <2>2. QED
        BY <2>1 DEF InSweep
<1>7. CASE KeeperSend
    <2>1. phase' = phase
        BY <1>7 DEF KeeperSend, keeperVars
    <2>2. CASE phase # "watchtower"
        <3>1. pc'["keeper"] # "idle"
            BY <1>0, <1>7 DEF KeeperSend, Goto
        <3>2. QED
            BY <2>1, <2>2, <3>1 DEF InSweep
    <2>3. CASE phase = "watchtower" /\ Accepts("checkpoint", captured)
        <3>1. pc'["keeper"] = "polling" /\ tx'["keeper"].result = "pending"
            BY <1>0, <1>7, <2>3 DEF KeeperSend, Send, Goto
        <3>2. QED
            BY <2>1, <2>3, <3>1 DEF InSweep
    <2>4. QED
        BY <1>7, <2>2, <2>3
<1>8. CASE Select
    <2>1. CASE Due
        BY <1>0, <1>8, <2>1 DEF Select, Goto, InSweep, Phases
    <2>2. CASE ~Due
        BY <1>0, <1>8, <2>2 DEF Select, NextQuery, Goto, InSweep, Phases
    <2>3. QED
        BY <2>1, <2>2
<1>9. CASE ReadInfo
    BY <1>0, <1>9 DEF ReadInfo, Goto, InSweep
<1>10. CASE WriteInfo
    BY <1>0, <1>10 DEF WriteInfo, NextQuery, Goto, InSweep, Phases
<1>11. CASE Sweep
    BY <1>0, <1>11 DEF Sweep, InSweep
<1>12. CASE \E s \in Submitters : Land(s)
    BY <1>3, <1>4, <1>12 DEF InSweep
<1>13. CASE \E s \in Submitters : PollEnds(s)
    BY <1>5, <1>13
<1>14. QED
    BY <1>1, <1>2, <1>6, <1>7, <1>8, <1>9, <1>10, <1>11, <1>12, <1>13
       DEF Next, Keeper, vars, keeperVars, PollTimesOut, SendFails, LandLate, PartyCalls,
           ClaimCheck, ClaimStore, MissedSweep, ResyncFails, Crash

LEMMA SweepStep ==
    ASSUME TypeInv, CallInv, StatusInv, CloseInv, SweepInv, SettledInv, AcceptedIsStored,
           KnownClaims, SettledIsKnown, AcceptedInOrder, [Next]_vars, OnlyApi'
    PROVE  SweepInv'
<1>0. /\ row.age \in Nat \cup {Null} /\ row.age <= Challenge /\ Challenge \in Nat \ {0}
      /\ disruptions \in Nat /\ disruptions' \in {disruptions, disruptions + 1}
      /\ pc \in [Submitters -> PcValues] /\ "keeper" \in Submitters
      /\ direct' = 0
    BY AgeType, DisruptionsMove DEF TypeInv, TypeOK, Submitters, OnlyApi
<1>1. ASSUME row.age >= 1
      PROVE  /\ row'.pending = row.pending
             /\ AllSettled => AllSettled'
    BY <1>1, SettledKept DEF CloseInv
<1>2. ASSUME Finalizing'
      PROVE  row'.age = Challenge /\ (AllSettled' \/ disruptions' + 1 >= Challenge)
    <2>1. row.age = Challenge /\ (AllSettled \/ disruptions + 1 >= Challenge)
        <3>1. CASE Finalizing
            BY <3>1 DEF SweepInv
        <3>2. CASE ~Finalizing /\ Select /\ phase = "finalize" /\ Due
            <4>1. row.age = Challenge /\ chain.status # "Closed"
                BY <3>2 DEF Due, Finalizing
            <4>2. AllSettled \/ disruptions >= row.age \/ disruptions + 1 >= row.age
                BY <1>0, <4>1 DEF SweepInv
            <4>3. QED
                BY <1>0, <4>1, <4>2
        <3>3. QED
            BY <1>0, <1>2, <3>1, <3>2, FinalizingMoves
    <2>2. row.age >= 1 /\ row.age # Null
        BY <1>0, <2>1 DEF Null
    <2>3. row'.age = Challenge
        <3>1. ~CloseWrite
            BY <2>2 DEF CloseWrite, CloseInv
        <3>2. QED
            BY <2>1, <2>2, <3>1, RowMoves, AgeType
    <2>4. CASE AllSettled
        BY <1>1, <2>2, <2>3, <2>4
    <2>5. CASE disruptions + 1 >= Challenge
        <3>1. /\ disruptions \in Nat /\ Challenge \in Nat
              /\ disruptions' = disruptions \/ disruptions' = disruptions + 1
            BY <1>0
        <3>2. disruptions' + 1 >= Challenge
            BY <2>5, <3>1
        <3>3. QED
            BY <2>3, <3>2
    <2>6. QED
        BY <2>1, <2>4, <2>5
<1>3. ASSUME chain'.status # "Closed", row'.age >= 1
      PROVE  \/ AllSettled'
             \/ disruptions' >= row'.age
             \/ InSweep' /\ disruptions' + 1 >= row'.age
    <2>0. chain.status # "Closed"
        BY <1>3, ChainMoves
    <2>1. CASE row'.age = row.age
        <3>0. row.age >= 1 /\ row.age # Null /\ row.age \in Nat
            BY <1>0, <1>3, <2>1 DEF Null
        <3>1. CASE AllSettled
            BY <1>1, <3>0, <3>1
        <3>2. CASE disruptions >= row.age
            BY <1>0, <2>1, <3>0, <3>2
        <3>3. CASE ~AllSettled /\ InSweep /\ disruptions + 1 >= row.age
            <4>0. chain.status = "Closing" /\ row.status = "closing"
                BY <2>0, <3>0 DEF CloseInv, StatusInv
            <4>1. CASE InSweep' \/ disruptions' = disruptions + 1
                BY <1>0, <2>1, <3>0, <3>3, <4>1
            <4>2. ASSUME phase = "watchtower", Select, ~Due PROVE AllSettled
                <5>1. row.pending.amount <= row.claimed /\ row.claimed <= chain.claimed
                    BY <4>0, <4>2, ConstantsTyped
                       DEF Due, Unsettled, SettledInv, TypeInv, TypeOK, Row
                <5>2. /\ accepted \subseteq [nonce : Nat, amount : Nat]
                      /\ row.pending.amount \in Nat /\ row.claimed \in Nat /\ chain.claimed \in Nat
                    BY ConstantsTyped DEF TypeInv, TypeOK, Row, ContractState
                <5>3. ASSUME NEW c \in accepted PROVE c.amount <= chain.claimed
                    <6>1. c.amount \in Nat /\ c.amount <= row.pending.amount
                        BY <5>2 DEF AcceptedIsStored
                    <6>2. QED
                        BY <5>1, <5>2, <6>1
                <5>4. QED
                    BY <5>3 DEF AllSettled
            <4>3. ASSUME phase = "watchtower", KeeperSend, ~Accepts("checkpoint", captured)
                  PROVE  AllSettled
                <5>1. captured = row.pending
                    BY <3>0, <4>3 DEF KeeperSend, SweepInv
                <5>2. QED
                    BY <4>0, <4>3, <5>1, RefusedIsSettled
            <4>4. ASSUME phase = "watchtower", pc["keeper"] = "polling", Land("keeper")
                  PROVE  AllSettled'
                <5>1. captured = row.pending
                    BY <3>0, <4>4 DEF SweepInv
                <5>2. tx["keeper"].fn = "checkpoint" /\ tx["keeper"].claim = row.pending
                    BY <4>4, <5>1 DEF Land, CallInv, Idle
                <5>3. CASE ~Accepts("checkpoint", row.pending)
                    BY <3>3, <4>0, <5>3, RefusedIsSettled
                <5>4. CASE Accepts("checkpoint", row.pending)
                    <6>1. chain' = [chain EXCEPT !.nonce = row.pending.nonce,
                                                 !.claimed = row.pending.amount]
                        BY <4>4, <5>2, <5>4 DEF Land, Apply, Effect
                    <6>2. chain'.claimed = row.pending.amount /\ accepted' = accepted
                        BY <4>4, <6>1 DEF Land, history, TypeInv, TypeOK, ContractState
                    <6>3. QED
                        BY <6>2 DEF AllSettled, AcceptedIsStored
                <5>5. QED
                    BY <5>3, <5>4
            <4>5. QED
                BY <3>3, <4>1, <4>2, <4>3, <4>4, SweepMoves
        <3>4. QED
            BY <2>0, <3>0, <3>1, <3>2, <3>3 DEF SweepInv
    <2>2. CASE (Sweep \/ MissedSweep) /\ row'.age = Older(row.age)
        <3>1. row.age \in Nat /\ row'.age \in {row.age, row.age + 1} /\ row.age # Null
            BY <1>0, <1>3, <2>2, AgeType DEF Null
        <3>2. \A h \in Handlers : hpc[h] = "idle"
            BY <2>2 DEF Sweep, MissedSweep, PeriodPasses
        <3>3. AllSettled \/ disruptions >= row.age
            <4>1. ~InSweep
                BY <2>2 DEF Sweep, MissedSweep, InSweep
            <4>2. CASE row.age = 0
                BY <1>0, <4>2
            <4>3. CASE row.age >= 1
                BY <2>0, <4>1, <4>3 DEF SweepInv
            <4>4. QED
                BY <3>1, <4>2, <4>3
        <3>4. CASE AllSettled
            BY <3>2, <3>4, SettledKept
        <3>5. CASE disruptions >= row.age /\ Sweep
            <4>1. InSweep'
                BY <1>0, <3>5 DEF Sweep, Goto, InSweep
            <4>2. QED
                BY <1>0, <3>1, <3>5, <4>1
        <3>6. CASE disruptions >= row.age /\ MissedSweep
            <4>1. disruptions' = disruptions + 1
                BY <3>6 DEF MissedSweep, Disrupt
            <4>2. QED
                BY <1>0, <3>1, <3>6, <4>1
        <3>7. QED
            BY <2>2, <3>3, <3>4, <3>5, <3>6
    <2>3. QED
        BY <1>3, <2>1, <2>2, RowMoves DEF Null
<1>4. ASSUME row'.age >= 1, phase' = "watchtower", pc'["keeper"] \in {"sending", "polling"}
      PROVE  captured' = row'.pending
    <2>1. CASE Select /\ captured' = row.pending /\ UNCHANGED row
        BY <2>1
    <2>2. CASE pc["keeper"] \in {"sending", "polling"} /\ captured' = captured
        <3>1. ~Sweep /\ ~MissedSweep
            BY <2>2 DEF Sweep, MissedSweep
        <3>2. row.age >= 1
            BY <1>4, <3>1, RowMoves DEF Null
        <3>3. phase = "watchtower"
            BY <1>4, KeeperHolds
        <3>4. QED
            BY <1>1, <2>2, <3>2, <3>3 DEF SweepInv
    <2>3. QED
        BY <1>4, <2>1, <2>2, KeeperHolds
<1>5. QED
    BY <1>2, <1>3, <1>4 DEF SweepInv

-----------------------------------------------------------------------------

DefenceInv ==
    /\ CallInv /\ StatusInv
    /\ KnownClaims /\ SettledIsKnown /\ AcceptedInOrder
    /\ OnlyApi => CloseInv /\ SweepInv

LEMMA InitDefence == Init => DefenceInv
<1> SUFFICES ASSUME Init PROVE DefenceInv
    OBVIOUS
<1>1. CallInv /\ StatusInv
    BY DEF Init, CallInv, StatusInv, Submitters, Idle, NoRow
<1>2. KnownClaims /\ SettledIsKnown /\ AcceptedInOrder
    BY InitKnown DEF Init, SettledIsKnown, AcceptedInOrder
<1>3. CloseInv /\ SweepInv
    BY DEF Init, CloseInv, SweepInv, Submitters, Finalizing, Idle, NoRow, Null
<1>4. QED
    BY <1>1, <1>2, <1>3 DEF DefenceInv

LEMMA DefenceStep ==
    ASSUME TypeInv, SettledInv, AcceptedIsStored, DefenceInv, [Next]_vars
    PROVE  DefenceInv'
<1>1. CallInv' /\ StatusInv'
    BY CallStep, StatusStep DEF DefenceInv
<1>2. KnownClaims' /\ SettledIsKnown' /\ AcceptedInOrder'
    BY KnownStep, SettledStep, OrderStep DEF DefenceInv
<1>3. ASSUME OnlyApi' PROVE CloseInv' /\ SweepInv'
    <2>1. CloseInv /\ SweepInv
        BY <1>3, OnlyApiBefore DEF DefenceInv
    <2>2. CloseInv'
        BY <1>3, <2>1, CloseStep DEF DefenceInv, SweepInv
    <2>3. SweepInv'
        BY <1>3, <2>1, SweepStep DEF DefenceInv
    <2>4. QED
        BY <2>2, <2>3
<1>4. QED
    BY <1>1, <1>2, <1>3 DEF DefenceInv

\* The watchtower outlasts every stale close: however the sweeps, the claim
\* requests, the close and late transactions interleave, a channel closed
\* through the API is not finalized over an accepted claim unless every
\* period of the challenge but one had a disruption.
THEOREM CloseIsDefended ==
    ASSUME Monotone
    PROVE  Spec => []DefendedBeforeClosed
<1>1. TypeInv /\ AcceptedIsStored /\ [Next]_vars => AcceptedIsStored'
    BY AcceptedStep
<1>2. TypeInv /\ SettledInv /\ AcceptedIsStored /\ DefenceInv /\ [Next]_vars => DefenceInv'
    BY DefenceStep
<1>3. TypeInv /\ DefenceInv => DefendedBeforeClosed
    <2> SUFFICES ASSUME TypeInv, DefenceInv, chain.status = "Closed", direct = 0, ~reopened
                 PROVE  AllSettled \/ disruptions + 1 >= Challenge
        BY ConstantsTyped DEF DefendedBeforeClosed, TypeInv, TypeOK
    <2>1. QED
        BY DEF DefenceInv, OnlyApi, SweepInv, Finalizing
<1>4. QED
    BY <1>1, <1>2, <1>3, InitAccepted, InitDefence, TypeInvariant, SettledInvariant, PTL DEF Spec
=============================================================================
