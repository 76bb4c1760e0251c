------------------------------ MODULE Channel -------------------------------
(***************************************************************************)
(* One payment channel (src/x402/channel.service.ts and                    *)
(* channel-keeper.service.ts): claims accepted in Postgres without a chain *)
(* call, the opening and closing the API relays, and the keeper that       *)
(* checkpoints, finalizes and resyncs the row from the chain.              *)
(*                                                                         *)
(* Channels do not share state, so one is enough.  The contract is modelled *)
(* by the calls the code makes and the rejections it relies on.  Requests  *)
(* that are refused before anything is sent or written change nothing and  *)
(* are no steps.  Time is counted in cron periods.                         *)
(***************************************************************************)
EXTENDS Integers

CONSTANTS
    Handlers,      \* concurrent /x402/channel/claim requests
    Claims,        \* claims that are posted: [nonce, amount]
    Signed,        \* those whose signature is the payer's
    Deposit,       \* what the channel escrows
    Challenge,     \* challenge period, in cron periods (86400 s, 120 s each)
    MaxDirect,     \* bound: calls a party makes without the API
    MaxDisruptions \* bound: failed calls, timeouts, crashes, missed cron periods

ASSUME ChannelAssumption ==
    /\ Claims \subseteq [nonce : Nat, amount : Nat]
    /\ Signed \subseteq Claims
    /\ Deposit \in Nat
    /\ Challenge \in Nat \ {0}
    /\ {MaxDirect, MaxDisruptions} \subseteq Nat

VARIABLES
    chain,     \* the contract's channel: status, claimed, nonce, periods in Closing
    row,       \* x402_channels: claimed, pending, status, age of closing_at
    pc, tx,    \* opener, closer and keeper: where each is, the call it polls for
    orphans,   \* calls whose submitter no longer polls for them
    phase,     \* keeper: the query it is at
    captured,  \* keeper: the claim it read with the row
    seen,      \* keeper: what get_channel_info returned
    hpc, hclaim, \* claim requests: where each is, its claim
    accepted,  \* history: claims answered with accepted: true
    reopened,  \* history: a resync wrote 'open' over 'closing'
    direct, disruptions

keeperVars  == <<phase, captured, seen>>
handlerVars == <<hpc, hclaim>>
history     == <<accepted, reopened>>
vars == <<chain, row, pc, tx, orphans, keeperVars, handlerVars, history, direct, disruptions>>

Null == -1
Zero == [nonce |-> 0, amount |-> 0]

Submitters == {"opener", "closer", "keeper"}
Functions  == {"open_channel", "checkpoint", "initiate_close", "finalize_close"}
Idle       == [fn |-> "none", claim |-> Zero, result |-> "none"]
NoRow      == [claimed |-> 0, pending |-> Zero, status |-> "none", age |-> Null]

Init ==
    /\ chain = [status |-> "None", claimed |-> 0, nonce |-> 0, age |-> 0]
    /\ row = NoRow
    /\ pc = [s \in Submitters |-> "idle"]
    /\ tx = [s \in Submitters |-> Idle]
    /\ orphans = {}
    /\ phase = "checkpoints"
    /\ captured = Zero
    /\ seen = [status |-> "None", claimed |-> 0]
    /\ hpc = [h \in Handlers |-> "idle"]
    /\ hclaim = [h \in Handlers |-> Zero]
    /\ accepted = {}
    /\ reopened = FALSE
    /\ direct = 0
    /\ disruptions = 0

Disrupt ==
    /\ disruptions < MaxDisruptions
    /\ disruptions' = disruptions + 1

Goto(s, where) == pc' = [pc EXCEPT ![s] = where]

-----------------------------------------------------------------------------
(* The contract *)

\* What a simulation, or the ledger, accepts now.
Accepts(fn, c) ==
    \/ /\ fn = "open_channel"
       /\ chain.status = "None"
    \/ /\ fn = "checkpoint"
       /\ chain.status \in {"Open", "Closing"}
       /\ c \in Signed
       /\ chain.nonce < c.nonce
       /\ chain.claimed < c.amount
       /\ c.amount <= Deposit
    \/ /\ fn = "initiate_close"
       /\ chain.status = "Open"
    \/ /\ fn = "finalize_close"
       /\ chain.status = "Closing"
       /\ chain.age = Challenge

Effect(fn, c) ==
    CASE fn = "open_channel"   -> [chain EXCEPT !.status = "Open"]
      [] fn = "checkpoint"     -> [chain EXCEPT !.nonce = c.nonce, !.claimed = c.amount]
      [] fn = "initiate_close" -> [chain EXCEPT !.status = "Closing"]
      [] fn = "finalize_close" -> [chain EXCEPT !.status = "Closed"]

Apply(fn, c) == IF Accepts(fn, c) THEN chain' = Effect(fn, c) ELSE UNCHANGED chain

\* A call somebody polls for is included in a ledger.
Land(s) ==
    /\ tx[s].result = "pending"
    /\ Apply(tx[s].fn, tx[s].claim)
    /\ tx' = [tx EXCEPT ![s].result =
                 IF Accepts(tx[s].fn, tx[s].claim) THEN "success" ELSE "failed"]
    /\ UNCHANGED <<row, pc, orphans, keeperVars, handlerVars, history, direct, disruptions>>

\* A call nobody polls for any more is included after all.
LandLate(call) ==
    /\ Apply(call.fn, call.claim)
    /\ orphans' = orphans \ {call}
    /\ UNCHANGED <<row, pc, tx, keeperVars, handlerVars, history, direct, disruptions>>

\* A party closes, or finalizes, without the API.
PartyCalls(fn) ==
    /\ direct < MaxDirect
    /\ direct' = direct + 1
    /\ Accepts(fn, Zero)
    /\ chain' = Effect(fn, Zero)
    /\ UNCHANGED <<row, pc, tx, orphans, keeperVars, handlerVars, history, disruptions>>

-----------------------------------------------------------------------------
(* Sending a call and polling for it: pollForTransaction gives up after 15  *)
(* tries, a transaction stays valid for 60 seconds.                         *)

\* withFacilitatorSubmissionLock: from the account lookup to the end of the poll.
Unlocked == \A s \in Submitters : tx[s] = Idle

Send(s, fn, c) ==
    /\ Unlocked
    /\ tx' = [tx EXCEPT ![s] = [fn |-> fn, claim |-> c, result |-> "pending"]]

\* Where the caller goes on: open and close return on a failure, the keeper
\* resyncs either way.
OnSuccess == [opener |-> "writing", closer |-> "writing", keeper |-> "reading"]
OnFailure == [opener |-> "done", closer |-> "idle", keeper |-> "reading"]

PollEnds(s) ==
    /\ pc[s] = "polling"
    /\ tx[s].result \in {"success", "failed"}
    /\ Goto(s, IF tx[s].result = "success" THEN OnSuccess[s] ELSE OnFailure[s])
    /\ tx' = [tx EXCEPT ![s] = Idle]
    /\ UNCHANGED <<chain, row, orphans, keeperVars, handlerVars, history, direct, disruptions>>

PollTimesOut(s) ==
    /\ Disrupt
    /\ tx[s].result = "pending"
    /\ orphans' = orphans \cup {tx[s]}
    /\ tx' = [tx EXCEPT ![s] = Idle]
    /\ Goto(s, OnFailure[s])
    /\ UNCHANGED <<chain, row, keeperVars, handlerVars, history, direct>>

\* Account lookup, simulation, signing or sendTransaction fails.  (When only the
\* answer to sendTransaction is lost, that is a send and PollTimesOut.)
SendFails(s) ==
    /\ Disrupt
    /\ pc[s] \in {"simulating", "sending"}
    /\ Goto(s, OnFailure[s])
    /\ UNCHANGED <<chain, row, tx, orphans, keeperVars, handlerVars, history, direct>>

-----------------------------------------------------------------------------
(* claim *)

\* Broken variant of ClaimCheck: no capacity check.
ClaimCheckUncapped(h, c) ==
    /\ hpc[h] = "idle"
    /\ row.status = "open"
    /\ row.pending.nonce < c.nonce
    /\ row.pending.amount < c.amount
    /\ c \in Signed
    /\ hpc' = [hpc EXCEPT ![h] = "checked"]
    /\ hclaim' = [hclaim EXCEPT ![h] = c]
    /\ UNCHANGED <<chain, row, pc, tx, orphans, keeperVars, history, direct, disruptions>>

\* The SELECT and the checks on what it returned.
ClaimCheck(h, c) ==
    /\ hpc[h] = "idle"
    /\ row.status = "open"
    /\ row.pending.nonce < c.nonce
    /\ row.pending.amount < c.amount
    /\ c.amount <= Deposit
    /\ c \in Signed
    /\ hpc' = [hpc EXCEPT ![h] = "checked"]
    /\ hclaim' = [hclaim EXCEPT ![h] = c]
    /\ UNCHANGED <<chain, row, pc, tx, orphans, keeperVars, history, direct, disruptions>>

\* Broken variant of ClaimStore: a blind UPDATE.
ClaimStoreBlind(h) ==
    /\ hpc[h] = "checked"
    /\ hpc' = [hpc EXCEPT ![h] = "idle"]
    /\ hclaim' = [hclaim EXCEPT ![h] = Zero]
    /\ row' = [row EXCEPT !.pending = hclaim[h]]
    /\ accepted' = accepted \cup {hclaim[h]}
    /\ UNCHANGED <<chain, pc, tx, orphans, keeperVars, reopened, direct, disruptions>>

\* UPDATE ... WHERE pending_nonce < $3, and its row count.
ClaimStore(h) ==
    /\ hpc[h] = "checked"
    /\ hpc' = [hpc EXCEPT ![h] = "idle"]
    /\ hclaim' = [hclaim EXCEPT ![h] = Zero]
    /\ IF row.pending.nonce < hclaim[h].nonce
       THEN /\ row' = [row EXCEPT !.pending = hclaim[h]]
            /\ accepted' = accepted \cup {hclaim[h]}
       ELSE UNCHANGED <<row, accepted>>
    /\ UNCHANGED <<chain, pc, tx, orphans, keeperVars, reopened, direct, disruptions>>

-----------------------------------------------------------------------------
(* openChannel, closeChannel *)

\* Validation, compliance and simulation passed.
OpenSend ==
    /\ pc["opener"] = "idle"
    /\ Accepts("open_channel", Zero)
    /\ Send("opener", "open_channel", Zero)
    /\ Goto("opener", "polling")
    /\ UNCHANGED <<chain, row, orphans, keeperVars, handlerVars, history, direct, disruptions>>

\* INSERT ... ON CONFLICT DO NOTHING
OpenInsert ==
    /\ pc["opener"] = "writing"
    /\ row' = IF row = NoRow THEN [NoRow EXCEPT !.status = "open"] ELSE row
    /\ Goto("opener", "done")
    /\ UNCHANGED <<chain, tx, orphans, keeperVars, handlerVars, history, direct, disruptions>>

\* The SELECT and its checks.
CloseCheck ==
    /\ pc["closer"] = "idle"
    /\ row.status = "open"
    /\ Goto("closer", "simulating")
    /\ UNCHANGED <<chain, row, tx, orphans, keeperVars, handlerVars, history, direct, disruptions>>

\* The simulation tells a channel that is not open any more.
CloseSimulate ==
    /\ pc["closer"] = "simulating"
    /\ Goto("closer", IF Accepts("initiate_close", Zero) THEN "sending" ELSE "idle")
    /\ UNCHANGED <<chain, row, tx, orphans, keeperVars, handlerVars, history, direct, disruptions>>

\* The transaction is rebuilt and sent in its turn.
CloseSend ==
    /\ pc["closer"] = "sending"
    /\ Send("closer", "initiate_close", Zero)
    /\ Goto("closer", "polling")
    /\ UNCHANGED <<chain, row, orphans, keeperVars, handlerVars, history, direct, disruptions>>

\* UPDATE ... SET status = 'closing', closing_at = NOW()
CloseWrite ==
    /\ pc["closer"] = "writing"
    /\ row' = [row EXCEPT !.status = "closing", !.age = 0]
    /\ Goto("closer", "idle")
    /\ UNCHANGED <<chain, tx, orphans, keeperVars, handlerVars, history, direct, disruptions>>

-----------------------------------------------------------------------------
(* The keeper *)

Older(age) == IF age \in 0..(Challenge - 1) THEN age + 1 ELSE age

\* Two minutes pass.  A claim request makes no chain call and does not last that
\* long, nor does the write that follows a confirmed call.
PeriodPasses ==
    /\ \A h \in Handlers : hpc[h] = "idle"
    /\ pc["opener"] # "writing" /\ pc["closer"] # "writing"
    /\ chain' = IF chain.status = "Closing" THEN [chain EXCEPT !.age = Older(@)] ELSE chain
    /\ row' = [row EXCEPT !.age = Older(@)]

\* The cron fires; the last sweep is over and the advisory lock is free.
Sweep ==
    /\ pc["keeper"] = "idle"
    /\ PeriodPasses
    /\ Goto("keeper", "selecting")
    /\ UNCHANGED <<tx, orphans, keeperVars, handlerVars, history, direct, disruptions>>

\* The API is down, or the sweep fails before its first query.
MissedSweep ==
    /\ Disrupt
    /\ pc["keeper"] = "idle"
    /\ PeriodPasses
    /\ UNCHANGED <<pc, tx, orphans, keeperVars, handlerVars, history, direct>>

NextQuery ==
    \/ /\ phase = "checkpoints"
       /\ phase' = "finalize"
       /\ Goto("keeper", "selecting")
    \/ /\ phase = "finalize"
       /\ phase' = "watchtower"
       /\ Goto("keeper", "selecting")
    \/ /\ phase = "watchtower"
       /\ phase' = "checkpoints"
       /\ Goto("keeper", "idle")

Unsettled == row.pending.amount > row.claimed

\* Broken variant of Due: the watchtower looks for open channels.
DueWhileOpen ==
    \/ /\ phase \in {"checkpoints", "watchtower"}
       /\ row.status = "open"
       /\ Unsettled
    \/ /\ phase = "finalize"
       /\ row.status = "closing"
       /\ row.age = Challenge

\* The three queries: checkpoints due, finalizations due, closes to defend.
Due ==
    \/ /\ phase = "checkpoints"
       /\ row.status = "open"
       /\ Unsettled
    \/ /\ phase = "finalize"
       /\ row.status = "closing"
       /\ row.age = Challenge
    \/ /\ phase = "watchtower"
       /\ row.status = "closing"
       /\ Unsettled

Select ==
    /\ pc["keeper"] = "selecting"
    /\ IF Due
       THEN /\ captured' = row.pending
            /\ Goto("keeper", "sending")
            /\ UNCHANGED phase
       ELSE NextQuery /\ UNCHANGED captured
    /\ UNCHANGED <<chain, row, tx, orphans, seen, handlerVars, history, direct, disruptions>>

\* submitFacilitatorCall: simulate, then send what was captured.
KeeperSend ==
    /\ pc["keeper"] = "sending"
    /\ Unlocked
    /\ LET fn == IF phase = "finalize" THEN "finalize_close" ELSE "checkpoint"
       IN  IF Accepts(fn, captured)
           THEN Send("keeper", fn, captured) /\ Goto("keeper", "polling")
           ELSE Goto("keeper", "reading") /\ UNCHANGED tx
    /\ UNCHANGED <<chain, row, orphans, keeperVars, handlerVars, history, direct, disruptions>>

\* resyncFromChain: get_channel_info, then the UPDATE.
ReadInfo ==
    /\ pc["keeper"] = "reading"
    /\ seen' = [status |-> chain.status, claimed |-> chain.claimed]
    /\ Goto("keeper", "writing")
    /\ UNCHANGED <<chain, row, tx, orphans, phase, captured, handlerVars,
                   history, direct, disruptions>>

RowStatus == [None |-> "none", Open |-> "open", Closing |-> "closing", Closed |-> "closed"]

\* Broken variant of WriteInfo: takes the claim it submitted for settled.
WriteSubmitted ==
    /\ pc["keeper"] = "writing"
    /\ row' = [row EXCEPT !.claimed = captured.amount, !.status = RowStatus[seen.status]]
    /\ reopened' = (reopened \/ (row.status = "closing" /\ seen.status = "Open"))
    /\ NextQuery
    /\ UNCHANGED <<chain, tx, orphans, captured, seen, handlerVars, accepted, direct, disruptions>>

WriteInfo ==
    /\ pc["keeper"] = "writing"
    /\ row' = [row EXCEPT !.claimed = seen.claimed, !.status = RowStatus[seen.status]]
    /\ reopened' = (reopened \/ (row.status = "closing" /\ seen.status = "Open"))
    /\ NextQuery
    /\ UNCHANGED <<chain, tx, orphans, captured, seen, handlerVars, accepted, direct, disruptions>>

\* A failed resync is only logged.
ResyncFails ==
    /\ Disrupt
    /\ pc["keeper"] \in {"reading", "writing"}
    /\ NextQuery
    /\ UNCHANGED <<chain, row, tx, orphans, captured, seen, handlerVars, history, direct>>

\* The API process dies with every request and the sweep in it; what was sent
\* is still sent.
Crash ==
    /\ Disrupt
    /\ pc' = [s \in Submitters |-> IF s = "opener" /\ pc[s] # "idle" THEN "done" ELSE "idle"]
    /\ phase' = "checkpoints"
    /\ orphans' = orphans \cup {tx[s] : s \in {r \in Submitters : tx[r].result = "pending"}}
    /\ tx' = [s \in Submitters |-> Idle]
    /\ hpc' = [h \in Handlers |-> "idle"]
    /\ hclaim' = [h \in Handlers |-> Zero]
    /\ UNCHANGED <<chain, row, captured, seen, history, direct>>

-----------------------------------------------------------------------------

Keeper  == Sweep \/ Select \/ KeeperSend \/ ReadInfo \/ WriteInfo

Next ==
    \/ \E s \in Submitters : Land(s) \/ PollEnds(s) \/ PollTimesOut(s) \/ SendFails(s)
    \/ \E call \in orphans : LandLate(call)
    \/ \E fn \in {"initiate_close", "finalize_close"} : PartyCalls(fn)
    \/ \E h \in Handlers : ClaimStore(h) \/ \E c \in Claims : ClaimCheck(h, c)
    \/ OpenSend \/ CloseCheck
    \/ MissedSweep \/ ResyncFails \/ Crash
    \/ Keeper \/ OpenInsert \/ CloseSimulate \/ CloseSend \/ CloseWrite

\* The cron fires for ever, a request that was begun goes on, and a call that
\* is polled for is included or times out.
Fairness ==
    /\ WF_vars(Keeper)
    /\ WF_vars(OpenInsert)
    /\ WF_vars(CloseSimulate) /\ WF_vars(CloseSend) /\ WF_vars(CloseWrite)
    /\ \A h \in Handlers : WF_vars(ClaimStore(h))
    /\ \A s \in Submitters : WF_vars(Land(s)) /\ WF_vars(PollEnds(s))

Spec     == Init /\ [][Next]_vars
FairSpec == Spec /\ Fairness

-----------------------------------------------------------------------------

ChainStatuses == {"None", "Open", "Closing", "Closed"}
ContractState == [status : ChainStatuses, claimed : 0..Deposit, nonce : Nat, age : 0..Challenge]
Row  == [claimed : 0..Deposit, pending : [nonce : Nat, amount : 0..Deposit],
         status : {"none", "open", "closing", "closed"}, age : 0..Challenge \cup {Null}]
Call == [fn : Functions \cup {"none"}, claim : Claims \cup {Zero},
         result : {"none", "pending", "success", "failed"}]
Info == [status : ChainStatuses, claimed : 0..Deposit]
PcValues == {"idle", "selecting", "simulating", "sending", "polling", "reading",
             "writing", "done"}
Phases   == {"checkpoints", "finalize", "watchtower"}

\* Every variable has its type, and no stored or settled amount exceeds the
\* deposit ("a bad claim never even gets stored").
TypeOK ==
    /\ chain \in ContractState
    /\ row \in Row
    /\ pc \in [Submitters -> PcValues]
    /\ tx \in [Submitters -> Call]
    /\ orphans \subseteq Call
    /\ phase \in Phases
    /\ captured \in Claims \cup {Zero}
    /\ seen \in Info
    /\ hpc \in [Handlers -> {"idle", "checked"}]
    /\ hclaim \in [Handlers -> Claims \cup {Zero}]
    /\ accepted \subseteq Signed
    /\ reopened \in BOOLEAN
    /\ direct \in 0..MaxDirect
    /\ disruptions \in 0..MaxDisruptions

\* "... silently losing an already-accepted higher claim.  The guard makes a
\* losing claim's write a no-op" (channel.service.ts): the row holds a claim
\* at least as high as every claim that was answered with accepted: true.
AcceptedIsStored ==
    \A c \in accepted : c.nonce <= row.pending.nonce /\ c.amount <= row.pending.amount

\* `claimed` is what is settled on chain, at most; the row never takes a claim
\* for settled that the contract has not paid.
ClaimedIsSettled == row.claimed <= chain.claimed

\* Every accepted claim is in what the contract pays out at the end.
AllSettled == \A c \in accepted : c.amount <= chain.claimed

\* The watchtower "is what makes the payee safe against a stale close"
\* (channel-keeper.service.ts): a channel that was closed through the API is
\* not finalized over an accepted claim, unless sweeps kept failing for the
\* challenge period, or a resync had set the row back to 'open'.
DefendedBeforeClosed ==
    chain.status = "Closed" =>
        \/ AllSettled
        \/ direct > 0
        \/ reopened
        \/ disruptions + 1 >= Challenge

\* The same without the provisos.
PayeeIsSafe == chain.status = "Closed" => AllSettled

\* Every accepted claim is checkpointed in the end, by this or a higher claim,
\* failed calls, timeouts and crashes notwithstanding, unless the channel is
\* closed first.
AcceptedSettles ==
    \A c \in Signed :
        c \in accepted ~> chain.claimed >= c.amount \/ chain.status = "Closed"

\* "Any channel mid-close past its challenge period gets finalized"
\* (channel-keeper.service.ts), if no resync sets the row back to 'open'.
ClosingIsFinalized == row.status = "closing" ~> chain.status = "Closed" \/ reopened

\* "Any channel mid-close past its challenge period gets finalized"
\* (channel-keeper.service.ts:141), whatever a resync wrote meanwhile.
FinalizedThroughResyncs == row.status = "closing" ~> chain.status = "Closed"

\* "Any channel mid-close whose best-known claim exceeds what's actually
\* checkpointed on-chain gets defended immediately"
\* (channel-keeper.service.ts:101-102): the keeper itself does not send the
\* finalization of a channel whose row holds a claim it has yet to defend.
NeverFinalizedUndefended ==
    [][tx["keeper"].fn # "finalize_close" /\ tx'["keeper"].fn = "finalize_close" =>
          row.pending.amount <= row.claimed]_vars

N == INSTANCE Netting WITH
        settled <- [nonce |-> chain.nonce, amount |-> chain.claimed]

\* The row, the requests and the keeper implement module Netting: claims are
\* accepted in increasing order and only accepted claims are settled.
NettingSpec == N!NSpec
=============================================================================
