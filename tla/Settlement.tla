------------------------------ MODULE Settlement ------------------------------
(***************************************************************************)
(* POST /x402/verify and /x402/settle (src/x402/x402.service.ts), with the *)
(* queue all submissions of the facilitator account go through             *)
(* (src/common/facilitator-signer.ts) and the screening of the payer       *)
(* (src/common/onchain-compliance.ts).                                     *)
(*                                                                         *)
(* A payload is a signed authorization of one transfer; the token contract *)
(* takes it once.  The network includes a transaction only under the next  *)
(* sequence number of the facilitator account.                             *)
(***************************************************************************)
EXTENDS Integers, Sequences

CONSTANTS
    Requests,       \* requests, each received at most once
    Payloads,       \* signed payloads: the idempotency keys
    Payers,
    Payer,          \* [Payloads -> Payers]
    Denied,         \* payers the compliance contract refuses
    None,           \* no row, no payload
    MaxChanges,     \* bound: administrators' blocks and unblocks
    MaxDisruptions  \* bound: errors, timeouts and crashes

ASSUME SettlementAssumption ==
    /\ Payer \in [Payloads -> Payers]
    /\ Denied \subseteq Payers
    /\ None \notin Payloads \cup {"settled", "failed", "held"}
    /\ MaxChanges \in Nat /\ MaxDisruptions \in Nat

VARIABLES
    pc, payload, settling,  \* each request: where it is, what it was sent, by which route
    number,      \* the sequence number of its transaction
    answer,      \* what became of its transaction: "none" while unknown
    outcome,     \* the status it is about to record
    queue,       \* submissionQueue
    rows,        \* x402_settlements: the status recorded for each payload
    blocked,     \* blocked_addresses
    sequence,    \* ledger: the last sequence number used
    charged,     \* ledger: payloads whose transfer was made
    orphans,     \* requests whose transaction may be included, with nobody polling
    cleared,     \* history: requests whose payer was off the blocklist when looked up
    waived,      \* history: requests let pass because the contract was unreachable
    abandoned,   \* history: some transaction was left to itself
    clashed,     \* history: some transaction had a sequence number already used
    lost,        \* history: payloads whose attempt could not be recorded
    changes, disruptions

request == <<pc, payload, settling, number, answer, outcome>>
ledger  == <<sequence, charged, orphans, clashed>>
screens == <<cleared, waived>>
history == <<screens, abandoned, lost>>
bounds  == <<changes, disruptions>>
vars == <<request, queue, rows, blocked, ledger, history, bounds>>

Init ==
    /\ pc = [r \in Requests |-> "new"]
    /\ payload = [r \in Requests |-> None]
    /\ settling = [r \in Requests |-> FALSE]
    /\ number = [r \in Requests |-> 0]
    /\ answer = [r \in Requests |-> "none"]
    /\ outcome = [r \in Requests |-> None]
    /\ queue = <<>>
    /\ rows = [d \in Payloads |-> None]
    /\ blocked = {}
    /\ sequence = 0 /\ charged = {} /\ orphans = {}
    /\ cleared = {} /\ waived = {} /\ lost = {}
    /\ abandoned = FALSE /\ clashed = FALSE
    /\ changes = 0 /\ disruptions = 0

Goto(r, label) == pc' = [pc EXCEPT ![r] = label]

Disrupt ==
    /\ disruptions < MaxDisruptions
    /\ disruptions' = disruptions + 1
    /\ UNCHANGED changes

-----------------------------------------------------------------------------
(* verify                                                                   *)

\* In scope, and the scheme's own verification passed; else nothing happens.
Receive(r, d, settle) ==
    /\ pc[r] = "new"
    /\ Goto(r, "local")
    /\ payload' = [payload EXCEPT ![r] = d]
    /\ settling' = [settling EXCEPT ![r] = settle]
    /\ UNCHANGED <<number, answer, outcome, queue, rows, blocked, ledger, history, bounds>>

RecordNext(r, status) ==
    /\ Goto(r, "record")
    /\ outcome' = [outcome EXCEPT ![r] = status]

\* Broken variant of Blocked: the local list is not looked at.
NeverBlocked(d) == FALSE

Blocked(d) == Payer[d] \in blocked

\* isPayerAllowed: SELECT FROM blocked_addresses
ScreenLocal(r) ==
    /\ pc[r] = "local"
    /\ IF Blocked(payload[r])
       THEN RecordNext(r, "held")
       ELSE Goto(r, "contract") /\ UNCHANGED outcome
    /\ cleared' = IF Payer[payload[r]] \in blocked THEN cleared ELSE cleared \cup {r}
    /\ UNCHANGED <<payload, settling, number, answer, queue, rows, blocked, ledger,
                   waived, abandoned, lost, bounds>>

\* verify returns; settle chains its submission to the queue at once.
Verified(r) ==
    IF settling[r]
    THEN Goto(r, "queued") /\ queue' = Append(queue, r)
    ELSE Goto(r, "done") /\ UNCHANGED queue

\* isAllowedOnChain
AskContract(r) ==
    /\ pc[r] = "contract"
    /\ IF Payer[payload[r]] \in Denied
       THEN RecordNext(r, "held") /\ UNCHANGED queue
       ELSE Verified(r) /\ UNCHANGED outcome
    /\ UNCHANGED <<payload, settling, number, answer, rows, blocked, ledger, history, bounds>>

\* Both tries fail or take over 8 s: let pass.
FailOpen(r) ==
    /\ Disrupt
    /\ pc[r] = "contract"
    /\ Verified(r)
    /\ waived' = waived \cup {r}
    /\ UNCHANGED <<payload, settling, number, answer, outcome, rows, blocked, ledger,
                   cleared, abandoned, lost>>

-----------------------------------------------------------------------------
(* settle: scheme.settle in the queue                                       *)

\* Broken variant of Turn: no withFacilitatorSubmissionLock.
AnyTurn(r) == TRUE

Turn(r) == r = Head(queue)

\* Broken variant of Advanced: a submission stays at the head.
NotAdvanced == queue

\* .then(fn, fn): whether the submission succeeded or threw.
Advanced == Tail(queue)

\* It is this submission's turn: fetch the account's sequence number.
Prepare(r) ==
    /\ pc[r] = "queued"
    /\ Turn(r)
    /\ Goto(r, "prepared")
    /\ number' = [number EXCEPT ![r] = sequence + 1]
    /\ UNCHANGED <<payload, settling, answer, outcome, queue, rows, blocked, ledger, history, bounds>>

Send(r) ==
    /\ pc[r] = "prepared"
    /\ Goto(r, "sent")
    /\ UNCHANGED <<payload, settling, number, answer, outcome, queue, rows, blocked, ledger, history, bounds>>

\* The network takes or refuses r's transaction.
Include(r) ==
    LET fits == number[r] = sequence + 1
        pays == fits /\ payload[r] \notin charged
    IN  /\ sequence' = IF fits THEN number[r] ELSE sequence
        /\ charged' = IF pays THEN charged \cup {payload[r]} ELSE charged
        /\ answer' = [answer EXCEPT ![r] = IF pays THEN "charged" ELSE "failed"]
        /\ clashed' = (clashed \/ ~fits)

Land(r) ==
    /\ pc[r] = "sent" /\ answer[r] = "none"
    /\ Include(r)
    /\ UNCHANGED <<pc, payload, settling, number, outcome, queue, rows, blocked, orphans, history, bounds>>

\* scheme.settle has polled its transaction: the queue advances.
PollEnds(r) ==
    /\ pc[r] = "sent" /\ answer[r] # "none"
    /\ queue' = Advanced
    /\ RecordNext(r, IF answer[r] = "charged" THEN "settled" ELSE "failed")
    /\ UNCHANGED <<payload, settling, number, answer, rows, blocked, ledger, history, bounds>>

\* Broken variants of Unknown: what was sent is taken for settled, or has a
\* status the table does not have.
UnknownSettled == "settled"
UnknownPending == "pending"

\* The status of an attempt that threw.
Unknown == "failed"

\* The poll gives up, or its answer is lost.
PollTimesOut(r) ==
    /\ Disrupt
    /\ pc[r] = "sent"
    /\ queue' = Advanced
    /\ RecordNext(r, Unknown)
    /\ orphans' = IF answer[r] = "none" THEN orphans \cup {r} ELSE orphans
    /\ abandoned' = TRUE
    /\ UNCHANGED <<payload, settling, number, answer, rows, blocked, sequence, charged, clashed,
                   screens, lost>>

\* getAccount, simulation or signing throws.
Break(r) ==
    /\ Disrupt
    /\ pc[r] = "prepared"
    /\ queue' = Advanced
    /\ RecordNext(r, Unknown)
    /\ UNCHANGED <<payload, settling, number, answer, rows, blocked, ledger, history>>

LandLate(r) ==
    /\ r \in orphans
    /\ orphans' = orphans \ {r}
    /\ Include(r)
    /\ UNCHANGED <<pc, payload, settling, number, outcome, queue, rows, blocked, history, bounds>>

\* maxTimeoutSeconds have passed.
Expire(r) ==
    /\ r \in orphans
    /\ orphans' = orphans \ {r}
    /\ UNCHANGED <<request, queue, rows, blocked, sequence, charged, clashed, history, bounds>>

-----------------------------------------------------------------------------
(* recordAttempt                                                            *)

\* Broken variant of Stored: only what was settled.
StoredSuccess(r, row) == IF row = None /\ outcome[r] = "settled" THEN outcome[r] ELSE row

\* Broken variant of Stored: ON CONFLICT (idempotency_key) DO UPDATE.
StoredLast(r, row) == outcome[r]

Stored(r, row) == IF row = None THEN outcome[r] ELSE row

\* INSERT .. ON CONFLICT (idempotency_key) DO NOTHING, after the queue advanced.
Record(r) ==
    /\ pc[r] = "record"
    /\ Goto(r, "done")
    /\ rows' = [rows EXCEPT ![payload[r]] = Stored(r, @)]
    /\ UNCHANGED <<payload, settling, number, answer, outcome, queue, blocked, ledger, history, bounds>>

\* The INSERT throws: logged, and the answer is returned all the same.
RecordFails(r) ==
    /\ Disrupt
    /\ pc[r] = "record"
    /\ Goto(r, "done")
    /\ lost' = lost \cup {payload[r]}
    /\ UNCHANGED <<payload, settling, number, answer, outcome, queue, rows, blocked, ledger,
                   screens, abandoned>>

-----------------------------------------------------------------------------
(* The rest of the world                                                    *)

Working == {r \in Requests : pc[r] \notin {"new", "done"}}

\* The process ends; what was sent stays sent.
Crash ==
    LET sent == {r \in Working : pc[r] = "sent"}
        flying == {r \in sent : answer[r] = "none"}
    IN  /\ Disrupt
        /\ Working # {}
        /\ pc' = [r \in Requests |-> IF r \in Working THEN "done" ELSE pc[r]]
        /\ queue' = <<>>
        /\ orphans' = orphans \cup flying
        /\ abandoned' = (abandoned \/ flying # {})
        /\ lost' = lost \cup {payload[r] : r \in sent \cup {r \in Working : pc[r] = "record"}}
        /\ UNCHANGED <<payload, settling, number, answer, outcome, rows, blocked,
                       sequence, charged, clashed, screens>>

\* AdminComplianceService
SetBlocked(p) ==
    /\ changes < MaxChanges
    /\ changes' = changes + 1
    /\ blocked' = IF p \in blocked THEN blocked \ {p} ELSE blocked \cup {p}
    /\ UNCHANGED <<request, queue, rows, ledger, history, disruptions>>

Step(r) ==
    \/ ScreenLocal(r) \/ AskContract(r)
    \/ Prepare(r) \/ Send(r) \/ PollEnds(r)
    \/ Record(r)

Next ==
    \/ \E r \in Requests, d \in Payloads, settle \in BOOLEAN : Receive(r, d, settle)
    \/ \E r \in Requests :
        \/ Step(r)
        \/ FailOpen(r) \/ PollTimesOut(r) \/ Break(r) \/ RecordFails(r)
        \/ Land(r) \/ LandLate(r) \/ Expire(r)
    \/ \E p \in Payers : SetBlocked(p)
    \/ Crash

\* A request's calls end; a transaction that is polled for is answered.
Fairness == \A r \in Requests : WF_vars(Step(r)) /\ WF_vars(Land(r))

Spec     == Init /\ [][Next]_vars
FairSpec == Spec /\ Fairness

-----------------------------------------------------------------------------

Statuses == {"settled", "failed", "held"}

\* Every variable has its type.
TypeOK ==
    /\ pc \in [Requests -> {"new", "local", "contract", "queued", "prepared", "sent", "record", "done"}]
    /\ payload \in [Requests -> Payloads \cup {None}]
    /\ settling \in [Requests -> BOOLEAN]
    /\ number \in [Requests -> Nat]
    /\ answer \in [Requests -> {"none", "charged", "failed"}]
    /\ outcome \in [Requests -> Statuses \cup {None}]
    /\ queue \in Seq(Requests)
    /\ rows \in [Payloads -> Statuses \cup {None}]
    /\ blocked \subseteq Payers
    /\ sequence \in Nat /\ charged \subseteq Payloads /\ orphans \subseteq Requests
    /\ cleared \subseteq Requests /\ waived \subseteq Requests /\ lost \subseteq Payloads
    /\ abandoned \in BOOLEAN /\ clashed \in BOOLEAN
    /\ changes \in 0..MaxChanges /\ disruptions \in 0..MaxDisruptions

\* "Never settles something unverified": a request that charges, however late,
\* was to settle, found its payer off the blocklist, and was not refused by the
\* contract unless that could not be asked.
ScreenedBeforeCharged ==
    \A r \in Requests :
        answer[r] = "charged" =>
            /\ settling[r] /\ r \in cleared
            /\ Payer[payload[r]] \in Denied => r \in waived

\* The queue serializes "fetch-sequence-through-submit": two submissions never
\* meet on a sequence number, unless one was given up and landed later.
SequenceNeverClashes == clashed => abandoned

\* A charged payload has a row, or will have one, unless the row's INSERT
\* failed or the process died before it.
ChargeIsOnRecord ==
    \A d \in charged :
        \/ rows[d] # None \/ d \in lost
        \/ \E r \in Requests : payload[r] = d /\ pc[r] \in {"sent", "record"}

\* 'settled' means charged.  The row of a charged payload says 'failed' only if a
\* transaction was given up or two requests were to settle it, and 'held' only if
\* a request was refused before anything was submitted for it.  An ordinary
\* /verify and /settle of one payload excuses nothing.
RecordIsHonest ==
    \A d \in Payloads :
        LET Sent == {r \in Requests : payload[r] = d}
        IN  /\ rows[d] = "settled" => d \in charged
            /\ rows[d] = "failed" /\ d \in charged =>
                abandoned \/ \E r, q \in Sent : r # q /\ settling[r] /\ settling[q]
            /\ rows[d] = "held" /\ d \in charged =>
                \E r \in Sent : outcome[r] = "held" /\ number[r] = 0

\* Requests to settle whose payer nothing spoke against when it was asked.
Passed(r) ==
    /\ pc[r] # "new"
    /\ settling[r] /\ r \in cleared
    /\ Payer[payload[r]] \in Denied => r \in waived

\* Whatever is received twice, gives up, lands late, fails or dies, a payload is
\* vouched for, charged once and filed once, in that order, and what is filed
\* stays (see Clearing): the row of a first attempt outlives the success of a
\* second one (x402.service.ts:69-93, 139-190).
Vouched == {payload[r] : r \in {q \in Requests : Passed(q)}}
C == INSTANCE Clearing WITH vouched <- Vouched
ClearedOnce == C!ClearingSpec

\* "The queue always advances to the next waiter": every request ends.
RequestEnds == \A r \in Requests : pc[r] # "new" ~> pc[r] = "done"

\* "Is enough to make a resubmitted identical payload a no-op at the facilitator
\* level" (x402.service.ts:58-59): sending a payload in again does not make the row
\* of a charged one deny the charge.
ResubmissionIsNoOp ==
    \A d \in charged : rows[d] \in {None, "settled"} \/ abandoned
=============================================================================
