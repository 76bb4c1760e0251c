---------------------------- MODULE TreasurySweep ----------------------------
(***************************************************************************)
(* The facilitator's sweep of its own balance into the treasury            *)
(* (src/facilitator/facilitator-sweep.service.ts) behind the spend guard   *)
(* (facilitator-spend-guard.service.ts): API replicas whose cron fires at  *)
(* the same time, a Postgres advisory lock, the day's spend log, the halt  *)
(* that only an administrator lifts, and one account whose sequence number *)
(* every submission takes.                                                 *)
(*                                                                         *)
(* A cron period is half an hour; a sweep, and the minute for which a      *)
(* transaction is valid, are over by the next one.  Within a period a      *)
(* replica may start late: it first waits for a pooled connection.         *)
(***************************************************************************)
EXTENDS Integers, Sequences

CONSTANTS
    Replicas,      \* API processes
    None,          \* nobody holds the lock
    Cap,           \* FACILITATOR_DAILY_SPEND_CAP_USDC
    Minimum,       \* FACILITATOR_SWEEP_MIN_USDC_BALANCE
    MaxEarned,     \* bound: units the facilitator receives
    MaxDays,       \* bound: midnights
    MaxOthers,     \* bound: other transactions of the account
    MaxResumes,    \* bound: POST /admin/facilitator/resume
    MaxDisruptions \* bound: failed calls, timeouts, crashes, lost connections

ASSUME SweepAssumption ==
    /\ None \notin Replicas
    /\ {Cap, Minimum, MaxEarned, MaxDays, MaxOthers, MaxResumes, MaxDisruptions} \subseteq Nat

VARIABLES
    balance, seq,  \* the account: its USDC, its sequence number
    log,           \* facilitator_spend_log: the amounts
    spent,         \* the sum of today's
    halted,        \* facilitator_state has 'halted_at'
    lock,          \* who holds the advisory lock
    pc,            \* where the sweep of each replica is
    amount,        \* what it sweeps
    entry,         \* history: its row of the log
    account,       \* the sequence number getAccount returned
    tx,            \* its transaction: amount, sequence number, result, row of the log
    orphans,       \* transactions nobody polls for that are still valid
    day,           \* midnights so far
    moved, paid,   \* history: swept in all, and the rows of the log it was swept for
    unguarded,     \* history: a sweep went on without the lock
    overlapped,    \* history: a balance was read while a transfer could land
    earned, others, resumes, disruptions

ledger   == <<balance, seq, moved, paid>>
guard    == <<log, spent, halted, day>>
procVars == <<pc, amount, entry, account, tx>>
history  == <<unguarded, overlapped>>
counters == <<earned, others, resumes, disruptions>>
vars == <<ledger, guard, lock, procVars, orphans, history, counters>>

NoTx == [amount |-> 0, seq |-> 0, result |-> "none", entry |-> 0]

Init ==
    /\ balance = 0 /\ seq = 0 /\ moved = 0 /\ paid = {}
    /\ log = <<>> /\ spent = 0 /\ halted = FALSE /\ day = 0
    /\ lock = None
    /\ pc = [r \in Replicas |-> "idle"]
    /\ amount = [r \in Replicas |-> 0] /\ entry = [r \in Replicas |-> 0]
    /\ account = [r \in Replicas |-> 0]
    /\ tx = [r \in Replicas |-> NoTx]
    /\ orphans = {}
    /\ unguarded = FALSE /\ overlapped = FALSE
    /\ earned = 0 /\ others = 0 /\ resumes = 0 /\ disruptions = 0

Disrupt ==
    /\ disruptions < MaxDisruptions
    /\ disruptions' = disruptions + 1

At(r, here, there) ==
    /\ pc[r] = here
    /\ pc' = [pc EXCEPT ![r] = there]

-----------------------------------------------------------------------------
(* The ledger                                                               *)

Earn ==
    /\ earned < MaxEarned
    /\ earned' = earned + 1
    /\ balance' = balance + 1
    /\ UNCHANGED <<seq, moved, paid, guard, lock, procVars, orphans, history, others, resumes, disruptions>>

\* A replica submits something else with the account: not while its queue is
\* taken by the sweep (withFacilitatorSubmissionLock).
OtherSubmission ==
    /\ others < MaxOthers
    /\ others' = others + 1
    /\ \E r \in Replicas : pc[r] \notin {"sending", "polling"}
    /\ seq' = seq + 1
    /\ UNCHANGED <<balance, moved, paid, guard, lock, procVars, orphans, history, earned, resumes, disruptions>>

\* A transaction is included when its sequence number is next; `transfer`
\* fails if the balance does not cover it.
Include(t) ==
    /\ t.seq = seq + 1
    /\ seq' = t.seq
    /\ IF t.amount <= balance
       THEN /\ balance' = balance - t.amount
            /\ moved' = moved + t.amount /\ paid' = paid \cup {t.entry}
       ELSE UNCHANGED <<balance, moved, paid>>

Land(r) ==
    /\ tx[r].result = "pending"
    /\ Include(tx[r])
    /\ tx' = [tx EXCEPT ![r].result = IF tx[r].amount <= balance THEN "success" ELSE "failed"]
    /\ UNCHANGED <<guard, lock, pc, amount, entry, account, orphans, history, counters>>

LandLate(t) ==
    /\ Include(t)
    /\ orphans' = orphans \ {t}
    /\ UNCHANGED <<guard, lock, procVars, history, counters>>

\* setTimeout(60)
Expire(t) ==
    /\ orphans' = orphans \ {t}
    /\ UNCHANGED <<ledger, guard, lock, procVars, history, counters>>

-----------------------------------------------------------------------------
(* Time and the administrator                                               *)

\* @Cron('*/30 * * * *') on every replica.
Tick ==
    /\ \A r \in Replicas : pc[r] = "idle"
    /\ orphans = {}
    /\ pc' = [r \in Replicas |-> "connecting"]
    /\ UNCHANGED <<ledger, guard, lock, amount, entry, account, tx, orphans, history, counters>>

\* date_trunc('day', NOW()) moves on.
Midnight ==
    /\ day < MaxDays
    /\ day' = day + 1
    /\ spent' = 0
    /\ UNCHANGED <<ledger, log, halted, lock, procVars, orphans, history, counters>>

Resume ==
    /\ resumes < MaxResumes
    /\ resumes' = resumes + 1
    /\ halted
    /\ halted' = FALSE
    /\ UNCHANGED <<ledger, log, spent, day, lock, procVars, orphans, history, earned, others, disruptions>>

-----------------------------------------------------------------------------
(* One sweep                                                                *)

\* Broken variant of TryLock: does not look at the answer.
TryLockBlind(r) ==
    /\ At(r, "connecting", "reading")
    /\ lock' = IF lock = None THEN r ELSE lock
    /\ UNCHANGED <<ledger, guard, amount, entry, account, tx, orphans, history, counters>>

\* pool.connect, pg_try_advisory_lock.
TryLock(r) ==
    /\ IF lock = None
       THEN lock' = r /\ At(r, "connecting", "reading")
       ELSE UNCHANGED lock /\ At(r, "connecting", "idle")
    /\ UNCHANGED <<ledger, guard, amount, entry, account, tx, orphans, history, counters>>

\* Broken variant of ReadBalance: no early return.
ReadBalanceAlways(r) ==
    /\ At(r, "reading", "guarding")
    /\ amount' = [amount EXCEPT ![r] = balance - Minimum]
    /\ UNCHANGED <<ledger, guard, lock, entry, account, tx, orphans, history, counters>>

\* Broken variant of ReadBalance: sweeps everything.
ReadBalanceAll(r) ==
    /\ IF balance > Minimum
       THEN /\ At(r, "reading", "guarding")
            /\ amount' = [amount EXCEPT ![r] = balance]
       ELSE At(r, "reading", "unlocking") /\ UNCHANGED amount
    /\ UNCHANGED <<ledger, guard, lock, entry, account, tx, orphans, history, counters>>

ReadBalance(r) ==
    /\ IF balance > Minimum
       THEN /\ At(r, "reading", "guarding")
            /\ amount' = [amount EXCEPT ![r] = balance - Minimum]
       ELSE At(r, "reading", "unlocking") /\ UNCHANGED amount
    /\ overlapped' = (overlapped \/ orphans # {} \/ \E s \in Replicas : tx[s].result = "pending")
    /\ UNCHANGED <<ledger, guard, lock, entry, account, tx, orphans, unguarded, counters>>

\* Broken variant of Guard: only looks at the cap.
GuardCapOnly(r) ==
    /\ At(r, "guarding", IF spent + amount[r] > Cap THEN "halting" ELSE "recording")
    /\ UNCHANGED <<ledger, guard, lock, amount, entry, account, tx, orphans, history, counters>>

\* checkAndRecordSpend, its reads and its verdict.
Guard(r) ==
    /\ At(r, "guarding", IF halted THEN "unlocking"
                         ELSE IF spent + amount[r] > Cap THEN "halting" ELSE "recording")
    /\ UNCHANGED <<ledger, guard, lock, amount, entry, account, tx, orphans, history, counters>>

\* halt; its reason is left out.
Halt(r) ==
    /\ At(r, "halting", "unlocking")
    /\ halted' = TRUE
    /\ UNCHANGED <<ledger, log, spent, day, lock, amount, entry, account, tx, orphans, history, counters>>

\* Broken variant of Record: leaves the log to the caller.
RecordNothing(r) ==
    /\ At(r, "recording", "preparing")
    /\ UNCHANGED <<ledger, guard, lock, amount, entry, account, tx, orphans, history, counters>>

\* INSERT INTO facilitator_spend_log, before anything is signed.
Record(r) ==
    /\ At(r, "recording", "preparing")
    /\ log' = Append(log, amount[r]) /\ spent' = spent + amount[r]
    /\ entry' = [entry EXCEPT ![r] = Len(log')]
    /\ UNCHANGED <<ledger, halted, day, lock, amount, account, tx, orphans, history, counters>>

\* submitTransfer: getAccount, once the queue is free.
Prepare(r) ==
    /\ At(r, "preparing", "sending")
    /\ account' = [account EXCEPT ![r] = seq]
    /\ UNCHANGED <<ledger, guard, lock, amount, entry, tx, orphans, history, counters>>

\* Simulation, signing, sendTransaction: refused if the balance does not cover
\* it or the sequence number was taken meanwhile.
Send(r) ==
    /\ IF amount[r] <= balance /\ account[r] = seq
       THEN /\ At(r, "sending", "polling")
            /\ tx' = [tx EXCEPT ![r] = [amount |-> amount[r], seq |-> account[r] + 1,
                                        result |-> "pending", entry |-> entry[r]]]
       ELSE At(r, "sending", "unlocking") /\ UNCHANGED tx
    /\ UNCHANGED <<ledger, guard, lock, amount, entry, account, orphans, history, counters>>

PollEnds(r) ==
    /\ At(r, "polling", "unlocking")
    /\ tx[r].result \in {"success", "failed"}
    /\ tx' = [tx EXCEPT ![r] = NoTx]
    /\ UNCHANGED <<ledger, guard, lock, amount, entry, account, orphans, history, counters>>

\* Broken variant of PollTimesOut: sends once more what it did not see land.
PollTimesOutResend(r) ==
    /\ At(r, "polling", "preparing")
    /\ tx[r].result = "pending"
    /\ Disrupt /\ orphans' = orphans \cup {tx[r]}
    /\ tx' = [tx EXCEPT ![r] = NoTx]
    /\ UNCHANGED <<ledger, guard, lock, amount, entry, account, history, earned, others, resumes>>

\* The attempts are spent: for good when its sequence number was taken, too
\* early when it may still land.
PollTimesOut(r) ==
    /\ At(r, "polling", "unlocking")
    /\ tx[r].result = "pending"
    /\ IF tx[r].seq <= seq
       THEN UNCHANGED <<orphans, disruptions>>
       ELSE Disrupt /\ orphans' = orphans \cup {tx[r]}
    /\ tx' = [tx EXCEPT ![r] = NoTx]
    /\ UNCHANGED <<ledger, guard, lock, amount, entry, account, history, earned, others, resumes>>

\* The balance, the guard's database or the RPC server does not answer.  (When
\* only the answer to sendTransaction is lost, that is Send and PollTimesOut.)
Break(r) ==
    /\ Disrupt
    /\ pc[r] \in {"reading", "guarding", "halting", "recording", "preparing", "sending"}
    /\ pc' = [pc EXCEPT ![r] = "unlocking"]
    /\ UNCHANGED <<ledger, guard, lock, amount, entry, account, tx, orphans, history, earned, others, resumes>>

\* Broken variant of Unlock: a pooled connection goes back with its lock.
UnlockNothing(r) ==
    /\ At(r, "unlocking", "idle")
    /\ UNCHANGED <<ledger, guard, lock, amount, entry, account, tx, orphans, history, counters>>

\* finally: pg_advisory_unlock, by the session that locked.
Unlock(r) ==
    /\ At(r, "unlocking", "idle")
    /\ lock' = IF lock = r THEN None ELSE lock
    /\ UNCHANGED <<ledger, guard, amount, entry, account, tx, orphans, history, counters>>

\* The connection that holds the lock is lost; doSweep uses others and goes on.
LoseConnection(r) ==
    /\ Disrupt
    /\ lock = r
    /\ lock' = None
    /\ unguarded' = TRUE
    /\ UNCHANGED <<ledger, guard, procVars, orphans, overlapped, earned, others, resumes>>

\* The process dies; its session and its lock with it, not what it sent.
Crash(r) ==
    /\ Disrupt
    /\ pc[r] # "idle"
    /\ pc' = [pc EXCEPT ![r] = "idle"]
    /\ lock' = IF lock = r THEN None ELSE lock
    /\ orphans' = IF tx[r].result = "pending" THEN orphans \cup {tx[r]} ELSE orphans
    /\ tx' = [tx EXCEPT ![r] = NoTx]
    /\ UNCHANGED <<ledger, guard, amount, entry, account, history, earned, others, resumes>>

-----------------------------------------------------------------------------

Sweep(r) ==
    \/ TryLock(r) \/ ReadBalance(r) \/ Guard(r) \/ Halt(r) \/ Record(r) \/ Prepare(r)
    \/ Send(r) \/ PollEnds(r) \/ PollTimesOut(r) \/ Unlock(r)

Next ==
    \/ \E r \in Replicas : Sweep(r) \/ Land(r) \/ Break(r) \/ LoseConnection(r) \/ Crash(r)
    \/ \E t \in orphans : LandLate(t) \/ Expire(t)
    \/ Earn \/ OtherSubmission \/ Tick \/ Midnight \/ Resume

\* The cron fires for ever, a sweep goes on, a transaction is included unless
\* its sequence number is taken, and does not stay valid.
Fairness ==
    /\ WF_vars(Tick)
    /\ WF_vars(\E t \in orphans : Expire(t))
    /\ \A r \in Replicas : WF_vars(Sweep(r)) /\ WF_vars(Land(r))

Spec     == Init /\ [][Next]_vars
FairSpec == Spec /\ Fairness

-----------------------------------------------------------------------------

Tx == [amount : Nat, seq : Nat, result : {"none", "pending", "success", "failed"}, entry : Nat]

\* Every variable has its type; in particular no sweep is of a negative amount
\* and the account is never overdrawn.
TypeOK ==
    /\ balance \in Nat /\ seq \in Nat /\ moved \in Nat /\ paid \subseteq Nat
    /\ log \in Seq(Nat) /\ spent \in Nat /\ halted \in BOOLEAN /\ day \in 0..MaxDays
    /\ lock \in Replicas \cup {None}
    /\ pc \in [Replicas -> {"idle", "connecting", "reading", "guarding", "halting", "recording",
                            "preparing", "sending", "polling", "unlocking"}]
    /\ amount \in [Replicas -> Nat] /\ entry \in [Replicas -> Nat]
    /\ account \in [Replicas -> Nat]
    /\ tx \in [Replicas -> Tx]
    /\ orphans \subseteq Tx
    /\ unguarded \in BOOLEAN /\ overlapped \in BOOLEAN
    /\ earned \in 0..MaxEarned /\ others \in 0..MaxOthers
    /\ resumes \in 0..MaxResumes /\ disruptions \in 0..MaxDisruptions

\* The guard sums the day's log, compares and inserts in separate statements;
\* the advisory lock is what keeps two replicas from both passing.  Unless a
\* session lost its lock, a day's log never exceeds the cap.
WithinCap == unguarded \/ spent <= Cap

\* "Bounds the blast radius" (facilitator-spend-guard.service.ts): what leaves
\* the account, whenever it lands and whatever was retried, is at most one cap
\* a day.
BlastRadius == unguarded \/ moved <= (day + 1) * Cap

\* A halt outlives the day and the process, and only an administrator lifts it:
\* no transfer of a sweep is sent while it is set, unless a session lost its
\* lock.  It says nothing of what else the account signs (HaltStopsSigning).
HaltStopsSweep ==
    [][\A r \in Replicas : halted /\ ~unguarded => ~(Send(r) /\ tx'[r] # tx[r])]_vars

\* The sweep leaves the configured minimum ("it still needs USDC/XLM for the
\* next settlement"), unless the balance was read while an earlier transfer
\* could still land, or a session lost its lock.
MinimumPreserved ==
    [][balance' < balance => balance' >= Minimum \/ overlapped \/ unguarded]_vars

\* "Recorded BEFORE submission": whatever leaves the account leaves it for one
\* row of the log, which was there before, says how much, and pays once, even
\* where the lock was lost; rows are added within the cap and not while the
\* halt is set, unless it was (see Allowance; facilitator-sweep.service.ts:
\* 129-133, facilitator-spend-guard.service.ts:39-80).
A == INSTANCE Allowance WITH today <- spent
PaidFromLog == A!ASpec

\* What is above the minimum is swept in the end, or signing is halted:
\* no failure leaves the lock held or a sweep stuck.
EventuallySwept == balance > Minimum ~> balance <= Minimum \/ halted

\* "A cap breach halts ALL further signing, not just the one over-cap
\* operation" (facilitator-spend-guard.service.ts:29-30): the account submits
\* nothing while the halt is set, be it a sweep's transfer or anything else.
HaltStopsSigning ==
    [][halted => /\ ~OtherSubmission
                 /\ \A r \in Replicas : ~(Send(r) /\ tx'[r] # tx[r])]_vars

\* "A tunable ceiling" on the "daily exposure"
\* (facilitator-spend-guard.service.ts:7-8), without the proviso of WithinCap.
CeilingHolds == spent <= Cap

\* "An operator explicitly sets a minimum to preserve"
\* (facilitator-sweep.service.ts:79-80): as MinimumPreserved, though a balance was
\* read while an earlier transfer could still land.
MinimumAlwaysPreserved ==
    [][balance' < balance => balance' >= Minimum \/ unguarded]_vars
=============================================================================
