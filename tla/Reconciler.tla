----------------------------- MODULE Reconciler -----------------------------
(***************************************************************************)
(* The settlement reconciler (reconciler/src): `watch` processes that poll *)
(* Horizon for the payments of an account, record the matched ones in      *)
(* Postgres, screen the payer after the fact and persist a cursor; and the *)
(* people who touch the same rows while it runs (the admin API and the     *)
(* `set-cursor` command).                                                  *)
(*                                                                         *)
(* The chain is a sequence of operations, an operation's paging token is   *)
(* its index.  Horizon only shows what is final, so the chain is           *)
(* append-only.  Amounts, fees and links are left to other modules.        *)
(***************************************************************************)
EXTENDS Integers, Sequences, FiniteSets

CONSTANTS
    Watchers,         \* `watch` processes
    Account,          \* [Watchers -> accounts]: the address each one watches
    Ops,              \* the operations that may land on chain
    None,             \* no memo id / no muxed id
    Denied,           \* payers the on-chain compliance contract refuses
    Targets,          \* cursor values an operator may ask for
    PageSize,         \* `limit` of payments_since (50)
    MaxOps,           \* bound: operations that land
    MaxExits,         \* bound: exits at max_polls, on an error, by a kill
    MaxInterventions  \* bound: operator actions

Now == -1             \* the cursor value "now"

ASSUME ReconcilerAssumption ==
    /\ \A op \in Ops : {"type", "memo", "muxed", "from", "to"} \subseteq DOMAIN op
    /\ Targets \subseteq Nat \cup {Now}
    /\ PageSize \in Nat \ {0}
    /\ {MaxOps, MaxExits, MaxInterventions} \subseteq Nat

VARIABLES
    chain,         \* operations confirmed on chain, in order
    cursor,        \* reconciler_state.value
    payments,      \* token -> row of `payments`
    blocked,       \* blocked_addresses (earlier blocks included)
    pc,            \* where each process is
    mem,           \* its local `cursor` (kept as its last one while it is down)
    batch,         \* tokens of the page it has not processed yet
    sawBlocked,    \* what is_locally_blocked returned for the head of the page
    checks,        \* pending_checks: tokens whose payer is being screened
    rewinds,       \* admin rewinds validated but not yet written
    floor,         \* history: highest position chosen rather than worked up to
    waived,        \* history: tokens whose on-chain verdict will not be applied
    exits, interventions

procVars == <<pc, mem, batch, sawBlocked, checks>>
dbVars   == <<cursor, payments, blocked>>
history  == <<floor, waived>>
counters == <<exits, interventions>>
vars == <<chain, dbVars, procVars, rewinds, history, counters>>

Tokens   == 1..Len(chain)
Payers   == {op.from : op \in Ops} \ {None}
Statuses == {"paid", "held", "disputed"}
PcValues == {"down", "resolving", "seeding", "polling", "looping",
             "inserting", "saving", "draining"}

\* Session routing of an operation: the MEMO_ID first, else the muxed
\* destination; an operation without either, or not a "payment", is unmatched.
Session(op) == IF op.memo # None THEN op.memo ELSE op.muxed
Matched(op) == op.type = "payment" /\ Session(op) # None

\* /accounts/{account}/payments lists what an account sends and receives.
Visible(acct, t) == acct \in {chain[t].from, chain[t].to}
Feed(acct, c)    == {t \in Tokens : t > c /\ Visible(acct, t)}
Page(acct, c)    == {t \in Feed(acct, c) :
                        Cardinality({u \in Feed(acct, c) : u < t}) < PageSize}

Current(w, t) == t \in batch[w] /\ \A u \in batch[w] : t <= u
AtLeast(a, b) == IF a > b THEN a ELSE b

Init ==
    /\ chain = <<>>
    /\ cursor = Now
    /\ payments = [t \in {} |-> 0]
    /\ blocked \in SUBSET Payers
    /\ pc = [w \in Watchers |-> "down"]
    /\ mem = [w \in Watchers |-> 0]
    /\ batch = [w \in Watchers |-> {}]
    /\ sawBlocked = [w \in Watchers |-> FALSE]
    /\ checks = [w \in Watchers |-> {}]
    /\ rewinds = {}
    /\ floor = 0
    /\ waived = {}
    /\ exits = 0
    /\ interventions = 0

-----------------------------------------------------------------------------
(* Horizon *)

Land ==
    /\ Len(chain) < MaxOps
    /\ \E op \in Ops : chain' = Append(chain, op)
    /\ UNCHANGED <<dbVars, procVars, rewinds, history, counters>>

-----------------------------------------------------------------------------
(* One `watch` process *)

Exit ==
    /\ exits < MaxExits
    /\ exits' = exits + 1

\* Broken variant of Start: polls with whatever get_cursor returned.
StartUnresolved(w) ==
    /\ pc[w] = "down"
    /\ pc' = [pc EXCEPT ![w] = "polling"]
    /\ mem' = [mem EXCEPT ![w] = cursor]
    /\ UNCHANGED <<chain, dbVars, batch, sawBlocked, checks, rewinds, history, counters>>

\* get_cursor; a stored "now" still has to be resolved.
Start(w) ==
    /\ pc[w] = "down"
    /\ IF cursor = Now
       THEN /\ pc' = [pc EXCEPT ![w] = "resolving"]
            /\ UNCHANGED mem
       ELSE /\ pc' = [pc EXCEPT ![w] = "polling"]
            /\ mem' = [mem EXCEPT ![w] = cursor]
    /\ UNCHANGED <<chain, dbVars, batch, sawBlocked, checks, rewinds, history, counters>>

\* resolve_now_cursor: the account's newest operation, 0 if it has none.
ResolveNow(w) ==
    /\ pc[w] = "resolving"
    /\ \E h \in {0} \cup Feed(Account[w], 0) :
          /\ \A t \in Feed(Account[w], 0) : t <= h
          /\ mem' = [mem EXCEPT ![w] = h]
          /\ floor' = AtLeast(h, floor)
    /\ pc' = [pc EXCEPT ![w] = "seeding"]
    /\ UNCHANGED <<chain, dbVars, batch, sawBlocked, checks, rewinds, waived, counters>>

\* set_cursor(resolved head).
SeedCursor(w) ==
    /\ pc[w] = "seeding"
    /\ cursor' = mem[w]
    /\ floor' = AtLeast(mem[w], floor)
    /\ pc' = [pc EXCEPT ![w] = "polling"]
    /\ UNCHANGED <<chain, payments, blocked, mem, batch, sawBlocked, checks, rewinds, waived, counters>>

\* payments_since(mem, PageSize).
Poll(w) ==
    /\ pc[w] = "polling"
    /\ batch' = [batch EXCEPT ![w] = Page(Account[w], mem[w])]
    /\ pc' = [pc EXCEPT ![w] = "looping"]
    /\ UNCHANGED <<chain, dbVars, mem, sawBlocked, checks, rewinds, history, counters>>

\* Broken variant of Skip: `continue` without moving the local cursor.
SkipInPlace(w, t) ==
    /\ pc[w] = "looping"
    /\ Current(w, t)
    /\ ~Matched(chain[t])
    /\ batch' = [batch EXCEPT ![w] = @ \ {t}]
    /\ UNCHANGED <<chain, dbVars, pc, mem, sawBlocked, checks, rewinds, history, counters>>

\* An unmatched operation moves the local cursor only.
Skip(w, t) ==
    /\ pc[w] = "looping"
    /\ Current(w, t)
    /\ ~Matched(chain[t])
    /\ mem' = [mem EXCEPT ![w] = t]
    /\ batch' = [batch EXCEPT ![w] = @ \ {t}]
    /\ UNCHANGED <<chain, dbVars, pc, sawBlocked, checks, rewinds, history, counters>>

\* Broken variant of Screen: the cursor is stored before the payment.
ScreenAfterSave(w, t) ==
    /\ pc[w] = "looping"
    /\ Current(w, t)
    /\ Matched(chain[t])
    /\ cursor' = t
    /\ sawBlocked' = [sawBlocked EXCEPT ![w] = chain[t].from \in blocked]
    /\ pc' = [pc EXCEPT ![w] = "inserting"]
    /\ UNCHANGED <<chain, payments, blocked, mem, batch, checks, rewinds, history, counters>>

\* record_payment_if_new, its reads: the local blocklist.
Screen(w, t) ==
    /\ pc[w] = "looping"
    /\ Current(w, t)
    /\ Matched(chain[t])
    /\ sawBlocked' = [sawBlocked EXCEPT ![w] = chain[t].from \in blocked]
    /\ pc' = [pc EXCEPT ![w] = "inserting"]
    /\ UNCHANGED <<chain, dbVars, mem, batch, checks, rewinds, history, counters>>

\* UNIQUE (merchant_id, muxed_id), which ON CONFLICT (paging_token) does not
\* absorb.
SessionTaken(w, t) ==
    \E u \in DOMAIN payments :
        /\ payments[u].account = Account[w]
        /\ Session(chain[u]) = Session(chain[t])

\* record_payment_if_new, its INSERT, when the row is new; a payer the local
\* list does not block is then screened on chain in the background.
Insert(w, t) ==
    /\ pc[w] = "inserting"
    /\ Current(w, t)
    /\ t \notin DOMAIN payments
    /\ ~SessionTaken(w, t)
    /\ payments' = [u \in DOMAIN payments \cup {t} |->
                      IF u = t
                      THEN [account |-> Account[w],
                            status  |-> IF sawBlocked[w] THEN "held" ELSE "paid"]
                      ELSE payments[u]]
    /\ checks' = [checks EXCEPT ![w] = IF sawBlocked[w] THEN @ ELSE @ \cup {t}]
    /\ pc' = [pc EXCEPT ![w] = "saving"]
    /\ UNCHANGED <<chain, cursor, blocked, mem, batch, sawBlocked, rewinds, history, counters>>

\* ON CONFLICT (paging_token) DO NOTHING: a replay changes nothing.
Replay(w, t) ==
    /\ pc[w] = "inserting"
    /\ Current(w, t)
    /\ t \in DOMAIN payments
    /\ pc' = [pc EXCEPT ![w] = "saving"]
    /\ UNCHANGED <<chain, dbVars, mem, batch, sawBlocked, checks, rewinds, history, counters>>

\* Broken variant of Save: stores the last token of the page.
SavePage(w, t) ==
    /\ pc[w] = "saving"
    /\ Current(w, t)
    /\ mem' = [mem EXCEPT ![w] = t]
    /\ \E last \in batch[w] : cursor' = last /\ \A u \in batch[w] : u <= last
    /\ batch' = [batch EXCEPT ![w] = @ \ {t}]
    /\ pc' = [pc EXCEPT ![w] = "looping"]
    /\ UNCHANGED <<chain, payments, blocked, sawBlocked, checks, rewinds, history, counters>>

\* cursor = op.paging_token; set_cursor(&cursor).
Save(w, t) ==
    /\ pc[w] = "saving"
    /\ Current(w, t)
    /\ mem' = [mem EXCEPT ![w] = t]
    /\ cursor' = t
    /\ batch' = [batch EXCEPT ![w] = @ \ {t}]
    /\ pc' = [pc EXCEPT ![w] = "looping"]
    /\ UNCHANGED <<chain, payments, blocked, sawBlocked, checks, rewinds, history, counters>>

\* The page is done: sleep, then the next poll.
NextPoll(w) ==
    /\ pc[w] = "looping"
    /\ batch[w] = {}
    /\ pc' = [pc EXCEPT ![w] = "polling"]
    /\ UNCHANGED <<chain, dbVars, mem, batch, sawBlocked, checks, rewinds, history, counters>>

\* max_polls is spent.
Drain(w) ==
    /\ pc[w] = "looping"
    /\ batch[w] = {}
    /\ Exit
    /\ pc' = [pc EXCEPT ![w] = "draining"]
    /\ UNCHANGED <<chain, dbVars, mem, batch, sawBlocked, checks, rewinds, history, interventions>>

\* The process is gone, with everything it held in memory.
Vanish(w) ==
    /\ pc' = [pc EXCEPT ![w] = "down"]
    /\ batch' = [batch EXCEPT ![w] = {}]
    /\ checks' = [checks EXCEPT ![w] = {}]
    /\ UNCHANGED <<chain, dbVars, mem, sawBlocked, rewinds, floor>>

\* Broken variant of Finish: returns without joining the background checks.
FinishNow(w) ==
    /\ pc[w] = "draining"
    /\ Vanish(w)
    /\ UNCHANGED <<waived, counters>>

\* await_pending_checks, then Ok(()).
Finish(w) ==
    /\ pc[w] = "draining"
    /\ checks[w] = {}
    /\ Vanish(w)
    /\ UNCHANGED <<waived, counters>>

\* The INSERT fails on the session index and `?` ends the process; the checks
\* still running are aborted with it.
Conflict(w, t) ==
    /\ pc[w] = "inserting"
    /\ Current(w, t)
    /\ t \notin DOMAIN payments
    /\ SessionTaken(w, t)
    /\ Vanish(w)
    /\ waived' = waived \cup checks[w]
    /\ UNCHANGED counters

\* Any other `?` (Horizon, the exchange rate, Postgres), or a kill.
Fail(w) ==
    /\ pc[w] # "down"
    /\ Exit
    /\ Vanish(w)
    /\ waived' = waived \cup checks[w]
    /\ UNCHANGED interventions

\* A background check ends.  It refuses only a payer the contract denies; it
\* fails open when the contract is unreachable, and a failed mark_held is
\* only logged.
MarkHeld(w, t) ==
    /\ t \in checks[w]
    /\ chain[t].from \in Denied
    /\ payments' = [payments EXCEPT ![t].status = "held"]
    /\ checks' = [checks EXCEPT ![w] = @ \ {t}]
    /\ UNCHANGED <<chain, cursor, blocked, pc, mem, batch, sawBlocked, rewinds, history, counters>>

LetPass(w, t) ==
    /\ t \in checks[w]
    /\ checks' = [checks EXCEPT ![w] = @ \ {t}]
    /\ waived' = waived \cup {t}
    /\ UNCHANGED <<chain, dbVars, pc, mem, batch, sawBlocked, rewinds, floor, counters>>

-----------------------------------------------------------------------------
(* Operators *)

Intervene ==
    /\ interventions < MaxInterventions
    /\ interventions' = interventions + 1

\* AdminPaymentsService.setStatus
SetPaymentStatus(t, s) ==
    /\ Intervene
    /\ t \in DOMAIN payments
    /\ payments' = [payments EXCEPT ![t].status = s]
    /\ waived' = waived \cup {t}
    /\ UNCHANGED <<chain, cursor, blocked, procVars, rewinds, floor, exits>>

\* AdminComplianceService.block / unblock
Block(a) ==
    /\ Intervene
    /\ a \notin blocked
    /\ blocked' = blocked \cup {a}
    /\ UNCHANGED <<chain, cursor, payments, procVars, rewinds, history, exits>>

Unblock(a) ==
    /\ Intervene
    /\ a \in blocked
    /\ blocked' = blocked \ {a}
    /\ UNCHANGED <<chain, cursor, payments, procVars, rewinds, history, exits>>

\* assertNotForward(current, target)
NotForward(current, target) ==
    \/ current = Now
    \/ target # Now /\ target <= current

\* AdminReconcilerService.rewind: SELECT and check, then UPDATE.  Off "now" it
\* may ask for any position, which is then one that was chosen.
RewindCheck(v) ==
    /\ Intervene
    /\ NotForward(cursor, v)
    /\ rewinds' = rewinds \cup {v}
    /\ floor' = IF cursor = Now THEN AtLeast(v, floor) ELSE floor
    /\ UNCHANGED <<chain, dbVars, procVars, waived, exits>>

RewindWrite(v) ==
    /\ v \in rewinds
    /\ cursor' = v
    /\ rewinds' = rewinds \ {v}
    /\ UNCHANGED <<chain, payments, blocked, procVars, history, counters>>

\* `reconciler set-cursor <value|'now'>`
SetCursor(v) ==
    /\ Intervene
    /\ cursor' = v
    /\ floor' = AtLeast(v, floor)
    /\ UNCHANGED <<chain, payments, blocked, procVars, rewinds, waived, exits>>

-----------------------------------------------------------------------------

Progress(w) ==
    \/ Start(w) \/ ResolveNow(w) \/ SeedCursor(w) \/ Poll(w) \/ NextPoll(w) \/ Finish(w)
    \/ \E t \in batch[w] : \/ Skip(w, t) \/ Screen(w, t) \/ Insert(w, t)
                           \/ Replay(w, t) \/ Save(w, t) \/ Conflict(w, t)

Check(w) == \E t \in checks[w] : MarkHeld(w, t) \/ LetPass(w, t)

Operator ==
    \/ \E t \in DOMAIN payments, s \in Statuses : SetPaymentStatus(t, s)
    \/ \E a \in Payers : Block(a) \/ Unblock(a)
    \/ \E v \in Targets : RewindCheck(v) \/ SetCursor(v)
    \/ \E v \in rewinds : RewindWrite(v)

Next ==
    \/ Land
    \/ \E w \in Watchers : Progress(w) \/ Check(w) \/ Drain(w) \/ Fail(w)
    \/ Operator

\* A process that is neither killed nor failing keeps going and a process that
\* ended is started again (the platform restarts it always); a background
\* check ends within its timeouts.
Fairness == \A w \in Watchers : WF_vars(Progress(w)) /\ WF_vars(Check(w))

Spec     == Init /\ [][Next]_vars
FairSpec == Spec /\ Fairness

-----------------------------------------------------------------------------

Row == [account : {Account[w] : w \in Watchers}, status : Statuses]

\* Every variable has its type: in particular a process never polls Horizon
\* with the literal cursor "now", and it only holds tokens that exist.
TypeOK ==
    /\ chain \in Seq(Ops)
    /\ cursor \in Nat \cup {Now}
    /\ DOMAIN payments \subseteq Tokens
    /\ payments \in [DOMAIN payments -> Row]
    /\ blocked \subseteq Payers
    /\ pc \in [Watchers -> PcValues]
    /\ mem \in [Watchers -> Nat]
    /\ batch \in [Watchers -> SUBSET Tokens]
    /\ sawBlocked \in [Watchers -> BOOLEAN]
    /\ checks \in [Watchers -> SUBSET DOMAIN payments]
    /\ rewinds \subseteq Targets
    /\ floor \in Nat
    /\ waived \subseteq DOMAIN payments
    /\ exits \in 0..MaxExits
    /\ interventions \in 0..MaxInterventions

\* The payments an account's book owes a row.
Owed(acct) == {t \in Feed(acct, 0) : Matched(chain[t])}

Covered(acct, c) == \A t \in Owed(acct) : floor < t /\ t <= c => t \in DOMAIN payments

\* "Advancing the cursor before the commit is how a crash mid-stream turns
\* into a silently skipped payment" (store.rs): neither the stored cursor nor
\* a running process is ever past a payment without a row, unless "now" or an
\* operator chose a position beyond that payment (`set-cursor`, a rewind off
\* "now").  A rewind from a real position is no such choice, however late it is
\* written.
NoSkippedPayment ==
    \A w \in Watchers :
        /\ Covered(Account[w], cursor)
        /\ pc[w] \notin {"down", "resolving"} => Covered(Account[w], mem[w])

\* "Real production restarts always resume from the last persisted cursor"
\* (main.rs): a process that had a position and starts again does not begin
\* past a payment it had not recorded and nobody chose to pass over.
RestartSkipsNothing ==
    [][\A w \in Watchers : Start(w) /\ mem[w] > 0 =>
          \A t \in Owed(Account[w]) :
              floor < t /\ mem[w] < t /\ t <= mem'[w] => t \in DOMAIN payments]_vars

\* No payment of a payer the contract denies stays "paid" unscreened: it is
\* held, or its check is still running, or the check failed open, or its
\* process died with the check, or an operator decided.  A clean exit
\* (await_pending_checks) loses no check.
NoUnscreenedPayment ==
    \A t \in DOMAIN payments :
        chain[t].from \in Denied /\ payments[t].status = "paid" =>
            t \in waived \cup UNION {checks[w] : w \in Watchers}

\* Two payments of one account on one session: the second has no row to go to.
SessionReused(acct) ==
    \E t, u \in Owed(acct) : t # u /\ Session(chain[t]) = Session(chain[u])

Recorded(t) == t \in DOMAIN payments \/ t <= floor

\* Every payment that lands after the reconciler's start is recorded, exits,
\* replays and rewinds notwithstanding, as long as no session id of the
\* account is paid twice and no operator moves the position beyond it.
EventuallyRecorded ==
    \A w \in Watchers, t \in 1..MaxOps :
        t \in Owed(Account[w]) ~>
            Recorded(t) \/ SessionReused(Account[w])

\* The same without the proviso: "Ok(Some(RecordedPayment)) if this was
\* genuinely new" (store.rs).
EveryNewPaymentRecorded ==
    \A w \in Watchers, t \in 1..MaxOps :
        t \in Owed(Account[w]) ~> Recorded(t)

\* "Poll Horizon for new payments to this address and record confirmed ones"
\* (README.md): a row is a payment its merchant received.
OnlyReceipts == \A t \in DOMAIN payments : chain[t].to = payments[t].account

\* "cursor can only move backward" (admin-reconciler.service.ts:16): what a
\* rewind writes is not ahead of the position it replaces.
RewindGoesBack ==
    [][\A v \in rewinds : RewindWrite(v) => NotForward(cursor, v)]_vars

\* "A clean exit joins all pending checks first; a hard kill doesn't"
\* (README.md:359-360): what ends a process without killing it loses no check.
DroppedOnlyByKill ==
    [][\A w \in Watchers : \A t \in batch[w] : Conflict(w, t) => checks[w] = {}]_vars

L == INSTANCE Ledger WITH
        due    <- UNION {Owed(Account[w]) : w \in Watchers},
        booked <- DOMAIN payments,
        acked  <- cursor

\* The processes that watch one account implement the book of payments of
\* module Ledger: each payment is booked once, and the stored cursor only
\* moves to a position that is settled or that someone chose.
LedgerSpec == L!LSpec
=============================================================================
