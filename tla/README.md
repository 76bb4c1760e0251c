# Konfirm backend: TLA+ models and proofs

TLA+ modules for the parts of this backend where something depends on the order
of steps: what is recorded of the chain, what is promised to a payee, what the
facilitator sends, and, around these, who is let in, what an administrator
decides, and what is left of a start, a migration or a sweep that fails half-way.
Each module is translated from the code; `PROJECT.json`
maps every definition to its lines. Paths below are relative to the
repository.

To run: `tlc -config MCReconciler.cfg MCReconciler`, `tlapm ReconcilerProofs.tla`.

## 1. The system and its parts

A NestJS API (`src/`), a Rust reconciler (`reconciler/`), one Postgres
database (`db/`), Stellar (Horizon for the reconciler, Soroban RPC for the
API), two contracts of other repositories (compliance, payment channel),
anchors over HTTP.

| Part | State it keeps | Operations | Talks to | What makes it correct |
|---|---|---|---|---|
| Settlement reconciler (`reconciler/src/main.rs`, `store.rs`, `horizon.rs`, `compliance.rs`) | one cursor row in `reconciler_state`; `payments`; in memory a local cursor, a page, background checks | `watch`, `set-cursor`, `seed-merchant` | Horizon, compliance contract, Postgres | no payment skipped by any crash or restart; each recorded once; a payer the contract denies ends up held |
| Admin actions (`src/admin`) | the same rows, `blocked_addresses`, an audit log | set a payment's status, block, unblock, rewind the cursor | Postgres, shared with the reconciler | a rewind only goes back; what an administrator decides stays |
| Payment channels (`src/x402/channel.service.ts`) | `x402_channels`: claimed, pending claim, status, closing_at | claim, open, close; calls to the contract | channel contract | an accepted claim is never lost; stored claims are within the deposit and signed |
| Channel keeper (`src/x402/channel-keeper.service.ts`) | nothing of its own; an advisory lock | cron sweep: checkpoint, finalize, defend, resync | contract, rows | every accepted claim is settled before the channel closes; a close is finalized |
| Facilitator signer and queue (`src/common/facilitator-signer.ts`) | a promise chain | run one submission at a time | all submitters | one transaction per sequence number in flight |
| x402 verify / settle (`src/x402/x402.service.ts`) | `x402_settlements` by idempotency key: the row first recorded stays | verify, settle | facilitator, compliance | nobody is charged unscreened or twice; the row does not deny a charge |
| Facilitator sweep and spend guard (`src/facilitator`) | `facilitator_spend_log`, the halt in `facilitator_state`, an advisory lock | cron sweep, check-and-record, halt, resume | Soroban RPC, Postgres | daily cap not exceeded; halt sticks |
| Auth, referrals, fee rule (`src/auth`, `src/referrals`, `reconciler/src/store.rs`) | `merchants`: code, referrer, promo until, promo cap | signup, login, reward sweep, effective fee of a payment | Postgres; the reconciler reads what the API writes | a reward is granted once per referral; the promo ends at its date and volume |
| Links, sessions, checkout (`src/links`, `src/sessions`, `src/payments`, login and guard of `src/auth`) | `payment_links`, `link_sessions`, session cookies | log in, create a link, reserve a session, screen a payer, build a transaction or a payment URI | compliance, Horizon, Postgres | a suspension and a block take effect at once; a payment is booked to the link its id was reserved for |
| Deposits / withdrawals (`src/deposits`, `src/withdrawals`) | `withdrawal_attempts` | challenge, token, start, the payment to sign, refresh of statuses | anchors | a start opens one transaction; the outcome comes to be shown and stays |
| Bazaar, admin auth, audit (`src/bazaar`, `src/admin-auth`, `src/admin`) | listings, admin sessions, merchants' status and tier, `blocked_addresses`, `admin_actions` | submit, review, log in, suspend, block, log | Postgres | the trail names what took effect, as often as it did |
| Database pool, migrations, backup (`src/db/pool.ts`, `db/migrate.ts`) | pool of clients, `schema_migrations` | connect, release, up, down | all | the tracking table says what the schema is; sweeps never hold every client while they wait for one |
| KMS signer, observability, bootstrap, scripts | none | - | - | not modelled: no state |

Interactions that matter: the reconciler and the admin API write the same
rows from two processes; API requests, cron sweeps and the contract's other
parties move one channel; all submitters share one account and one pool; the
reconciler computes a fee from columns the signup and the reward sweep write.

Hard behaviour: processes that end anywhere and are started again; two of them
during a redeploy; `await` between a check and the write it guards;
transactions that land after their poll gave up; replays; a cursor several
actors write. `PROJECT.json` lists each such place under `hazards`, with the
properties that would catch it.

## 2. What is modelled

### Ledger and Reconciler

`Reconciler.tla` is the `watch` loop for any set of processes, one action per
code step that another actor can observe or a crash can separate:

| Action | Code |
|---|---|
| `Start`, `ResolveNow`, `SeedCursor` | `get_cursor`, and for a stored `"now"` the newest operation of the account, then `set_cursor` (`main.rs:68-83`) |
| `Poll`, `NextPoll`, `Drain`, `Finish` | `payments_since(cursor, 50)`, sleep, end of the budget, `await_pending_checks` |
| `Skip` | an operation that is no payment or has neither memo id nor muxed id: local cursor only |
| `Screen`, `Insert`, `Replay`, `Conflict` | `record_payment_if_new`: local blocklist read, INSERT, `ON CONFLICT (paging_token) DO NOTHING`, the violation of `UNIQUE (merchant_id, muxed_id)` that `?` turns into an exit |
| `Save` | `set_cursor` after the commit |
| `MarkHeld`, `LetPass` | the background on-chain check ends: refused, or allowed / failed open |
| `Fail` | any other `?`, or a kill |
| `SetPaymentStatus`, `Block`, `Unblock`, `RewindCheck`, `RewindWrite`, `SetCursor` | the admin services and `set-cursor`; the rewind's SELECT and UPDATE are apart, as in the code |

State: `chain` is the list of operations, a paging token is an index; `cursor`,
`payments`, `blocked` are the rows; `pc`, `mem`, `batch`, `sawBlocked`,
`checks` one process's memory. Two history variables carry no behaviour:
`floor`, the highest position somebody *chose* rather than reached (the start at
`"now"`, `set-cursor`, a rewind that was validated off `"now"`; any other rewind
only goes back, and written late it is no choice), and `waived`, payments whose on-chain verdict
will not be applied (failed open, died with the process, overridden by an
administrator). `blocked` starts as any set: blocks survive restarts. A payment's amount, fee and link do not influence control and are
left out. The compliance contract is the constant `Denied`.

`Ledger.tla` says the same promise without processes: what is owed is booked
once, and the stored position only moves to one up to which everything is
booked, or to a chosen one. `LedgerSpec` is the refinement
(`due`: payments owed to the watched account, `booked`: tokens with a row,
`acked`: the stored cursor).

### Netting and Channel

`Channel.tla` is one channel: requests (`Handlers`), the opener, the closer and
the keeper of the API process, and the contract.

| Action | Code |
|---|---|
| `ClaimCheck`, `ClaimStore` | the SELECT with its checks; `UPDATE ... WHERE pending_nonce < $3` and its row count. Two requests interleave between them |
| `OpenSend`, `OpenInsert`, `CloseCheck`, `CloseSimulate`, `CloseSend`, `CloseWrite` | `openChannel` and `closeChannel`, split where they await |
| `PollEnds`, `PollTimesOut`, `SendFails` | `pollForTransaction` (15 tries) and the errors before it. After a timeout the call is an *orphan*: `LandLate` may still include it |
| `Sweep`, `Select`, `KeeperSend`, `ReadInfo`, `WriteInfo`, `ResyncFails` | the keeper: its three queries in order, the captured claim, `submitFacilitatorCall`, `get_channel_info` and the UPDATE |
| `MissedSweep`, `Crash` | cron periods without a sweep; the process dies with every request while what was sent stays sent |
| `Land`, `PartyCalls` | the contract: an included transaction; a party closing or finalizing without the API |

The contract is not in this repository. It is modelled by the calls the code
makes and the rejections its comments rely on (stale nonce or amount,
capacity, signature, status, challenge period). `row.age` and `chain.age`
count cron periods (2 minutes) since `closing_at` and since the contract
entered Closing. `Netting.tla` is the promise to the payee: claims are
accepted in increasing order and only accepted claims are settled, upwards.

Simplifications, stated so they can be questioned: one channel (channels share
no row; they share the submission queue, modelled by `Unlocked`); claim
requests and the write after a confirmed call end within a cron period
(`PeriodPasses`); one API process, as `facilitator-signer.ts` says; the
contract's third-party checkpoint and any status beyond None / Open / Closing /
Closed are left out. `accepted` and `reopened` (a resync that read Open wrote
'open' over 'closing') are history variables; runs of their own show what the
properties that mention `reopened`, or that count disruptions against the
challenge period, leave out (`MCChannelReopened.cfg`, `MCChannelFinalizeFirst.cfg`).

### TreasurySweep

`TreasurySweep.tla` is the half-hourly sweep of the facilitator's balance above
a minimum into the treasury, on any number of API replicas (`sweep` itself
speaks of "another api replica"), with the spend guard it calls.

| Action | Code |
|---|---|
| `Tick`, `TryLock`, `Unlock` | the cron on every replica, `pg_try_advisory_lock`, the `finally` that unlocks |
| `ReadBalance` | the balance, less the minimum; nothing to sweep returns early |
| `Guard`, `Halt`, `Record` | `checkAndRecordSpend`: its two reads and verdict, the write of the halt, the INSERT into the log. `Midnight` starts a new day's sum, `Resume` is the administrator |
| `Prepare`, `Send`, `PollEnds`, `PollTimesOut` | `submitTransfer`: `getAccount`, then simulate, sign and send, then the poll. After a timeout the transfer is an orphan: `LandLate` or `Expire` (`setTimeout(60)`) |
| `Break`, `Crash`, `LoseConnection` | an error of any step, which always ends in `Unlock`; the process dies; the session with the lock is lost while `doSweep` goes on through the pool |
| `Land`, `Earn`, `OtherSubmission` | the ledger: a transfer is included when its sequence number is next; income; another transaction of the account |

History variables: `unguarded`, a session lost its lock under a sweep;
`overlapped`, a balance was read while a transfer could still land. They are
the provisos of the properties, and both are behaviour of the code: the lock
protects nothing once its session is gone (`MCTreasurySweepLostLock.cfg`), and a sweep
does not know of an earlier one's transfer in flight (`MCTreasurySweepOverlap.cfg`). A
halt binds the sweep only: every other submitter of the account signs under it
(`OtherSubmission`, `MCTreasurySweepHalt.cfg`). `entry`, `tx[r].entry` and `paid` follow the
row of `facilitator_spend_log` from its INSERT to the transfer it was written for
and to the ledger; the code keeps no such link.

`Allowance.tla` is what the guard is for, without replicas, locks and polls: money
leaves only for a row of the log that was there before, once, and as much as it
says; rows are added within the cap and not under a halt. `PaidFromLog` is the
refinement. It has no proviso for the first half: a lost lock lets two sweeps
log too much, but not pay a row twice.

Simplifications: a sweep and the minute for which its transfer is valid are
over within a cron period, though inside one a replica may start late, after
another one has finished; the guard's two concurrent reads are one step
(only `halted` and the day's sum, which the holder of the lock alone raises);
simulation, signing and sending are one step, whose partial failures are
`Break` (nothing sent) and `PollTimesOut` (sent, answer lost). The reason of a
halt is left out. Other replicas' submissions may take the sequence number at
any time, this replica's wait for the queue.

### Referral

`Referral.tla` joins three programs that meet only in columns of `merchants`
and `payments`: the sign-up, the reward sweep of the API (`Sweepers`: sweeps that
may overlap, of several API processes or slow ones of one) and the fee rule of the reconciler.

| Action | Code |
|---|---|
| `SignupCheck`, `InsertMerchant`, `InsertReferral`, `SignupFails` | `signup`: the SELECTs on address and code, the INSERT that fails on a taken address, the INSERT of the attribution, any statement's failure |
| `SweepSelect`, `SweepClaim`, `Grant`, `SweepFails` | `sweep`: the snapshot of its one statement, that statement's UPDATE, one reward of the loop, an error or a crash |
| `Price`, `Insert`, `Discard` | `record_payment_if_new`: `effective_fee_bps`, the INSERT as paid or held, a replay or an exit between them |
| `Hold`, `Release`, `Expire` | `mark_held` or an administrator; an administrator's 'paid'; the end of thirty days |

`SweepClaim` follows READ COMMITTED: a row that another sweep updated
meanwhile is tested again with `id IN (...)` only, so it is claimed and
returned a second time. The comment at `referral-rewards.service.ts:29-33`
promises that this cannot happen: `RewardedOnce` is its claim and
`referral_overlap` its counterexample. What does hold is one reward for each
sweep that overlaps (`RewardsBounded`).

History variables: `free`, volume recorded at the trial's rate; `uncounted`,
volume that was held or disputed at some time, which the cap does not see;
`active`, merchants that had a paid payment; `rewards`, how often each referral
was rewarded; `dropped`, referrals a failing sweep had claimed. The last is a
proviso of `EventuallyRewarded` and behaviour of the code: what was claimed and
not written is lost (`MCReferralDropped.cfg`).

`Programme.tla` is the referral programme as a merchant reads it: an account is
created once, referred at most once, for good, by an older one, becomes active
with a paid payment, and only an active referral is rewarded. `ProgrammeKept` is
the refinement; `InsertReferral` has no guard, so it also says that the unique
`referred_id` never has to refuse a row.

Simplifications: an account is its e-mail address and a code is its owner (both
columns are unique; a code drawn twice is `SignupFails`); requests that know
the same are one element of `signups`; every payment is of one unit, the cap
counts units, `Release` is any way back to 'paid'; a promo may expire at any
time. No code writes `fee_bps`, so it is a constant.

### Settlement

`Settlement.tla` is `/x402/verify` and `/x402/settle` together with the queue
of submissions and the facilitator account's sequence number.

| Action | Code |
|---|---|
| `Receive` | scope and the scheme's own verification have passed; otherwise a request changes nothing |
| `ScreenLocal`, `AskContract`, `FailOpen` | `isPayerAllowed`: the blocklist, then the contract, which lets pass when it cannot be asked. A refused payer's attempt is recorded as held |
| `Prepare`, `Send` | `scheme.settle` when its turn in `submissionQueue` comes: fetch the sequence number, submit |
| `PollEnds`, `PollTimesOut`, `Break` | its three ways to end; each advances the queue (`.then(fn, fn)`) |
| `Record`, `RecordFails` | `recordAttempt`, after the queue advanced: INSERT, `ON CONFLICT DO NOTHING`, a failure that is only logged |
| `Land`, `LandLate`, `Expire` | the ledger: a transaction fits if its number is next, and pays if its payload was not taken before. What nobody polls any more is an orphan |
| `SetBlocked`, `Crash` | an administrator; the API process |

The package that settles (`@x402/stellar`) is not in the repository: it is
modelled by what `x402.service.ts:151-156` says of it and by the answers the
code distinguishes. The model has one API process, as
`facilitator-signer.ts:54-55` says; the sweep, which speaks of replicas, has
several in `TreasurySweep`, where other replicas take numbers at any time.
Requests of other submitters (channels, keeper) stand in the queue like those
of x402. History variables: `cleared` and `waived` (what each request's screens
found), `abandoned` (a transaction was given up unanswered), `clashed`, `lost`.

`Clearing.tla` is what the payer is promised: a payload is charged at most once,
only after its payer was vouched for, and its row in `x402_settlements` is written
once, stays, and says 'settled' only of what was charged. `ClearedOnce` is the
refinement (`Vouched`: payloads of a request to settle whose payer nothing spoke
against when it was asked).

`RecordIsHonest` names the ways in which a charged payload keeps another status
than 'settled', all behaviour of the code: 'failed', because its answer came too
late or because two requests were to settle it (the first row stays); 'held',
because a request was refused before it submitted anything, by a screen that
another one passed. A `/verify` followed by a `/settle` of the same payload, the
protocol's normal flow, excuses a 'failed' in nothing. The comment at
`x402.service.ts:57-59` calls a resubmission a no-op; no code reads the rows, so
it is screened and submitted again, and `settlement_resubmitted` shows what
becomes of the row.

Simplifications: a payload has a payer. The code screens and records only `if
(payer)` (`x402.service.ts:118-119, 159, 172`), and settles a verification that is
valid and names none unscreened and without a row; the package as used always
names one. `RequestEnds` assumes that the package's own call ends: the code puts
no timeout around `scheme.settle`, whose poll is the package's.

### BackOffice and Checkout

`BackOffice.tla` is what administrators decide. `Checkout.tla` extends it with
the clients the decisions are about: merchants that log in and create links,
payers that reserve an id and ask for something to sign. The hazard is the same
in both: a request reads, awaits, and uses what it read.

| Action | Code |
|---|---|
| `AdminLogin`, `AdminSessionEnds`, `Hold` | the admin session, `AdminGuard` |
| `SetMerchantStatus`, `SetMerchantTier`, `BlockAddress`, `UnblockAddress`, `SetBazaarListingStatus` | the service's statement; a block of a blocked address, and an unblock of none, change and log nothing |
| `LogDecision`, `LogLost` | `AdminActionsService.log`, the request's second statement, or its failure: the decision stands without a row |
| `SubmitListing` | `BazaarService.submit` |
| `LoginCheck`, `LoginDone`, `Logout` | the row with its status, then bcrypt, then the cookie |
| `MerchantArrives`, `Guard`, `CreateLink`, `MerchantRefused` | the token verifies, `AuthGuard` reads the status again, the insert; an answer or an error |
| `Reserve` | the INSERT under `UNIQUE (merchant_id, muxed_id)`; the answer may be lost, a conflict makes the page draw again |
| `PayerArrives`, `LoadPayableLink`, `IsPayerAllowed`, `BuildTx`, `BuildPayUri`, `PayerRefused` | `prepareTx` and `buildPayUri` |
| `Book` | the ledger and the reconciler's look-up of the session's link (`store.rs:192-199`) |

History variables: `made` and `lost` count decisions that took effect and rows
that were never written; `late` holds the requests that *arrived* when the
client was already suspended or blocked, with the reasons that still hold. It
is how `EffectiveAtOnce` says "at once" of a request made of several steps: a
request that was past its test when the decision fell keeps what it got, a
transaction for its sixty seconds and a QR code for as long as somebody scans
it. `buildPayUri` knows no payer and screens none (`Scanners`); the reconciler's
check is the one that reaches such a payment.

Simplifications: one administrator's session stands for all (the row copies who
acted from the token); no code deactivates a link or lets it expire; the
contract's verdict is a refusal or none; `merchants.risk_tier` is written and
read by nobody, so `SetMerchantTier` only leaves its row. The audit row of an
unblock is told by its address; the code writes the id of the deleted
`blocked_addresses` row, from which nobody can tell the address any more
(`admin.controller.ts:158-160`).

Two promises of the repository's README go further than these properties, and the
code does not keep them: `AuditTellsTruth` counts a row that was never written apart
(`MCPlatformAudit.cfg`), and `EffectiveAtOnce` speaks of requests that arrive after
the decision, not of what was offered before it (`MCPlatformSuspended.cfg`).

### Cashout

`Cashout.tla` is SEP-10 and SEP-24 as the services relay them, for withdrawals
(`Sellers`, logged in, with a row in `withdrawal_attempts`) and deposits
(`Guests`), and the administrators' list, whose requests poll the anchor.

| Action | Code |
|---|---|
| `GetChallenge`, `ExchangeToken` | the challenge; the exchange, retried once |
| `StartTransaction`, `StartFails`, `StartAnswered` | the POST, which is *not* retried; no answer within ten seconds or a refusal; the answer, after which a withdrawal's row is written or fails to be |
| `PrepareWithdrawalTx`, `PrepareTransferPayment`, `Transfer` | the payment to sign, and whether the customer signs it |
| `Poll`, `PollAnswered`, `PollWritten`, `PollFails`, `TenSeconds` | `refreshIfStale`: the tests on the row as the list read it, the anchor's answer, the UPDATE, an error, `RECENT_POLL_WINDOW_MS` |
| `AnchorOpens`, `PostLost`, `AnchorMoves`, `TokenExpires` | the anchor |

The anchor's own code is elsewhere: it opens a transaction for each POST that
reaches it and moves towards one of `Outcomes`. A token belongs to a start; the
code's tokens may serve several, which share its end.

### Migrations

`Migrations.tla` is `db/migrate.ts`: `Start` (`main`), `ListPending` and
`ListLatest` (what to do, read once), `Begin`, `RunSql`, `Track`, `Commit`,
`Fail` (one transaction for each file) and `Finish`. Files are their rank by
name. Their SQL is `IF [NOT] EXISTS` throughout, so it fails on nothing and may
do nothing: that is `changes`, decided when it runs and effective at the commit.
`Track` waits for a transaction that wrote the same tracking row, and fails
(`Fail`) when it finds the row there. `applied_at` is `NOW()`, the beginning of
the transaction, which is not the order of the commits. An `up` beside a `down`
is left out (`Alone`): there the SQL can see the other's object while the row is
already gone, and `SchemaInStep` does not hold. No lock in the code forbids it;
two deploys that both migrate up are what does happen.

`Versions.tla` is the same without runs and transactions: the set of tracked
files grows and shrinks one file at a time, at its newer end, and only where the
file can be reverted. `OneByOne` is the refinement.

### Pool

`Pool.tla` is `pg-pool` as `src/db/pool.ts` sets it up: `Connect` lends a client
or queues the call, `Release` hands it to the next. Requests hold one client for
one query (`Call`, `Answer`); a sweep holds one for its advisory lock (`Tick`,
`TryLock`, `SweepEnds`) and waits for another with each of its queries
(`SweepQuery`, `SweepAnswer`). The assumption `Cardinality(Jobs) < MaxClients`
is the configuration: there are two jobs and `DB_POOL_MAX` is 10 by default. With
`DB_POOL_MAX` at 2 both sweeps can hold the pool and wait for ever.

## 3. Runs

| Run | Instance | Shows |
|---|---|---|
| `reconciler` | 1 process, 3 operations out of 3 kinds (memo id, muxed id by a denied payer, no payment), page of 2, 1 exit, 1 operator action, any initial blocklist; ~247 000 states | `TypeOK`, `NoSkippedPayment`, `NoUnscreenedPayment`, `EventuallyRecorded`, `LedgerSpec` |
| `channel` | 2 concurrent claim requests, 4 claims (one beyond the deposit, one with a wrong signature), challenge period of 3 sweeps, 1 call by a party, 1 disruption; ~117 000 states | `TypeOK`, `AcceptedIsStored`, `ClaimedIsSettled`, `DefendedBeforeClosed`, `AcceptedSettles`, `NettingSpec` |
| `treasury_sweep` | 2 replicas, cap 2, minimum 1, 4 units received, 1 midnight, 1 other transaction, 1 resume, 1 disruption; ~950 000 states | `TypeOK`, `WithinCap`, `BlastRadius`, `HaltStopsSweep`, `MinimumPreserved`, `EventuallySwept`, `PaidFromLog` |
| `referral` | 3 merchants of whom 1 exists, 2 sign-ups and 2 sweeps at a time, 1 reconciler, cap 1, 2 payments, 1 payment held or released or promo expired, 1 disruption; ~447 000 states | `TypeOK`, `NoReferralCycle`, `RewardsBounded`, `TrialRationed`, `EventuallyRewarded`, `ProgrammeKept` |
| `settlement` | 3 requests, 2 payloads of 2 payers of whom the contract refuses one, 1 block or unblock, 1 disruption; ~301 000 states | `TypeOK`, `ScreenedBeforeCharged`, `SequenceNeverClashes`, `ChargeIsOnRecord`, `RecordIsHonest`, `RequestEnds`, `ClearedOnce` |
| `platform` | one part at a time (`part`): 1 merchant, 2 payers of whom one scans, 1 listing, 2 links of which both are priced, 2 ids, 3 decisions and 1 lost row; 1 seller with 1 start and 2 polls, 1 guest with 2 starts; 3 files of which one has no down file, 3 runs; 3 requests, 3 sweeps of 2 jobs, 3 clients; ~142 000 states | `TypesOK`, `AuditTellsTruth`, `EffectiveAtOnce`, `PaidAsReserved`, `StartsOnce`, `SchemaInStep`, `SomebodyMoves`, `FinalStatusShown`, `OneByOne` |

The remaining runs are disagreements of the code with what it says of itself;
TLC finds the counterexample (`findings` in `PROJECT.json` quotes the lines):

| Run | Violated | What happens |
|---|---|---|
| `reconciler_reuse` | `EveryNewPaymentRecorded` | A second payment on a session id that already has a row violates the unique index; the process exits, restarts at the same cursor, and never gets past it. Every later payment waits behind it |
| `reconciler_two_shops` | `RestartSkipsNothing` | The cursor has one key for all merchants. With one process per merchant, a restart resumes from the other one's position |
| `channel_stuck` | `ClosingIsFinalized` | Only `closeChannel` writes `closing_at`. If its poll times out or the process dies first, the resync sets 'closing' without it and the keeper never finalizes |
| `channel_direct` | `PayeeIsSafe` | The chain is only read after something was due. A close by a party while nothing is due stays unknown; claims accepted from then on are not paid |
| `referral_overlap` | `RewardedOnce` | The second of two overlapping sweeps waits for the first one's row lock, then claims the row again: its UPDATE tests `id IN (...)` only. Both grant the reward |
| `settlement_resubmitted` | `ResubmissionIsNoOp` | Two requests settle one payload; the second one is refused by the ledger, is recorded first, and the row of a charged payload says 'failed' for good |

The passing runs leave out what their provisos name, and each proviso is
behaviour of the code. The configurations below do without one each, or state what
a document says and no run does. They are kept beside the runs, to be checked one at a time (`tlc -config MCChannelReopened.cfg
MCChannel`; the module is the first part of the name); TLC finds each property violated.

| Configuration | Violated | Said at | What happens |
|---|---|---|---|
| `MCReconcilerCashOut.cfg` | `OnlyReceipts` | README.md:79 | Horizon's account feed also holds what the merchant *sends*; a withdrawal with the anchor's memo id is recorded as received |
| `MCReconcilerRewind.cfg` | `RewindGoesBack` | admin-reconciler.service.ts:16 | A rewind reads the cursor, tests its target and writes, without looking again: what was validated against 'now' is written over a real position and moves it forward |
| `MCReconcilerErrorExit.cfg` | `DroppedOnlyByKill` | README.md:359-360 | Every `?` of the loop ends the process without joining its background checks; the documents lose checks to a kill only |
| `MCChannelCrossed.cfg` | `AcceptedIsStored` | channel.service.ts:121-122 | The compare-and-swap looks at the nonce, the amount was compared with an older read: of two racing claims the later nonce with the lower amount replaces an accepted higher one. Needs a payer that signs such claims |
| `MCChannelReopened.cfg` | `FinalizedThroughResyncs` | channel-keeper.service.ts:141 | A resync that read Open writes 'open' over the 'closing' that `closeChannel` wrote meanwhile; the row leaves the reach of the watchtower and of finalization until another checkpoint is due. Nothing has to fail |
| `MCChannelFinalizeFirst.cfg` | `NeverFinalizedUndefended` | channel-keeper.service.ts:101-102 | When sweeps were missed for the challenge period, the next one finalizes before it defends: its finalize query comes before its watchtower query |
| `MCTreasurySweepHalt.cfg` | `HaltStopsSigning` | facilitator-spend-guard.service.ts:29-31 | The halt is said to stop all signing; only the sweep asks the guard |
| `MCTreasurySweepLostLock.cfg` | `CeilingHolds` | facilitator-spend-guard.service.ts:7, 70 | The session with the advisory lock is lost, its sweep goes on through other connections, a second one passes the guard beside it, and the day is over the cap |
| `MCTreasurySweepOverlap.cfg` | `MinimumAlwaysPreserved` | facilitator-sweep.service.ts:79-80 | A replica dies after sending, another one reads the balance before that transfer lands and sends the same excess again; both land |
| `MCReferralDropped.cfg` | `GrantedIsRewarded` | db/migrations/015_referral_promos.up.sql:13-14 | A sweep fails between its claim and its grants; nothing looks at the referral again |
| `MCPlatformAudit.cfg` | `EveryMutationLogged` | README.md:170 | The decision and its audit row are two statements without a transaction; the second one fails |
| `MCPlatformSuspended.cfg` | `SuspendedTakeNothing` | README.md:158 | A payment offered before the suspension is made, and recorded, after it |

Three harms remain outside both tables, because no document says otherwise: a
charge without a row after a failed INSERT (`lost` of `Settlement`), a
transaction given up that lands later (`abandoned`), a block that falls after a
request's look-up. Two processes for one account and several reconcilers beside
each other are met by theorems only (`NoPaymentSkipped`, `ImplementsLedger`,
`TrialsAreRationed`).

Bounds and why they suffice. *Reconciler*: three operations make two pages of
two, a page with an operation after and before the one being processed, a
replay, and a position between; one exit at each point of the loop meets one
operator action at each other point. With two operator actions
(520 000 states from an empty blocklist) the same properties hold. *Channel*: three valid positions in the order of claims (none, first,
second), two requests for the compare-and-swap, one disruption against a
challenge period of three sweeps, so that one lost sweep still leaves one that
defends. Challenge 4 with two disruptions, and challenge 3 with two, hold the
same invariants; `MCChannelReopened.cfg` and `MCChannelFinalizeFirst.cfg` scale the period down to two
sweeps, so that one disruption lasts it. *Treasury sweep*: an excess can
be below, at and above the cap within a day and across the midnight; two
replicas meet at the lock; one disruption separates any two steps, one resume
and one foreign transaction come between any two of them. *Referral*: one
founder and two others make a chain of two referrals and both ways to race for
one address; two payments reach the cap and pass it; two sweeps overlap. The
behaviour ends when its bounds are spent, so deadlock is not checked there.
*Settlement*: three requests make one that is served, one that waits and one
behind it, and two that share a payload; one disruption leaves one transaction
to land late between any two steps of the others. It ends when all requests
have, so deadlock is not checked either. *Platform*: the
parts share no variable but those of `BackOffice` and `Checkout`, so running
them together would multiply states and add no behaviour. `Office` runs the
decisions and their log alone, where three of them conflict, repeat and undo each
other; `MerchantSide` runs log-in, guard and links beside suspensions;
`PayerSide` runs two checkouts beside two decisions, with the links and the
administrator's session already there and the log left alone. Two payers and two ids collide in every way; two polls of one row
cross; three runs race for three files, die between them, and one reverts what
is left; two ticks of one job overlap. `Depth`, `MaxDecisions`, `MaxLosses`,
`MaxStarts` and `MaxSteps` end the behaviours of some parts, so deadlock is not
checked. The proofs below have none of these bounds.

## 4. Fairness

Reconciler: weak fairness of each process's `Progress` and `Check`. A process
that ended is started again: `README.md:82` and `:394`, `reconciler/Dockerfile:32-34`
(restart-always). A background check ends within its HTTP timeouts. Exits
(`Fail`, `Drain`), operations and operators are not fair; exits are bounded by
`MaxExits`, so "eventually" means "if exits stop". There is no fairness for
rewinds.

Channel: the keeper (`@Cron('*/2 * * * *')`, its own steps), a started open or
close, the claim UPDATE, and `Land` / `PollEnds`: a transaction that is polled
for is included or gives up within 15 tries of one second. Late landings,
crashes and failures are not fair. The clock of `row.age` moves with sweeps.

Treasury sweep: the cron, a replica's own steps (its calls have timeouts, its
polls 15 attempts), inclusion of a transfer that is polled for, and `Expire` of
one that is not. Income, midnights, resumes and disruptions are not fair.
`EventuallySwept` therefore says that no disruption leaves the lock held or a
sweep stuck. An excess above the cap ends in a halt, and again after each
resume: the code never sweeps a part of it.

Referral: the reward sweep only (`@Cron('*/5 * * * *')`, its statements).
Sign-ups, payments and everything else may stop anywhere.

Settlement: a request's own steps (8 s for each try of the contract, a poll
that gives up) and `Land` of a transaction that is polled for. Arrivals,
late landings, blocks and disruptions are not fair.

Platform: only the administrators' list is fair. `TenSeconds` passes, and by strong
fairness of `Poll`, `PollAnswered` and `PollWritten` the list is opened again and
again and not every poll fails; administrators do that, not the code, so
`FinalStatusShown` says what the list comes to when it is looked at. Nothing is
fair for the anchor and the customers. The pool's fairness is that of the
library, which lends in order: that nobody starves follows from it and from
`SomebodyMoves`, and is argued here, not checked.

## 5. Proofs

| Theorem | States | Assumes |
|---|---|---|
| `ReconcilerProofs!TypeCorrect` | `Spec => []TypeOK` | - |
| `ReconcilerProofs!NoPaymentSkipped` | `Spec => []NoSkippedPayment` | `OneAccount` |
| `ReconcilerProofs!NoPayerUnscreened` | `Spec => []NoUnscreenedPayment` | - |
| `LedgerProofs!ImplementsLedger` | `Spec => LedgerSpec` | `OneAccount` |
| `ChannelProofs!ChannelTypeCorrect` | `Spec => []TypeOK` | - |
| `ChannelProofs!NeverAheadOfChain` | `Spec => []ClaimedIsSettled` | - |
| `ChannelProofs!NoAcceptedClaimLost` | `Spec => []AcceptedIsStored` | `Monotone` |
| `ChannelProofs!CloseIsDefended` | `Spec => []DefendedBeforeClosed` | `Monotone` |
| `NettingProofs!ImplementsNetting` | `Spec => NettingSpec` | `Monotone` |
| `TreasurySweepProofs!SweepTypeCorrect` | `Spec => []TypeOK` | - |
| `TreasurySweepProofs!DailyCapHolds` | `Spec => []WithinCap` | - |
| `TreasurySweepProofs!HaltHolds` | `Spec => HaltStopsSweep` | - |
| `TreasurySweepProofs!BlastRadiusBounded` | `Spec => []BlastRadius` | - |
| `TreasurySweepProofs!MinimumStays` | `Spec => MinimumPreserved` | - |
| `TreasurySweepProofs!SpendingImplementsAllowance` | `Spec => PaidFromLog` | - |
| `ReferralProofs!ReferralTypeCorrect` | `Spec => []TypeOK` | - |
| `ReferralProofs!ReferralsAreOrdered` | `Spec => []NoReferralCycle` | - |
| `ReferralProofs!RewardsAreEarned` | `Spec => []RewardAfterActivation` | - |
| `ReferralProofs!RewardsAreBounded` | `Spec => []RewardsBounded` | - |
| `ReferralProofs!TrialsAreRationed` | `Spec => []TrialRationed` | - |
| `ReferralProofs!ReferralImplementsProgramme` | `Spec => ProgrammeKept` | - |
| `SettlementProofs!SettlementTypeCorrect` | `Spec => []TypeOK` | - |
| `SettlementProofs!ScreenedFirst` | `Spec => []ScreenedBeforeCharged` | - |
| `SettlementProofs!SubmissionsDoNotClash` | `Spec => []SequenceNeverClashes` | - |
| `SettlementProofs!ChargesOnRecord` | `Spec => []ChargeIsOnRecord` | - |
| `SettlementProofs!RecordsAreHonest` | `Spec => []RecordIsHonest` | - |
| `SettlementProofs!PayloadsClear` | `Spec => ClearedOnce` | - |
| `PlatformProofs!AuditCorrect` | `CheckoutSpec => []AuditTellsTruth` | - |
| `PlatformProofs!EffectiveAtOnceCorrect` | `CheckoutSpec => []EffectiveAtOnce` | - |
| `PlatformProofs!PaidAsReservedCorrect` | `CheckoutSpec => []PaidAsReserved` | - |
| `PlatformProofs!StartsOnceCorrect` | `CashoutSpec => []StartsOnce` | - |
| `PlatformProofs!SchemaInStepCorrect` | `MigrationsSpec => []SchemaInStep` | - |
| `PlatformProofs!NoGapsCorrect` | `MigrationsSpec => []NoGaps` | - |
| `PlatformProofs!SomebodyMovesCorrect` | `PoolSpec => []SomebodyMoves` | - |
| `PlatformProofs!OneByOneCorrect` | `MigrationsSpec => OneByOne` | - |
| `PlatformProofs!TypesTogether` | `Spec => []TypesOK`, for `MCPlatform!Spec` | - |
| `PlatformProofs!PromisesTogether` | `Spec =>` the seven invariants above, for `MCPlatform!Spec` | - |

They hold for every set of processes, operations, requests, claims, merchants, files,
runs and replicas, every page size, cap, minimum, deposit, challenge period and bound, from the `ASSUME`s on
constants that TLC evaluates in the runs, and from

- `OneAccount`: all processes watch one account, the deployment the code is
  written for, with several processes during a redeploy. Without it
  `reconciler_two_shops` is the counterexample.
- `Monotone`: the payer signs higher amounts under higher nonces. Without it
  `MCChannelCrossed.cfg` is the counterexample.

*Nothing skipped.* `NoSkippedPayment` is not inductive: a process moves past a
token because everything below it in its page is done, and a new operation
must not appear below a reached position. `SkipInv` adds that positions
lie on the chain or were chosen (`Within`), that what is left of a page is
everything of the account between the local cursor and its last token
(`PageInOrder`; from a lemma on pages of bounded cardinality), and that a
cursor is stored only once the row is there (`SavedHasRow`). A rewind that was
validated and is written late is covered by `RewindsInv`: what was validated from
a real position stays covered, because payments keep their rows and new
operations come above it; what was validated off `"now"` was a choice.
`BookInv` adds that a page holds operations of the account, and
that the one being inserted has a session; each step then maps to
`Confirm`, `Book`, `Acknowledge`, `Choose` or a stutter.

*Nobody unscreened.* A check leaves `checks` only by `MarkHeld`, into `waived`,
or with its process, which waives it unless the exit joined it first.

*Channel.* `TypeOK` needs `CappedRequests` (a request past its checks holds a
signed claim within the deposit) and `StoredIsSigned`. `ClaimedIsSettled`
needs that the info a resync read is still below the chain when it is written:
the contract's amount only grows (`ChainGrows`). `AcceptedIsStored` follows
from the compare-and-swap on nonces and `Monotone`. The refinement needs
`KnownClaims`: every claim in the row, in the keeper's hands, in flight or
orphaned has been accepted, so whatever the contract takes, however late, is
an accepted claim.

*Defence of a close.* `DefendedBeforeClosed` is not inductive: it has to count
sweeps. `SweepInv` says that every period since the close was written has had a
disruption, but for the one whose sweep is still on its way to its watchtower
query (`InSweep`), or that everything accepted is settled. A sweep that gets past
that query undisturbed has settled the stored claim, or has been refused because
as much is settled already (`RefusedIsSettled`). `CloseInv` says that from the
first period on no request can add a claim, and that the close is written once;
`Finalizing` that a finalization under way, however late it lands, was begun
after the last period. Steps that a party takes without the API and a resync
that reopens the row end the argument (`OnlyApi`), as the property says.

*Treasury sweep.* `WithinCap` is not inductive: the check and the insert are
apart. `GuardInv` adds, as long as no session lost its lock, that a replica
past the lock holds it (`HoldsLock`), and that what the check established
still holds when it is used (`Passed`: the sum still leaves room before the
insert, and nobody halted before the transfer is sent). A midnight or a resume
only makes `Passed` easier; every other write of either row is by the holder.
For `BlastRadius`, `SpareInv`: the transfers that can still land share one
sequence number, so one of them will at most, and what has moved plus that one
is within what is logged; what is about to be sent is logged on top. For
`MinimumPreserved`, `LeaveInv`: a sweep that read the balance with nothing in
flight keeps amount plus minimum within it until its transfer is sent, and that
transfer until it lands.

*Paid from the log.* A transfer that was given up may land beside the next one,
so "once for each row" is a question of who may still pay which row. `RowsInv`
gives each unpaid row at most one bearer from its INSERT on: the replica that
prepares, sends or polls for it, or one orphan (`RowDue`, `Apart`, and the same
among orphans). Sending, timing out and dying hand the row on; only landing ends
it. It does not mention the lock. A replica's transfer is of its own row
(`OwnRow`), because nothing but `Record` writes `entry` and nobody records while
a transfer of its own is pending. That rows are added within the cap and not
under a halt is `GuardInv` again.

*Referral.* `OrderInv` gives each account a rank no other one exceeds
(`OldestFirst`) and says what a request under way may rely on: the code it
looked up belongs to an older account (`KnownCode`). `RewardInv` counts rewards
together with the sweeps that may still write one (`OneEach`), which works
because a referral nobody claimed has none and a claimed one is selected by no
further sweep (`ClaimedFirst`). `TrialInv` counts payments priced and not
yet inserted (`Pending`, at most one for each reconciler) and that volume given
free is paid, held or was held (`Counted`). `ProgrammeInv`: an address has one
request that has inserted it and not its referral, while it has no referrer
(`OneRequest`, from the unique address and `OrderInv`); whatever has a payment,
or is being priced, is an account (`HaveAccounts`); what a sweep holds was
referred (`SeenAreReferred`), and stays so. With `RewardInv` and `EnrollRank`
each step is `Join`, `Refer`, `Activate`, `RewardFor` or a stutter.

*Settlement.* Types already need the queue: its head may only be taken off
because whoever is served is in it, at its head (`InQueue`), hence served alone
(`OneServed`). `ScreenInv` says what a request has passed when it waits, is
served, or has left its transaction behind. `NumberInv` says that while
nothing was given up the one that is served holds the account's next number.
`FiledInv` extends `ChargeIsOnRecord` to transactions nobody polls any more,
which may still charge. `HonestInv`: every row is some request's outcome, every
charge some request's answer, and nobody's outcome contradicts its answer; a row
that denies a charge therefore belongs to another request than the charge does.
`KindInv` says of which kind it is: only who was to settle has failed, and who
was held never had a sequence number.
For `ClearedOnce`, `ScreenInv` says that what lands was vouched for and
`HonestInv` that a row of 'settled' follows its charge; that a payload is not
charged again, and that its row stays, are the guards of the ledger and of
`ON CONFLICT DO NOTHING`, mapped to `Charge` and `File`.

*Audit, bars, reservations.* `Counts` is inductive with the types; `Grounded`
needs that nothing comes into force but by a decision and that `made` never
decreases. `LateWhere` says how far a request that arrived under a bar can have
got: a merchant's not past the guard, a payer's not past the test that knows the
reason (`loaded` only under a block), and `LateBarred` that the reasons in `late`
still hold, so that test refuses it. `ReservedOnce` makes the session of an id
unique, hence the link `Book` finds is the payer's own.

*Cash-outs.* `Started`: whatever is posted, opened or polled belongs to a start
its customer has made, so the next number is unused; `Sent` orders a customer's
places.

*Migrations.* The two invariants need each other and three more: every run under
way still has all it would need before the next file (`Ahead`: every untracked
file is on its list, ascending; `Behind`: every later tracked file comes earlier
on its list), two runs never commit one row (`Compatible`), and `applied_at`
rises with the files although it is the time a transaction began (`Ordered`:
an `up` begins a file only after the one before is tracked). For `OneByOne` one
more: the file a `down` works on can be reverted (`Revertible`); a commit is then
one step of `Versions`, and nothing else writes what is tracked.

*Side by side.* `MCPlatform!Spec` is one behaviour in which the modules' steps
interleave. `PlatformInv` is the conjunction of their inductive invariants; a
step of one module leaves the others' variables alone, so it is inductive for
the whole, from the lemmas above. It gives all types and all seven promises at
once, for whichever parts run.

*Pool.* `Lending`: nobody waits while a client is free, nobody holds and waits with one
ticket. `Sweeping`: one run of a job holds its lock, and a client with it. Stuck runs therefore map
one-to-one into `Jobs`, of which there are fewer than clients.

Only model-checked: all liveness (`EventuallyRecorded`, `AcceptedSettles`,
`ClosingIsFinalized`, `EventuallySwept`, `EventuallyRewarded`, `RequestEnds`,
`FinalStatusShown`), which the prover cannot do under fairness. Every invariant
and every action property or refinement of a passing run is a theorem. Two theorems
state what no run checks by itself: `NoGaps` and `RewardAfterActivation` follow from
`OneByOne` and `ProgrammeKept`, which the runs check and their mutants break.

## 6. Plan

Order of modules; `EXTENDS` only within a component, so each can be proved about:

1. `Ledger`, `Reconciler`, `MCReconciler`, `ReconcilerProofs`, `LedgerProofs`: done.
2. `Netting`, `Channel`, `MCChannel`, `ChannelProofs`, `NettingProofs`: done.
3. `Allowance`, `TreasurySweep`, `MCTreasurySweep`, `TreasurySweepProofs`: done.
4. `Clearing`, `Settlement`, `MCSettlement`, `SettlementProofs`: done.
5. `Programme`, `Referral`, `MCReferral`, `ReferralProofs`: done.
6. `BackOffice`, `Checkout`, `Cashout`, `Versions`, `Migrations`, `Pool`, `MCPlatform`,
   `PlatformProofs`: done.

Worth adding next: an abstract specification of the queue (one submission in
flight) that `Settlement` implements, of which `Channel`'s `Unlocked` is a view;
the pool under the whole api; `Checkout` on the rows of `Reconciler`, whose look-up
of a link it repeats.

## 7. Not modelled

- Code that only reads: dashboards, lists, exchange rates, the public link page,
  payment statuses and `hasPendingSession`, referral statistics. A wrong answer
  there is one query's, and no interleaving makes it worse.
- The KMS signer (DER and signature encodings over a remote call), logging,
  metrics, bootstrap, the wire format of requests: no state of their own.
- The backup and restore scripts: shell around `pg_dump`, started by hand.
- The reconciler's `seed-merchant`: one upsert.
- The claim encoding of the channel: the contract's rejection of a wrong
  signature stands for it.
- Starvation in the pool, and an `up` beside a `down` (see `Pool`, `Migrations`).

`MarkHeld` over an administrator's decision, and a block that commits between
the reconciler's read and its insert, are modelled but no document says which
side should win, so no property is stated.
