------------------------------- MODULE Cashout -------------------------------
(***************************************************************************)
(* Cash-outs and deposits through the anchor (src/withdrawals,             *)
(* src/deposits) and the administrators' list of cash-outs, which polls    *)
(* the anchor (src/admin/admin-withdrawal-attempts.service.ts).            *)
(*                                                                         *)
(* A start is one request to start a transaction, named for its customer   *)
(* and its number.  The anchor opens one transaction for every POST that   *)
(* reaches it and that it does not refuse; POSTs and answers get lost, and *)
(* either may take longer than the service waits.  The anchor's statuses   *)
(* before a customer's transfer is due are one, "incomplete", and the rest *)
(* before the outcome is "pending".  AuthGuard, which stands before the    *)
(* withdrawals and not before the deposits, is in Checkout.                *)
(***************************************************************************)
EXTENDS Naturals

CONSTANTS
    Sellers, Guests,  \* customers: of withdrawals, of deposits
    MaxStarts,        \* bound: starts of each customer
    Outcomes,         \* the outcomes the anchor comes to
    Pollers           \* administrators' list requests open at once

TERMINAL_STATUSES == {"completed", "error", "expired", "refunded"}
Customers == Sellers \cup Guests

ASSUME CashoutAssumption ==
    /\ Sellers \cap Guests = {}
    /\ MaxStarts \in [Customers -> Nat]
    /\ Outcomes \subseteq TERMINAL_STATUSES

VARIABLES
    page,         \* where each customer is, and the number of its last start
    posted,       \* starts whose POST is on its way to the anchor
    opened,       \* how many transactions each start opened at the anchor
    anchor,       \* the status of each start's transaction there
    transferred,  \* starts whose payment to the anchor is on the ledger
    attempt,      \* withdrawal_attempts.last_status of each start; "none": no row
    recent,       \* rows polled less than ten seconds ago
    poll,         \* what each list request is doing about each row
    expired       \* starts whose session token is over

far     == <<posted, opened, anchor, expired>>
table   == <<attempt, recent, poll>>
cashout == <<page, far, transferred, table>>

Starts == UNION {{c} \X (1..MaxStarts[c]) : c \in Customers}
Rows == {s \in Starts : s[1] \in Sellers}
Status == {"incomplete", "pending"} \cup TERMINAL_STATUSES

StartOf(c) == <<c, page[c].n>>
TurnTo(c, place) == page' = [page EXCEPT ![c].at = place]

CashoutInit ==
    /\ page = [c \in Customers |-> [at |-> "idle", n |-> 0]]
    /\ posted = {} /\ opened = [s \in Starts |-> 0]
    /\ anchor = [s \in Starts |-> "none"]
    /\ expired = {} /\ transferred = {} /\ recent = {}
    /\ attempt = [s \in Rows |-> "none"]
    /\ poll = [q \in Pollers |-> [s \in Rows |-> "rest"]]

-----------------------------------------------------------------------------
(* WithdrawalsService and DepositsService: the session and the start           *)

GetChallenge(c) ==
    /\ page[c].at = "idle"
    /\ TurnTo(c, "challenged")
    /\ UNCHANGED <<far, transferred, table>>

\* Two attempts at most.  The second may find the challenge used and be refused,
\* though the first one's token is lost.
ExchangeToken(c) ==
    /\ page[c].at = "challenged"
    /\ \E given \in BOOLEAN : TurnTo(c, IF given THEN "trusted" ELSE "idle")
    /\ UNCHANGED <<far, transferred, table>>

\* Again with the same token, if the one before seemed to fail.
StartTransaction(c) ==
    /\ page[c].at = "trusted" /\ page[c].n < MaxStarts[c]
    /\ page' = [page EXCEPT ![c] = [at |-> "starting", n |-> @.n + 1]]
    /\ posted' = posted \cup {<<c, page[c].n + 1>>}
    /\ UNCHANGED <<opened, anchor, expired, transferred, table>>

AnchorOpens(s) ==
    /\ s \in posted
    /\ posted' = posted \ {s}
    /\ opened' = [opened EXCEPT ![s] = @ + 1]
    /\ anchor' = [anchor EXCEPT ![s] = "incomplete"]
    /\ UNCHANGED <<page, expired, transferred, table>>

\* It is lost on its way, or refused.
PostLost(s) ==
    /\ posted' = posted \ {s}
    /\ UNCHANGED <<page, opened, anchor, expired, transferred, table>>

\* Broken variant of StartFails: the POST goes through fetchWithRetry.
StartRetried(c) ==
    /\ page[c].at = "starting"
    /\ \/ posted' = posted \cup {StartOf(c)} /\ UNCHANGED page
       \/ TurnTo(c, "trusted") /\ UNCHANGED posted
    /\ UNCHANGED <<opened, anchor, expired, transferred, table>>

\* Ten seconds without an answer, a refusal, or the process dies.
StartFails(c) ==
    /\ page[c].at = "starting"
    /\ TurnTo(c, "trusted")
    /\ UNCHANGED <<far, transferred, table>>

\* A withdrawal is recorded before the customer hears of it, if it can be.
\* Either way its page may be told or not.
StartAnswered(c) ==
    /\ page[c].at = "starting" /\ opened[StartOf(c)] > 0
    /\ \E told \in BOOLEAN : TurnTo(c, IF told THEN "started" ELSE "trusted")
    /\ \/ UNCHANGED attempt
       \/ /\ c \in Sellers
          /\ attempt' = [attempt EXCEPT ![StartOf(c)] = "unknown"]
    /\ UNCHANGED <<far, transferred, recent, poll>>

-----------------------------------------------------------------------------
(* The transfer: prepareWithdrawalTx to the anchor, prepareTransferPayment on  *)
(* from the account the anchor paid                                            *)

\* The details are there when the anchor waits for the transfer, and the service
\* asks again however often it is asked.
PrepareWithdrawalTx(c) ==
    /\ c \in Sellers /\ page[c].at = "started"
    /\ anchor[StartOf(c)] = "pending" /\ StartOf(c) \notin expired
    /\ TurnTo(c, "offered")
    /\ UNCHANGED <<far, transferred, table>>

\* The anchor is not asked whether its deposit arrived.
PrepareTransferPayment(c) ==
    /\ c \in Guests /\ page[c].at = "started"
    /\ TurnTo(c, "offered")
    /\ UNCHANGED <<far, transferred, table>>

\* The customer signs within sixty seconds, or not.
Transfer(c) ==
    /\ page[c].at = "offered"
    /\ \/ transferred' = transferred \cup {StartOf(c)}
       \/ UNCHANGED transferred
    /\ TurnTo(c, "started")
    /\ UNCHANGED <<far, table>>

\* Towards the outcome; a withdrawal completes when the transfer arrived.
AnchorMoves(s) ==
    /\ \E to \in {"pending"} \cup Outcomes :
           /\ \/ anchor[s] = "incomplete" /\ to # "refunded"
              \/ anchor[s] = "pending" /\ to # "pending"
           /\ to = "completed" /\ s \in Rows => s \in transferred
           /\ anchor' = [anchor EXCEPT ![s] = to]
    /\ UNCHANGED <<page, posted, opened, expired, transferred, table>>

TokenExpires(s) ==
    /\ opened[s] > 0
    /\ expired' = expired \cup {s}
    /\ UNCHANGED <<page, posted, opened, anchor, transferred, table>>

-----------------------------------------------------------------------------
(* AdminWithdrawalAttemptsService.list: refreshIfStale of each row             *)

\* Broken variant of Poll: a customer who has to transfer is thought settled.
PollUnlessDue(q, s) ==
    /\ poll[q][s] = "rest"
    /\ attempt[s] \notin TERMINAL_STATUSES \cup {"none", "pending"}
    /\ s \notin recent
    /\ poll' = [poll EXCEPT ![q][s] = "asked"]
    /\ UNCHANGED <<page, far, transferred, attempt, recent>>

\* The row as the list read it is neither terminal nor freshly polled.
Poll(q, s) ==
    /\ poll[q][s] = "rest"
    /\ attempt[s] \notin TERMINAL_STATUSES \cup {"none"}
    /\ s \notin recent
    /\ poll' = [poll EXCEPT ![q][s] = "asked"]
    /\ UNCHANGED <<page, far, transferred, attempt, recent>>

\* getStatus: the status of this moment.
PollAnswered(q, s) ==
    /\ poll[q][s] = "asked" /\ s \notin expired
    /\ poll' = [poll EXCEPT ![q][s] = anchor[s]]
    /\ UNCHANGED <<page, far, transferred, attempt, recent>>

\* Broken variant of PollWritten: the answer is not awaited.
PollNotAwaited(q, s) ==
    /\ poll[q][s] # "rest"
    /\ attempt' = [attempt EXCEPT ![s] = poll[q][s]]
    /\ recent' = recent \cup {s}
    /\ poll' = [poll EXCEPT ![q][s] = "rest"]
    /\ UNCHANGED <<page, far, transferred>>

\* The UPDATE, whatever another request has written since.
PollWritten(q, s) ==
    /\ poll[q][s] \in Status
    /\ attempt' = [attempt EXCEPT ![s] = poll[q][s]]
    /\ recent' = recent \cup {s}
    /\ poll' = [poll EXCEPT ![q][s] = "rest"]
    /\ UNCHANGED <<page, far, transferred>>

\* The anchor, the database or the process: the row stays as it is.
PollFails(q, s) ==
    /\ poll[q][s] # "rest"
    /\ poll' = [poll EXCEPT ![q][s] = "rest"]
    /\ UNCHANGED <<page, far, transferred, attempt, recent>>

TenSeconds(s) ==
    /\ recent' = recent \ {s}
    /\ UNCHANGED <<page, far, transferred, attempt, poll>>

CashoutNext ==
    \/ \E c \in Customers :
           \/ GetChallenge(c) \/ ExchangeToken(c)
           \/ StartTransaction(c) \/ StartFails(c) \/ StartAnswered(c)
           \/ PrepareWithdrawalTx(c) \/ PrepareTransferPayment(c) \/ Transfer(c)
    \/ \E s \in Starts : AnchorMoves(s) \/ TokenExpires(s)
    \/ \E s \in posted : AnchorOpens(s) \/ PostLost(s)
    \/ \E s \in recent : TenSeconds(s)
    \/ \E q \in Pollers, s \in Rows :
           Poll(q, s) \/ PollAnswered(q, s) \/ PollWritten(q, s) \/ PollFails(q, s)

\* The list is opened again and again, and not every poll fails.
CashoutFairness ==
    \A s \in Rows :
        /\ WF_cashout(s \in recent /\ TenSeconds(s))
        /\ \A q \in Pollers :
               /\ SF_cashout(Poll(q, s)) /\ SF_cashout(PollAnswered(q, s))
               /\ SF_cashout(PollWritten(q, s))

CashoutSpec == CashoutInit /\ [][CashoutNext]_cashout /\ CashoutFairness

-----------------------------------------------------------------------------
CashoutTypeOK ==
    /\ page \in [Customers -> [at : {"idle", "challenged", "trusted", "starting",
                                     "started", "offered"}, n : Nat]]
    /\ posted \subseteq Starts /\ opened \in [Starts -> Nat]
    /\ anchor \in [Starts -> Status \cup {"none"}]
    /\ expired \subseteq Starts /\ transferred \subseteq Starts /\ recent \subseteq Rows
    /\ attempt \in [Rows -> Status \cup {"none", "unknown"}]
    /\ poll \in [Pollers -> [Rows -> Status \cup {"rest", "asked"}]]

\* A request to start opens at most one transaction at the anchor, though it may
\* open one without anybody hearing of it, and whatever the list shows belongs to
\* a transaction that exists (withdrawals.service.ts:69-88,
\* withdrawals.controller.ts:43-59, deposits.service.ts:56-67).
StartsOnce ==
    /\ \A s \in Starts : opened[s] <= 1
    /\ \A s \in Rows : attempt[s] # "none" => opened[s] = 1
    /\ \A s \in posted : opened[s] = 0

\* The outcome of a recorded cash-out comes to be shown and stays, although a
\* slow request may write an older status over a newer one, unless the session
\* token expires first (admin-withdrawal-attempts.service.ts:31-57).
FinalStatusShown ==
    \A s \in Rows :
        [](anchor[s] \in TERMINAL_STATUSES /\ attempt[s] # "none" =>
               <>[](attempt[s] = anchor[s] \/ s \in expired))
=============================================================================
