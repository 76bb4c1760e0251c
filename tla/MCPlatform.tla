------------------------------ MODULE MCPlatform ------------------------------
(***************************************************************************)
(* The parts of the platform around the payment core, for TLC.  They share *)
(* no state but the checkout and the back office, which are one module: a  *)
(* behaviour therefore takes one part and leaves the others at rest, and   *)
(* the parts' state spaces add up instead of multiplying.                  *)
(***************************************************************************)
EXTENDS Checkout, Cashout, Migrations, Pool

CONSTANTS
    m1, p1, p2, l1, l2, seller, guest, q1, q2,
    Parts,  \* the parts to run
    Depth   \* bound: decisions while payers are at the checkout

VARIABLE part

MCMerchants == {m1}
MCPayers == {p1, p2}
MCScanners == {p2}
MCLinks == {l1, l2}
MCOwner == [l \in MCLinks |-> m1]
MCSellers == {seller}
MCGuests == {guest}
MCMaxStarts == [c \in {seller, guest} |-> IF c = seller THEN 1 ELSE 2]
MCPollers == {q1, q2}
MCJob == [s \in {"keeper 1", "keeper 2", "facilitator"} |->
             IF s = "facilitator" THEN "sweep" ELSE "keeper"]

\* The checkout is run from the merchant's side and from the payers'.
ASSUME Parts \subseteq
    {"office", "merchant", "payers", "withdrawal", "deposit", "migrations", "pool"}

Init ==
    /\ part \in Parts
    /\ BackOfficeInit /\ CheckoutInit /\ CashoutInit /\ MigrationsInit /\ PoolInit
    /\ visit[p1].link = l1  \* the links are alike
    /\ part # "payers" => visit[p2] = visit[p1] /\ visit[p1].id = 1

\* What rests while the shop, the anchor's customers, ... go on.
BesideShop    == <<part, cashout, migrations, pool>>
BesideAnchor  == <<part, backOffice, checkout, migrations, pool>>

\* The payers' part starts with the links and the administrator's session that
\* other parts create, and leaves the logging of decisions to the back office's.
OpenShop ==
    /\ part = "payers" /\ links # Links
    /\ links' = Links /\ adminCookie' = TRUE
    /\ UNCHANGED <<BesideShop, tables, books, cookie, request, desk, visit, late>>

Office ==
    /\ part = "office"
    /\ BackOfficeNext
    /\ UNCHANGED <<BesideShop, checkout>>

MerchantSide ==
    /\ part = "merchant"
    /\ CheckoutNext
    /\ UNCHANGED <<BesideShop, listing, blocked, trail, lost, desk, visit>>

PayerSide ==
    /\ part = "payers" /\ links = Links
    /\ CheckoutNext
    /\ decisions' <= Depth
    /\ UNCHANGED <<BesideShop, listing, adminCookie, trail, lost, shop>>

Withdrawal ==
    /\ part = "withdrawal"
    /\ CashoutNext
    /\ UNCHANGED <<BesideAnchor, page[guest]>>

Deposit ==
    /\ part = "deposit"
    /\ CashoutNext
    /\ UNCHANGED <<BesideAnchor, page[seller]>>

Migrate ==
    /\ part = "migrations"
    /\ MigrationsNext
    /\ UNCHANGED <<part, backOffice, checkout, cashout, pool>>

Lend ==
    /\ part = "pool"
    /\ PoolNext
    /\ UNCHANGED <<part, backOffice, checkout, cashout, migrations>>

Next ==
    \/ OpenShop \/ Office \/ MerchantSide \/ PayerSide
    \/ Withdrawal \/ Deposit \/ Migrate \/ Lend

vars == <<part, backOffice, checkout, cashout, migrations, pool>>

Spec == Init /\ [][Next]_vars /\ CashoutFairness

-----------------------------------------------------------------------------
\* The parts' types: every table, request and process has the values the code
\* gives it.
TypesOK ==
    /\ BackOfficeTypeOK /\ CheckoutTypeOK /\ CashoutTypeOK
    /\ MigrationsTypeOK /\ PoolTypeOK
=============================================================================
