------------------------------- MODULE Checkout -------------------------------
(***************************************************************************)
(* From a merchant's log-in to a recorded payment: src/auth (login, guard),*)
(* src/links, src/sessions and src/payments, next to administrators who    *)
(* suspend merchants and block payers meanwhile (BackOffice).              *)
(*                                                                         *)
(* Every request is split where it awaits: what was read before may have   *)
(* changed by the time it is used.  Passwords, validation and the wire     *)
(* format are left out.  No code deactivates a link or gives it an expiry  *)
(* date, so `active` and `expires_at` bar nobody.                          *)
(***************************************************************************)
EXTENDS BackOffice

CONSTANTS
    Links, Ids,   \* links; muxed ids, which payers draw at random
    Owner,        \* the merchant that creates a link
    Priced,       \* links with an amount
    Scanners      \* payers that scan the QR code: their address is unknown

ASSUME CheckoutAssumption ==
    /\ Owner \in [Links -> Merchants]
    /\ Merchants \cap Payers = {}
    /\ Priced \subseteq Links /\ Scanners \subseteq Payers

VARIABLES
    cookie,    \* merchants with a session cookie that verifies
    request,   \* where each merchant's own request is
    links,     \* links that exist
    reserved,  \* link_sessions
    visit,     \* each payer's checkout page
    booked,    \* payments the reconciler recorded
    late       \* history: requests that arrived when barred, and why they still are

shop  == <<cookie, request, links>>
desk  == <<reserved, booked>>
checkout == <<shop, desk, visit, late>>

Session == [link : Links, id : Ids]
Clients == Merchants \cup Payers

CheckoutInit ==
    /\ cookie = {} /\ links = {}
    /\ request = [m \in Merchants |-> "none"]
    /\ reserved = {} /\ booked = {} /\ late = {}
    /\ visit \in [Payers -> [at : {"start"}, link : Links, id : Ids, holds : {FALSE}]]

Shop(p) == Owner[visit[p].link]
Goes(p, place) == visit' = [visit EXCEPT ![p].at = place]

\* What bars a client now, of the reasons its kind of request is tested for.
Bars(c) ==
    {"suspended" : x \in {c, IF c \in Payers THEN Shop(c) ELSE c} \cap suspended}
        \cup {"blocked" : x \in {c} \cap (blocked \ Scanners)}

Arrived(c)  == late' = late \cup {<<c, why>> : why \in Bars(c)}
Answered(c) == late' = {x \in late : x[1] # c}

-----------------------------------------------------------------------------
(* AuthService.login, AuthGuard, LinksController.create                        *)

\* The row is read, and its status tested, before and after bcrypt.compare.
LoginCheck(m) ==
    /\ request[m] = "none"
    /\ m \notin suspended
    /\ request' = [request EXCEPT ![m] = "login"]
    /\ UNCHANGED <<cookie, links, desk, visit, late>>

LoginDone(m) ==
    /\ request[m] = "login"
    /\ cookie' = cookie \cup {m}
    /\ request' = [request EXCEPT ![m] = "none"]
    /\ UNCHANGED <<links, desk, visit, late>>

\* Log-out, or the token's thirty days are over.
Logout(m) ==
    /\ request[m] = "none"
    /\ cookie' = cookie \ {m}
    /\ UNCHANGED <<request, links, desk, visit, late>>

\* verifyToken passes: the token itself knows nothing of a suspension.
MerchantArrives(m) ==
    /\ m \in cookie /\ request[m] = "none"
    /\ request' = [request EXCEPT ![m] = "arrived"]
    /\ Arrived(m)
    /\ UNCHANGED <<cookie, links, desk, visit>>

\* Broken variant of Guard: the token is enough.
GuardToken(m) ==
    /\ request[m] = "arrived"
    /\ request' = [request EXCEPT ![m] = "passed"]
    /\ UNCHANGED <<cookie, links, desk, visit, late>>

Guard(m) ==
    /\ request[m] = "arrived"
    /\ m \notin suspended
    /\ request' = [request EXCEPT ![m] = "passed"]
    /\ UNCHANGED <<cookie, links, desk, visit, late>>

\* A refusal, or the request fails.
MerchantRefused(m) ==
    /\ request[m] \in {"login", "arrived", "passed"}
    /\ request' = [request EXCEPT ![m] = "none"]
    /\ Answered(m)
    /\ UNCHANGED <<cookie, links, desk, visit>>

CreateLink(m, l) ==
    /\ request[m] = "passed"
    /\ Owner[l] = m /\ l \notin links
    /\ links' = links \cup {l}
    /\ request' = [request EXCEPT ![m] = "none"]
    /\ Answered(m)
    /\ UNCHANGED <<cookie, desk, visit>>

-----------------------------------------------------------------------------
(* SessionsService.reserve                                                    *)

Taken(m, i) == {s \in reserved : Owner[s.link] = m /\ s.id = i}

\* Broken variant of Reserve: the insert replaces what UNIQUE (merchant_id,
\* muxed_id) protects.
ReserveUpsert(p) ==
    LET s == [link |-> visit[p].link, id |-> visit[p].id] IN
    /\ visit[p].at = "start" /\ ~visit[p].holds
    /\ s.link \in links
    /\ reserved' = (reserved \ Taken(Shop(p), s.id)) \cup {s}
    /\ visit' = [visit EXCEPT ![p].holds = TRUE]
    /\ UNCHANGED <<shop, booked, late>>

\* The answer may get lost.  On a conflict the page draws another id.
Reserve(p) ==
    LET s == [link |-> visit[p].link, id |-> visit[p].id] IN
    /\ visit[p].at = "start" /\ ~visit[p].holds
    /\ s.link \in links
    /\ \/ /\ Taken(Shop(p), s.id) = {}
          /\ reserved' = reserved \cup {s}
          /\ \E told \in BOOLEAN : visit' = [visit EXCEPT ![p].holds = told]
       \/ /\ Taken(Shop(p), s.id) # {}
          /\ \E i \in Ids : visit' = [visit EXCEPT ![p].id = i]
          /\ UNCHANGED reserved
    /\ UNCHANGED <<shop, booked, late>>

-----------------------------------------------------------------------------
(* PaymentsService.prepareTx and buildPayUri                                  *)

PayerArrives(p) ==
    /\ visit[p].at = "start"
    /\ Goes(p, "arrived")
    /\ Arrived(p)
    /\ UNCHANGED <<shop, desk>>

\* Broken variant of LoadPayableLink: without the test of merchant_status.
LoadAnyLink(p) ==
    /\ visit[p].at = "arrived"
    /\ visit[p].link \in links \cap Priced
    /\ Goes(p, "loaded")
    /\ UNCHANGED <<shop, desk, late>>

LoadPayableLink(p) ==
    /\ visit[p].at = "arrived"
    /\ visit[p].link \in links \cap Priced
    /\ Shop(p) \notin suspended
    /\ Goes(p, "loaded")
    /\ UNCHANGED <<shop, desk, late>>

\* The QR code: there is no address to screen.
BuildPayUri(p) ==
    /\ visit[p].at = "loaded" /\ p \in Scanners
    /\ Goes(p, "offered")
    /\ UNCHANGED <<shop, desk, late>>

\* The local list; the contract's verdict, which may also be that it could not
\* be asked, is a refusal or not.
IsPayerAllowed(p) ==
    /\ visit[p].at = "loaded" /\ p \notin Scanners
    /\ p \notin blocked
    /\ Goes(p, "screened")
    /\ UNCHANGED <<shop, desk, late>>

\* The contract allowed the payer, Horizon knew its account.
BuildTx(p) ==
    /\ visit[p].at = "screened"
    /\ Goes(p, "offered")
    /\ UNCHANGED <<shop, desk, late>>

\* A test or a call fails, or the offer is not signed in its sixty seconds.
PayerRefused(p) ==
    /\ visit[p].at \in {"arrived", "loaded", "screened", "offered"}
    /\ Goes(p, "start")
    /\ Answered(p)
    /\ UNCHANGED <<shop, desk>>

\* The payment is on the ledger and the reconciler records it under the link
\* the session names, if there is one.  (A second payment on an id stops the
\* reconciler: see Reconciler.)
Book(p) ==
    /\ visit[p].at = "offered"
    /\ ~ \E b \in booked : b.shop = Shop(p) /\ b.id = visit[p].id
    /\ booked' = booked \cup
           {[payer |-> p, shop |-> Shop(p), id |-> visit[p].id,
             for |-> {s.link : s \in Taken(Shop(p), visit[p].id)}]}
    /\ Goes(p, "paid")
    /\ Answered(p)
    /\ UNCHANGED <<shop, reserved>>

-----------------------------------------------------------------------------
\* A decision that lifts a bar ends the lateness it caused.
Administer ==
    /\ BackOfficeNext
    /\ UNCHANGED <<shop, desk, visit>>
    /\ late' = {x \in late : x[2] \in Bars(x[1])'}

CheckoutNext ==
    \/ Administer
    \/ /\ \/ \E m \in Merchants :
                 \/ LoginCheck(m) \/ LoginDone(m) \/ Logout(m)
                 \/ MerchantArrives(m) \/ Guard(m) \/ MerchantRefused(m)
                 \/ \E l \in Links : CreateLink(m, l)
          \/ \E p \in Payers :
                 \/ Reserve(p) \/ PayerArrives(p) \/ LoadPayableLink(p)
                 \/ BuildPayUri(p) \/ IsPayerAllowed(p) \/ BuildTx(p)
                 \/ PayerRefused(p) \/ Book(p)
       /\ UNCHANGED backOffice

CheckoutSpec ==
    BackOfficeInit /\ CheckoutInit /\ [][CheckoutNext]_<<backOffice, checkout>>

-----------------------------------------------------------------------------
CheckoutTypeOK ==
    /\ cookie \subseteq Merchants /\ links \subseteq Links
    /\ request \in [Merchants -> {"none", "login", "arrived", "passed"}]
    /\ reserved \subseteq Session
    /\ visit \in [Payers -> [at : {"start", "arrived", "loaded", "screened", "offered", "paid"},
                             link : Links, id : Ids, holds : BOOLEAN]]
    /\ booked \subseteq [payer : Payers, shop : Merchants, id : Ids, for : SUBSET Links]
    /\ late \subseteq Clients \X {"suspended", "blocked"}

\* A suspension and a block take effect at once, for every request that arrives
\* after them, whatever the client obtained before: a merchant with a valid
\* cookie gets past no guard, a payer gets no transaction to sign, unless the
\* bar was lifted meanwhile (auth.guard.ts:22-31, payments.service.ts:48-65).
\* Requests that arrived before, and what they handed out, are not reached.
EffectiveAtOnce ==
    \A x \in late :
        IF x[1] \in Merchants THEN request[x[1]] # "passed"
        ELSE visit[x[1]].at # "offered"

\* A payer whose reservation was confirmed keeps it, and its payment is
\* recorded under the link it reserved, though others draw the same id, pay
\* with an id they did not reserve, or never learn that they reserved one
\* (sessions.service.ts:27-36, reconciler/src/store.rs:192-199).
PaidAsReserved ==
    \A p \in Payers : visit[p].holds =>
        /\ [link |-> visit[p].link, id |-> visit[p].id] \in reserved
        /\ \A b \in booked : b.payer = p => b.for = {visit[p].link}

\* "A suspended merchant's payment links stop accepting money too"
\* (README.md:158): no payment is recorded for a link whose merchant is suspended.
SuspendedTakeNothing ==
    [][\A p \in Payers : Book(p) => Shop(p) \notin suspended]_<<backOffice, checkout>>
=============================================================================
