---------------------------- MODULE PlatformProofs ----------------------------
(***************************************************************************)
(* Proofs about the parts around the payment core: the back office and the *)
(* checkout, cash-outs, migrations and the database pool.                  *)
(***************************************************************************)
EXTENDS MCPlatform, TLAPS, FiniteSetTheorems, SequenceTheorems

-----------------------------------------------------------------------------
(* The back office                                                            *)

LEMMA OfficeTypeInit == BackOfficeInit => BackOfficeTypeOK
<1>1. BackOfficeInit => adminCookie \in BOOLEAN
  BY DEF BackOfficeInit
<1>2. BackOfficeInit =>
          /\ inHand \in [Decision -> Nat] /\ trail \in [Decision -> Nat]
          /\ made \in [Decision -> Nat] /\ lost \in [Decision -> Nat]
  BY DEF BackOfficeInit
<1>3. BackOfficeInit =>
          /\ suspended \subseteq Merchants /\ blocked \subseteq Payers
          /\ listing \in [Listings -> {"none", "pending", "approved", "rejected"}]
          /\ decisions \in Nat /\ losses \in Nat
  BY DEF BackOfficeInit
<1> QED BY <1>1, <1>2, <1>3 DEF BackOfficeTypeOK

LEMMA HoldType ==
    ASSUME BackOfficeTypeOK, NEW d \in Decision, Hold(d)
    PROVE  /\ adminCookie' \in BOOLEAN /\ decisions' \in Nat /\ losses' \in Nat
           /\ inHand' \in [Decision -> Nat] /\ trail' \in [Decision -> Nat]
           /\ lost' \in [Decision -> Nat]
BY DEF Hold, BackOfficeTypeOK

LEMMA DecideType ==
    ASSUME BackOfficeTypeOK, NEW d \in Decision, Decide(d)
    PROVE  /\ adminCookie' \in BOOLEAN /\ decisions' \in Nat /\ losses' \in Nat
           /\ inHand' \in [Decision -> Nat] /\ trail' \in [Decision -> Nat]
           /\ lost' \in [Decision -> Nat] /\ made' \in [Decision -> Nat]
<1>1. Hold(d) /\ made' \in [Decision -> Nat]
  BY DEF Decide, BackOfficeTypeOK
<1> QED BY <1>1, HoldType

\* The decisions an action takes are decisions.
LEMMA Decisions ==
    /\ \A m \in Merchants : /\ [what |-> "suspend", on |-> m] \in Decision
                            /\ [what |-> "reactivate", on |-> m] \in Decision
                            /\ [what |-> "set-tier", on |-> m] \in Decision
    /\ \A p \in Payers : /\ [what |-> "block", on |-> p] \in Decision
                         /\ [what |-> "unblock", on |-> p] \in Decision
    /\ \A l \in Listings : /\ [what |-> "approved", on |-> l] \in Decision
                           /\ [what |-> "rejected", on |-> l] \in Decision
BY DEF Decision

LEMMA OfficeTypeNext ==
    ASSUME BackOfficeTypeOK, BackOfficeNext
    PROVE  BackOfficeTypeOK'
<1>1. CASE AdminLogin
  BY <1>1 DEF AdminLogin, BackOfficeTypeOK, tables, books
<1>2. CASE AdminSessionEnds
  BY <1>2 DEF AdminSessionEnds, BackOfficeTypeOK, tables, books
<1>3. ASSUME NEW m \in Merchants, SetMerchantStatus(m) PROVE BackOfficeTypeOK'
  BY <1>3, Decisions, DecideType DEF SetMerchantStatus, BackOfficeTypeOK
<1>4. ASSUME NEW m \in Merchants, SetMerchantTier(m) PROVE BackOfficeTypeOK'
  BY <1>4, Decisions, DecideType DEF SetMerchantTier, BackOfficeTypeOK, tables
<1>5. ASSUME NEW p \in Payers, BlockAddress(p) PROVE BackOfficeTypeOK'
  BY <1>5, Decisions, DecideType DEF BlockAddress, BackOfficeTypeOK
<1>6. ASSUME NEW p \in Payers, UnblockAddress(p) PROVE BackOfficeTypeOK'
  BY <1>6, Decisions, DecideType DEF UnblockAddress, BackOfficeTypeOK
<1>7. ASSUME NEW l \in Listings, SetBazaarListingStatus(l) PROVE BackOfficeTypeOK'
  BY <1>7, Decisions, DecideType DEF SetBazaarListingStatus, BackOfficeTypeOK
<1>8. ASSUME NEW l \in Listings, SubmitListing(l) PROVE BackOfficeTypeOK'
  BY <1>8 DEF SubmitListing, BackOfficeTypeOK, books
<1>9. ASSUME NEW d \in Decision, LogDecision(d) \/ LogLost(d) PROVE BackOfficeTypeOK'
  BY <1>9 DEF LogDecision, LogLost, BackOfficeTypeOK, tables
<1> QED
  BY <1>1, <1>2, <1>3, <1>4, <1>5, <1>6, <1>7, <1>8, <1>9 DEF BackOfficeNext

\* The two halves of AuditTellsTruth.
Counts == \A d \in Decision : trail[d] + inHand[d] + lost[d] = made[d]
Grounded == \A d \in InForce : made[d] > 0

LEMMA InForceDecided ==
    ASSUME BackOfficeTypeOK PROVE InForce \subseteq Decision
BY DEF InForce, Manifest, Decision, BackOfficeTypeOK

\* Nothing is undone, and what comes into force was decided.
LEMMA StaysGrounded ==
    ASSUME BackOfficeTypeOK, BackOfficeTypeOK', Grounded,
           \A e \in Decision : made'[e] >= made[e],
           \A d \in InForce' : d \in InForce \/ made'[d] > 0
    PROVE  Grounded'
<1>1. SUFFICES ASSUME NEW d \in InForce' PROVE made'[d] > 0
  BY DEF Grounded
<1>2. CASE d \in InForce
  <2>1. d \in Decision
    BY <1>2, InForceDecided
  <2>2. made[d] > 0 /\ made'[d] >= made[d]
    BY <1>2, <2>1 DEF Grounded
  <2>3. made[d] \in Nat /\ made'[d] \in Nat
    BY <2>1 DEF BackOfficeTypeOK
  <2> QED BY <2>2, <2>3
<1> QED BY <1>1, <1>2

LEMMA AuditInit == BackOfficeInit => Counts /\ Grounded
<1> SUFFICES ASSUME BackOfficeInit PROVE Counts /\ Grounded
  OBVIOUS
<1>1. Counts
  BY DEF BackOfficeInit, Counts
<1>2. Grounded
  BY DEF BackOfficeInit, Grounded, InForce, Manifest
<1> QED BY <1>1, <1>2

LEMMA DecideCounts ==
    ASSUME BackOfficeTypeOK, Counts, NEW d \in Decision, Decide(d)
    PROVE  Counts' /\ made'[d] > 0 /\ \A e \in Decision : made'[e] >= made[e]
BY DEF BackOfficeTypeOK, Counts, Decide, Hold

LEMMA AuditNext ==
    ASSUME BackOfficeTypeOK, Counts, Grounded, BackOfficeNext
    PROVE  Counts' /\ Grounded'
<1> DEFINE D(what, on) == [what |-> what, on |-> on]
<1>0. BackOfficeTypeOK'
  BY OfficeTypeNext
<1>1. CASE AdminLogin \/ AdminSessionEnds
  BY <1>1 DEF AdminLogin, AdminSessionEnds, tables, books, Counts, Grounded, InForce, Manifest
<1>2. ASSUME NEW m \in Merchants, SetMerchantStatus(m) PROVE Counts' /\ Grounded'
  <2>1. CASE Decide(D("suspend", m)) /\ suspended' = suspended \cup {m}
    <3>1. Counts' /\ made'[D("suspend", m)] > 0 /\ \A e \in Decision : made'[e] >= made[e]
      BY <2>1, Decisions, DecideCounts
    <3>2. \A d \in InForce' : d \in InForce \/ d = D("suspend", m)
      BY <1>2, <2>1 DEF SetMerchantStatus, InForce, Manifest
    <3> QED BY <1>0, <3>1, <3>2, StaysGrounded
  <2>2. CASE Decide(D("reactivate", m)) /\ suspended' = suspended \ {m}
    <3>1. Counts' /\ \A e \in Decision : made'[e] >= made[e]
      BY <2>2, Decisions, DecideCounts
    <3>2. \A d \in InForce' : d \in InForce
      BY <1>2, <2>2 DEF SetMerchantStatus, InForce, Manifest
    <3> QED BY <1>0, <3>1, <3>2, StaysGrounded
  <2> QED BY <1>2, <2>1, <2>2 DEF SetMerchantStatus
<1>3. ASSUME NEW m \in Merchants, SetMerchantTier(m) PROVE Counts' /\ Grounded'
  <2>1. Decide(D("set-tier", m)) /\ UNCHANGED tables
    BY <1>3 DEF SetMerchantTier
  <2>2. Counts' /\ \A e \in Decision : made'[e] >= made[e]
    BY <2>1, Decisions, DecideCounts
  <2>3. InForce' = InForce
    BY <2>1 DEF tables, InForce, Manifest
  <2> QED BY <1>0, <2>2, <2>3, StaysGrounded
<1>4. ASSUME NEW p \in Payers, BlockAddress(p) PROVE Counts' /\ Grounded'
  <2>1. Decide(D("block", p)) /\ blocked' = blocked \cup {p} /\ UNCHANGED <<suspended, listing>>
    BY <1>4 DEF BlockAddress
  <2>2. Counts' /\ made'[D("block", p)] > 0 /\ \A e \in Decision : made'[e] >= made[e]
    BY <2>1, Decisions, DecideCounts
  <2>3. \A d \in InForce' : d \in InForce \/ d = D("block", p)
    BY <2>1 DEF InForce, Manifest
  <2> QED BY <1>0, <2>2, <2>3, StaysGrounded
<1>5. ASSUME NEW p \in Payers, UnblockAddress(p) PROVE Counts' /\ Grounded'
  <2>1. Decide(D("unblock", p)) /\ blocked' = blocked \ {p} /\ UNCHANGED <<suspended, listing>>
    BY <1>5 DEF UnblockAddress
  <2>2. Counts' /\ \A e \in Decision : made'[e] >= made[e]
    BY <2>1, Decisions, DecideCounts
  <2>3. \A d \in InForce' : d \in InForce
    BY <2>1 DEF InForce, Manifest
  <2> QED BY <1>0, <2>2, <2>3, StaysGrounded
<1>6. ASSUME NEW l \in Listings, SetBazaarListingStatus(l) PROVE Counts' /\ Grounded'
  <2>1. PICK verdict \in {"approved", "rejected"} :
            /\ Decide(D(verdict, l))
            /\ listing' = [listing EXCEPT ![l] = verdict]
    BY <1>6 DEF SetBazaarListingStatus
  <2>2. UNCHANGED <<suspended, blocked>>
    BY <1>6 DEF SetBazaarListingStatus
  <2>3. D(verdict, l) \in Decision
    BY Decisions
  <2>4. Counts' /\ made'[D(verdict, l)] > 0 /\ \A e \in Decision : made'[e] >= made[e]
    BY <2>1, <2>3, DecideCounts
  <2>5. \A d \in InForce' : d \in InForce \/ d = D(verdict, l)
    BY <2>1, <2>2 DEF InForce, Manifest, BackOfficeTypeOK
  <2> QED BY <1>0, <2>4, <2>5, StaysGrounded
<1>7. ASSUME NEW l \in Listings, SubmitListing(l) PROVE Counts' /\ Grounded'
  BY <1>7 DEF SubmitListing, books, BackOfficeTypeOK, Counts, Grounded, InForce, Manifest
<1>8. ASSUME NEW d \in Decision, LogDecision(d) \/ LogLost(d) PROVE Counts' /\ Grounded'
  BY <1>8 DEF LogDecision, LogLost, tables, BackOfficeTypeOK, Counts, Grounded, InForce, Manifest
<1> QED
  BY <1>1, <1>2, <1>3, <1>4, <1>5, <1>6, <1>7, <1>8 DEF BackOfficeNext

-----------------------------------------------------------------------------
(* The checkout: what is late is barred still, and where                       *)

LateBarred == \A x \in late : x[2] \in Bars(x[1])

LateWhere ==
    \A x \in late :
        IF x[1] \in Merchants THEN request[x[1]] # "passed"
        ELSE visit[x[1]].at = "arrived" \/ (visit[x[1]].at = "loaded" /\ x[2] = "blocked")

LEMMA BarsMeans ==
    ASSUME BackOfficeTypeOK, CheckoutTypeOK
    PROVE  /\ \A m \in Merchants :
                  Bars(m) = IF m \in suspended THEN {"suspended"} ELSE {}
           /\ \A p \in Payers :
                  /\ Shop(p) \in Merchants
                  /\ Bars(p) \subseteq {"suspended", "blocked"}
                  /\ "suspended" \in Bars(p) <=> Shop(p) \in suspended
                  /\ "blocked" \in Bars(p) <=> p \in blocked \ Scanners
BY CheckoutAssumption DEF Bars, Shop, BackOfficeTypeOK, CheckoutTypeOK

LEMMA CheckoutTypeInit == CheckoutInit => CheckoutTypeOK
BY DEF CheckoutInit, CheckoutTypeOK, Session

\* Requests of merchants and payers, one by one.
LEMMA CheckoutTypeNext ==
    ASSUME BackOfficeTypeOK, CheckoutTypeOK, CheckoutNext
    PROVE  CheckoutTypeOK'
<1> USE DEF CheckoutTypeOK
<1>1. CASE Administer
  BY <1>1 DEF Administer, shop, desk
<1>2. ASSUME NEW m \in Merchants, LoginCheck(m) \/ LoginDone(m) \/ Logout(m) \/ Guard(m)
      PROVE CheckoutTypeOK'
  BY <1>2 DEF LoginCheck, LoginDone, Logout, Guard, desk
<1>3. ASSUME NEW m \in Merchants, MerchantArrives(m) PROVE CheckoutTypeOK'
  <2>1. late' \subseteq Clients \X {"suspended", "blocked"}
    BY <1>3, BarsMeans DEF MerchantArrives, Arrived, Clients
  <2> QED BY <1>3, <2>1 DEF MerchantArrives, desk
<1>4. ASSUME NEW m \in Merchants, MerchantRefused(m) PROVE CheckoutTypeOK'
  BY <1>4 DEF MerchantRefused, Answered, desk
<1>5. ASSUME NEW m \in Merchants, NEW l \in Links, CreateLink(m, l) PROVE CheckoutTypeOK'
  BY <1>5 DEF CreateLink, Answered, desk
<1>6. ASSUME NEW p \in Payers, Reserve(p) PROVE CheckoutTypeOK'
  BY <1>6 DEF Reserve, Session, shop
<1>7. ASSUME NEW p \in Payers, PayerArrives(p) PROVE CheckoutTypeOK'
  <2>1. late' \subseteq Clients \X {"suspended", "blocked"}
    BY <1>7, BarsMeans DEF PayerArrives, Arrived, Clients
  <2> QED BY <1>7, <2>1 DEF PayerArrives, Goes, shop, desk
<1>8. ASSUME NEW p \in Payers, LoadPayableLink(p) \/ BuildPayUri(p) \/ IsPayerAllowed(p) \/ BuildTx(p)
      PROVE CheckoutTypeOK'
  BY <1>8 DEF LoadPayableLink, BuildPayUri, IsPayerAllowed, BuildTx, Goes, shop, desk
<1>9. ASSUME NEW p \in Payers, PayerRefused(p) PROVE CheckoutTypeOK'
  BY <1>9 DEF PayerRefused, Goes, Answered, shop, desk
<1>10. ASSUME NEW p \in Payers, Book(p) PROVE CheckoutTypeOK'
  <2>1. Shop(p) \in Merchants /\ visit[p].id \in Ids
    BY CheckoutAssumption DEF Shop
  <2>2. {s.link : s \in Taken(Shop(p), visit[p].id)} \in SUBSET Links
    BY DEF Taken, Session
  <2>3. booked' \subseteq [payer : Payers, shop : Merchants, id : Ids, for : SUBSET Links]
    BY <1>10, <2>1, <2>2 DEF Book
  <2> QED BY <1>10, <2>3 DEF Book, Goes, Answered, shop
<1> QED
  BY <1>1, <1>2, <1>3, <1>4, <1>5, <1>6, <1>7, <1>8, <1>9, <1>10 DEF CheckoutNext

LEMMA OfficeOrRest ==
    ASSUME BackOfficeTypeOK, CheckoutNext
    PROVE  BackOfficeTypeOK'
<1>1. CASE Administer
  BY <1>1, OfficeTypeNext DEF Administer
<1>2. CASE UNCHANGED backOffice
  BY <1>2 DEF backOffice, tables, books, BackOfficeTypeOK
<1> QED BY <1>1, <1>2 DEF CheckoutNext

\* A request that arrives late is barred; a decision keeps late only what still
\* is; nobody's bars change otherwise.
LEMMA LateBarredNext ==
    ASSUME BackOfficeTypeOK, CheckoutTypeOK, LateBarred, CheckoutNext
    PROVE  LateBarred'
<1>1. CASE Administer
  BY <1>1 DEF Administer, LateBarred
<1>2. ASSUME UNCHANGED backOffice, \A p \in Payers : visit'[p].link = visit[p].link
      PROVE  \A c : Bars(c)' = Bars(c)
  BY <1>2 DEF Bars, Shop, backOffice, tables
<1>3. ASSUME UNCHANGED backOffice, \A p \in Payers : visit'[p].link = visit[p].link,
             late' \subseteq late
      PROVE  LateBarred'
  BY <1>2, <1>3 DEF LateBarred
<1>4. ASSUME NEW c, UNCHANGED backOffice, \A p \in Payers : visit'[p].link = visit[p].link,
             Arrived(c)
      PROVE  LateBarred'
  BY <1>2, <1>4 DEF LateBarred, Arrived
<1>5. ASSUME NEW m \in Merchants, UNCHANGED backOffice,
             \/ LoginCheck(m) \/ LoginDone(m) \/ Logout(m)
             \/ Guard(m) \/ MerchantRefused(m)
             \/ \E l \in Links : CreateLink(m, l)
      PROVE  LateBarred'
  <2>1. UNCHANGED visit /\ late' \subseteq late
    BY <1>5 DEF LoginCheck, LoginDone, Logout, Guard, MerchantRefused, CreateLink, Answered
  <2> QED BY <1>3, <1>5, <2>1
<1>6. ASSUME NEW m \in Merchants, UNCHANGED backOffice, MerchantArrives(m) PROVE LateBarred'
  BY <1>4, <1>6 DEF MerchantArrives
<1>7. ASSUME NEW p \in Payers, UNCHANGED backOffice, PayerArrives(p) PROVE LateBarred'
  BY <1>4, <1>7 DEF PayerArrives, Goes, CheckoutTypeOK
<1>8. ASSUME NEW p \in Payers, UNCHANGED backOffice,
             \/ Reserve(p) \/ LoadPayableLink(p) \/ BuildPayUri(p) \/ IsPayerAllowed(p)
             \/ BuildTx(p) \/ PayerRefused(p) \/ Book(p)
      PROVE  LateBarred'
  <2>1. late' \subseteq late
    BY <1>8 DEF Reserve, LoadPayableLink, BuildPayUri, IsPayerAllowed, BuildTx, PayerRefused, Book, Answered
  <2>2. \A q \in Payers : visit'[q].link = visit[q].link
    BY <1>8 DEF Reserve, LoadPayableLink, BuildPayUri, IsPayerAllowed, BuildTx, PayerRefused, Book, Goes,
                CheckoutTypeOK
  <2> QED BY <1>3, <1>8, <2>1, <2>2
<1> QED BY <1>1, <1>5, <1>6, <1>7, <1>8 DEF CheckoutNext

LEMMA LateWhereNext ==
    ASSUME BackOfficeTypeOK, CheckoutTypeOK, LateBarred, LateWhere, CheckoutNext
    PROVE  LateWhere'
<1>0. \A x \in late : x[1] \in Clients /\ x = <<x[1], x[2]>>
  BY DEF CheckoutTypeOK
<1>1. CASE Administer
  BY <1>1 DEF Administer, LateWhere, shop, desk
<1>2. ASSUME NEW m \in Merchants,
             LoginCheck(m) \/ LoginDone(m) \/ Logout(m)
      PROVE  LateWhere'
  BY <1>0, <1>2 DEF LoginCheck, LoginDone, Logout, desk, LateWhere, CheckoutTypeOK
<1>3. ASSUME NEW m \in Merchants, MerchantArrives(m) PROVE LateWhere'
  BY <1>0, <1>3 DEF MerchantArrives, Arrived, desk, LateWhere, CheckoutTypeOK
<1>4. ASSUME NEW m \in Merchants, Guard(m) PROVE LateWhere'
  <2>1. \A x \in late : x[1] # m
    BY <1>4, BarsMeans DEF Guard, LateBarred
  <2> QED BY <1>0, <1>4, <2>1 DEF Guard, desk, LateWhere, CheckoutTypeOK
<1>5. ASSUME NEW m \in Merchants, MerchantRefused(m) \/ \E l \in Links : CreateLink(m, l)
      PROVE  LateWhere'
  BY <1>0, <1>5 DEF MerchantRefused, CreateLink, Answered, desk, LateWhere, CheckoutTypeOK
<1>6. ASSUME NEW p \in Payers, Reserve(p) PROVE LateWhere'
  <2>1. UNCHANGED <<late, request>> /\ \A q \in Payers : visit'[q].at = visit[q].at
    BY <1>6 DEF Reserve, shop, CheckoutTypeOK
  <2> QED BY <1>0, <2>1 DEF LateWhere, Clients
<1>7. ASSUME NEW p \in Payers, PayerArrives(p) PROVE LateWhere'
  <2>1. p \notin Merchants
    BY CheckoutAssumption
  <2> QED BY <1>0, <1>7, <2>1 DEF PayerArrives, Goes, Arrived, shop, desk, LateWhere, CheckoutTypeOK
<1>8. ASSUME NEW p \in Payers, LoadPayableLink(p) PROVE LateWhere'
  <2>1. \A x \in late : x[1] = p => x[2] = "blocked" /\ p \notin Scanners
    BY <1>8, BarsMeans DEF LoadPayableLink, LateBarred
  <2> QED BY <1>0, <1>8, <2>1 DEF LoadPayableLink, Goes, shop, desk, LateWhere, CheckoutTypeOK
<1>9. ASSUME NEW p \in Payers, IsPayerAllowed(p) PROVE LateWhere'
  <2>1. p \notin Merchants
    BY CheckoutAssumption
  <2>2. \A x \in late : x[1] # p
    BY <1>9, <2>1, BarsMeans DEF IsPayerAllowed, LateBarred, LateWhere
  <2> QED BY <1>0, <1>9, <2>2 DEF IsPayerAllowed, Goes, shop, desk, LateWhere, CheckoutTypeOK
<1>10. ASSUME NEW p \in Payers, BuildTx(p) PROVE LateWhere'
  <2>1. p \notin Merchants
    BY CheckoutAssumption
  <2>2. \A x \in late : x[1] # p
    BY <1>10, <2>1 DEF BuildTx, LateWhere
  <2> QED BY <1>0, <1>10, <2>2 DEF BuildTx, Goes, shop, desk, LateWhere, CheckoutTypeOK
<1>11. ASSUME NEW p \in Payers, PayerRefused(p) \/ Book(p) PROVE LateWhere'
  <2>1. UNCHANGED request /\ late' = {x \in late : x[1] # p}
    BY <1>11 DEF PayerRefused, Book, Answered, shop
  <2>2. \A q \in Payers \ {p} : visit'[q] = visit[q]
    BY <1>11 DEF PayerRefused, Book, Goes, CheckoutTypeOK
  <2> QED BY <1>0, <2>1, <2>2 DEF LateWhere, Clients
<1>12. ASSUME NEW p \in Payers, BuildPayUri(p) PROVE LateWhere'
  <2>1. p \notin Merchants
    BY CheckoutAssumption
  <2>2. \A x \in late : x[1] # p
    BY <1>12, <2>1, BarsMeans DEF BuildPayUri, LateBarred, LateWhere
  <2> QED BY <1>0, <1>12, <2>2 DEF BuildPayUri, Goes, shop, desk, LateWhere, CheckoutTypeOK
<1> QED
  BY <1>1, <1>2, <1>3, <1>4, <1>5, <1>6, <1>7, <1>8, <1>9, <1>10, <1>11, <1>12 DEF CheckoutNext

-----------------------------------------------------------------------------
(* The checkout: reservations                                                  *)

Mine(p) == [link |-> visit[p].link, id |-> visit[p].id]

\* UNIQUE (merchant_id, muxed_id).
ReservedOnce ==
    \A s, t \in reserved : Owner[s.link] = Owner[t.link] /\ s.id = t.id => s = t

HeldIsReserved == \A p \in Payers : visit[p].holds => Mine(p) \in reserved

BookedIsOver ==
    \A p \in Payers : \A b \in booked : b.payer = p =>
        visit[p].at = "paid" /\ (visit[p].holds => b.for = {visit[p].link})

Reservations == ReservedOnce /\ HeldIsReserved /\ BookedIsOver

LEMMA ReservationsMean == CheckoutTypeOK /\ Reservations => PaidAsReserved
BY DEF Reservations, HeldIsReserved, BookedIsOver, Mine, PaidAsReserved

LEMMA ReservationsNext ==
    ASSUME CheckoutTypeOK, Reservations, CheckoutNext
    PROVE  Reservations'
<1> USE DEF Reservations
<1>1. CASE UNCHANGED <<reserved, booked, visit>>
  BY <1>1 DEF ReservedOnce, HeldIsReserved, BookedIsOver, Mine
<1>2. ASSUME NEW p \in Payers, Reserve(p) PROVE Reservations'
  <2> DEFINE s == Mine(p)
  <2>0. visit[p].at = "start" /\ ~visit[p].holds /\ UNCHANGED booked /\ s \in Session
        /\ Shop(p) = Owner[s.link]
    BY <1>2 DEF Reserve, Mine, Session, Shop, CheckoutTypeOK
  <2>1. CASE /\ Taken(Shop(p), s.id) = {}
             /\ reserved' = reserved \cup {s}
             /\ \E told \in BOOLEAN : visit' = [visit EXCEPT ![p].holds = told]
    <3>1. \A t \in reserved : ~ (Owner[t.link] = Owner[s.link] /\ t.id = s.id)
      BY <2>0, <2>1 DEF Taken
    <3>2. ReservedOnce'
      BY <2>1, <3>1 DEF ReservedOnce
    <3>3. HeldIsReserved'
      BY <2>1 DEF HeldIsReserved, Mine, CheckoutTypeOK
    <3>4. BookedIsOver'
      BY <2>0, <2>1 DEF BookedIsOver, CheckoutTypeOK
    <3> QED BY <3>2, <3>3, <3>4
  <2>2. CASE /\ UNCHANGED reserved
             /\ \E i \in Ids : visit' = [visit EXCEPT ![p].id = i]
    BY <2>0, <2>2 DEF ReservedOnce, HeldIsReserved, BookedIsOver, Mine, CheckoutTypeOK
  <2> QED BY <1>2, <2>1, <2>2 DEF Reserve, Mine
<1>3. ASSUME NEW p \in Payers, NEW place, UNCHANGED <<reserved, booked>>,
             visit[p].at # "paid", Goes(p, place)
      PROVE  Reservations'
  BY <1>3 DEF Goes, ReservedOnce, HeldIsReserved, BookedIsOver, Mine, CheckoutTypeOK
<1>4. ASSUME NEW p \in Payers, Book(p) PROVE Reservations'
  <2> DEFINE b == [payer |-> p, shop |-> Shop(p), id |-> visit[p].id,
                   for |-> {s.link : s \in Taken(Shop(p), visit[p].id)}]
  <2>1. /\ visit[p].at = "offered" /\ booked' = booked \cup {b}
        /\ visit' = [visit EXCEPT ![p].at = "paid"] /\ UNCHANGED reserved
    BY <1>4 DEF Book, Goes
  <2>2. visit[p].holds => b.for = {visit[p].link}
    <3>1. SUFFICES ASSUME visit[p].holds PROVE b.for = {visit[p].link}
      OBVIOUS
    <3>2. Mine(p) \in Taken(Shop(p), visit[p].id)
      BY <3>1 DEF HeldIsReserved, Mine, Taken, Shop
    <3>3. \A t \in Taken(Shop(p), visit[p].id) : t = Mine(p)
      BY <3>2 DEF Taken, ReservedOnce
    <3>4. {s.link : s \in Taken(Shop(p), visit[p].id)} = {Mine(p).link}
      BY <3>2, <3>3
    <3> QED BY <3>4 DEF Mine
  <2>3. ReservedOnce' /\ HeldIsReserved'
    BY <2>1 DEF ReservedOnce, HeldIsReserved, Mine, CheckoutTypeOK
  <2>4. BookedIsOver'
    <3>1. \A c \in booked : c.payer # p
      BY <2>1 DEF BookedIsOver
    <3>2. \A q \in Payers \ {p} : visit'[q] = visit[q]
      BY <2>1 DEF CheckoutTypeOK
    <3>3. visit'[p].at = "paid" /\ visit'[p].holds = visit[p].holds /\ visit'[p].link = visit[p].link
      BY <2>1 DEF CheckoutTypeOK
    <3>4. b.payer = p
      OBVIOUS
    <3> HIDE DEF b
    <3>5. \A q \in Payers : \A c \in booked' : c.payer = q =>
              visit'[q].at = "paid" /\ (visit'[q].holds => c.for = {visit'[q].link})
      BY <2>1, <2>2, <3>1, <3>2, <3>3, <3>4 DEF BookedIsOver
    <3> QED BY <3>5 DEF BookedIsOver
  <2> QED BY <2>3, <2>4
<1>5. ASSUME NEW p \in Payers,
             \/ PayerArrives(p) \/ LoadPayableLink(p) \/ BuildPayUri(p) \/ IsPayerAllowed(p)
             \/ BuildTx(p) \/ PayerRefused(p)
      PROVE  Reservations'
  <2>1. UNCHANGED <<reserved, booked>> /\ visit[p].at # "paid" /\ \E place : Goes(p, place)
    BY <1>5 DEF PayerArrives, LoadPayableLink, BuildPayUri, IsPayerAllowed, BuildTx, PayerRefused, desk
  <2> QED BY <1>3, <2>1
<1>6. CASE Administer
  BY <1>1, <1>6 DEF Administer, desk
<1>7. ASSUME NEW m \in Merchants,
             \/ LoginCheck(m) \/ LoginDone(m) \/ Logout(m)
             \/ MerchantArrives(m) \/ Guard(m) \/ MerchantRefused(m)
             \/ \E l \in Links : CreateLink(m, l)
      PROVE  Reservations'
  BY <1>1, <1>7 DEF LoginCheck, LoginDone, Logout, MerchantArrives, Guard, MerchantRefused,
                    CreateLink, desk
<1> QED BY <1>2, <1>4, <1>5, <1>6, <1>7 DEF CheckoutNext

-----------------------------------------------------------------------------
(* The checkout: its inductive invariant                                       *)

CheckoutInv ==
    /\ BackOfficeTypeOK /\ CheckoutTypeOK
    /\ Counts /\ Grounded
    /\ LateBarred /\ LateWhere
    /\ Reservations

LEMMA CheckoutInvInit == BackOfficeInit /\ CheckoutInit => CheckoutInv
<1> SUFFICES ASSUME BackOfficeInit, CheckoutInit PROVE CheckoutInv
  OBVIOUS
<1>1. LateBarred /\ LateWhere
  BY DEF CheckoutInit, LateBarred, LateWhere
<1>2. Reservations
  BY DEF CheckoutInit, Reservations, ReservedOnce, HeldIsReserved, BookedIsOver
<1> QED BY <1>1, <1>2, OfficeTypeInit, CheckoutTypeInit, AuditInit DEF CheckoutInv

LEMMA CheckoutInvNext ==
    CheckoutInv /\ [CheckoutNext]_<<backOffice, checkout>> => CheckoutInv'
<1> SUFFICES ASSUME CheckoutInv, [CheckoutNext]_<<backOffice, checkout>> PROVE CheckoutInv'
  OBVIOUS
<1> USE DEF CheckoutInv
<1>1. CASE CheckoutNext
  <2>1. Counts' /\ Grounded'
    <3>1. CASE Administer
      BY <3>1, AuditNext DEF Administer
    <3>2. CASE UNCHANGED backOffice
      BY <3>2 DEF backOffice, tables, books, Counts, Grounded, InForce, Manifest
    <3> QED BY <1>1, <3>1, <3>2 DEF CheckoutNext
  <2> QED
    BY <1>1, <2>1, OfficeOrRest, CheckoutTypeNext, LateBarredNext, LateWhereNext, ReservationsNext
<1>2. CASE UNCHANGED <<backOffice, checkout>>
  <2>1. BackOfficeTypeOK' /\ Counts' /\ Grounded'
    BY <1>2 DEF backOffice, tables, books, BackOfficeTypeOK, Counts, Grounded, InForce, Manifest
  <2>2. CheckoutTypeOK'
    BY <1>2 DEF checkout, shop, desk, CheckoutTypeOK
  <2>3. LateBarred' /\ LateWhere'
    BY <1>2 DEF backOffice, tables, checkout, shop, desk, LateBarred, LateWhere, Bars, Shop
  <2>4. Reservations'
    BY <1>2 DEF checkout, desk, Reservations, ReservedOnce, HeldIsReserved, BookedIsOver, Mine
  <2> QED BY <2>1, <2>2, <2>3, <2>4
<1> QED BY <1>1, <1>2

LEMMA CheckoutInvariant == CheckoutSpec => []CheckoutInv
BY CheckoutInvInit, CheckoutInvNext, PTL DEF CheckoutSpec

\* The audit trail counts every decision (src/admin).
THEOREM AuditCorrect == CheckoutSpec => []AuditTellsTruth
<1>1. CheckoutInv => AuditTellsTruth
  BY DEF CheckoutInv, Counts, Grounded, AuditTellsTruth
<1> QED BY <1>1, CheckoutInvariant, PTL

\* No request that arrives after a suspension or a block gets through, for any
\* merchants, payers and links (src/auth/auth.guard.ts, src/payments).
THEOREM EffectiveAtOnceCorrect == CheckoutSpec => []EffectiveAtOnce
<1>1. CheckoutInv => EffectiveAtOnce
  BY DEF CheckoutInv, LateWhere, EffectiveAtOnce
<1> QED BY <1>1, CheckoutInvariant, PTL

\* A confirmed reservation is the payer's own (src/sessions).
THEOREM PaidAsReservedCorrect == CheckoutSpec => []PaidAsReserved
<1>1. CheckoutInv => PaidAsReserved
  BY ReservationsMean DEF CheckoutInv
<1> QED BY <1>1, CheckoutInvariant, PTL

-----------------------------------------------------------------------------
(* Cash-outs                                                                   *)

\* A transaction belongs to a start that was sent, a row and a poll to a
\* transaction.
Started ==
    /\ \A s \in posted : s[2] <= page[s[1]].n
    /\ \A s \in Starts : opened[s] > 0 => s[2] <= page[s[1]].n /\ anchor[s] # "none"
    /\ \A q \in Pollers, s \in Rows : poll[q][s] # "rest" => attempt[s] # "none"

\* A customer who got beyond its session has sent a start.
Sent == \A c \in Customers :
    /\ page[c].n <= MaxStarts[c]
    /\ page[c].at \in {"starting", "started", "offered"} => page[c].n > 0

CashoutInv == CashoutTypeOK /\ Sent /\ StartsOnce /\ Started

LEMMA StartsAre ==
    /\ \A s \in Starts : /\ s = <<s[1], s[2]>> /\ s[1] \in Customers
                         /\ s[2] \in 1..MaxStarts[s[1]] /\ s[2] \in Nat
    /\ \A c \in Customers, n \in Nat : n < MaxStarts[c] => <<c, n + 1>> \in Starts
    /\ Rows \subseteq Starts
<1>1. \A c \in Customers : MaxStarts[c] \in Nat
  BY CashoutAssumption
<1>2. \A s \in Starts : \E c \in Customers : \E n \in 1..MaxStarts[c] : s = <<c, n>>
  BY DEF Starts
<1>3. \A c \in Customers : \A n \in 1..MaxStarts[c] : <<c, n>> \in Starts
  BY DEF Starts
<1> QED BY <1>1, <1>2, <1>3 DEF Rows

LEMMA CashoutInvInit == CashoutInit => CashoutInv
<1> SUFFICES ASSUME CashoutInit PROVE CashoutInv
  OBVIOUS
<1> USE DEF CashoutInit
<1>1. CashoutTypeOK
  BY DEF CashoutTypeOK, Status
<1>2. StartsOnce
  BY StartsAre DEF StartsOnce
<1>3. Started
  BY DEF Started
<1>4. Sent
  <2>1. \A c \in Customers : MaxStarts[c] \in Nat
    BY CashoutAssumption
  <2> QED BY <2>1 DEF Sent
<1> QED BY <1>1, <1>2, <1>3, <1>4 DEF CashoutInv

LEMMA SentNext ==
    ASSUME CashoutTypeOK, Sent, [CashoutNext]_cashout
    PROVE  Sent'
<1>0. \A c \in Customers : MaxStarts[c] \in Nat /\ page[c].n \in Nat
  BY CashoutAssumption DEF CashoutTypeOK
<1>1. CASE UNCHANGED page
  BY <1>1 DEF Sent
<1>2. ASSUME NEW c \in Customers, NEW place, TurnTo(c, place),
             page[c].n > 0 \/ place \in {"idle", "challenged", "trusted"}
      PROVE  Sent'
  <2>1. \A d \in Customers : page'[d].n = page[d].n
    BY <1>2 DEF TurnTo, CashoutTypeOK
  <2>2. \A d \in Customers : page'[d].at = IF d = c THEN place ELSE page[d].at
    BY <1>2 DEF TurnTo, CashoutTypeOK
  <2> QED BY <1>2, <2>1, <2>2 DEF Sent
<1>3. ASSUME NEW c \in Customers, StartTransaction(c) PROVE Sent'
  <2>1. /\ page'[c].n = page[c].n + 1 /\ page[c].n < MaxStarts[c]
        /\ \A d \in Customers \ {c} : page'[d] = page[d]
    BY <1>3 DEF StartTransaction, CashoutTypeOK
  <2> QED BY <1>0, <2>1 DEF Sent
<1>4. ASSUME NEW c \in Customers, GetChallenge(c) \/ ExchangeToken(c) \/ StartFails(c)
      PROVE  Sent'
  BY <1>2, <1>4 DEF GetChallenge, ExchangeToken, StartFails
<1>5. ASSUME NEW c \in Customers,
             \/ StartAnswered(c) \/ Transfer(c)
             \/ PrepareWithdrawalTx(c) \/ PrepareTransferPayment(c)
      PROVE  Sent'
  <2>1. page[c].n > 0 /\ \E place : TurnTo(c, place)
    BY <1>5 DEF StartAnswered, PrepareWithdrawalTx, PrepareTransferPayment, Transfer, Sent
  <2> QED BY <1>2, <2>1
<1>6. ASSUME NEW s,
             \/ AnchorMoves(s) \/ TokenExpires(s) \/ AnchorOpens(s) \/ PostLost(s) \/ TenSeconds(s)
             \/ \E q \in Pollers :
                    Poll(q, s) \/ PollAnswered(q, s) \/ PollWritten(q, s) \/ PollFails(q, s)
      PROVE  Sent'
  BY <1>1, <1>6 DEF AnchorMoves, TokenExpires, AnchorOpens, PostLost, TenSeconds,
                    Poll, PollAnswered, PollWritten, PollFails
<1> QED BY <1>1, <1>3, <1>4, <1>5, <1>6 DEF CashoutNext, cashout

\* The customer's page alone.
LEMMA PageMoves ==
    ASSUME CashoutInv, NEW c \in Customers, NEW place,
           place \in {"idle", "challenged", "trusted", "starting", "started", "offered"},
           TurnTo(c, place), UNCHANGED far
    PROVE  /\ page' \in [Customers -> [at : {"idle", "challenged", "trusted", "starting",
                                             "started", "offered"}, n : Nat]]
           /\ \A d \in Customers : page'[d].n = page[d].n
BY DEF CashoutInv, CashoutTypeOK, TurnTo

LEMMA SamePages ==
    ASSUME CashoutInv,
           page' \in [Customers -> [at : {"idle", "challenged", "trusted", "starting",
                                         "started", "offered"}, n : Nat]],
           \A d \in Customers : page'[d].n = page[d].n,
           UNCHANGED <<far, table>>, transferred' \subseteq Starts, Sent'
    PROVE  CashoutInv'
<1>1. CashoutTypeOK'
  BY DEF CashoutInv, CashoutTypeOK, far, table
<1>2. StartsOnce'
  BY DEF CashoutInv, StartsOnce, far, table
<1>3. Started'
  BY StartsAre DEF CashoutInv, CashoutTypeOK, Started, far, table
<1> QED BY <1>1, <1>2, <1>3 DEF CashoutInv

LEMMA CashoutInvNext == CashoutInv /\ [CashoutNext]_cashout => CashoutInv'
<1> SUFFICES ASSUME CashoutInv, [CashoutNext]_cashout PROVE CashoutInv'
  OBVIOUS
<1>0. CashoutTypeOK /\ Sent /\ StartsOnce /\ Started /\ Sent'
  BY SentNext DEF CashoutInv
<1>1. ASSUME NEW c \in Customers, GetChallenge(c) \/ ExchangeToken(c) \/ StartFails(c)
                                  \/ PrepareWithdrawalTx(c) \/ PrepareTransferPayment(c)
      PROVE  CashoutInv'
  <2>1. PICK place \in {"idle", "challenged", "trusted", "offered"} : TurnTo(c, place)
    BY <1>1 DEF GetChallenge, ExchangeToken, StartFails, PrepareWithdrawalTx, PrepareTransferPayment
  <2>2. UNCHANGED <<far, transferred, table>>
    BY <1>1 DEF GetChallenge, ExchangeToken, StartFails, PrepareWithdrawalTx, PrepareTransferPayment
  <2> QED BY <1>0, <2>1, <2>2, PageMoves, SamePages DEF CashoutTypeOK
<1>2. ASSUME NEW c \in Customers, Transfer(c) PROVE CashoutInv'
  <2>1. TurnTo(c, "started") /\ UNCHANGED <<far, table>>
    BY <1>2 DEF Transfer
  <2>2. transferred' \subseteq Starts
    <3>1. CASE transferred' = transferred
      BY <1>0, <3>1 DEF CashoutTypeOK
    <3>2. CASE transferred' = transferred \cup {StartOf(c)}
      <4>1. StartOf(c) \in Starts
        <5>1. page[c].n \in Nat /\ page[c].n > 0 /\ page[c].n <= MaxStarts[c]
          BY <1>0, <1>2 DEF Transfer, CashoutTypeOK, Sent
        <5>2. MaxStarts[c] \in Nat
          BY CashoutAssumption
        <5>3. page[c].n \in 1..MaxStarts[c]
          BY <5>1, <5>2
        <5> QED BY <5>3 DEF StartOf, Starts
      <4> QED BY <1>0, <3>2, <4>1 DEF CashoutTypeOK
    <3> QED BY <1>2, <3>1, <3>2 DEF Transfer
  <2> QED BY <1>0, <2>1, <2>2, PageMoves, SamePages
<1>3. ASSUME NEW c \in Customers, StartTransaction(c) PROVE CashoutInv'
  <2> DEFINE s == <<c, page[c].n + 1>>
  <2>1. /\ page' = [page EXCEPT ![c] = [at |-> "starting", n |-> @.n + 1]]
        /\ posted' = posted \cup {s} /\ page[c].n \in Nat /\ page[c].n < MaxStarts[c]
        /\ UNCHANGED <<opened, anchor, expired, transferred, table>>
    BY <1>0, <1>3 DEF StartTransaction, CashoutTypeOK
  <2>2. s \in Starts
    BY <2>1, StartsAre
  <2>3. CashoutTypeOK'
    <3>1. [at |-> "starting", n |-> page[c].n + 1]
              \in [at : {"idle", "challenged", "trusted", "starting", "started", "offered"}, n : Nat]
      BY <2>1
    <3>2. page' = [page EXCEPT ![c] = [at |-> "starting", n |-> page[c].n + 1]]
      BY <2>1
    <3> QED BY <1>0, <2>1, <2>2, <3>1, <3>2 DEF CashoutTypeOK, table
  <2>4. opened[s] = 0
    BY <1>0, <2>1, <2>2 DEF CashoutTypeOK, Started
  <2>5. StartsOnce'
    BY <1>0, <2>1, <2>4 DEF StartsOnce, table
  <2>6. \A d \in Customers : page'[d].n >= page[d].n /\ page'[d].n \in Nat /\ page[d].n \in Nat
    BY <1>0, <2>1 DEF CashoutTypeOK
  <2>7. page'[c].n = page[c].n + 1
    BY <1>0, <2>1 DEF CashoutTypeOK
  <2>8. Started'
    BY <1>0, <2>1, <2>6, <2>7, StartsAre DEF CashoutTypeOK, Started, table
  <2> QED BY <2>3, <2>5, <2>8, <1>0 DEF CashoutInv
<1>4. ASSUME NEW s \in posted, AnchorOpens(s) PROVE CashoutInv'
  <2>1. s \in Starts /\ opened[s] = 0
    BY <1>0 DEF CashoutTypeOK, StartsOnce
  <2>2. CashoutTypeOK'
    BY <1>0, <1>4, <2>1 DEF AnchorOpens, CashoutTypeOK, Status, table
  <2>3. StartsOnce'
    BY <1>0, <1>4, <2>1, StartsAre DEF AnchorOpens, CashoutTypeOK, StartsOnce, table
  <2>4. Started'
    BY <1>0, <1>4, <2>1 DEF AnchorOpens, CashoutTypeOK, Started, table
  <2> QED BY <2>2, <2>3, <2>4, <1>0 DEF CashoutInv
<1>5. ASSUME NEW s \in posted, PostLost(s) PROVE CashoutInv'
  BY <1>0, <1>5 DEF PostLost, CashoutInv, CashoutTypeOK, StartsOnce, Started, table
<1>6. ASSUME NEW c \in Customers, StartAnswered(c) PROVE CashoutInv'
  <2>1. PICK place \in {"started", "trusted"} : TurnTo(c, place)
    BY <1>6 DEF StartAnswered
  <2>2. UNCHANGED <<far, transferred, recent, poll>>
    BY <1>6 DEF StartAnswered
  <2>3. /\ page' \in [Customers -> [at : {"idle", "challenged", "trusted", "starting",
                                          "started", "offered"}, n : Nat]]
        /\ \A d \in Customers : page'[d].n = page[d].n
    BY <2>1, <2>2, PageMoves
  <2>4. \A s \in Rows : \/ attempt'[s] = attempt[s]
                        \/ attempt'[s] = "unknown" /\ opened[s] > 0
    BY <1>0, <1>6 DEF StartAnswered, CashoutTypeOK
  <2>5. attempt' \in [Rows -> Status \cup {"none", "unknown"}]
    BY <1>0, <1>6 DEF StartAnswered, CashoutTypeOK
  <2>6. CashoutTypeOK'
    BY <1>0, <2>2, <2>3, <2>5 DEF CashoutTypeOK, far
  <2>7. StartsOnce'
    BY <1>0, <2>2, <2>4, StartsAre DEF CashoutTypeOK, StartsOnce, far
  <2>8. Started'
    BY <1>0, <2>2, <2>3, <2>4, StartsAre DEF CashoutTypeOK, Started, far
  <2> QED BY <2>6, <2>7, <2>8, <1>0 DEF CashoutInv
<1>7. ASSUME NEW s \in Starts, AnchorMoves(s) PROVE CashoutInv'
  <2>1. PICK to \in {"pending"} \cup Outcomes : anchor' = [anchor EXCEPT ![s] = to]
    BY <1>7 DEF AnchorMoves
  <2>2. to \in Status /\ to # "none"
    BY CashoutAssumption DEF Status, TERMINAL_STATUSES
  <2>3. CashoutTypeOK' /\ StartsOnce' /\ Started'
    BY <1>0, <1>7, <2>1, <2>2 DEF AnchorMoves, CashoutTypeOK, StartsOnce, Started, table
  <2> QED BY <2>3, <1>0 DEF CashoutInv
<1>8. ASSUME NEW s \in Starts, TokenExpires(s) PROVE CashoutInv'
  BY <1>0, <1>8 DEF TokenExpires, CashoutInv, CashoutTypeOK, StartsOnce, Started, table
<1>9. ASSUME NEW s \in recent, TenSeconds(s) PROVE CashoutInv'
  BY <1>0, <1>9 DEF TenSeconds, CashoutInv, CashoutTypeOK, StartsOnce, Started, far
<1>10. ASSUME NEW q \in Pollers, NEW s \in Rows,
              Poll(q, s) \/ PollAnswered(q, s) \/ PollFails(q, s)
       PROVE  CashoutInv'
  <2>1. UNCHANGED <<page, far, transferred, attempt, recent>>
    BY <1>10 DEF Poll, PollAnswered, PollFails
  <2>2. attempt[s] # "none" \/ PollFails(q, s)
    BY <1>0, <1>10 DEF Poll, PollAnswered, Started
  <2>3. s \in Starts /\ (attempt[s] # "none" => opened[s] > 0 /\ anchor[s] # "none")
    BY <1>0, StartsAre DEF StartsOnce, Started
  <2>4. PICK what \in Status \cup {"rest", "asked"} :
            /\ poll' = [poll EXCEPT ![q][s] = what]
            /\ what # "rest" => attempt[s] # "none"
    BY <1>0, <1>10, <2>2, <2>3 DEF Poll, PollAnswered, PollFails, CashoutTypeOK
  <2>5. CashoutTypeOK'
    BY <1>0, <2>1, <2>4 DEF CashoutTypeOK, far
  <2>6. StartsOnce'
    BY <1>0, <2>1 DEF StartsOnce, far
  <2>7. Started'
    BY <1>0, <2>1, <2>4 DEF CashoutTypeOK, Started, far
  <2> QED BY <2>5, <2>6, <2>7, <1>0 DEF CashoutInv
<1>11. ASSUME NEW q \in Pollers, NEW s \in Rows, PollWritten(q, s) PROVE CashoutInv'
  <2>1. UNCHANGED <<page, far, transferred>>
    BY <1>11 DEF PollWritten
  <2>2. attempt[s] # "none" /\ poll[q][s] \in Status /\ poll[q][s] # "none"
    BY <1>0, <1>11 DEF PollWritten, Started, Status, TERMINAL_STATUSES
  <2>3. CashoutTypeOK'
    BY <1>0, <1>11, <2>1, <2>2 DEF PollWritten, CashoutTypeOK, far
  <2>4. StartsOnce'
    BY <1>0, <1>11, <2>1, <2>2 DEF PollWritten, CashoutTypeOK, StartsOnce, far
  <2>5. Started'
    BY <1>0, <1>11, <2>1, <2>2 DEF PollWritten, CashoutTypeOK, Started, far
  <2> QED BY <2>3, <2>4, <2>5, <1>0 DEF CashoutInv
<1>12. CASE UNCHANGED cashout
  BY <1>0, <1>12, SamePages DEF cashout, CashoutTypeOK
<1> QED
  BY <1>1, <1>2, <1>3, <1>4, <1>5, <1>6, <1>7, <1>8, <1>9, <1>10, <1>11, <1>12 DEF CashoutNext

\* A request to start opens at most one transaction, for any number of
\* customers, starts and administrators (src/withdrawals, src/deposits).
THEOREM StartsOnceCorrect == CashoutSpec => []StartsOnce
<1>1. CashoutInv => StartsOnce
  BY DEF CashoutInv
<1> QED BY <1>1, CashoutInvInit, CashoutInvNext, PTL DEF CashoutSpec

-----------------------------------------------------------------------------
(* Migrations: what a run knows                                                *)

Listed == {"next", "sql", "track", "commit"}
Within == {"sql", "track", "commit"}

\* Every file is tracked or to be applied, in order.
Ahead(x) ==
    /\ \A f \in File : f \in Tracked \/ \E i \in 1..Len(x.todo) : x.todo[i] = f
    /\ \A i, j \in 1..Len(x.todo) : i < j => x.todo[i] < x.todo[j]

\* Whatever is tracked and later than a file to be reverted is reverted before.
Behind(x) ==
    \A i \in 1..Len(x.todo) : \A g \in Tracked :
        g > x.todo[i] => \E j \in 1..(i - 1) : x.todo[j] = g

\* The process state x of a run is right about the database.
Right(x) ==
    /\ x.at \in Listed => IF x.cmd = "up" THEN Ahead(x) ELSE Behind(x)
    /\ x.at \in Within =>
           /\ x.todo # <<>> /\ x.began \in 1..clock
           /\ x.cmd = "up" =>
                  \A g \in 1..(Head(x.todo) - 1) : g \in Tracked /\ applied[g] < x.began
    /\ x.at \in {"track", "commit"} /\ ~x.changes =>
           (x.cmd = "up" <=> Head(x.todo) \in schema)
    /\ x.at = "commit" /\ x.cmd = "up" => Head(x.todo) \notin Tracked

\* Two runs under way do the same, and never to the same row at once.
Compatible ==
    \A r, o \in Runs :
        /\ run[r].at \in Busy /\ run[o].at \in Busy => run[r].cmd = run[o].cmd
        /\ r # o /\ run[r].at = "commit" /\ run[o].at = "commit" => This(r) # This(o)

\* applied_at goes up with the files.
Ordered ==
    /\ \A f \in File : applied[f] <= clock
    /\ \A f, g \in Tracked : f < g => applied[f] < applied[g]

MigrationsInv ==
    /\ MigrationsTypeOK
    /\ SchemaInStep /\ NoGaps
    /\ Ordered /\ Compatible
    /\ \A r \in Runs : Right(run[r])

Process ==
    [at : Busy \cup {"new", "done"}, cmd : {"up", "down"},
     todo : Seq(File), began : Nat, changes : BOOLEAN]

LEMMA FilesAre ==
    /\ File \subseteq Nat \ {0} /\ IsFiniteSet(File)
    /\ \A f \in File : 1..(f - 1) \subseteq File
    /\ Tracked \subseteq File /\ IsFiniteSet(Tracked) /\ IsFiniteSet(File \ Tracked)
    /\ Cardinality(Tracked) \in Nat /\ Cardinality(File \ Tracked) \in Nat
<1>1. Files \in Nat
  BY MigrationsAssumption
<1>2. File \subseteq Nat \ {0} /\ \A f \in File : 1..(f - 1) \subseteq File
  BY <1>1 DEF File
<1>3. IsFiniteSet(File)
  BY <1>1, FS_Interval DEF File
<1>4. Tracked \subseteq File
  BY DEF Tracked
<1>5. IsFiniteSet(Tracked) /\ IsFiniteSet(File \ Tracked)
  BY <1>3, <1>4, FS_Subset
<1> QED BY <1>2, <1>3, <1>4, <1>5, FS_CardinalityType

LEMMA IsSeq ==
    ASSUME NEW n \in Nat, NEW S, NEW T, S \subseteq T, NEW q \in [1..n -> S]
    PROVE  q \in Seq(T) /\ Len(q) = n
<1>1. q \in Seq(S) /\ Len(q) = n
  OBVIOUS
<1> QED BY <1>1, SeqMonotonic

\* The list of `up` is every pending file, in order.
LEMMA UpList ==
    ASSUME NEW q,
           q \in First(Cardinality(File \ Tracked), File \ Tracked, Name)
    PROVE  /\ q \in Seq(File)
           /\ \A f \in File : f \in Tracked \/ \E i \in 1..Len(q) : q[i] = f
           /\ \A i, j \in 1..Len(q) : i < j => q[i] < q[j]
<1> DEFINE S == File \ Tracked
           n == Cardinality(S)
<1>1. n \in Nat /\ S \subseteq Nat /\ IsFiniteSet(S) /\ S \subseteq File
  BY FilesAre
<1>2. /\ q \in [1..n -> S]
      /\ \A i \in 1..n : \A f \in S : f < q[i] <=> \E j \in 1..(i - 1) : q[j] = f
  BY <1>1 DEF First, Name
<1> HIDE DEF S, n
<1>3. q \in Seq(File) /\ Len(q) = n
  BY <1>1, <1>2, IsSeq
<1>4. \A i, j \in 1..n : i < j => q[i] < q[j]
  <2>1. SUFFICES ASSUME NEW i \in 1..n, NEW j \in 1..n, i < j PROVE q[i] < q[j]
    OBVIOUS
  <2>2. q[i] \in S /\ i \in 1..(j - 1)
    BY <1>1, <1>2, <2>1
  <2> QED BY <1>2, <2>2
<1>5. q \in Injection(1..n, S)
  <2>1. \A i, j \in 1..n : q[i] = q[j] => i = j
    <3>1. SUFFICES ASSUME NEW i \in 1..n, NEW j \in 1..n, q[i] = q[j], i # j PROVE FALSE
      OBVIOUS
    <3>2. q[i] \in Nat
      BY <1>1, <1>2, <3>1
    <3>3. i < j \/ j < i
      BY <1>1, <3>1
    <3>4. q[i] < q[j] \/ q[j] < q[i]
      BY <1>4, <3>3
    <3> QED BY <3>1, <3>2, <3>4
  <2> QED BY <1>2, <2>1 DEF Injection, IsInjective
<1>6. Cardinality(1..n) = n /\ IsFiniteSet(1..n)
  <2>1. 1 \in Int /\ n \in Int
    BY <1>1
  <2>2. IsFiniteSet(1..n) /\ Cardinality(1..n) = IF 1 > n THEN 0 ELSE n - 1 + 1
    BY <2>1, FS_Interval
  <2> QED BY <1>1, <2>2
<1>7. q \in Surjection(1..n, S)
  BY <1>1, <1>5, <1>6, FS_Injection DEF n
<1>8. \A f \in S : \E i \in 1..n : q[i] = f
  BY <1>7 DEF Surjection
<1> QED BY <1>3, <1>4, <1>8 DEF S

\* The list of `down` takes later files first.
LEMMA DownList ==
    ASSUME MigrationsTypeOK, Ordered, NEW steps \in Nat, NEW q,
           q \in First(AtMost(steps, Tracked), Tracked, Age)
    PROVE  /\ q \in Seq(File)
           /\ \A i \in 1..Len(q) : \A g \in Tracked :
                  g > q[i] => \E j \in 1..(i - 1) : q[j] = g
<1> DEFINE n == AtMost(steps, Tracked)
<1>1. n \in Nat /\ Tracked \subseteq File /\ File \subseteq Nat
  BY FilesAre DEF AtMost
<1>2. /\ q \in [1..n -> Tracked]
      /\ \A i \in 1..n : \A f \in Tracked :
             clock - applied[f] < clock - applied[q[i]] <=> \E j \in 1..(i - 1) : q[j] = f
  BY <1>1 DEF First, Age
<1> HIDE DEF n
<1>3. q \in Seq(File) /\ Len(q) = n
  BY <1>1, <1>2, IsSeq
<1>4. \A f, g \in Tracked : f < g => applied[g] > applied[f]
  BY <1>1 DEF Ordered, MigrationsTypeOK
<1>5. SUFFICES ASSUME NEW i \in 1..n, NEW g \in Tracked, g > q[i]
               PROVE  \E j \in 1..(i - 1) : q[j] = g
  BY <1>3
<1>6. q[i] \in Tracked /\ q[i] < g
  BY <1>1, <1>2, <1>5
<1>7. clock - applied[g] < clock - applied[q[i]]
  <2>1. applied[g] \in Nat /\ applied[q[i]] \in Nat /\ clock \in Nat
    BY <1>1, <1>5, <1>6 DEF MigrationsTypeOK
  <2>2. applied[g] > applied[q[i]]
    BY <1>4, <1>5, <1>6
  <2> QED BY <2>1, <2>2
<1> QED BY <1>2, <1>5, <1>7

-----------------------------------------------------------------------------
(* Migrations: the invariant is inductive                                      *)

LEMMA MigrationsInvInit == MigrationsInit => MigrationsInv
<1> SUFFICES ASSUME MigrationsInit PROVE MigrationsInv
  OBVIOUS
<1>1. Tracked = {}
  BY DEF MigrationsInit, Tracked
<1>2. \A r \in Runs : run[r] = Idle
  BY DEF MigrationsInit
<1>3. MigrationsTypeOK
  <2>1. Idle \in Process
    BY DEF Idle, Process
  <2> QED BY <1>2, <2>1 DEF MigrationsInit, MigrationsTypeOK, Process, Idle
<1>4. SchemaInStep /\ NoGaps /\ Ordered
  BY <1>1 DEF MigrationsInit, SchemaInStep, NoGaps, Ordered
<1>5. Compatible
  BY <1>2 DEF Compatible, Idle, Busy
<1>6. \A r \in Runs : Right(run[r])
  BY <1>2 DEF Right, Idle, Listed, Within
<1> QED BY <1>3, <1>4, <1>5, <1>6 DEF MigrationsInv

\* What a run knows stays right as time goes by.
LEMMA StaysRight ==
    ASSUME MigrationsTypeOK, UNCHANGED <<schema, applied>>, clock' \in Nat, clock' >= clock,
           NEW x \in Process, Right(x)
    PROVE  Right(x)'
<1>1. Tracked' = Tracked
  BY DEF Tracked
<1>2. x.began \in 1..clock => x.began \in 1..clock'
  BY DEF MigrationsTypeOK
<1>3. Ahead(x)' <=> Ahead(x)
  BY <1>1 DEF Ahead
<1>4. Behind(x)' <=> Behind(x)
  BY <1>1 DEF Behind
<1> QED BY <1>1, <1>2, <1>3, <1>4 DEF Right

\* A step of one run that touches nothing else.
LEMMA OwnStep ==
    ASSUME MigrationsInv, NEW r \in Runs, NEW x \in Process,
           run' = [run EXCEPT ![r] = x], UNCHANGED <<schema, applied>>,
           clock' \in Nat, clock' >= clock,
           Right(x)', x.at \in Within => x.todo # <<>>,
           x.at \in Busy => \A o \in Runs \ {r} : run[o].at \in Busy => run[o].cmd = x.cmd,
           x.at = "commit" =>
               \A o \in Runs \ {r} : run[o].at = "commit" => This(o) # Head(x.todo)
    PROVE  MigrationsInv'
<1>0. MigrationsTypeOK /\ SchemaInStep /\ NoGaps /\ Ordered /\ Compatible
  BY DEF MigrationsInv
<1>1. run \in [Runs -> Process]
  BY <1>0 DEF MigrationsTypeOK, Process
<1>2. run' \in [Runs -> Process] /\ run'[r] = x /\ \A o \in Runs \ {r} : run'[o] = run[o]
  BY <1>1
<1>3. MigrationsTypeOK'
  BY <1>0, <1>2 DEF MigrationsTypeOK, Process, Within
<1>4. Tracked' = Tracked
  BY DEF Tracked
<1>5. SchemaInStep' /\ NoGaps'
  BY <1>0, <1>4 DEF SchemaInStep, NoGaps
<1>6. Ordered'
  BY <1>0, <1>4 DEF Ordered, MigrationsTypeOK
<1>7. Compatible'
  BY <1>0, <1>2 DEF Compatible, This
<1>8. \A o \in Runs : Right(run[o])'
  BY <1>0, <1>1, <1>2, StaysRight DEF MigrationsInv
<1> QED BY <1>3, <1>5, <1>6, <1>7, <1>8 DEF MigrationsInv

LEMMA CommitTracks ==
    ASSUME MigrationsInv, NEW r \in Runs, Commit(r)
    PROVE  LET f == This(r) IN
           /\ f \in File
           /\ Tracked' = IF run[r].cmd = "up" THEN Tracked \cup {f} ELSE Tracked \ {f}
           /\ schema' = Tracked'
           /\ applied' \in [File -> Nat]
           /\ applied'[f] = IF run[r].cmd = "up" THEN run[r].began ELSE 0
           /\ \A g \in File \ {f} : applied'[g] = applied[g]
           /\ run[r].cmd = "up" => f \notin Tracked
<1> DEFINE f == This(r)
           up == run[r].cmd = "up"
<1>0. MigrationsTypeOK /\ schema = Tracked /\ Right(run[r]) /\ run[r] \in Process
  BY DEF MigrationsInv, SchemaInStep, MigrationsTypeOK, Process
<1>1. /\ run[r].at = "commit" /\ run[r].todo # <<>> /\ run[r].todo \in Seq(File)
      /\ run[r].began \in 1..clock /\ run[r].began \in Nat
  BY <1>0 DEF Commit, Right, Within, Process
<1>2. f \in File
  BY <1>1 DEF This
<1>3. applied' = [applied EXCEPT ![f] = IF up THEN run[r].began ELSE 0]
  BY DEF Commit
<1>4. up => f \notin Tracked
  BY <1>0, <1>1 DEF Right, This
<1>5. ~run[r].changes => (up <=> f \in schema)
  BY <1>0, <1>1 DEF Right, This
<1>6. schema' = IF ~run[r].changes THEN schema
                ELSE IF up THEN schema \cup {f} ELSE schema \ {f}
  BY DEF Commit
<1>7. schema' = IF up THEN schema \cup {f} ELSE schema \ {f}
  BY <1>5, <1>6
<1> HIDE DEF f, up
<1>8. /\ applied' \in [File -> Nat]
      /\ applied'[f] = IF up THEN run[r].began ELSE 0
      /\ \A g \in File \ {f} : applied'[g] = applied[g]
  BY <1>0, <1>1, <1>2, <1>3 DEF MigrationsTypeOK
<1>9. Tracked' = IF up THEN Tracked \cup {f} ELSE Tracked \ {f}
  BY <1>0, <1>1, <1>2, <1>8 DEF Tracked, MigrationsTypeOK
<1> QED BY <1>0, <1>2, <1>4, <1>7, <1>8, <1>9 DEF f, up

\* What another run knows survives a commit.
LEMMA RightAfterCommit ==
    ASSUME MigrationsInv, NEW r \in Runs, Commit(r), NEW o \in Runs, o # r
    PROVE  Right(run[o])'
<1> DEFINE f == This(r)
           x == run[o]
<1>0. /\ MigrationsTypeOK /\ Right(x) /\ Compatible /\ schema = Tracked
      /\ x \in Process /\ x.todo \in Seq(File)
      /\ run[r].at = "commit" /\ run'[o] = x /\ clock' = clock
  BY DEF MigrationsInv, SchemaInStep, MigrationsTypeOK, Process, Commit
<1>1. x.at \in Busy => x.cmd = run[r].cmd
  BY <1>0 DEF Compatible, Busy
<1>2. x.at = "commit" => Head(x.todo) # f
  BY <1>0 DEF Compatible, This
<1>3. /\ f \in File
      /\ Tracked' = IF run[r].cmd = "up" THEN Tracked \cup {f} ELSE Tracked \ {f}
      /\ schema' = Tracked'
      /\ \A g \in File \ {f} : applied'[g] = applied[g]
      /\ run[r].cmd = "up" => f \notin Tracked
  BY CommitTracks
<1> HIDE DEF f, x
<1>4. x.at \in Busy /\ x.cmd = "up" =>
          /\ Tracked \subseteq Tracked' /\ f \notin Tracked
          /\ \A g \in Tracked : applied'[g] = applied[g]
  BY <1>1, <1>3, FilesAre
<1>5. x.at \in Busy /\ x.cmd # "up" => Tracked' \subseteq Tracked
  BY <1>1, <1>3
<1>6. x.at \in Listed => x.at \in Busy
  BY DEF Listed, Busy
<1>7. x.at \in Listed => IF x.cmd = "up" THEN Ahead(x)' ELSE Behind(x)'
  BY <1>0, <1>4, <1>5, <1>6 DEF Right, Ahead, Behind, x
<1>8. x.at \in Within =>
          /\ x.todo # <<>> /\ x.began \in 1..clock'
          /\ x.cmd = "up" =>
                 \A g \in 1..(Head(x.todo) - 1) : g \in Tracked' /\ applied'[g] < x.began
  BY <1>0, <1>4 DEF Right, Within, Busy
<1>9. x.at \in {"track", "commit"} /\ ~x.changes =>
          (x.cmd = "up" <=> Head(x.todo) \in schema')
  BY <1>0, <1>3, <1>4, <1>5 DEF Right, Busy
<1>10. x.at = "commit" /\ x.cmd = "up" => Head(x.todo) \notin Tracked'
  BY <1>0, <1>1, <1>2, <1>3 DEF Right, Busy
<1>11. run'[o] = x
  BY <1>0
<1> QED BY <1>7, <1>8, <1>9, <1>10, <1>11 DEF Right, Ahead, Behind, x

LEMMA CommitKeeps ==
    ASSUME MigrationsInv, NEW r \in Runs, Commit(r)
    PROVE  MigrationsInv'
<1> DEFINE f == This(r)
           todo == run[r].todo
<1>0. /\ MigrationsTypeOK /\ Right(run[r]) /\ Compatible /\ NoGaps /\ Ordered
      /\ run \in [Runs -> Process] /\ clock' = clock /\ clock \in Nat
      /\ run[r].at = "commit" /\ run[r].cmd \in {"up", "down"}
  BY DEF MigrationsInv, MigrationsTypeOK, Process, Commit
<1>1. /\ todo \in Seq(File) /\ todo # <<>> /\ f = todo[1]
      /\ run[r].began \in 1..clock
      /\ IF run[r].cmd = "up" THEN Ahead(run[r]) ELSE Behind(run[r])
      /\ run[r].cmd = "up" =>
             \A g \in 1..(f - 1) : g \in Tracked /\ applied[g] < run[r].began
  BY <1>0 DEF Right, Listed, Within, Process, This
<1>2. /\ f \in File
      /\ Tracked' = IF run[r].cmd = "up" THEN Tracked \cup {f} ELSE Tracked \ {f}
      /\ schema' = Tracked'
      /\ applied' \in [File -> Nat]
      /\ applied'[f] = IF run[r].cmd = "up" THEN run[r].began ELSE 0
      /\ \A g \in File \ {f} : applied'[g] = applied[g]
      /\ run[r].cmd = "up" => f \notin Tracked
  BY CommitTracks
<1>3. run' = [run EXCEPT ![r].at = "next", ![r].todo = Tail(@)]
  BY DEF Commit
<1>4. /\ Tail(todo) \in Seq(File) /\ Len(Tail(todo)) = Len(todo) - 1
      /\ Len(todo) \in Nat \ {0}
      /\ \A i \in 1..Len(Tail(todo)) : Tail(todo)[i] = todo[i + 1]
  BY <1>1
<1>5. /\ run'[r].at = "next" /\ run'[r].cmd = run[r].cmd /\ run'[r].todo = Tail(todo)
      /\ run' \in [Runs -> Process]
      /\ \A o \in Runs \ {r} : run'[o] = run[o]
  <2>1. run' = [run EXCEPT ![r] = [run[r] EXCEPT !.at = "next", !.todo = Tail(todo)]]
    BY <1>3
  <2>2. [run[r] EXCEPT !.at = "next", !.todo = Tail(todo)] \in Process
    BY <1>0, <1>4 DEF Process, Busy
  <2> QED BY <1>0, <2>1, <2>2 DEF Process
<1> HIDE DEF f, todo
<1>6. \A g \in Tracked : g \in File /\ g \in Nat /\ g > 0
  BY FilesAre
<1>7. NoGaps'
  <2>1. CASE run[r].cmd = "up"
    BY <1>0, <1>1, <1>2, <2>1 DEF NoGaps
  <2>2. CASE run[r].cmd = "down"
    <3>1. \A g \in Tracked : ~ g > f
      BY <1>1, <1>4, <2>2 DEF Behind, todo
    <3>2. f \in Nat
      BY <1>2, FilesAre
    <3> QED BY <1>0, <1>2, <1>6, <2>2, <3>1, <3>2 DEF NoGaps
  <2> QED BY <1>0, <2>1, <2>2
<1>8. Ordered'
  <2>1. \A g \in File : applied'[g] <= clock'
    <3>1. \A g \in File \ {f} : applied'[g] <= clock'
      BY <1>0, <1>2 DEF Ordered
    <3>2. applied'[f] <= clock'
      BY <1>0, <1>1, <1>2
    <3> QED BY <3>1, <3>2
  <2>2. CASE run[r].cmd = "up"
    <3>1. \A g \in Tracked : ~ f < g
      <4>1. SUFFICES ASSUME NEW g \in Tracked, f < g PROVE FALSE
        OBVIOUS
      <4>2. f \in 1..(g - 1)
        BY <1>2, <1>6, <4>1, FilesAre
      <4> QED BY <1>0, <1>2, <2>2, <4>1, <4>2 DEF NoGaps
    <3>2. \A g \in Tracked : g # f /\ applied'[g] = applied[g]
      BY <1>2, <1>6, <2>2
    <3>3. \A g \in Tracked : g < f => applied'[g] < applied'[f]
      <4>1. SUFFICES ASSUME NEW g \in Tracked, g < f PROVE applied'[g] < applied'[f]
        OBVIOUS
      <4>2. g \in 1..(f - 1)
        BY <1>2, <1>6, <4>1, FilesAre
      <4> QED BY <1>1, <1>2, <2>2, <3>2, <4>2
    <3>4. ~ f < f
      BY <1>2, FilesAre
    <3>5. \A g, h \in Tracked : g < h => applied'[g] < applied'[h]
      BY <1>0, <3>2 DEF Ordered
    <3>6. Tracked' = Tracked \cup {f}
      BY <1>2, <2>2
    <3>7. \A g, h \in Tracked' : g < h => applied'[g] < applied'[h]
      BY <3>1, <3>3, <3>4, <3>5, <3>6
    <3> QED BY <2>1, <3>7 DEF Ordered
  <2>3. CASE run[r].cmd = "down"
    <3>1. \A g \in Tracked' : g \in Tracked /\ applied'[g] = applied[g]
      BY <1>2, <1>6, <2>3
    <3> QED BY <1>0, <2>1, <3>1 DEF Ordered
  <2> QED BY <1>0, <2>2, <2>3
<1>9. Compatible'
  BY <1>0, <1>5 DEF Compatible, This, Busy
<1>10. Right(run[r])'
  <2>1. CASE run[r].cmd = "up"
    <3>1. \A g \in File : g \in Tracked' \/ \E i \in 1..Len(Tail(todo)) : Tail(todo)[i] = g
      <4>1. SUFFICES ASSUME NEW g \in File, g \notin Tracked'
                     PROVE  \E i \in 1..Len(Tail(todo)) : Tail(todo)[i] = g
        OBVIOUS
      <4>2. PICK j \in 1..Len(todo) : todo[j] = g
        BY <1>1, <1>2, <2>1, <4>1 DEF Ahead, todo
      <4>3. j # 1
        BY <1>1, <1>2, <2>1, <4>1, <4>2
      <4>4. j - 1 \in 1..Len(Tail(todo)) /\ Tail(todo)[j - 1] = todo[j]
        BY <1>4, <4>3
      <4> QED BY <4>2, <4>4
    <3>2. \A i, j \in 1..Len(Tail(todo)) : i < j => Tail(todo)[i] < Tail(todo)[j]
      <4>1. SUFFICES ASSUME NEW i \in 1..Len(Tail(todo)), NEW j \in 1..Len(Tail(todo)), i < j
                     PROVE  Tail(todo)[i] < Tail(todo)[j]
        OBVIOUS
      <4>2. i + 1 \in 1..Len(todo) /\ j + 1 \in 1..Len(todo) /\ i + 1 < j + 1
        BY <1>4, <4>1
      <4>3. todo[i + 1] < todo[j + 1]
        BY <1>1, <2>1, <4>2 DEF Ahead, todo
      <4> QED BY <1>4, <4>3
    <3>3. Ahead(run[r])'
      BY <1>5, <3>1, <3>2 DEF Ahead
    <3> QED BY <1>5, <2>1, <3>3 DEF Right, Within
  <2>2. CASE run[r].cmd = "down"
    <3>1. \A i \in 1..Len(Tail(todo)) : \A g \in Tracked' :
              g > Tail(todo)[i] => \E j \in 1..(i - 1) : Tail(todo)[j] = g
      <4>1. SUFFICES ASSUME NEW i \in 1..Len(Tail(todo)), NEW g \in Tracked',
                            g > Tail(todo)[i]
                     PROVE  \E j \in 1..(i - 1) : Tail(todo)[j] = g
        OBVIOUS
      <4>2. i + 1 \in 1..Len(todo) /\ g > todo[i + 1] /\ g \in Tracked /\ g # f
        BY <1>2, <1>4, <2>2, <4>1
      <4>3. PICK j \in 1..i : todo[j] = g
        <5>1. \E j \in 1..((i + 1) - 1) : todo[j] = g
          BY <1>1, <2>2, <4>2 DEF Behind, todo
        <5> QED BY <5>1
      <4>4. j # 1
        BY <1>1, <4>2, <4>3
      <4>5. j - 1 \in 1..(i - 1) /\ j - 1 \in 1..Len(Tail(todo)) /\ (j - 1) + 1 = j
        BY <4>3, <4>4
      <4>6. Tail(todo)[j - 1] = todo[j]
        BY <1>4, <4>5
      <4> QED BY <4>3, <4>5, <4>6
    <3>2. Behind(run[r])'
      BY <1>5, <3>1 DEF Behind
    <3> QED BY <1>5, <2>2, <3>2 DEF Right, Within
  <2> QED BY <1>0, <2>1, <2>2
<1>11. \A o \in Runs : Right(run[o])'
  BY <1>10, RightAfterCommit
<1>12. MigrationsTypeOK'
  <2>1. Tracked' \subseteq File
    BY <1>2, FilesAre
  <2> QED BY <1>0, <1>2, <1>5, <2>1 DEF MigrationsTypeOK, Process
<1>13. SchemaInStep'
  BY <1>2 DEF SchemaInStep
<1> QED BY <1>7, <1>8, <1>9, <1>11, <1>12, <1>13 DEF MigrationsInv

LEMMA MigrationsInvNext ==
    MigrationsInv /\ [MigrationsNext]_migrations => MigrationsInv'
<1> SUFFICES ASSUME MigrationsInv, [MigrationsNext]_migrations PROVE MigrationsInv'
  OBVIOUS
<1>0. /\ MigrationsTypeOK /\ SchemaInStep /\ NoGaps /\ Ordered /\ Compatible
      /\ run \in [Runs -> Process] /\ clock \in Nat /\ \A r \in Runs : Right(run[r])
  BY DEF MigrationsInv, MigrationsTypeOK, Process
<1>t. MigrationsTypeOK
  BY <1>0
<1>c. clock \in Nat
  BY <1>0
<1>p. run \in [Runs -> Process]
  BY <1>0
<1>r. \A r \in Runs : Right(run[r])
  BY <1>0
<1>i. Idle \in Process /\ Idle.at = "new"
  <2>1. <<>> \in Seq(File)
    OBVIOUS
  <2> QED BY <2>1 DEF Idle, Process
<1>a. \A r, o \in Runs : run[r].at \in Busy /\ run[o].at \in Busy => run[o].cmd = run[r].cmd
  BY <1>0 DEF Compatible
<1>1. ASSUME NEW r \in Runs, Start(r) PROVE MigrationsInv'
  <2>1. PICK cmd \in {"up", "down"} :
            /\ Alone(cmd)
            /\ run' = [run EXCEPT ![r] = [Idle EXCEPT !.at = "list", !.cmd = cmd]]
    BY <1>1 DEF Start
  <2>x. PICK x : x = [Idle EXCEPT !.at = "list", !.cmd = cmd]
    OBVIOUS
  <2>2. x \in Process /\ x.at = "list" /\ x.cmd = cmd
    BY <2>x, <1>i DEF Process, Busy
  <2>3. UNCHANGED <<schema, applied, clock>>
    BY <1>1 DEF Start
  <2>4. \A o \in Runs \ {r} : run[o].at \in Busy => run[o].cmd = cmd
    BY <2>1 DEF Alone
  <2>5. run' = [run EXCEPT ![r] = x]
    BY <2>1, <2>x
  <2>6. Right(x)'
    BY <2>2 DEF Right, Listed, Within
  <2>7. x.at \notin Within /\ x.at # "commit"
    BY <2>2 DEF Within
  <2>8. clock' \in Nat /\ clock' >= clock
    BY <1>c, <2>3
  <2> QED BY <2>2, <2>3, <2>4, <2>5, <2>6, <2>7, <2>8, OwnStep
<1>2. ASSUME NEW r \in Runs, ListPending(r) \/ ListLatest(r) PROVE MigrationsInv'
  <2>1. PICK todo :
            /\ \/ /\ run[r].cmd = "up"
                  /\ todo \in First(Cardinality(File \ Tracked), File \ Tracked, Name)
               \/ /\ run[r].cmd # "up"
                  /\ \E n \in 1..MaxSteps : todo \in First(AtMost(n, Tracked), Tracked, Age)
            /\ run' = [run EXCEPT ![r].at = "next", ![r].todo = todo]
    BY <1>2 DEF ListPending, ListLatest
  <2>x. PICK x : x = [run[r] EXCEPT !.at = "next", !.todo = todo]
    OBVIOUS
  <2>2. /\ todo \in Seq(File)
        /\ IF run[r].cmd = "up"
           THEN /\ \A f \in File : f \in Tracked \/ \E i \in 1..Len(todo) : todo[i] = f
                /\ \A i, j \in 1..Len(todo) : i < j => todo[i] < todo[j]
           ELSE \A i \in 1..Len(todo) : \A g \in Tracked :
                    g > todo[i] => \E j \in 1..(i - 1) : todo[j] = g
    <3>1. CASE run[r].cmd = "up"
      BY <2>1, <3>1, UpList
    <3>2. CASE run[r].cmd # "up"
      <4>1. PICK n \in 1..MaxSteps : todo \in First(AtMost(n, Tracked), Tracked, Age)
        BY <2>1, <3>2
      <4>2. n \in Nat
        OBVIOUS
      <4> QED BY <1>0, <3>2, <4>1, <4>2, DownList
    <3> QED BY <3>1, <3>2
  <2>3. x \in Process /\ x.at = "next" /\ x.cmd = run[r].cmd /\ x.todo = todo
    BY <1>p, <2>2, <2>x DEF Process, Busy
  <2>4. UNCHANGED <<schema, applied, clock>> /\ run[r].at \in Busy
    BY <1>2 DEF ListPending, ListLatest, Busy
  <2>5. run' = [run EXCEPT ![r] = x]
    BY <2>1, <2>x
  <2>6. Right(x)
    BY <2>2, <2>3 DEF Right, Listed, Within, Ahead, Behind
  <2>7. clock' \in Nat /\ clock' >= clock
    BY <1>c, <2>4
  <2>8. Right(x)'
    BY <1>t, <2>3, <2>4, <2>6, <2>7, StaysRight
  <2>9. x.at \notin Within /\ x.at # "commit" /\ x \in Process
    BY <2>3 DEF Within
  <2>10. \A o \in Runs \ {r} : run[o].at \in Busy => run[o].cmd = x.cmd
    BY <1>a, <2>3, <2>4
  <2>11. UNCHANGED <<schema, applied>>
    BY <2>4
  <2> QED BY <2>5, <2>7, <2>8, <2>9, <2>10, <2>11, OwnStep
<1>3. ASSUME NEW r \in Runs, Finish(r) \/ Fail(r) PROVE MigrationsInv'
  <2>x. PICK x : x = [Idle EXCEPT !.at = "done"]
    OBVIOUS
  <2>1. x \in Process /\ x.at = "done"
    BY <2>x, <1>i DEF Process, Busy
  <2>2. run' = [run EXCEPT ![r] = x] /\ UNCHANGED <<schema, applied, clock>>
    BY <1>3, <2>x DEF Finish, Fail
  <2>3. Right(x)'
    BY <2>1 DEF Right, Listed, Within
  <2>4. x.at \notin Within /\ x.at # "commit" /\ x.at \notin Busy
    BY <2>1 DEF Within, Busy
  <2>5. clock' \in Nat /\ clock' >= clock
    BY <1>c, <2>2
  <2> QED BY <2>1, <2>2, <2>3, <2>4, <2>5, OwnStep
<1>4. ASSUME NEW r \in Runs, Begin(r) PROVE MigrationsInv'
  <2>x. PICK x : x = [run[r] EXCEPT !.at = "sql", !.began = clock + 1]
    OBVIOUS
  <2>1. /\ run[r].at = "next" /\ run[r].todo # <<>> /\ clock' = clock + 1
        /\ UNCHANGED <<schema, applied>> /\ run[r].at \in Busy
    BY <1>4 DEF Begin, Busy
  <2>2. /\ x \in Process /\ x.at = "sql" /\ x.cmd = run[r].cmd /\ x.todo = run[r].todo
        /\ x.began = clock + 1
    <3>1. clock + 1 \in Nat
      BY <1>c
    <3> QED BY <1>p, <2>x, <3>1 DEF Process, Busy
  <2>3. run' = [run EXCEPT ![r] = x]
    BY <1>4, <2>x DEF Begin
  <2>4. clock' \in Nat /\ clock' >= clock
    BY <1>c, <2>1
  <2>5. IF x.cmd = "up" THEN Ahead(x)' ELSE Behind(x)'
    <3>1. run[r].cmd = "up" => Ahead(run[r])
      BY <1>0, <2>1 DEF Right, Listed
    <3>2. run[r].cmd # "up" => Behind(run[r])
      BY <1>0, <2>1 DEF Right, Listed
    <3>3. Tracked' = Tracked
      BY <2>1 DEF Tracked
    <3>4. run[r].cmd = "up" => Ahead(x)'
      BY <2>2, <3>1, <3>3 DEF Ahead
    <3>5. run[r].cmd # "up" => Behind(x)'
      BY <2>2, <3>2, <3>3 DEF Behind
    <3> QED BY <2>2, <3>4, <3>5
  <2>6. x.cmd = "up" => \A g \in 1..(Head(x.todo) - 1) : g \in Tracked' /\ applied'[g] < x.began
    <3>1. SUFFICES ASSUME x.cmd = "up", NEW g \in 1..(Head(x.todo) - 1)
                   PROVE  g \in Tracked /\ applied[g] < x.began
      BY <2>1 DEF Tracked
    <3>2. x.todo \in Seq(File) /\ x.todo # <<>> /\ Head(x.todo) = x.todo[1] /\ x.todo[1] \in File
      BY <2>1, <2>2 DEF Process
    <3>3. g \in File /\ g < x.todo[1] /\ x.todo[1] \in Nat
      <4>1. x.todo[1] \in File /\ x.todo[1] \in Nat /\ g \in 1..(x.todo[1] - 1)
        BY <3>1, <3>2, FilesAre
      <4>2. g \in File
        BY <4>1, FilesAre
      <4> QED BY <4>1, <4>2
    <3>4. Ahead(run[r])
      BY <1>0, <2>1, <2>2, <3>1 DEF Right, Listed
    <3>5. Len(x.todo) \in Nat /\ \A i \in 1..Len(x.todo) : x.todo[i] \in Nat /\ x.todo[1] <= x.todo[i]
      <4>1. \A i \in 1..Len(x.todo) : x.todo[i] \in Nat
        <5>1. \A i \in 1..Len(x.todo) : x.todo[i] \in File
          BY <3>2
        <5> QED BY <5>1, FilesAre
      <4>2. \A i \in 1..Len(x.todo) : 1 < i => x.todo[1] < x.todo[i]
        BY <2>2, <3>2, <3>4 DEF Ahead
      <4>3. SUFFICES ASSUME NEW i \in 1..Len(x.todo) PROVE x.todo[1] <= x.todo[i]
        BY <3>2, <4>1
      <4>4. CASE i = 1
        BY <3>3, <4>4
      <4>5. CASE 1 < i
        BY <3>3, <4>1, <4>2, <4>5
      <4>6. i = 1 \/ 1 < i
        BY <3>2
      <4> QED BY <4>4, <4>5, <4>6
    <3>6. g \in Tracked
      <4>1. ~ \E i \in 1..Len(x.todo) : x.todo[i] = g
        BY <3>1, <3>3, <3>5
      <4> QED BY <2>2, <3>3, <3>4, <4>1 DEF Ahead
    <3>7. applied[g] \in Nat /\ applied[g] <= clock
      BY <1>0, <3>3 DEF MigrationsTypeOK, Ordered
    <3> QED BY <1>0, <2>2, <3>6, <3>7
  <2>7. Right(x)'
    <3>1. x.began \in 1..clock'
      BY <1>c, <2>1, <2>2
    <3> QED BY <2>1, <2>2, <2>5, <2>6, <3>1 DEF Right, Within
  <2>8. \A o \in Runs \ {r} : run[o].at \in Busy => run[o].cmd = x.cmd
    BY <1>a, <2>1, <2>2
  <2>9. x.todo # <<>> /\ x.at # "commit" /\ x \in Process
    BY <2>1, <2>2
  <2>10. UNCHANGED <<schema, applied>>
    BY <2>1
  <2> QED BY <2>3, <2>4, <2>7, <2>8, <2>9, <2>10, OwnStep
<1>5. ASSUME NEW r \in Runs, RunSql(r) PROVE MigrationsInv'
  <2>ch. PICK ch : ch = ((run[r].cmd = "up") = (This(r) \notin schema))
    OBVIOUS
  <2>x. PICK x : x = [run[r] EXCEPT !.at = "track", !.changes = ch]
    OBVIOUS
  <2>1. /\ run[r].at = "sql" /\ UNCHANGED <<schema, applied, clock>> /\ run[r].at \in Busy
    BY <1>5 DEF RunSql, Busy
  <2>2. run' = [run EXCEPT ![r] = x]
    BY <1>5, <2>x, <2>ch DEF RunSql
  <2>3. ch \in BOOLEAN /\ (~ch => (run[r].cmd = "up" <=> Head(run[r].todo) \in schema))
    BY <2>ch DEF This
  <2>4. /\ x \in Process /\ x.at = "track" /\ x.cmd = run[r].cmd /\ x.todo = run[r].todo
        /\ x.began = run[r].began /\ x.changes = ch
    BY <1>p, <2>3, <2>x DEF Process, Busy
  <2>5. Right(run[r]) /\ clock' \in Nat /\ clock' >= clock
    BY <1>c, <1>r, <2>1
  <2>6. Right(x)
    BY <2>1, <2>3, <2>4, <2>5 DEF Right, Listed, Within, Ahead, Behind
  <2>7. Right(x)'
    BY <1>t, <2>1, <2>4, <2>5, <2>6, StaysRight
  <2>8. \A o \in Runs \ {r} : run[o].at \in Busy => run[o].cmd = x.cmd
    BY <1>a, <2>1, <2>4
  <2>9. x.todo # <<>> /\ x.at # "commit" /\ x \in Process
    BY <2>1, <2>4, <2>5 DEF Right, Within
  <2>10. UNCHANGED <<schema, applied>>
    BY <2>1
  <2> QED BY <2>2, <2>5, <2>7, <2>8, <2>9, <2>10, OwnStep
<1>6. ASSUME NEW r \in Runs, Track(r) PROVE MigrationsInv'
  <2>x. PICK x : x = [run[r] EXCEPT !.at = "commit"]
    OBVIOUS
  <2>1. /\ run[r].at = "track" /\ UNCHANGED <<schema, applied, clock>> /\ run[r].at \in Busy
        /\ run[r].cmd = "up" => Head(run[r].todo) \notin Tracked
        /\ \A o \in Runs \ {r} : run[o].at = "commit" => This(o) # Head(run[r].todo)
    BY <1>6 DEF Track, Busy, This
  <2>2. run' = [run EXCEPT ![r] = x]
    BY <1>6, <2>x DEF Track
  <2>4. /\ x \in Process /\ x.at = "commit" /\ x.cmd = run[r].cmd /\ x.todo = run[r].todo
        /\ x.began = run[r].began /\ x.changes = run[r].changes
    BY <1>p, <2>x DEF Process, Busy
  <2>5. Right(run[r]) /\ clock' \in Nat /\ clock' >= clock
    BY <1>c, <1>r, <2>1
  <2>6. Right(x)
    BY <2>1, <2>4, <2>5 DEF Right, Listed, Within, Ahead, Behind
  <2>7. Right(x)'
    BY <1>t, <2>1, <2>4, <2>5, <2>6, StaysRight
  <2>8. \A o \in Runs \ {r} : run[o].at \in Busy => run[o].cmd = x.cmd
    BY <1>a, <2>1, <2>4
  <2>9. x.todo # <<>>
    BY <2>1, <2>4, <2>5 DEF Right, Within
  <2> QED BY <2>1, <2>2, <2>4, <2>5, <2>7, <2>8, <2>9, OwnStep
<1>7. ASSUME NEW r \in Runs, Commit(r) PROVE MigrationsInv'
  BY <1>7, CommitKeeps
<1>8. CASE UNCHANGED migrations
  <2>1. UNCHANGED <<schema, applied, clock, run>>
    BY <1>8 DEF migrations
  <2>2. \A r \in Runs : Right(run[r])'
    BY <1>0, <2>1, StaysRight
  <2> QED
    BY <1>0, <2>1, <2>2 DEF MigrationsInv, MigrationsTypeOK, SchemaInStep, NoGaps, Ordered,
                            Compatible, Tracked, This
<1> QED BY <1>1, <1>2, <1>3, <1>4, <1>5, <1>6, <1>7, <1>8 DEF MigrationsNext

LEMMA MigrationsInvariant == MigrationsSpec => []MigrationsInv
BY MigrationsInvInit, MigrationsInvNext, PTL DEF MigrationsSpec

\* The tracking table says what the schema is, for any number of files and of
\* runs that overlap, fail or die (src/db/migrate.ts).
THEOREM SchemaInStepCorrect == MigrationsSpec => []SchemaInStep
<1>1. MigrationsInv => SchemaInStep
  BY DEF MigrationsInv
<1> QED BY <1>1, MigrationsInvariant, PTL

\* The applied files are always the first ones (src/db/migrate.ts).
THEOREM NoGapsCorrect == MigrationsSpec => []NoGaps
<1>1. MigrationsInv => NoGaps
  BY DEF MigrationsInv
<1> QED BY <1>1, MigrationsInvariant, PTL

-----------------------------------------------------------------------------
(* Migrations implement Versions                                               *)

\* What is being reverted has a down file.
Revertible ==
    \A r \in Runs : run[r].at \in Within /\ run[r].cmd = "down" => This(r) \in HasDown

LEMMA RevertibleInit == MigrationsInit => Revertible
BY DEF MigrationsInit, Idle, Within, Revertible

LEMMA RevertibleNext ==
    MigrationsTypeOK /\ Revertible /\ [MigrationsNext]_migrations => Revertible'
<1> SUFFICES ASSUME MigrationsTypeOK, Revertible, [MigrationsNext]_migrations
             PROVE  Revertible'
  OBVIOUS
<1>0. run \in [Runs -> Process]
  BY DEF MigrationsTypeOK, Process
<1>1. ASSUME NEW r \in Runs, NEW x, run' = [run EXCEPT ![r] = x],
             x.at \in Within /\ x.cmd = "down" => Head(x.todo) \in HasDown
      PROVE  Revertible'
  BY <1>0, <1>1 DEF Revertible, This
<1>2. ASSUME NEW r \in Runs,
             \/ Start(r) \/ ListPending(r) \/ ListLatest(r) \/ Finish(r) \/ Fail(r) \/ Commit(r)
      PROVE  Revertible'
  <2>1. \E x : run' = [run EXCEPT ![r] = x] /\ x.at \in {"list", "next", "done"}
    <3>1. CASE Finish(r) \/ Fail(r)
      <4>1. run' = [run EXCEPT ![r] = [Idle EXCEPT !.at = "done"]]
        BY <3>1 DEF Finish, Fail
      <4>2. [Idle EXCEPT !.at = "done"].at = "done"
        BY DEF Idle
      <4> QED BY <4>1, <4>2
    <3>5. CASE Start(r)
      <4>1. PICK cmd \in {"up", "down"} :
                run' = [run EXCEPT ![r] = [Idle EXCEPT !.at = "list", !.cmd = cmd]]
        BY <3>5 DEF Start
      <4>2. [Idle EXCEPT !.at = "list", !.cmd = cmd].at = "list"
        BY DEF Idle
      <4> QED BY <4>1, <4>2
    <3>2. CASE ListPending(r)
      <4>1. PICK todo : run' = [run EXCEPT ![r].at = "next", ![r].todo = todo]
        BY <3>2 DEF ListPending
      <4>2. run' = [run EXCEPT ![r] = [@ EXCEPT !.at = "next", !.todo = todo]]
        BY <1>0, <4>1
      <4>3. [run[r] EXCEPT !.at = "next", !.todo = todo].at = "next"
        BY <1>0 DEF Process
      <4> QED BY <4>2, <4>3
    <3>3. CASE ListLatest(r)
      <4>1. PICK todo : run' = [run EXCEPT ![r].at = "next", ![r].todo = todo]
        BY <3>3 DEF ListLatest
      <4>2. run' = [run EXCEPT ![r] = [@ EXCEPT !.at = "next", !.todo = todo]]
        BY <1>0, <4>1
      <4>3. [run[r] EXCEPT !.at = "next", !.todo = todo].at = "next"
        BY <1>0 DEF Process
      <4> QED BY <4>2, <4>3
    <3>4. CASE Commit(r)
      <4>1. run' = [run EXCEPT ![r].at = "next", ![r].todo = Tail(@)]
        BY <3>4 DEF Commit
      <4>2. run' = [run EXCEPT ![r] = [run[r] EXCEPT !.at = "next", !.todo = Tail(run[r].todo)]]
        BY <1>0, <4>1 DEF Process
      <4>3. [run[r] EXCEPT !.at = "next", !.todo = Tail(run[r].todo)].at = "next"
        BY <1>0 DEF Process
      <4> QED BY <4>2, <4>3
    <3> QED BY <1>2, <3>1, <3>2, <3>3, <3>4, <3>5
  <2> QED BY <1>1, <2>1 DEF Within
<1>3. ASSUME NEW r \in Runs, Begin(r) PROVE Revertible'
  <2>x. PICK x : x = [run[r] EXCEPT !.at = "sql", !.began = clock + 1]
    OBVIOUS
  <2>1. run' = [run EXCEPT ![r] = x] /\ (run[r].cmd = "down" => Head(run[r].todo) \in HasDown)
    BY <1>3, <2>x DEF Begin, This
  <2>2. x.cmd = run[r].cmd /\ x.todo = run[r].todo
    BY <1>0, <2>x DEF Process
  <2> QED BY <1>1, <2>1, <2>2
<1>4. ASSUME NEW r \in Runs, RunSql(r) \/ Track(r) PROVE Revertible'
  <2>1. run[r].at \in Within
        /\ \E x : run' = [run EXCEPT ![r] = x] /\ x.cmd = run[r].cmd /\ x.todo = run[r].todo
    <3>1. CASE RunSql(r)
      <4>ch. PICK ch : ch = ((run[r].cmd = "up") = (This(r) \notin schema))
        OBVIOUS
      <4>x. PICK x : x = [run[r] EXCEPT !.at = "track", !.changes = ch]
        OBVIOUS
      <4>1. run' = [run EXCEPT ![r] = x] /\ run[r].at = "sql"
        BY <3>1, <4>ch, <4>x DEF RunSql
      <4>2. x.cmd = run[r].cmd /\ x.todo = run[r].todo
        BY <1>0, <4>x DEF Process
      <4> QED BY <4>1, <4>2 DEF Within
    <3>2. CASE Track(r)
      <4>x. PICK x : x = [run[r] EXCEPT !.at = "commit"]
        OBVIOUS
      <4>1. run' = [run EXCEPT ![r] = x] /\ run[r].at = "track"
        BY <3>2, <4>x DEF Track
      <4>2. x.cmd = run[r].cmd /\ x.todo = run[r].todo
        BY <1>0, <4>x DEF Process
      <4> QED BY <4>1, <4>2 DEF Within
    <3> QED BY <1>4, <3>1, <3>2
  <2>2. run[r].cmd = "down" => Head(run[r].todo) \in HasDown
    BY <2>1 DEF Revertible, This
  <2> QED BY <1>1, <2>1, <2>2
<1>5. CASE UNCHANGED migrations
  BY <1>5 DEF migrations, Revertible, This
<1> QED BY <1>2, <1>3, <1>4, <1>5 DEF MigrationsNext

\* The file a commit is about is the next one up, the last one down, or was
\* reverted meanwhile.
LEMMA CommitsAtTheEnd ==
    ASSUME MigrationsInv, NEW r \in Runs, Commit(r)
    PROVE  LET f == This(r) IN
           /\ f \in File
           /\ run[r].cmd = "up" => Tracked = 1..(f - 1)
           /\ run[r].cmd = "down" /\ f \in Tracked => Tracked = 1..f
<1> DEFINE f == This(r)
           todo == run[r].todo
<1>0. /\ Right(run[r]) /\ NoGaps /\ run[r] \in Process /\ run[r].at = "commit"
  BY DEF MigrationsInv, MigrationsTypeOK, Process, Commit
<1>1. /\ todo \in Seq(File) /\ todo # <<>> /\ f = todo[1]
      /\ run[r].cmd = "down" => Behind(run[r])
      /\ run[r].cmd = "up" => \A g \in 1..(f - 1) : g \in Tracked
  BY <1>0 DEF Right, Listed, Within, Process, This
<1>2. f \in File /\ (run[r].cmd = "up" => f \notin Tracked)
  BY CommitTracks
<1>3. File \subseteq Nat \ {0} /\ Tracked \subseteq File
  BY FilesAre
<1>4. Len(todo) >= 1 /\ Len(todo) \in Nat
  BY <1>1
<1> HIDE DEF f
<1>5. ASSUME run[r].cmd = "up", NEW g \in Tracked PROVE g \in 1..(f - 1)
  <2>1. f \notin 1..(g - 1) /\ g # f
    BY <1>0, <1>2, <1>5 DEF NoGaps
  <2>2. f \in Nat /\ f > 0 /\ g \in Nat /\ g > 0
    BY <1>2, <1>3
  <2> QED BY <2>1, <2>2
<1>6. ASSUME run[r].cmd = "down", NEW g \in Tracked PROVE g \in 1..f
  <2>1. 1 \in 1..Len(todo) /\ ~ \E j \in 1..(1 - 1) : todo[j] = g
    BY <1>4
  <2>2. ~ (g > todo[1])
    BY <1>1, <1>6, <2>1 DEF Behind
  <2>3. f \in Nat /\ g \in Nat /\ g > 0
    BY <1>2, <1>3
  <2> QED BY <1>1, <2>2, <2>3
<1>7. f \in Tracked => \A g \in 1..f : g \in Tracked
  <2>1. SUFFICES ASSUME f \in Tracked, NEW g \in 1..f PROVE g \in Tracked
    OBVIOUS
  <2>2. \A h \in 1..(f - 1) : h \in Tracked
    BY <1>0, <2>1 DEF NoGaps
  <2>3. g = f \/ g \in 1..(f - 1)
    BY <1>2, <1>3
  <2> QED BY <2>1, <2>2, <2>3
<1>8. run[r].cmd = "up" => Tracked = 1..(f - 1)
  BY <1>1, <1>5
<1>9. run[r].cmd = "down" /\ f \in Tracked => Tracked = 1..f
  BY <1>6, <1>7
<1> QED BY <1>2, <1>8, <1>9 DEF f

LEMMA CommitIsVersion ==
    ASSUME MigrationsInv, Revertible, NEW r \in Runs, Commit(r)
    PROVE  Version!Upgrade \/ Version!Downgrade \/ UNCHANGED <<schema, Tracked>>
<1> DEFINE f == This(r)
<1>1. run[r].cmd \in {"up", "down"} /\ run[r].at = "commit"
  BY DEF MigrationsInv, MigrationsTypeOK, Process, Commit
<1>2. /\ f \in File
      /\ Tracked' = IF run[r].cmd = "up" THEN Tracked \cup {f} ELSE Tracked \ {f}
      /\ schema' = Tracked'
  BY CommitTracks
<1>3. schema = Tracked
  BY DEF MigrationsInv, SchemaInStep
<1>4. f \in Nat /\ f > 0 /\ f \in 1..Files
  BY <1>2, FilesAre DEF File
<1>5. /\ run[r].cmd = "up" => Tracked = 1..(f - 1)
      /\ run[r].cmd = "down" /\ f \in Tracked => Tracked = 1..f
  BY CommitsAtTheEnd
<1>6. run[r].cmd = "down" => f \in HasDown
  BY <1>1 DEF Revertible, Within
<1> HIDE DEF f
<1>7. CASE run[r].cmd = "up"
  <2>1. Tracked = 1..(f - 1) /\ Tracked' = 1..f
    BY <1>2, <1>4, <1>5, <1>7
  <2> QED BY <1>2, <1>3, <1>4, <2>1 DEF Version!Upgrade, Version!At
<1>8. CASE run[r].cmd = "down" /\ f \in Tracked
  <2>1. Tracked = 1..f /\ Tracked' = 1..(f - 1)
    BY <1>2, <1>4, <1>5, <1>8
  <2> QED BY <1>2, <1>3, <1>6, <1>8, <2>1 DEF Version!Downgrade, Version!At
<1>9. CASE run[r].cmd = "down" /\ f \notin Tracked
  BY <1>2, <1>3, <1>9
<1> QED BY <1>1, <1>7, <1>8, <1>9

LEMMA MigrationsStep ==
    MigrationsInv /\ Revertible /\ [MigrationsNext]_migrations
        => [Version!Upgrade \/ Version!Downgrade]_<<schema, Tracked>>
<1> SUFFICES ASSUME MigrationsInv, Revertible, [MigrationsNext]_migrations
             PROVE  [Version!Upgrade \/ Version!Downgrade]_<<schema, Tracked>>
  OBVIOUS
<1>1. CASE UNCHANGED <<schema, applied>>
  BY <1>1 DEF Tracked
<1>2. CASE \E r \in Runs : Commit(r)
  BY <1>2, CommitIsVersion
<1>3. UNCHANGED <<schema, applied>> \/ \E r \in Runs : Commit(r)
  BY DEF MigrationsNext, migrations, Start, ListPending, ListLatest, Finish, Begin, RunSql,
         Track, Fail
<1> QED BY <1>1, <1>2, <1>3

\* The schema goes through one version after the other, for any number of
\* files, any of which may lack a down file, and of runs that overlap, fail or
\* die (src/db/migrate.ts).
THEOREM OneByOneCorrect == MigrationsSpec => OneByOne
<1>1. MigrationsInit => Version!VersionsInit
  BY DEF MigrationsInit, Version!VersionsInit, Version!At, Tracked
<1>2. MigrationsInv => MigrationsTypeOK
  BY DEF MigrationsInv
<1> QED
  BY <1>1, <1>2, MigrationsInvInit, MigrationsInvNext, RevertibleInit, RevertibleNext,
     MigrationsStep, PTL DEF MigrationsSpec, OneByOne, Version!VersionsSpec

-----------------------------------------------------------------------------
(* The pool: a client or a place in the queue                                  *)

\* Nobody has both or waits twice, and nobody waits while a client is free.
Lending ==
    /\ lent \subseteq Tickets /\ queue \in Seq(Tickets) /\ IsFiniteSet(lent)
    /\ \A i \in 1..Len(queue) : queue[i] \notin lent
    /\ \A i, j \in 1..Len(queue) : i # j => queue[i] # queue[j]
    /\ Cardinality(lent) <= MaxClients
    /\ queue # <<>> => Cardinality(lent) = MaxClients

LEMMA Waits ==
    ASSUME queue \in Seq(Tickets)
    PROVE  /\ Len(queue) \in Nat
           /\ \A t : t \in Waiting <=> \E i \in 1..Len(queue) : queue[i] = t
BY DEF Waiting

LEMMA WaitsThen ==
    ASSUME queue' \in Seq(Tickets)
    PROVE  \A t : t \in Waiting' <=> \E i \in 1..Len(queue') : queue'[i] = t
BY DEF Waiting

LEMMA ConnectKeeps ==
    ASSUME Lending, NEW t \in Tickets, t \notin lent \cup Waiting, Connect(t)
    PROVE  /\ Lending' /\ lent \subseteq lent'
           /\ lent' \cup Waiting' = lent \cup Waiting \cup {t}
<1>0. /\ lent \subseteq Tickets /\ queue \in Seq(Tickets) /\ IsFiniteSet(lent)
      /\ Cardinality(lent) \in Nat /\ MaxClients \in Nat /\ Len(queue) \in Nat
  BY Waits, FS_CardinalityType, PoolAssumption DEF Lending
<1>1. CASE Cardinality(lent) < MaxClients
  <2>1. lent' = lent \cup {t} /\ queue' = queue /\ queue = <<>>
    BY <1>0, <1>1 DEF Connect, Lending
  <2>2. IsFiniteSet(lent') /\ Cardinality(lent') = Cardinality(lent) + 1
    BY <1>0, <2>1, FS_AddElement
  <2>3. Lending'
    BY <1>0, <1>1, <2>1, <2>2 DEF Lending
  <2> QED BY <2>1, <2>3 DEF Waiting
<1>2. CASE ~ Cardinality(lent) < MaxClients
  <2>1. lent' = lent /\ queue' = Append(queue, t)
    BY <1>2 DEF Connect
  <2>2. /\ queue' \in Seq(Tickets) /\ Len(queue') = Len(queue) + 1
        /\ \A i \in 1..Len(queue) : queue'[i] = queue[i]
        /\ queue'[Len(queue) + 1] = t
    BY <1>0, <2>1, AppendProperties
  <2>3. \A i \in 1..Len(queue') : i \in 1..Len(queue) \/ i = Len(queue) + 1
    BY <1>0, <2>2
  <2>4. \A i \in 1..Len(queue) : queue[i] \notin lent /\ queue[i] # t
    BY <1>0, Waits DEF Lending
  <2>5. \A i \in 1..Len(queue') : queue'[i] \notin lent'
    BY <2>1, <2>2, <2>3, <2>4
  <2>6. \A i, j \in 1..Len(queue') : i # j => queue'[i] # queue'[j]
    <3>1. \A i, j \in 1..Len(queue) : i # j => queue[i] # queue[j]
      BY DEF Lending
    <3> QED BY <2>2, <2>3, <2>4, <3>1
  <2>7. Cardinality(lent) = MaxClients
    BY <1>0, <1>2 DEF Lending
  <2>8. Lending'
    BY <1>0, <2>1, <2>2, <2>5, <2>6, <2>7 DEF Lending
  <2>9. \A u : u \in Waiting' <=> u \in Waiting \/ u = t
    <3>1. SUFFICES ASSUME NEW u PROVE u \in Waiting' <=> u \in Waiting \/ u = t
      OBVIOUS
    <3>2. u \in Waiting' => u \in Waiting \/ u = t
      BY <1>0, <2>2, <2>3, Waits, WaitsThen
    <3>3. u \in Waiting => u \in Waiting'
      <4>1. SUFFICES ASSUME NEW i \in 1..Len(queue), queue[i] = u PROVE u \in Waiting'
        BY <1>0, Waits
      <4>2. i \in 1..Len(queue') /\ queue'[i] = u
        BY <1>0, <2>2, <4>1
      <4> QED BY <2>2, <4>2, WaitsThen
    <3>4. t \in Waiting'
      <4>1. Len(queue) + 1 \in 1..Len(queue')
        BY <1>0, <2>2
      <4> QED BY <2>2, <4>1, WaitsThen
    <3> QED BY <3>2, <3>3, <3>4
  <2> QED BY <2>1, <2>8, <2>9
<1> QED BY <1>1, <1>2

LEMMA ReleaseKeeps ==
    ASSUME Lending, NEW t \in lent, Release(t)
    PROVE  /\ Lending' /\ lent \ {t} \subseteq lent'
           /\ lent' \cup Waiting' = (lent \cup Waiting) \ {t}
<1>0. /\ lent \subseteq Tickets /\ queue \in Seq(Tickets) /\ IsFiniteSet(lent)
      /\ Cardinality(lent) \in Nat /\ MaxClients \in Nat /\ Len(queue) \in Nat
      /\ Cardinality(lent) <= MaxClients
  BY Waits, FS_CardinalityType, PoolAssumption DEF Lending
<1>1. IsFiniteSet(lent \ {t}) /\ Cardinality(lent \ {t}) = Cardinality(lent) - 1
  BY <1>0, FS_RemoveElement
<1>2. CASE queue = <<>>
  <2>1. lent' = lent \ {t} /\ queue' = queue
    BY <1>2 DEF Release
  <2>2. Lending'
    BY <1>0, <1>1, <1>2, <2>1 DEF Lending
  <2>3. Waiting = {} /\ Waiting' = {}
    BY <1>2, <2>1 DEF Waiting
  <2> QED BY <2>1, <2>2, <2>3
<1>3. CASE queue # <<>>
  <2>1. lent' = (lent \ {t}) \cup {Head(queue)} /\ queue' = Tail(queue)
    BY <1>3 DEF Release
  <2>2. /\ Head(queue) = queue[1] /\ Head(queue) \in Tickets /\ 1 \in 1..Len(queue)
        /\ queue' \in Seq(Tickets) /\ Len(queue') = Len(queue) - 1
        /\ \A i \in 1..Len(queue') : queue'[i] = queue[i + 1]
    BY <1>0, <1>3, <2>1, HeadTailProperties
  <2>3. \A i \in 1..Len(queue') : i + 1 \in 1..Len(queue) /\ i + 1 # 1
    BY <1>0, <2>2
  <2>4. /\ \A i \in 1..Len(queue) : queue[i] \notin lent
        /\ \A i, j \in 1..Len(queue) : i # j => queue[i] # queue[j]
        /\ Cardinality(lent) = MaxClients
    BY <1>3 DEF Lending
  <2>5. Head(queue) \notin lent
    BY <2>2, <2>4
  <2>6. IsFiniteSet(lent') /\ Cardinality(lent') = Cardinality(lent)
    <3>1. Head(queue) \notin lent \ {t}
      BY <2>5
    <3>2. /\ IsFiniteSet((lent \ {t}) \cup {Head(queue)})
          /\ Cardinality((lent \ {t}) \cup {Head(queue)}) = Cardinality(lent \ {t}) + 1
      BY <1>1, <3>1, FS_AddElement
    <3> QED BY <1>0, <1>1, <2>1, <3>2
  <2>7. \A i \in 1..Len(queue') : queue'[i] \notin lent'
    BY <2>1, <2>2, <2>3, <2>4
  <2>8. \A i, j \in 1..Len(queue') : i # j => queue'[i] # queue'[j]
    <3>1. SUFFICES ASSUME NEW i \in 1..Len(queue'), NEW j \in 1..Len(queue'), i # j
                   PROVE  queue'[i] # queue'[j]
      OBVIOUS
    <3>2. i + 1 # j + 1
      BY <1>0, <2>2, <3>1
    <3> QED BY <2>2, <2>3, <2>4, <3>2
  <2>9. Lending'
    BY <1>0, <2>1, <2>2, <2>4, <2>6, <2>7, <2>8 DEF Lending
  <2>10. \A u : u \in Waiting <=> u \in Waiting' \/ u = Head(queue)
    <3>1. SUFFICES ASSUME NEW u PROVE u \in Waiting <=> u \in Waiting' \/ u = Head(queue)
      OBVIOUS
    <3>2. u \in Waiting' => u \in Waiting
      BY <1>0, <2>2, <2>3, Waits, WaitsThen
    <3>3. Head(queue) \in Waiting
      BY <1>0, <2>2, Waits
    <3>4. u \in Waiting /\ u # Head(queue) => u \in Waiting'
      <4>1. SUFFICES ASSUME NEW i \in 1..Len(queue), queue[i] = u, u # Head(queue)
                     PROVE  u \in Waiting'
        BY <1>0, Waits
      <4>2. i # 1
        BY <2>2, <4>1
      <4>3. i - 1 \in 1..Len(queue') /\ (i - 1) + 1 = i
        BY <1>0, <2>2, <4>2
      <4>4. queue'[i - 1] = u
        BY <2>2, <4>1, <4>3
      <4> QED BY <2>2, <4>3, <4>4, WaitsThen
    <3> QED BY <3>2, <3>3, <3>4
  <2>11. t \notin Waiting
    BY <1>0, <2>4, Waits
  <2> QED BY <2>1, <2>2, <2>9, <2>10, <2>11
<1> QED BY <1>2, <1>3

-----------------------------------------------------------------------------
(* The pool: where the sweeps are                                              *)

\* One run per job holds its lock, and a client with it.
Sweeping ==
    /\ sweepAt \in [Sweeps -> {"off", "connecting", "running", "querying"}]
    /\ runs \subseteq Sweeps
    /\ \A s, o \in runs : Job[s] = Job[o] => s = o
    /\ \A s \in Sweeps :
           /\ s \in runs <=> sweepAt[s] \in {"running", "querying"}
           /\ s \in runs => Own(s) \in lent
           /\ Own(s) \in lent \cup Waiting => sweepAt[s] # "off"
           /\ Inner(s) \in lent \cup Waiting => sweepAt[s] = "querying"

PoolInv == Lending /\ Sweeping

LEMMA TicketsAre ==
    /\ \A s \in Sweeps : Own(s) \in Tickets /\ Inner(s) \in Tickets
    /\ \A r \in Requests : Query(r) \in Tickets
    /\ \A s, o \in Sweeps : Own(s) # Inner(o) /\ (Own(s) = Own(o) => s = o)
                             /\ (Inner(s) = Inner(o) => s = o)
    /\ \A s \in Sweeps, r \in Requests : Own(s) # Query(r) /\ Inner(s) # Query(r)
<1>1. \A s \in Sweeps : Own(s) \in Tickets /\ Inner(s) \in Tickets
  BY DEF Tickets, Own, Inner
<1>2. \A r \in Requests : Query(r) \in Tickets
  BY DEF Tickets, Query
<1>3. \A s, o : Own(s) # Inner(o) /\ (Own(s) = Own(o) => s = o)
                /\ (Inner(s) = Inner(o) => s = o)
  BY DEF Own, Inner
<1>4. \A s, r : Own(s) # Query(r) /\ Inner(s) # Query(r)
  BY DEF Own, Inner, Query
<1> QED BY <1>1, <1>2, <1>3, <1>4

LEMMA PoolInvInit == PoolInit => PoolInv
<1> SUFFICES ASSUME PoolInit PROVE PoolInv
  OBVIOUS
<1>1. lent = {} /\ queue = <<>> /\ Waiting = {}
  BY DEF PoolInit, Waiting
<1>2. Lending
  <2>1. queue \in Seq(Tickets) /\ Len(queue) = 0
    BY <1>1
  <2>2. IsFiniteSet(lent) /\ Cardinality(lent) = 0
    BY <1>1, FS_EmptySet
  <2> QED BY <1>1, <2>1, <2>2, PoolAssumption DEF Lending
<1>3. Sweeping
  BY <1>1 DEF PoolInit, Sweeping
<1> QED BY <1>2, <1>3 DEF PoolInv

LEMMA PoolInvNext == PoolInv /\ [PoolNext]_pool => PoolInv'
<1> SUFFICES ASSUME PoolInv, [PoolNext]_pool PROVE PoolInv'
  OBVIOUS
<1>0. Lending /\ Sweeping /\ lent \subseteq Tickets
  BY DEF PoolInv, Lending
<1>1. ASSUME NEW r \in Requests, Call(r) PROVE PoolInv'
  <2>1. /\ Lending' /\ lent \subseteq lent' /\ UNCHANGED <<sweepAt, runs>>
        /\ lent' \cup Waiting' = lent \cup Waiting \cup {Query(r)}
    BY <1>0, <1>1, TicketsAre, ConnectKeeps DEF Call
  <2>2. Sweeping'
    BY <1>0, <2>1, TicketsAre DEF Sweeping
  <2> QED BY <2>1, <2>2 DEF PoolInv
<1>2. ASSUME NEW r \in Requests, Answer(r) PROVE PoolInv'
  <2>1. /\ Lending' /\ lent \ {Query(r)} \subseteq lent' /\ UNCHANGED <<sweepAt, runs>>
        /\ lent' \cup Waiting' = (lent \cup Waiting) \ {Query(r)}
    BY <1>0, <1>2, ReleaseKeeps DEF Answer
  <2>2. Sweeping'
    BY <1>0, <2>1, TicketsAre DEF Sweeping
  <2> QED BY <2>1, <2>2 DEF PoolInv
<1>3. ASSUME NEW s \in Sweeps, Tick(s) PROVE PoolInv'
  <2>1. Own(s) \notin lent \cup Waiting
    BY <1>0, <1>3 DEF Tick, Sweeping
  <2>2. /\ Lending' /\ lent \subseteq lent' /\ UNCHANGED runs
        /\ lent' \cup Waiting' = lent \cup Waiting \cup {Own(s)}
        /\ sweepAt[s] = "off" /\ sweepAt' = [sweepAt EXCEPT ![s] = "connecting"]
    BY <1>0, <1>3, <2>1, TicketsAre, ConnectKeeps DEF Tick
  <2>3. Sweeping'
    BY <1>0, <2>2, TicketsAre DEF Sweeping
  <2> QED BY <2>2, <2>3 DEF PoolInv
<1>4. ASSUME NEW s \in Sweeps, TryLock(s) PROVE PoolInv'
  <2>0. sweepAt[s] = "connecting" /\ Own(s) \in lent /\ s \notin runs
    BY <1>0, <1>4 DEF TryLock, Sweeping
  <2>1. CASE /\ \A o \in runs : Job[o] # Job[s]
             /\ runs' = runs \cup {s}
             /\ sweepAt' = [sweepAt EXCEPT ![s] = "running"]
             /\ UNCHANGED <<lent, queue>>
    <3>1. Lending'
      BY <1>0, <2>1 DEF Lending
    <3>2. Waiting' = Waiting
      BY <2>1 DEF Waiting
    <3>3. Sweeping'
      BY <1>0, <2>0, <2>1, <3>2 DEF Sweeping
    <3> QED BY <3>1, <3>3 DEF PoolInv
  <2>2. CASE /\ Release(Own(s))
             /\ sweepAt' = [sweepAt EXCEPT ![s] = "off"]
             /\ UNCHANGED runs
    <3>1. /\ Lending' /\ lent \ {Own(s)} \subseteq lent'
          /\ lent' \cup Waiting' = (lent \cup Waiting) \ {Own(s)}
      BY <1>0, <2>0, <2>2, ReleaseKeeps
    <3>2. Sweeping'
      BY <1>0, <2>0, <2>2, <3>1, TicketsAre DEF Sweeping
    <3> QED BY <3>1, <3>2 DEF PoolInv
  <2> QED BY <1>4, <2>1, <2>2 DEF TryLock
<1>5. ASSUME NEW s \in Sweeps, SweepQuery(s) PROVE PoolInv'
  <2>1. Inner(s) \notin lent \cup Waiting
    BY <1>0, <1>5 DEF SweepQuery, Sweeping
  <2>2. /\ Lending' /\ lent \subseteq lent' /\ UNCHANGED runs
        /\ lent' \cup Waiting' = lent \cup Waiting \cup {Inner(s)}
        /\ sweepAt[s] = "running" /\ sweepAt' = [sweepAt EXCEPT ![s] = "querying"]
    BY <1>0, <1>5, <2>1, TicketsAre, ConnectKeeps DEF SweepQuery
  <2>3. Sweeping'
    BY <1>0, <2>2, TicketsAre DEF Sweeping
  <2> QED BY <2>2, <2>3 DEF PoolInv
<1>6. ASSUME NEW s \in Sweeps, SweepAnswer(s) PROVE PoolInv'
  <2>1. /\ Lending' /\ lent \ {Inner(s)} \subseteq lent' /\ UNCHANGED runs
        /\ lent' \cup Waiting' = (lent \cup Waiting) \ {Inner(s)}
        /\ sweepAt[s] = "querying" /\ sweepAt' = [sweepAt EXCEPT ![s] = "running"]
    BY <1>0, <1>6, ReleaseKeeps DEF SweepAnswer
  <2>2. Sweeping'
    BY <1>0, <2>1, TicketsAre DEF Sweeping
  <2> QED BY <2>1, <2>2 DEF PoolInv
<1>7. ASSUME NEW s \in Sweeps, SweepEnds(s) PROVE PoolInv'
  <2>0. Own(s) \in lent
    BY <1>0, <1>7 DEF SweepEnds, Sweeping
  <2>1. /\ Lending' /\ lent \ {Own(s)} \subseteq lent' /\ runs' = runs \ {s}
        /\ lent' \cup Waiting' = (lent \cup Waiting) \ {Own(s)}
        /\ sweepAt[s] = "running" /\ sweepAt' = [sweepAt EXCEPT ![s] = "off"]
    BY <1>0, <1>7, <2>0, ReleaseKeeps DEF SweepEnds
  <2>2. Sweeping'
    BY <1>0, <2>1, TicketsAre DEF Sweeping
  <2> QED BY <2>1, <2>2 DEF PoolInv
<1>8. CASE UNCHANGED pool
  BY <1>0, <1>8 DEF pool, PoolInv, Lending, Sweeping, Waiting
<1> QED BY <1>1, <1>2, <1>3, <1>4, <1>5, <1>6, <1>7, <1>8 DEF PoolNext

\* The sweeps that hold a client and wait for another are of different jobs, of
\* which there are fewer than clients.
LEMMA PoolMoves == PoolInv => SomebodyMoves
<1> SUFFICES ASSUME PoolInv, queue # <<>>, \A t \in lent : t \in {Own(s) : s \in Stuck}
             PROVE  FALSE
  BY DEF SomebodyMoves
<1>1. IsFiniteSet(lent) /\ Cardinality(lent) = MaxClients
  BY DEF PoolInv, Lending
<1>2. \A s, o \in runs : Job[s] = Job[o] => s = o
  BY DEF PoolInv, Sweeping
<1>3. runs \subseteq Sweeps /\ Job \in [Sweeps -> Jobs]
  BY PoolAssumption DEF PoolInv, Sweeping
<1>4. \A t \in lent : t.of \in runs /\ t = Own(t.of)
  BY DEF Stuck, Own
<1>5. PICK f \in [lent -> Jobs] : \A t \in lent : f[t] = Job[t.of]
  <2>1. [t \in lent |-> Job[t.of]] \in [lent -> Jobs]
    BY <1>3, <1>4
  <2> QED BY <2>1
<1>6. PICK t \in lent, u \in lent : t # u /\ Job[t.of] = Job[u.of]
  <2>1. IsFiniteSet(Jobs) /\ Cardinality(Jobs) < Cardinality(lent)
    BY <1>1, PoolAssumption
  <2>2. \E t, u \in lent : t # u /\ f[t] = f[u]
    BY <1>1, <2>1, FS_PigeonHole
  <2> QED BY <1>5, <2>2
<1>7. t.of = u.of
  BY <1>2, <1>4, <1>6
<1> QED BY <1>4, <1>6, <1>7

\* Whoever waits for a client of the pool waits for somebody who moves, for any
\* number of requests, runs and jobs, of which there are fewer than clients
\* (src/db/pool.ts).
THEOREM SomebodyMovesCorrect == PoolSpec => []SomebodyMoves
BY PoolInvInit, PoolInvNext, PoolMoves, PTL DEF PoolSpec

-----------------------------------------------------------------------------
(* All the parts together: what each keeps when it moves, it keeps when        *)
(* another one does.                                                           *)

PlatformInv ==
    /\ CheckoutInv /\ CashoutInv /\ MigrationsInv /\ PoolInv
    /\ part = "office" => late = {}

LEMMA PlatformInvInit == Init => PlatformInv
<1>1. Init => late = {}
  BY DEF Init, CheckoutInit
<1> QED
  BY <1>1, CheckoutInvInit, CashoutInvInit, MigrationsInvInit, PoolInvInit DEF Init, PlatformInv

\* The parts that the shop and the anchor's customers leave alone.
LEMMA AnchorRests ==
    /\ CashoutInv /\ UNCHANGED cashout => CashoutInv'
    /\ MigrationsInv /\ UNCHANGED migrations => MigrationsInv'
    /\ PoolInv /\ UNCHANGED pool => PoolInv'
BY CashoutInvNext, MigrationsInvNext, PoolInvNext

LEMMA ShopRests ==
    CheckoutInv /\ UNCHANGED <<backOffice, checkout>> => CheckoutInv'
BY CheckoutInvNext

\* What the payers' part starts with is a shop like those other parts create.
LEMMA OpenShopKeeps ==
    ASSUME CheckoutInv, OpenShop
    PROVE  CheckoutInv'
<1>1. /\ UNCHANGED <<tables, books, cookie, request, desk, visit, late>>
      /\ links' = Links /\ adminCookie' = TRUE
  BY DEF OpenShop
<1>2. BackOfficeTypeOK' /\ Counts' /\ Grounded'
  BY <1>1 DEF CheckoutInv, tables, books, BackOfficeTypeOK, Counts, Grounded, InForce, Manifest
<1>3. CheckoutTypeOK'
  BY <1>1 DEF CheckoutInv, desk, CheckoutTypeOK
<1>4. LateBarred' /\ LateWhere'
  BY <1>1 DEF CheckoutInv, tables, LateBarred, LateWhere, Bars, Shop
<1>5. Reservations'
  BY <1>1 DEF CheckoutInv, desk, Reservations, ReservedOnce, HeldIsReserved, BookedIsOver, Mine
<1> QED BY <1>2, <1>3, <1>4, <1>5 DEF CheckoutInv

LEMMA PlatformInvNext == PlatformInv /\ [Next]_vars => PlatformInv'
<1> SUFFICES ASSUME PlatformInv, [Next]_vars PROVE PlatformInv'
  OBVIOUS
<1>0. /\ CheckoutInv /\ CashoutInv /\ MigrationsInv /\ PoolInv
      /\ part = "office" => late = {}
  BY DEF PlatformInv
<1>1. CASE OpenShop
  <2>1. UNCHANGED <<cashout, migrations, pool, part>> /\ part # "office"
    BY <1>1 DEF OpenShop, BesideShop
  <2> QED BY <1>0, <1>1, <2>1, OpenShopKeeps, AnchorRests DEF PlatformInv
<1>2. CASE Office
  <2>1. /\ UNCHANGED <<cashout, migrations, pool, part, checkout>> /\ late = {} /\ BackOfficeNext
    BY <1>0, <1>2 DEF Office, BesideShop
  <2>2. UNCHANGED <<shop, desk, visit, late>>
    BY <2>1 DEF checkout
  <2>3. Administer
    BY <2>1, <2>2 DEF Administer
  <2>4. CheckoutInv'
    BY <1>0, <2>3, CheckoutInvNext DEF CheckoutNext
  <2> QED BY <1>0, <2>1, <2>2, <2>4, AnchorRests DEF PlatformInv
<1>3. CASE MerchantSide \/ PayerSide
  <2>1. UNCHANGED <<cashout, migrations, pool, part>> /\ part # "office" /\ CheckoutNext
    BY <1>3 DEF MerchantSide, PayerSide, BesideShop
  <2>2. CheckoutInv'
    BY <1>0, <2>1, CheckoutInvNext
  <2> QED BY <1>0, <2>1, <2>2, AnchorRests DEF PlatformInv
<1>4. CASE Withdrawal \/ Deposit
  <2>1. UNCHANGED <<backOffice, checkout, migrations, pool, part>> /\ CashoutNext
    BY <1>4 DEF Withdrawal, Deposit, BesideAnchor
  <2>2. CashoutInv' /\ UNCHANGED late
    BY <1>0, <2>1, CashoutInvNext DEF checkout
  <2> QED BY <1>0, <2>1, <2>2, ShopRests, AnchorRests DEF PlatformInv
<1>5. CASE Migrate
  <2>1. UNCHANGED <<backOffice, checkout, cashout, pool, part>> /\ MigrationsNext
    BY <1>5 DEF Migrate
  <2>2. MigrationsInv' /\ UNCHANGED late
    BY <1>0, <2>1, MigrationsInvNext DEF checkout
  <2> QED BY <1>0, <2>1, <2>2, ShopRests, AnchorRests DEF PlatformInv
<1>6. CASE Lend
  <2>1. UNCHANGED <<backOffice, checkout, cashout, migrations, part>> /\ PoolNext
    BY <1>6 DEF Lend
  <2>2. PoolInv' /\ UNCHANGED late
    BY <1>0, <2>1, PoolInvNext DEF checkout
  <2> QED BY <1>0, <2>1, <2>2, ShopRests, AnchorRests DEF PlatformInv
<1>7. CASE UNCHANGED vars
  <2>1. UNCHANGED <<backOffice, checkout, cashout, migrations, pool, part>> /\ UNCHANGED late
    BY <1>7 DEF vars, checkout
  <2> QED BY <1>0, <2>1, ShopRests, AnchorRests DEF PlatformInv
<1> QED BY <1>1, <1>2, <1>3, <1>4, <1>5, <1>6, <1>7 DEF Next

LEMMA PlatformInvariant == Spec => []PlatformInv
BY PlatformInvInit, PlatformInvNext, PTL DEF Spec

\* The parts' types, however the parts take turns: no table, request or process
\* of one gets a value the code does not give it because another one moved
\* (src/admin, src/payments, src/withdrawals, src/deposits, src/db).
THEOREM TypesTogether == Spec => []TypesOK
<1>1. PlatformInv => TypesOK
  BY DEF PlatformInv, CheckoutInv, CashoutInv, MigrationsInv, PoolInv, Lending, Sweeping,
         PoolTypeOK, TypesOK
<1> QED BY <1>1, PlatformInvariant, PTL

\* The parts' promises hold of the platform as it is run, and not only of each
\* part alone.
THEOREM PromisesTogether ==
    Spec => [](/\ AuditTellsTruth /\ EffectiveAtOnce /\ PaidAsReserved /\ StartsOnce
               /\ SchemaInStep /\ NoGaps /\ SomebodyMoves)
<1>1. PlatformInv => AuditTellsTruth
  BY DEF PlatformInv, CheckoutInv, Counts, Grounded, AuditTellsTruth
<1>2. PlatformInv => EffectiveAtOnce
  BY DEF PlatformInv, CheckoutInv, LateWhere, EffectiveAtOnce
<1>3. PlatformInv => PaidAsReserved
  BY ReservationsMean DEF PlatformInv, CheckoutInv
<1>4. PlatformInv => StartsOnce
  BY DEF PlatformInv, CashoutInv
<1>5. PlatformInv => SchemaInStep /\ NoGaps
  BY DEF PlatformInv, MigrationsInv
<1>6. PlatformInv => SomebodyMoves
  BY PoolMoves DEF PlatformInv
<1> QED BY <1>1, <1>2, <1>3, <1>4, <1>5, <1>6, PlatformInvariant, PTL
=============================================================================
