----------------------------- MODULE BackOffice ------------------------------
(***************************************************************************)
(* The administrators' side of src/admin, src/admin-auth and src/bazaar:   *)
(* decisions on merchants, payers' addresses and listings, and the row of  *)
(* `admin_actions` each leaves behind.  A decision and its row are two     *)
(* statements of one request, with other requests between them.            *)
(*                                                                         *)
(* Which administrator acts is left out: the row copies it from the        *)
(* request's token.  Decisions on payments and on the reconciler's cursor  *)
(* are in Reconciler, the facilitator's resume is in TreasurySweep.        *)
(***************************************************************************)
EXTENDS Naturals

CONSTANTS
    Merchants,
    Payers,        \* addresses that pay
    Listings,      \* bazaar listings anybody may submit
    MaxDecisions,  \* bound: decisions
    MaxLosses      \* bound: audit rows that fail or die with the process

ASSUME BackOfficeAssumption == MaxDecisions \in Nat /\ MaxLosses \in Nat

VARIABLES
    adminCookie,  \* an administrator has a session that verifies
    suspended,    \* merchants.status = 'suspended'
    blocked,      \* blocked_addresses
    listing,      \* bazaar_listings.status; "none" before it is submitted
    inHand,       \* decisions taken by requests that did not log them yet
    trail,        \* rows of admin_actions for each decision
    made,         \* history: how often each decision took effect
    lost,         \* history: rows that were never written
    decisions, losses

tables    == <<suspended, blocked, listing>>
books     == <<inHand, trail, made, lost, decisions, losses>>
backOffice == <<adminCookie, tables, books>>

Decision ==
    [what : {"suspend", "reactivate", "set-tier"}, on : Merchants]
        \cup [what : {"block", "unblock"}, on : Payers]
        \cup [what : {"approved", "rejected"}, on : Listings]

BackOfficeInit ==
    /\ adminCookie = FALSE
    /\ suspended = {} /\ blocked = {}
    /\ listing = [l \in Listings |-> "none"]
    /\ inHand = [d \in Decision |-> 0] /\ trail = [d \in Decision |-> 0]
    /\ made = [d \in Decision |-> 0] /\ lost = [d \in Decision |-> 0]
    /\ decisions = 0 /\ losses = 0

\* The right password; a wrong one changes nothing.
AdminLogin ==
    /\ adminCookie' = TRUE
    /\ UNCHANGED <<tables, books>>

\* Log-out, or the token's twelve hours are over.
AdminSessionEnds ==
    /\ adminCookie' = FALSE
    /\ UNCHANGED <<tables, books>>

-----------------------------------------------------------------------------
(* Decisions: AdminGuard, the service's statement, and the request goes on to  *)
(* its log statement.                                                          *)

\* The request holds a decision that still has to be logged.
Hold(d) ==
    /\ adminCookie /\ decisions < MaxDecisions
    /\ decisions' = decisions + 1
    /\ inHand' = [inHand EXCEPT ![d] = @ + 1]
    /\ UNCHANGED <<adminCookie, trail, lost, losses>>

Decide(d) == Hold(d) /\ made' = [made EXCEPT ![d] = @ + 1]

SetMerchantStatus(m) ==
    \/ /\ Decide([what |-> "suspend", on |-> m])
       /\ suspended' = suspended \cup {m}
       /\ UNCHANGED <<blocked, listing>>
    \/ /\ Decide([what |-> "reactivate", on |-> m])
       /\ suspended' = suspended \ {m}
       /\ UNCHANGED <<blocked, listing>>

\* risk_tier: no other code reads it.
SetMerchantTier(m) ==
    /\ Decide([what |-> "set-tier", on |-> m])
    /\ UNCHANGED tables

\* Broken variant of BlockAddress: ON CONFLICT DO NOTHING, and the log after it.
BlockAddressAnyway(p) ==
    /\ Hold([what |-> "block", on |-> p])
    /\ blocked' = blocked \cup {p}
    /\ made' = IF p \in blocked THEN made
               ELSE [made EXCEPT ![[what |-> "block", on |-> p]] = @ + 1]
    /\ UNCHANGED <<suspended, listing>>

\* An address that is blocked already is a conflict: nothing is done or logged.
BlockAddress(p) ==
    /\ p \notin blocked
    /\ Decide([what |-> "block", on |-> p])
    /\ blocked' = blocked \cup {p}
    /\ UNCHANGED <<suspended, listing>>

UnblockAddress(p) ==
    /\ p \in blocked
    /\ Decide([what |-> "unblock", on |-> p])
    /\ blocked' = blocked \ {p}
    /\ UNCHANGED <<suspended, listing>>

\* Any verdict may follow any other; a listing that does not exist is not found.
SetBazaarListingStatus(l) ==
    /\ listing[l] # "none"
    /\ \E verdict \in {"approved", "rejected"} :
           /\ Decide([what |-> verdict, on |-> l])
           /\ listing' = [listing EXCEPT ![l] = verdict]
    /\ UNCHANGED <<suspended, blocked>>

LogDecision(d) ==
    /\ inHand[d] > 0
    /\ inHand' = [inHand EXCEPT ![d] = @ - 1]
    /\ trail' = [trail EXCEPT ![d] = @ + 1]
    /\ UNCHANGED <<adminCookie, tables, made, lost, decisions, losses>>

\* The INSERT fails, or the process dies: the decision stands.
LogLost(d) ==
    /\ inHand[d] > 0 /\ losses < MaxLosses
    /\ losses' = losses + 1
    /\ inHand' = [inHand EXCEPT ![d] = @ - 1]
    /\ lost' = [lost EXCEPT ![d] = @ + 1]
    /\ UNCHANGED <<adminCookie, tables, trail, made, decisions>>

-----------------------------------------------------------------------------
(* BazaarService                                                              *)

SubmitListing(l) ==
    /\ listing[l] = "none"
    /\ listing' = [listing EXCEPT ![l] = "pending"]
    /\ UNCHANGED <<adminCookie, suspended, blocked, books>>

Manifest == {l \in Listings : listing[l] = "approved"}

BackOfficeNext ==
    \/ AdminLogin \/ AdminSessionEnds
    \/ \E m \in Merchants : SetMerchantStatus(m) \/ SetMerchantTier(m)
    \/ \E p \in Payers : BlockAddress(p) \/ UnblockAddress(p)
    \/ \E l \in Listings : SetBazaarListingStatus(l) \/ SubmitListing(l)
    \/ \E d \in Decision : LogDecision(d) \/ LogLost(d)

-----------------------------------------------------------------------------
BackOfficeTypeOK ==
    /\ adminCookie \in BOOLEAN
    /\ suspended \subseteq Merchants /\ blocked \subseteq Payers
    /\ listing \in [Listings -> {"none", "pending", "approved", "rejected"}]
    /\ inHand \in [Decision -> Nat] /\ trail \in [Decision -> Nat]
    /\ made \in [Decision -> Nat] /\ lost \in [Decision -> Nat]
    /\ decisions \in Nat /\ losses \in Nat

\* What the tables show to have been decided.
InForce ==
    [what : {"suspend"}, on : suspended]
        \cup [what : {"block"}, on : blocked]
        \cup [what : {"approved"}, on : Manifest]
        \cup [what : {"rejected"}, on : {l \in Listings : listing[l] = "rejected"}]

\* The audit trail names every decision as often as it took effect, and never
\* one that did not, apart from requests that are on their way to log and from
\* rows that a failure lost; and whatever is in force was decided.  With
\* decisions that conflict, repeat or undo each other, requests that log in
\* another order than they decided, and failures between the two statements
\* (src/src/admin/admin.controller.ts:95-162, 284-293).
AuditTellsTruth ==
    /\ \A d \in Decision : trail[d] + inHand[d] + lost[d] = made[d]
    /\ \A d \in InForce : made[d] > 0

\* "Every mutation an admin makes is written to `admin_actions`" (README.md:170):
\* what is in force has a row that says so, or a request about to write it.
EveryMutationLogged == \A d \in InForce : trail[d] + inHand[d] > 0
=============================================================================
