---------------------------- MODULE LedgerProofs ----------------------------
(***************************************************************************)
(* The reconciler implements the ledger: every step of Reconciler, seen    *)
(* through (due, booked, acked), is a step of Ledger or no step at all.    *)
(***************************************************************************)
EXTENDS ReconcilerProofs

Due == UNION {Owed(Account[w]) : w \in Watchers}

-----------------------------------------------------------------------------
(* Only a payment owed to the book is booked: a page holds operations of   *)
(* the account, and the one being inserted has a session.                  *)

PageOfAccount(w) ==
    /\ batch[w] \subseteq Feed(Account[w], 0)
    /\ \A t \in batch[w] : pc[w] = "inserting" /\ Current(w, t) => Matched(chain[t])

\* What a step does to the page of one process.
PageShrinks(w) ==
    /\ \A t \in batch'[w] : t \in batch[w]
    /\ pc'[w] = "inserting" => pc[w] = "inserting" /\ batch'[w] = batch[w]

LEMMA ShrunkPage ==
    ASSUME TypeOK, NEW w \in Watchers, PageOfAccount(w), PageShrinks(w),
           Tokens \subseteq Tokens', \A t \in Tokens : chain'[t] = chain[t]
    PROVE  PageOfAccount(w)'
<1>1. ASSUME NEW t \in batch[w] PROVE t \in Feed(Account[w], 0)' /\ t \in Tokens
    BY <1>1 DEF PageOfAccount, Feed, Visible
<1>2. ASSUME NEW t \in batch'[w], pc'[w] = "inserting", Current(w, t)'
      PROVE  Matched(chain'[t])
    BY <1>1, <1>2 DEF PageOfAccount, PageShrinks, Current
<1>3. QED
    BY <1>1, <1>2 DEF PageOfAccount, PageShrinks

LEMMA PageOfAccountStep ==
    ASSUME TypeOK, TypeOK', [Next]_vars, \A w \in Watchers : PageOfAccount(w)
    PROVE  \A w \in Watchers : PageOfAccount(w)'
<1> SUFFICES ASSUME NEW v \in Watchers PROVE PageOfAccount(v)'
    OBVIOUS
<1>0. Tokens \subseteq Tokens' /\ \A t \in Tokens : chain'[t] = chain[t]
    <2>1. CASE Land
        BY <2>1, LandGrowsChain
    <2>2. CASE chain' = chain
        BY <2>2 DEF Tokens
    <2>3. ASSUME NEW w \in Watchers, Progress(w) PROVE chain' = chain
        BY <2>3 DEF Progress, Start, ResolveNow, SeedCursor, Poll, NextPoll, Finish, Vanish,
                    Skip, Screen, Insert, Replay, Save, Conflict
    <2>4. ASSUME NEW w \in Watchers, Check(w) \/ Drain(w) \/ Fail(w) PROVE chain' = chain
        BY <2>4 DEF Check, MarkHeld, LetPass, Drain, Fail, Vanish
    <2>5. CASE Operator \/ UNCHANGED vars
        BY <2>5, <2>2 DEF Operator, SetPaymentStatus, Block, Unblock, RewindCheck, SetCursor,
                    RewindWrite, vars
    <2>6. QED
        BY <2>1, <2>2, <2>3, <2>4, <2>5 DEF Next
<1> USE DEF dbVars, procVars, history, counters
<1>1. ASSUME NEW w \in Watchers, Poll(w) PROVE PageOfAccount(v)'
    <2>1. CASE v = w
        <3>1. /\ batch'[v] = Page(Account[v], mem[v]) /\ pc'[v] = "looping"
              /\ mem[v] \in Nat /\ chain' = chain
            BY <1>1, <2>1 DEF Poll, TypeOK
        <3>2. Tokens \subseteq Int
            BY DEF Tokens
        <3>3. ASSUME NEW t \in Page(Account[v], mem[v]) PROVE t \in Feed(Account[v], 0)
            <4>1. t \in Feed(Account[v], mem[v])
                BY DEF Page
            <4>2. QED
                BY <3>1, <3>2, <4>1 DEF Feed
        <3>4. QED
            BY <3>1, <3>3 DEF PageOfAccount, Feed, Tokens, Visible
    <2>2. CASE v # w
        BY <1>0, <1>1, <2>2, ShrunkPage DEF Poll, PageShrinks, TypeOK
    <2>3. QED
        BY <2>1, <2>2
<1>2. ASSUME NEW w \in Watchers, NEW t \in batch[w], Screen(w, t) PROVE PageOfAccount(v)'
    <2>1. CASE v = w
        <3>1. /\ batch'[v] = batch[v] /\ chain' = chain
              /\ Current(v, t) /\ Matched(chain[t]) /\ t \in batch[v]
            BY <1>2, <2>1 DEF Screen
        <3>2. batch[v] \subseteq Nat
            BY DEF TypeOK, Tokens
        <3>3. \A u \in batch[v] : Current(v, u) => u = t
            BY <3>1, <3>2 DEF Current
        <3>4. QED
            BY <3>1, <3>3 DEF PageOfAccount, Current, Feed, Tokens, Visible
    <2>2. CASE v # w
        BY <1>0, <1>2, <2>2, ShrunkPage DEF Screen, PageShrinks, TypeOK
    <2>3. QED
        BY <2>1, <2>2
<1>3. CASE PageShrinks(v)
    BY <1>0, <1>3, ShrunkPage
<1>4. CASE Land \/ Operator \/ UNCHANGED vars
    <2>1. PageShrinks(v)
        BY <1>4 DEF PageShrinks, Land, Operator, SetPaymentStatus, Block, Unblock, RewindCheck,
               SetCursor, RewindWrite, vars
    <2>2. QED
        BY <1>3, <2>1
<1>5. ASSUME NEW w \in Watchers, Check(w) \/ Drain(w) \/ Fail(w) PROVE PageOfAccount(v)'
    <2>1. PageShrinks(v)
        BY <1>5 DEF PageShrinks, Check, MarkHeld, LetPass, Drain, Fail, Vanish, TypeOK
    <2>2. QED
        BY <1>3, <2>1
<1>6. ASSUME NEW w \in Watchers, Progress(w) PROVE PageOfAccount(v)'
    <2>1. ASSUME Start(w) \/ ResolveNow(w) \/ SeedCursor(w) \/ NextPoll(w) \/ Finish(w)
          PROVE  PageShrinks(v)
        BY <2>1 DEF PageShrinks, Start, ResolveNow, SeedCursor, NextPoll, Finish, Vanish, TypeOK
    <2>2. ASSUME NEW t \in batch[w],
                 Skip(w, t) \/ Insert(w, t) \/ Replay(w, t) \/ Save(w, t) \/ Conflict(w, t)
          PROVE  PageShrinks(v)
        BY <2>2 DEF PageShrinks, Skip, Insert, Replay, Save, Conflict, Vanish, TypeOK
    <2>3. QED
        BY <1>1, <1>2, <1>3, <1>6, <2>1, <2>2 DEF Progress
<1>7. QED
    BY <1>4, <1>5, <1>6 DEF Next

-----------------------------------------------------------------------------
(* The refinement.                                                         *)

BookInv == SkipInv /\ \A w \in Watchers : PageOfAccount(w)

LEMMA BookInvInit == Init => BookInv
BY SkipInvInit DEF Init, BookInv, PageOfAccount

LEMMA BookInvStep ==
    ASSUME OneAccount PROVE BookInv /\ [Next]_vars => BookInv'
BY SkipInvStep, PageOfAccountStep DEF BookInv, SkipInv

\* A position that the invariant covers is settled in the ledger.
LEMMA CoveredIsSettled ==
    ASSUME NEW c, \A w \in Watchers : Covered(Account[w], c)
    PROVE  L!Settled(c)
BY DEF L!Settled, Covered

\* A step that keeps the chain and the rows moves or chooses a position.
LEMMA PositionStep ==
    ASSUME BookInv, BookInv', chain' = chain, DOMAIN payments' = DOMAIN payments,
           \/ floor' = floor
           \/ floor' > floor /\ cursor' \in {cursor, floor'}
    PROVE  [L!LNext]_(L!lvars)
<1>1. Due' = Due
    BY DEF Due, Owed, Feed, Visible, Tokens
<1>2. CASE floor' = floor
    <2>1. \A t \in Due : floor < t /\ t <= cursor' => t \in DOMAIN payments
        BY <1>1, <1>2 DEF BookInv, SkipInv, CursorInv, Covered, Due
    <2>2. L!Acknowledge
        BY <1>1, <1>2, <2>1 DEF L!Acknowledge, L!Settled, Due
    <2>3. QED
        BY <2>2 DEF L!LNext
<1>3. CASE floor' > floor /\ cursor' \in {cursor, floor'}
    BY <1>1, <1>3 DEF L!Choose, L!LNext, Due
<1>4. QED
    BY <1>2, <1>3

\* An operation lands: a payment that is due, or nothing the ledger knows of.
LEMMA LandConfirms ==
    ASSUME BookInv, Land
    PROVE  [L!LNext]_(L!lvars)
<1> DEFINE n == Len(chain) + 1
<1>1. TypeOK /\ Len(chain) \in Nat
    BY DEF BookInv, SkipInv, TypeOK
<1>2. Tokens' = Tokens \cup {n} /\ \A t \in Tokens : chain'[t] = chain[t] /\ t < n
    BY <1>1, LandGrowsChain DEF Tokens
<1>3. UNCHANGED <<payments, cursor, floor>>
    BY DEF Land, dbVars, history
<1>4. ASSUME NEW t \in Due PROVE t \in Due' /\ t < n
    BY <1>2 DEF Due, Owed, Feed, Visible
<1>5. ASSUME NEW t \in Due' PROVE t \in Due \/ t = n
    BY <1>2 DEF Due, Owed, Feed, Visible
<1>6. CASE n \in Due'
    <2>1. Due' = Due \cup {n}
        BY <1>4, <1>5, <1>6
    <2>2. n \notin Due
        BY <1>1, <1>4
    <2>3. L!Confirm
        BY <1>3, <1>4, <2>1, <2>2 DEF L!Confirm, Due
    <2>4. QED
        BY <2>3 DEF L!LNext
<1>7. CASE n \notin Due'
    <2>1. Due' = Due
        BY <1>4, <1>5, <1>7
    <2>2. QED
        BY <1>3, <2>1 DEF L!lvars, Due
<1>8. QED
    BY <1>6, <1>7

LEMMA InsertBooks ==
    ASSUME BookInv, NEW w \in Watchers, NEW t \in batch[w], Insert(w, t)
    PROVE  [L!LNext]_(L!lvars)
<1>1. t \in Due /\ t \notin DOMAIN payments
    BY DEF Insert, BookInv, PageOfAccount, Due, Owed
<1>2. DOMAIN payments' = DOMAIN payments \cup {t} /\ UNCHANGED <<chain, cursor, floor>>
    BY DEF Insert, history
<1>3. Due' = Due
    BY <1>2 DEF Due, Owed, Feed, Visible, Tokens
<1>4. L!Book
    BY <1>1, <1>2, <1>3 DEF L!Book, Due
<1>5. QED
    BY <1>4 DEF L!LNext

LEMMA LedgerStep ==
    ASSUME BookInv, BookInv', [Next]_vars
    PROVE  [L!LNext]_(L!lvars)
<1>0. /\ floor \in Nat /\ Targets \subseteq Int /\ rewinds \subseteq Targets
      /\ mem \in [Watchers -> Nat] /\ TypeOK
      /\ \A w \in Watchers : checks[w] \subseteq DOMAIN payments
    BY ReconcilerAssumption DEF ReconcilerAssumption, BookInv, SkipInv, TypeOK, Now
<1> USE DEF dbVars, procVars, history, counters
<1>1. ASSUME NEW w \in Watchers, Progress(w) PROVE [L!LNext]_(L!lvars)
    <2>1. CASE ResolveNow(w)
        <3>1. \E h \in {0} \cup Feed(Account[w], 0) : floor' = AtLeast(h, floor)
            BY <2>1 DEF ResolveNow
        <3>2. floor' = floor \/ floor' > floor
            BY <1>0, <3>1 DEF AtLeast, Feed, Tokens
        <3>3. QED
            BY <2>1, <3>2, PositionStep DEF ResolveNow
    <2>2. CASE SeedCursor(w)
        <3>1. floor' = floor \/ (floor' > floor /\ cursor' = floor')
            BY <1>0, <2>1, <2>2 DEF SeedCursor, AtLeast
        <3>2. QED
            BY <2>2, <3>1, PositionStep DEF SeedCursor
    <2>3. ASSUME NEW t \in batch[w], Insert(w, t) PROVE [L!LNext]_(L!lvars)
        BY <2>3, InsertBooks
    <2>4. CASE UNCHANGED <<chain, payments, floor>>
        BY <2>4, PositionStep
    <2>5. QED
        BY <1>1, <2>1, <2>2, <2>3, <2>4
           DEF Progress, Start, Poll, NextPoll, Finish, Vanish, Skip, Screen, Replay, Save,
               Conflict
<1>2. ASSUME NEW w \in Watchers, Check(w) PROVE [L!LNext]_(L!lvars)
    <2>1. chain' = chain /\ floor' = floor /\ DOMAIN payments' = DOMAIN payments
        BY <1>0, <1>2 DEF Check, MarkHeld, LetPass
    <2>2. QED
        BY <2>1, PositionStep
<1>3. ASSUME NEW w \in Watchers, Drain(w) \/ Fail(w) PROVE [L!LNext]_(L!lvars)
    <2>1. UNCHANGED <<chain, payments, floor>>
        BY <1>3 DEF Drain, Fail, Vanish
    <2>2. QED
        BY <2>1, PositionStep
<1>4. CASE Operator
    <2>1. chain' = chain /\ DOMAIN payments' = DOMAIN payments
        BY <1>4 DEF Operator, SetPaymentStatus, Block, Unblock, RewindCheck, RewindWrite,
                    SetCursor
    <2>2. floor' = floor \/ (floor' > floor /\ cursor' \in {cursor, floor'})
        BY <1>0, <1>4
           DEF Operator, SetPaymentStatus, Block, Unblock, RewindCheck, RewindWrite,
               SetCursor, AtLeast
    <2>3. QED
        BY <2>1, <2>2, PositionStep
<1>5. CASE UNCHANGED vars
    BY <1>5, PositionStep DEF vars
<1>6. QED
    BY <1>1, <1>2, <1>3, <1>4, <1>5, LandConfirms DEF Next

\* For one watched account and any number of processes, exits and operators'
\* actions, the reconciler is a ledger: a payment is booked once, only if it is
\* owed, and a position is stored only when it is settled or chosen.
THEOREM ImplementsLedger ==
    ASSUME OneAccount PROVE Spec => LedgerSpec
<1>1. Init => L!LInit
    BY DEF Init, L!LInit, Owed, Feed, Tokens, Now
<1>2. BookInv /\ BookInv' /\ [Next]_vars => [L!LNext]_(L!lvars)
    BY LedgerStep
<1>3. QED
    BY <1>1, <1>2, BookInvInit, BookInvStep, PTL DEF Spec, LedgerSpec, L!LSpec
=============================================================================
