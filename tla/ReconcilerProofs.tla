-------------------------- MODULE ReconcilerProofs --------------------------
(***************************************************************************)
(* What TLAPS proves about Reconciler, for every set of processes, every   *)
(* chain and every bound.                                                  *)
(***************************************************************************)
EXTENDS Reconciler, FiniteSetTheorems, TLAPS

\* All processes watch one account: the deployment the reconciler is written
\* for (several at once happen during a redeploy).
OneAccount == \A v, w \in Watchers : Account[v] = Account[w]

-----------------------------------------------------------------------------
(* The chain only grows, and what is on it stays. *)

LEMMA LandGrowsChain ==
    ASSUME TypeOK, Land
    PROVE  /\ chain' \in Seq(Ops)
           /\ Len(chain') = Len(chain) + 1
           /\ \A t \in Tokens : chain'[t] = chain[t]
           /\ Tokens \subseteq Tokens'
BY DEF TypeOK, Land, Tokens

-----------------------------------------------------------------------------
(* Type correctness. *)

LEMMA InitTypeOK == Init => TypeOK
BY ReconcilerAssumption DEF ReconcilerAssumption, Init, TypeOK, Now, Tokens, Row, PcValues

LEMMA TypeStep == TypeOK /\ [Next]_vars => TypeOK'
<1> SUFFICES ASSUME TypeOK, [Next]_vars PROVE TypeOK'
    OBVIOUS
<1> USE ReconcilerAssumption DEF ReconcilerAssumption
<1>1. CASE Land
    <2>1. Tokens \subseteq Tokens' /\ chain' \in Seq(Ops)
        BY <1>1, LandGrowsChain
    <2>2. QED
        BY <1>1, <2>1 DEF Land, TypeOK, dbVars, procVars, history, counters
<1>2. ASSUME NEW w \in Watchers, Progress(w) PROVE TypeOK'
    <2>1. CASE Start(w)
        BY <2>1 DEF Start, TypeOK, PcValues, Tokens, dbVars, history, counters
    <2>2. CASE ResolveNow(w)
        BY <2>2 DEF ResolveNow, TypeOK, PcValues, Tokens, Feed, AtLeast, dbVars, counters
    <2>3. CASE SeedCursor(w)
        BY <2>3 DEF SeedCursor, TypeOK, PcValues, Tokens, AtLeast, counters
    <2>4. CASE Poll(w)
        <3>1. Page(Account[w], mem[w]) \subseteq Tokens
            BY DEF Page, Feed
        <3>2. QED
            BY <2>4, <3>1 DEF Poll, TypeOK, PcValues, Tokens, dbVars, history, counters
    <2>5. CASE NextPoll(w)
        BY <2>5 DEF NextPoll, TypeOK, PcValues, Tokens, dbVars, history, counters
    <2>6. CASE Finish(w)
        BY <2>6 DEF Finish, Vanish, TypeOK, PcValues, Tokens, dbVars, counters
    <2>7. ASSUME NEW t \in batch[w], Skip(w, t) PROVE TypeOK'
        BY <2>7 DEF Skip, TypeOK, PcValues, Tokens, dbVars, history, counters
    <2>8. ASSUME NEW t \in batch[w], Screen(w, t) PROVE TypeOK'
        BY <2>8 DEF Screen, TypeOK, PcValues, Tokens, dbVars, history, counters
    <2>9. ASSUME NEW t \in batch[w], Insert(w, t) PROVE TypeOK'
        <3>1. DOMAIN payments' = DOMAIN payments \cup {t}
            BY <2>9 DEF Insert
        <3>2. payments' \in [DOMAIN payments' -> Row]
            BY <2>9, <3>1 DEF Insert, TypeOK, Row, Statuses
        <3>3. QED
            BY <2>9, <3>1, <3>2 DEF Insert, TypeOK, PcValues, Tokens, history, counters
    <2>10. ASSUME NEW t \in batch[w], Replay(w, t) PROVE TypeOK'
        BY <2>10 DEF Replay, TypeOK, PcValues, Tokens, dbVars, history, counters
    <2>11. ASSUME NEW t \in batch[w], Save(w, t) PROVE TypeOK'
        BY <2>11 DEF Save, TypeOK, PcValues, Tokens, history, counters
    <2>12. ASSUME NEW t \in batch[w], Conflict(w, t) PROVE TypeOK'
        BY <2>12 DEF Conflict, Vanish, TypeOK, PcValues, Tokens, dbVars, counters
    <2>13. QED
        BY <1>2, <2>1, <2>2, <2>3, <2>4, <2>5, <2>6, <2>7, <2>8, <2>9, <2>10,
           <2>11, <2>12 DEF Progress
<1>3. ASSUME NEW w \in Watchers, Check(w) PROVE TypeOK'
    <2>1. ASSUME NEW t \in checks[w], MarkHeld(w, t) PROVE TypeOK'
        BY <2>1 DEF MarkHeld, TypeOK, Row, Statuses, Tokens, history, counters
    <2>2. ASSUME NEW t \in checks[w], LetPass(w, t) PROVE TypeOK'
        BY <2>2 DEF LetPass, TypeOK, Tokens, dbVars, counters
    <2>3. QED
        BY <1>3, <2>1, <2>2 DEF Check
<1>4. ASSUME NEW w \in Watchers, Drain(w) PROVE TypeOK'
    BY <1>4 DEF Drain, Exit, TypeOK, PcValues, Tokens, dbVars, history
<1>5. ASSUME NEW w \in Watchers, Fail(w) PROVE TypeOK'
    BY <1>5 DEF Fail, Exit, Vanish, TypeOK, PcValues, Tokens, dbVars
<1>6. CASE Operator
    <2>1. ASSUME NEW t \in DOMAIN payments, NEW s \in Statuses, SetPaymentStatus(t, s)
          PROVE  TypeOK'
        <3>1. DOMAIN payments' = DOMAIN payments
            BY <2>1 DEF SetPaymentStatus
        <3>2. payments' \in [DOMAIN payments' -> Row]
            BY <2>1, <3>1 DEF SetPaymentStatus, TypeOK, Row
        <3>3. QED
            BY <2>1, <3>1, <3>2 DEF SetPaymentStatus, Intervene, TypeOK, Tokens, procVars
    <2>2. ASSUME NEW a \in Payers, Block(a) \/ Unblock(a) PROVE TypeOK'
        BY <2>2 DEF Block, Unblock, Intervene, TypeOK, Tokens, Payers, procVars, history
    <2>3. ASSUME NEW v \in Targets, RewindCheck(v) \/ SetCursor(v) PROVE TypeOK'
        BY <2>3 DEF RewindCheck, SetCursor, Intervene, TypeOK, Tokens, AtLeast,
                    dbVars, procVars, history, Now
    <2>4. ASSUME NEW v \in rewinds, RewindWrite(v) PROVE TypeOK'
        BY <2>4 DEF RewindWrite, TypeOK, Tokens, procVars, history, counters, Now
    <2>5. QED
        BY <1>6, <2>1, <2>2, <2>3, <2>4 DEF Operator
<1>7. CASE UNCHANGED vars
    BY <1>7 DEF vars, dbVars, procVars, history, counters, TypeOK, Tokens
<1>8. QED
    BY <1>1, <1>2, <1>3, <1>4, <1>5, <1>6, <1>7 DEF Next

\* Every behaviour keeps every variable in its type: no process polls with the
\* literal cursor "now", and no row, check or page names a token that never landed.
THEOREM TypeCorrect == Spec => []TypeOK
<1>1. QED
    BY InitTypeOK, TypeStep, PTL DEF Spec

-----------------------------------------------------------------------------
(* No payment is skipped.  The property alone is not inductive: a process   *)
(* moves on from a token because everything below it in the page is done,   *)
(* and a new operation must not land below a position already reached.      *)

\* Positions reached lie on the chain, or were chosen.
Within(c) == c <= Len(chain) \/ c <= floor

\* What is left of a page is everything of the account between the local
\* cursor and the last token of the page.
PageInOrder(w) ==
    /\ pc[w] \notin {"looping", "inserting", "saving"} => batch[w] = {}
    /\ \A t \in batch[w] :
          /\ mem[w] < t
          /\ \A u \in Feed(Account[w], mem[w]) : u < t => u \in batch[w]

\* The cursor is only saved after the row is there.
SavedHasRow(w) ==
    \A t \in batch[w] : pc[w] = "saving" /\ Current(w, t) => t \in DOMAIN payments

ProcessInv(w) ==
    /\ Within(mem[w])
    /\ PageInOrder(w)
    /\ SavedHasRow(w)
    /\ pc[w] \notin {"down", "resolving"} => Covered(Account[w], mem[w])

CursorInv ==
    /\ Within(cursor)
    /\ \A w \in Watchers : Covered(Account[w], cursor)

\* What a rewind was validated for stays harmless until it is written.
RewindsInv ==
    \A v \in rewinds :
        /\ Within(v)
        /\ \A w \in Watchers : Covered(Account[w], v)

SkipInv == TypeOK /\ CursorInv /\ RewindsInv /\ \A w \in Watchers : ProcessInv(w)

LEMMA SkipInvInit == Init => SkipInv
<1> SUFFICES ASSUME Init PROVE SkipInv
    OBVIOUS
<1>1. TypeOK
    BY InitTypeOK
<1>2. chain = <<>> /\ Tokens = {}
    BY DEF Init, Tokens
<1>3. CursorInv
    BY <1>2 DEF Init, CursorInv, Within, Covered, Owed, Feed, Now
<1>4. ASSUME NEW w \in Watchers PROVE ProcessInv(w)
    BY <1>2 DEF Init, ProcessInv, Within, PageInOrder, SavedHasRow
<1>5. RewindsInv
    BY DEF Init, RewindsInv
<1>6. QED
    BY <1>1, <1>3, <1>4, <1>5 DEF SkipInv

\* A page is a prefix of the feed it is taken from.
LEMMA PageIsPrefix ==
    ASSUME TypeOK, NEW acct, NEW c \in Nat,
           NEW t \in Page(acct, c), NEW u \in Feed(acct, c), u < t
    PROVE  u \in Page(acct, c)
<1> DEFINE Below(x) == {v \in Feed(acct, c) : v < x}
<1>1. Tokens \subseteq Nat /\ IsFiniteSet(Tokens)
    <2>1. Len(chain) \in Nat
        BY DEF TypeOK
    <2>2. QED
        BY <2>1, FS_Interval DEF Tokens
<1>2. t \in Feed(acct, c) /\ t \in Nat /\ u \in Nat
    BY <1>1 DEF Page, Feed
<1>3. Below(u) \subseteq Below(t) /\ Below(t) \subseteq Tokens
    <2>1. ASSUME NEW v \in Below(u) PROVE v \in Below(t)
        <3>1. v \in Feed(acct, c) /\ v < u /\ v \in Nat
            BY <1>1 DEF Feed
        <3>2. v < t
            BY <1>2, <3>1
        <3>3. QED
            BY <3>1, <3>2
    <2>2. QED
        BY <2>1 DEF Feed
<1>4. IsFiniteSet(Below(t))
    BY <1>1, <1>3, FS_Subset
<1>5. /\ IsFiniteSet(Below(u))
      /\ Cardinality(Below(u)) <= Cardinality(Below(t))
    BY <1>3, <1>4, FS_Subset
<1>6. Cardinality(Below(u)) \in Nat /\ Cardinality(Below(t)) \in Nat
    BY <1>4, <1>5, FS_CardinalityType
<1>7. Cardinality(Below(t)) < PageSize
    BY DEF Page
<1>8. Cardinality(Below(u)) < PageSize
    BY <1>5, <1>6, <1>7, ReconcilerAssumption DEF ReconcilerAssumption
<1>9. QED
    BY <1>8 DEF Page

\* Coverage survives a step that keeps the chain, keeps the rows and does not
\* lower the floor.
LEMMA CoverageKept ==
    ASSUME TypeOK, TypeOK', NEW acct, NEW c \in Nat \cup {Now}, Covered(acct, c),
           chain' = chain, DOMAIN payments \subseteq DOMAIN payments', floor <= floor'
    PROVE  Covered(acct, c)'
BY DEF Covered, Owed, Feed, Tokens, Visible, TypeOK, Now

\* Everything up to a chosen position is excused.
LEMMA ChosenIsCovered ==
    ASSUME TypeOK, NEW acct, NEW c \in Nat \cup {Now}, c <= floor
    PROVE  Covered(acct, c)
BY DEF Covered, Owed, Feed, Tokens, TypeOK, Now

\* Having finished the head of its page, a process has covered it.
LEMMA HeadIsCovered ==
    ASSUME SkipInv, NEW w \in Watchers, NEW t \in batch[w],
           pc[w] \in {"looping", "saving"}, Current(w, t),
           Matched(chain[t]) => t \in DOMAIN payments
    PROVE  Covered(Account[w], t)
<1> SUFFICES ASSUME NEW u \in Owed(Account[w]), floor < u, u <= t
             PROVE  u \in DOMAIN payments
    BY DEF Covered
<1>1. /\ u \in Nat /\ t \in Nat /\ mem[w] \in Nat
      /\ u \in Tokens /\ Visible(Account[w], u) /\ Matched(chain[u])
    BY DEF SkipInv, TypeOK, Owed, Feed, Tokens
<1>2. CASE u <= mem[w]
    BY <1>2 DEF SkipInv, ProcessInv, Covered
<1>3. CASE mem[w] < u /\ u < t
    <2>1. u \in Feed(Account[w], mem[w])
        BY <1>1, <1>3 DEF Feed
    <2>2. u \in batch[w]
        BY <1>3, <2>1 DEF SkipInv, ProcessInv, PageInOrder
    <2>3. QED
        BY <1>1, <1>3, <2>2 DEF Current
<1>4. CASE u = t
    BY <1>1, <1>4
<1>5. QED
    BY <1>1, <1>2, <1>3, <1>4

\* A new operation lies above every position reached, unless an operator chose
\* a position beyond it.
LEMMA LandKeepsCoverage ==
    ASSUME TypeOK, TypeOK', Land, NEW acct, NEW c \in Nat \cup {Now}, Within(c),
           Covered(acct, c)
    PROVE  Covered(acct, c)' /\ Within(c)'
<1> USE DEF Land, dbVars, procVars, history, counters
<1>1. Len(chain) \in Nat /\ floor \in Nat /\ c \in Int
    BY DEF TypeOK, Now
<1>2. Within(c)'
    BY <1>1, LandGrowsChain DEF Within
<1>3. ASSUME NEW t \in Owed(acct)', floor < t, t <= c
      PROVE  t \in DOMAIN payments
    <2>1. t \in Tokens' /\ t \in Nat
        BY DEF Owed, Feed, Tokens
    <2>2. t \in Tokens
        BY <1>1, <1>3, <2>1, LandGrowsChain DEF Within, Tokens
    <2>3. chain'[t] = chain[t]
        BY <2>2, LandGrowsChain
    <2>4. t \in Owed(acct)
        BY <2>2, <2>3 DEF Owed, Feed, Visible
    <2>5. QED
        BY <1>3, <2>4 DEF Covered
<1>4. QED
    BY <1>2, <1>3 DEF Covered

LEMMA SkipInvLand == ASSUME SkipInv, Land, TypeOK' PROVE SkipInv'
<1> USE DEF SkipInv
<1>1. /\ UNCHANGED <<cursor, payments, pc, mem, batch, rewinds, floor>>
      /\ cursor \in Nat \cup {Now} /\ rewinds \subseteq Nat \cup {Now}
    BY ReconcilerAssumption DEF ReconcilerAssumption, Land, TypeOK, dbVars, procVars, history
<1>2. CursorInv'
    <2>1. Within(cursor)'
        BY <1>1, LandGrowsChain DEF CursorInv, Within, TypeOK, Now
    <2>2. ASSUME NEW w \in Watchers PROVE Covered(Account[w], cursor)'
        BY <1>1, LandKeepsCoverage DEF CursorInv
    <2>3. QED
        BY <2>1, <2>2 DEF CursorInv
<1>3. ASSUME NEW w \in Watchers PROVE ProcessInv(w)'
    <2>1. mem[w] \in Nat /\ batch[w] \subseteq Tokens
        BY DEF TypeOK
    <2>2. Within(mem[w])'
        BY <1>1, <2>1, LandGrowsChain DEF ProcessInv, Within, TypeOK
    <2>3. pc[w] \notin {"down", "resolving"} => Covered(Account[w], mem[w])'
        BY <1>1, <2>1, LandKeepsCoverage DEF ProcessInv
    <2>4. ASSUME NEW t \in batch[w], NEW u \in Feed(Account[w], mem[w])', u < t
          PROVE  u \in batch[w]
        <3>1. u \in Tokens' /\ u > mem[w] /\ Visible(Account[w], u)'
            BY <1>1 DEF Feed
        <3>2. u \in Tokens
            <4>1. t \in Tokens /\ u \in Nat /\ Len(chain) \in Nat
                BY <2>1, <3>1 DEF Tokens, TypeOK
            <4>2. QED
                BY <2>4, <3>1, <4>1 DEF Tokens
        <3>3. u \in Feed(Account[w], mem[w])
            BY <3>1, <3>2, LandGrowsChain DEF Feed, Visible
        <3>4. QED
            BY <2>4, <3>3 DEF ProcessInv, PageInOrder
    <2>5. PageInOrder(w)'
        BY <1>1, <2>4 DEF ProcessInv, PageInOrder
    <2>6. SavedHasRow(w)'
        BY <1>1 DEF ProcessInv, SavedHasRow, Current
    <2>7. QED
        BY <1>1, <2>2, <2>3, <2>5, <2>6 DEF ProcessInv
<1>4. RewindsInv'
    <2>1. ASSUME NEW v \in rewinds, NEW w \in Watchers
          PROVE  Within(v)' /\ Covered(Account[w], v)'
        BY <1>1, <2>1, LandKeepsCoverage DEF RewindsInv
    <2>2. ASSUME NEW v \in rewinds PROVE Within(v)'
        <3>1. Len(chain) \in Nat /\ floor \in Nat /\ v \in Int
            BY <1>1 DEF TypeOK, Now
        <3>2. QED
            BY <1>1, <3>1, LandGrowsChain DEF RewindsInv, Within
    <2>3. QED
        BY <1>1, <2>1, <2>2 DEF RewindsInv
<1>5. QED
    BY <1>2, <1>3, <1>4

\* A step that keeps the chain and every row and does not lower the floor
\* disturbs no process it does not move, and not the cursor unless it writes it.
Mild ==
    /\ TypeOK'
    /\ chain' = chain
    /\ DOMAIN payments \subseteq DOMAIN payments'
    /\ floor <= floor'

Rests(v) == pc'[v] = pc[v] /\ mem'[v] = mem[v] /\ batch'[v] = batch[v]

LEMMA WithinKept ==
    ASSUME TypeOK, Mild, NEW c \in Nat \cup {Now}, Within(c)
    PROVE  Within(c)'
BY DEF Within, Mild, TypeOK, Now

LEMMA RestingProcess ==
    ASSUME SkipInv, Mild, NEW v \in Watchers, Rests(v)
    PROVE  ProcessInv(v)'
<1>1. mem[v] \in Nat /\ ProcessInv(v) /\ TypeOK
    BY DEF SkipInv, TypeOK
<1>2. Within(mem[v])'
    BY <1>1, WithinKept DEF ProcessInv, Rests, Within
<1>3. pc'[v] \notin {"down", "resolving"} => Covered(Account[v], mem[v])'
    BY <1>1, CoverageKept DEF ProcessInv, Rests, Mild, Covered
<1>4. PageInOrder(v)'
    BY <1>1 DEF ProcessInv, PageInOrder, Rests, Mild, Feed, Tokens, Visible
<1>5. SavedHasRow(v)'
    BY <1>1 DEF ProcessInv, SavedHasRow, Rests, Mild, Current
<1>6. QED
    BY <1>2, <1>3, <1>4, <1>5 DEF ProcessInv

LEMMA RestingCursor ==
    ASSUME SkipInv, Mild, cursor' = cursor
    PROVE  CursorInv'
<1>1. cursor \in Nat \cup {Now} /\ TypeOK
    BY DEF SkipInv, TypeOK
<1>2. QED
    BY <1>1, WithinKept, CoverageKept DEF SkipInv, CursorInv, Mild, Within, Covered

\* Rewinds that wait stay harmless, and so does one that may still be written.
LEMMA RestingRewinds ==
    ASSUME SkipInv, Mild, rewinds' \subseteq rewinds
    PROVE  RewindsInv'
<1> SUFFICES ASSUME NEW v \in rewinds
             PROVE  Within(v)' /\ \A w \in Watchers : Covered(Account[w], v)'
    BY DEF RewindsInv
<1>1. v \in Nat \cup {Now} /\ TypeOK /\ RewindsInv
    BY ReconcilerAssumption DEF ReconcilerAssumption, SkipInv, TypeOK
<1>2. QED
    BY <1>1, WithinKept, CoverageKept DEF RewindsInv, Mild

\* A position at or below the floor may be stored at any time.
LEMMA ChosenCursor ==
    ASSUME TypeOK', cursor' <= floor'
    PROVE  CursorInv'
BY DEF CursorInv, Within, Covered, Owed, Feed, Tokens, TypeOK, Now
-----------------------------------------------------------------------------

\* A process that stays at its position, with its page or without it.
LEMMA SamePosition ==
    ASSUME SkipInv, Mild, NEW w \in Watchers,
           mem'[w] = mem[w],
           batch'[w] = batch[w] \/ batch'[w] = {},
           pc'[w] \notin {"looping", "inserting", "saving"} => batch'[w] = {},
           pc[w] \notin {"down", "resolving"} \/ pc'[w] \in {"down", "resolving"},
           pc'[w] = "saving" =>
               \A t \in batch[w] : Current(w, t) => t \in DOMAIN payments'
    PROVE  ProcessInv(w)'
<1>1. mem[w] \in Nat /\ ProcessInv(w) /\ TypeOK
    BY DEF SkipInv, TypeOK
<1>2. Within(mem[w])'
    BY <1>1, WithinKept DEF ProcessInv, Within
<1>3. pc'[w] \notin {"down", "resolving"} => Covered(Account[w], mem[w])'
    BY <1>1, CoverageKept DEF ProcessInv, Mild, Covered
<1>4. PageInOrder(w)'
    BY <1>1 DEF ProcessInv, PageInOrder, Mild, Feed, Tokens, Visible
<1>5. SavedHasRow(w)'
    BY <1>1 DEF SavedHasRow, Current
<1>6. QED
    BY <1>2, <1>3, <1>4, <1>5 DEF ProcessInv

\* A process that moves past the head of its page, unmatched or recorded.
LEMMA NextPosition ==
    ASSUME SkipInv, Mild, NEW w \in Watchers, NEW t \in batch[w],
           pc[w] \in {"looping", "saving"}, Current(w, t),
           Matched(chain[t]) => t \in DOMAIN payments,
           mem'[w] = t, batch'[w] = batch[w] \ {t}, pc'[w] = "looping"
    PROVE  ProcessInv(w)' /\ Covered(Account[w], t)' /\ Within(t)'
<1>1. /\ t \in Tokens /\ t \in Nat /\ mem[w] \in Nat /\ batch[w] \subseteq Nat
      /\ ProcessInv(w) /\ TypeOK
    BY DEF SkipInv, TypeOK, Tokens
<1>2. Within(t)'
    BY <1>1 DEF Within, Mild, Tokens
<1>3. Covered(Account[w], t)'
    BY <1>1, HeadIsCovered, CoverageKept DEF Mild
<1>4. ASSUME NEW u \in batch[w] \ {t}
      PROVE  /\ t < u
             /\ \A x \in Feed(Account[w], t) : x < u => x \in batch[w] \ {t}
    <2>1. t < u /\ mem[w] < t
        BY <1>1, <1>4 DEF Current, ProcessInv, PageInOrder
    <2>2. ASSUME NEW x \in Feed(Account[w], t), x < u PROVE x \in batch[w] \ {t}
        <3>1. x \in Nat /\ t < x
            BY DEF Feed, Tokens
        <3>2. x \in Feed(Account[w], mem[w])
            BY <1>1, <2>1, <3>1 DEF Feed
        <3>3. QED
            BY <1>1, <2>2, <3>1, <3>2 DEF ProcessInv, PageInOrder
    <2>3. QED
        BY <2>1, <2>2
<1>5. PageInOrder(w)'
    BY <1>4 DEF PageInOrder, Mild, Feed, Tokens, Visible
<1>6. QED
    BY <1>2, <1>3, <1>5 DEF ProcessInv, SavedHasRow, Covered

LEMMA ProgressIsMild ==
    ASSUME TypeOK, TypeOK', NEW w \in Watchers, Progress(w)
    PROVE  Mild /\ rewinds' = rewinds
<1> USE DEF dbVars, procVars, history, counters
<1>1. floor \in Nat /\ mem[w] \in Nat
    BY DEF TypeOK
<1>2. CASE ResolveNow(w)
    BY <1>1, <1>2 DEF ResolveNow, Mild, AtLeast, Feed, Tokens
<1>3. CASE SeedCursor(w)
    BY <1>1, <1>3 DEF SeedCursor, Mild, AtLeast
<1>4. ASSUME NEW t \in batch[w], Insert(w, t) PROVE Mild /\ rewinds' = rewinds
    <2>1. DOMAIN payments' = DOMAIN payments \cup {t}
        BY <1>4 DEF Insert
    <2>2. QED
        BY <1>1, <1>4, <2>1 DEF Insert, Mild
<1>5. CASE Start(w) \/ Poll(w) \/ NextPoll(w) \/ Finish(w)
    BY <1>1, <1>5 DEF Start, Poll, NextPoll, Finish, Vanish, Mild
<1>6. ASSUME NEW t \in batch[w],
             Skip(w, t) \/ Screen(w, t) \/ Replay(w, t) \/ Save(w, t) \/ Conflict(w, t)
      PROVE  Mild /\ rewinds' = rewinds
    BY <1>1, <1>6 DEF Skip, Screen, Replay, Save, Conflict, Vanish, Mild
<1>7. QED
    BY <1>2, <1>3, <1>4, <1>5, <1>6 DEF Progress

LEMMA SkipInvProgress ==
    ASSUME OneAccount, SkipInv, TypeOK', NEW w \in Watchers, Progress(w)
    PROVE  SkipInv'
<1> SUFFICES CursorInv' /\ ProcessInv(w)' /\ \A v \in Watchers \ {w} : ProcessInv(v)'
    BY ProgressIsMild, RestingRewinds DEF SkipInv
<1>0. /\ TypeOK /\ ProcessInv(w) /\ CursorInv
      /\ mem[w] \in Nat /\ cursor \in Nat \cup {Now} /\ floor \in Nat
      /\ batch[w] \subseteq Tokens /\ Tokens \subseteq Nat
    BY DEF SkipInv, TypeOK, Tokens
<1> USE DEF dbVars, procVars, history, counters
<1>1. CASE Start(w)
    <2>1. Mild /\ cursor' = cursor /\ \A v \in Watchers \ {w} : Rests(v)
        BY <1>1 DEF Start, Mild, Rests, TypeOK
    <2>2. mem'[w] \in {mem[w], cursor} /\ batch'[w] = {}
        BY <1>0, <1>1 DEF Start, TypeOK, ProcessInv, PageInOrder
    <2>3. pc'[w] \notin {"down", "resolving"} => mem'[w] = cursor
        BY <1>1 DEF Start, TypeOK, SkipInv
    <2>4. CursorInv'
        BY <2>1, RestingCursor
    <2>5. Within(mem[w])'
        BY <1>0, <2>1, <2>2, WithinKept DEF Within, ProcessInv, CursorInv
    <2>6. pc'[w] \notin {"down", "resolving"} => Covered(Account[w], mem[w])'
        BY <2>1, <2>3, <2>4 DEF CursorInv, Covered
    <2>7. PageInOrder(w)' /\ SavedHasRow(w)'
        BY <2>2 DEF PageInOrder, SavedHasRow
    <2>8. QED
        BY <2>1, <2>4, <2>5, <2>6, <2>7, RestingProcess DEF ProcessInv
<1>2. CASE ResolveNow(w)
    <2>1. Mild /\ cursor' = cursor /\ \A v \in Watchers \ {w} : Rests(v)
        BY <1>0, <1>2 DEF ResolveNow, Mild, Rests, TypeOK, AtLeast, Feed
    <2>2. mem'[w] \in Nat /\ mem'[w] <= floor' /\ batch'[w] = {}
        BY <1>0, <1>2 DEF ResolveNow, AtLeast, Feed, ProcessInv, PageInOrder, TypeOK
    <2>3. ProcessInv(w)'
        BY <2>1, <2>2, ChosenIsCovered
           DEF ProcessInv, Within, PageInOrder, SavedHasRow, Covered, Owed, Feed,
               Tokens, Mild, TypeOK
    <2>4. QED
        BY <2>1, <2>3, RestingCursor, RestingProcess
<1>3. CASE SeedCursor(w)
    <2>1. Mild /\ \A v \in Watchers \ {w} : Rests(v)
        BY <1>0, <1>3 DEF SeedCursor, Mild, Rests, AtLeast
    <2>2. cursor' <= floor' /\ mem'[w] <= floor' /\ mem'[w] \in Nat /\ batch'[w] = {}
        BY <1>0, <1>3 DEF SeedCursor, AtLeast, ProcessInv, PageInOrder
    <2>3. CursorInv'
        BY <2>1, <2>2, ChosenCursor DEF Mild
    <2>4. ProcessInv(w)'
        BY <2>1, <2>2 DEF ProcessInv, Within, PageInOrder, SavedHasRow, Covered,
                          Owed, Feed, Tokens, Mild, TypeOK
    <2>5. QED
        BY <2>1, <2>3, <2>4, RestingProcess
<1>4. CASE Poll(w)
    <2>1. Mild /\ cursor' = cursor /\ \A v \in Watchers \ {w} : Rests(v)
        BY <1>4 DEF Poll, Mild, Rests, TypeOK
    <2>2. /\ mem'[w] = mem[w] /\ batch'[w] = Page(Account[w], mem[w])
          /\ pc[w] = "polling" /\ pc'[w] = "looping" /\ floor' = floor
          /\ payments' = payments /\ chain' = chain
        BY <1>4 DEF Poll, TypeOK, SkipInv
    <2>3. ASSUME NEW t \in Page(Account[w], mem[w])
          PROVE  /\ mem[w] < t
                 /\ \A u \in Feed(Account[w], mem[w]) : u < t => u \in Page(Account[w], mem[w])
        <3>1. t \in Feed(Account[w], mem[w])
            BY DEF Page
        <3>2. mem[w] < t
            BY <3>1 DEF Feed
        <3>3. QED
            BY <1>0, <3>2, PageIsPrefix
    <2>4. PageInOrder(w)'
        BY <2>2, <2>3 DEF PageInOrder, Feed, Tokens, Visible
    <2>5. SavedHasRow(w)'
        BY <2>2 DEF SavedHasRow
    <2>6. Within(mem[w])' /\ Covered(Account[w], mem[w])'
        BY <1>0, <2>1, <2>2, CoverageKept DEF ProcessInv, Within, Mild, Covered, Owed,
                                               Feed, Tokens, Visible
    <2>7. QED
        BY <2>1, <2>4, <2>5, <2>6, RestingCursor, RestingProcess DEF ProcessInv
<1>5. CASE NextPoll(w)
    <2>1. Mild /\ cursor' = cursor /\ \A v \in Watchers \ {w} : Rests(v)
        BY <1>5 DEF NextPoll, Mild, Rests, TypeOK
    <2>2. ProcessInv(w)'
        BY <1>0, <1>5, <2>1, SamePosition DEF NextPoll, TypeOK
    <2>3. QED
        BY <2>1, <2>2, RestingCursor, RestingProcess
<1>6. CASE Finish(w)
    <2>1. Mild /\ cursor' = cursor /\ \A v \in Watchers \ {w} : Rests(v)
        BY <1>6 DEF Finish, Vanish, Mild, Rests, TypeOK
    <2>2. ProcessInv(w)'
        BY <1>0, <1>6, <2>1, SamePosition DEF Finish, Vanish, TypeOK
    <2>3. QED
        BY <2>1, <2>2, RestingCursor, RestingProcess
<1>7. ASSUME NEW t \in batch[w], Skip(w, t)
      PROVE  CursorInv' /\ ProcessInv(w)' /\ \A v \in Watchers \ {w} : ProcessInv(v)'
    <2>1. Mild /\ cursor' = cursor /\ \A v \in Watchers \ {w} : Rests(v)
        BY <1>7 DEF Skip, Mild, Rests, TypeOK
    <2>2. ProcessInv(w)'
        BY <1>0, <1>7, <2>1, NextPosition DEF Skip, TypeOK
    <2>3. QED
        BY <2>1, <2>2, RestingCursor, RestingProcess
<1>8. ASSUME NEW t \in batch[w], Screen(w, t) \/ Replay(w, t)
      PROVE  CursorInv' /\ ProcessInv(w)' /\ \A v \in Watchers \ {w} : ProcessInv(v)'
    <2>1. Mild /\ cursor' = cursor /\ \A v \in Watchers \ {w} : Rests(v)
        BY <1>8 DEF Screen, Replay, Mild, Rests, TypeOK
    <2>2. \A u \in batch[w] : Current(w, u) => u = t
        <3>1. Current(w, t) /\ batch[w] \subseteq Nat
            BY <1>0, <1>8 DEF Screen, Replay, Tokens, TypeOK
        <3>2. QED
            BY <3>1 DEF Current
    <2>3. ProcessInv(w)'
        BY <1>0, <1>8, <2>1, <2>2, SamePosition DEF Screen, Replay, TypeOK
    <2>4. QED
        BY <2>1, <2>3, RestingCursor, RestingProcess
<1>9. ASSUME NEW t \in batch[w], Insert(w, t)
      PROVE  CursorInv' /\ ProcessInv(w)' /\ \A v \in Watchers \ {w} : ProcessInv(v)'
    <2>1. DOMAIN payments' = DOMAIN payments \cup {t}
        BY <1>9 DEF Insert
    <2>2. Mild /\ cursor' = cursor /\ \A v \in Watchers \ {w} : Rests(v)
        BY <1>9, <2>1 DEF Insert, Mild, Rests, TypeOK
    <2>3. \A u \in batch[w] : Current(w, u) => u = t
        BY <1>0, <1>9 DEF Current, Insert
    <2>4. ProcessInv(w)'
        BY <1>0, <1>9, <2>1, <2>2, <2>3, SamePosition DEF Insert, TypeOK
    <2>5. QED
        BY <2>2, <2>4, RestingCursor, RestingProcess
<1>10. ASSUME NEW t \in batch[w], Save(w, t)
       PROVE  CursorInv' /\ ProcessInv(w)' /\ \A v \in Watchers \ {w} : ProcessInv(v)'
    <2>1. Mild /\ cursor' = t /\ \A v \in Watchers \ {w} : Rests(v)
        BY <1>10 DEF Save, Mild, Rests, TypeOK
    <2>2. t \in DOMAIN payments
        BY <1>0, <1>10 DEF Save, ProcessInv, SavedHasRow
    <2>3. ProcessInv(w)' /\ Covered(Account[w], t)' /\ Within(t)'
        BY <1>0, <1>10, <2>1, <2>2, NextPosition DEF Save, TypeOK
    <2>4. CursorInv'
        BY <2>1, <2>3 DEF CursorInv, OneAccount, Within, Covered
    <2>5. QED
        BY <2>1, <2>3, <2>4, RestingProcess
<1>11. ASSUME NEW t \in batch[w], Conflict(w, t)
       PROVE  CursorInv' /\ ProcessInv(w)' /\ \A v \in Watchers \ {w} : ProcessInv(v)'
    <2>1. Mild /\ cursor' = cursor /\ \A v \in Watchers \ {w} : Rests(v)
        BY <1>11 DEF Conflict, Vanish, Mild, Rests, TypeOK
    <2>2. ProcessInv(w)'
        BY <1>0, <1>11, <2>1, SamePosition DEF Conflict, Vanish, TypeOK
    <2>3. QED
        BY <2>1, <2>2, RestingCursor, RestingProcess
<1>12. QED
    BY <1>1, <1>2, <1>3, <1>4, <1>5, <1>6, <1>7, <1>8, <1>9, <1>10, <1>11 DEF Progress

\* Every other step rests every process or stops one.
LEMMA SkipInvOthers ==
    ASSUME SkipInv, TypeOK',
           \/ Operator
           \/ UNCHANGED vars
           \/ \E w \in Watchers : Check(w) \/ Drain(w) \/ Fail(w)
    PROVE  SkipInv'
<1> SUFFICES CursorInv' /\ RewindsInv' /\ \A v \in Watchers : ProcessInv(v)'
    BY DEF SkipInv
<1>0. TypeOK /\ floor \in Nat /\ \A w \in Watchers : checks[w] \subseteq DOMAIN payments
    BY DEF SkipInv, TypeOK
<1> USE DEF dbVars, procVars, history, counters
<1>1. ASSUME NEW w \in Watchers, Check(w)
      PROVE  CursorInv' /\ RewindsInv' /\ \A v \in Watchers : ProcessInv(v)'
    <2>1. Mild /\ UNCHANGED <<cursor, rewinds>> /\ \A v \in Watchers : Rests(v)
        BY <1>0, <1>1 DEF Check, MarkHeld, LetPass, Mild, Rests
    <2>2. QED
        BY <2>1, RestingCursor, RestingRewinds, RestingProcess
<1>2. ASSUME NEW w \in Watchers, Drain(w) \/ Fail(w)
      PROVE  CursorInv' /\ RewindsInv' /\ \A v \in Watchers : ProcessInv(v)'
    <2>1. Mild /\ UNCHANGED <<cursor, rewinds>> /\ \A v \in Watchers \ {w} : Rests(v)
        BY <1>0, <1>2 DEF Drain, Fail, Vanish, Mild, Rests, TypeOK
    <2>2. ProcessInv(w)'
        BY <1>0, <1>2, <2>1, SamePosition DEF Drain, Fail, Vanish, TypeOK
    <2>3. QED
        BY <2>1, <2>2, RestingCursor, RestingRewinds, RestingProcess
<1>3. CASE Operator
    <2>1. Mild /\ \A v \in Watchers : Rests(v)
        BY <1>0, <1>3, ReconcilerAssumption
           DEF ReconcilerAssumption, Operator, SetPaymentStatus, Block, Unblock, RewindCheck,
               RewindWrite, SetCursor, Mild, Rests, AtLeast, Now, TypeOK
    <2>2. CASE \E v \in Targets : RewindCheck(v)
        <3>1. PICK v \in Targets : RewindCheck(v)
            BY <2>2
        <3>2. /\ cursor' = cursor /\ rewinds' = rewinds \cup {v}
              /\ v \in Nat \cup {Now} /\ cursor \in Nat \cup {Now}
              /\ v <= cursor \/ v <= floor'
            BY <1>0, <3>1, ReconcilerAssumption
               DEF RewindCheck, NotForward, ReconcilerAssumption, AtLeast, Now, TypeOK
        <3>3. CursorInv'
            BY <2>1, <3>2, RestingCursor
        <3>4. Within(v)' /\ \A w \in Watchers : Covered(Account[w], v)'
            BY <2>1, <3>2, <3>3
               DEF CursorInv, Within, Covered, Owed, Feed, Tokens, Mild, TypeOK, Now
        <3>5. RewindsInv'
            <4>1. ASSUME NEW x \in rewinds
                  PROVE  Within(x)' /\ \A w \in Watchers : Covered(Account[w], x)'
                <5>1. x \in Nat \cup {Now} /\ RewindsInv
                    BY <1>0, ReconcilerAssumption DEF ReconcilerAssumption, SkipInv, TypeOK
                <5>2. QED
                    BY <1>0, <2>1, <5>1, WithinKept, CoverageKept DEF RewindsInv, Mild
            <4>2. QED
                BY <3>2, <3>4, <4>1 DEF RewindsInv
        <3>6. QED
            BY <2>1, <3>3, <3>5, RestingProcess
    <2>3. CASE \E v \in rewinds : RewindWrite(v)
        <3>1. PICK v \in rewinds : RewindWrite(v)
            BY <2>3
        <3>2. cursor' = v /\ rewinds' \subseteq rewinds /\ v \in Nat \cup {Now} /\ RewindsInv
            BY <1>0, <3>1, ReconcilerAssumption
               DEF RewindWrite, ReconcilerAssumption, SkipInv, TypeOK
        <3>3. Within(v)' /\ \A w \in Watchers : Covered(Account[w], v)'
            BY <1>0, <2>1, <3>2, WithinKept, CoverageKept DEF RewindsInv, Mild
        <3>4. CursorInv'
            BY <3>2, <3>3 DEF CursorInv, Within, Covered
        <3>5. QED
            BY <2>1, <3>2, <3>4, RestingRewinds, RestingProcess
    <2>4. CASE ~(\E v \in Targets : RewindCheck(v)) /\ ~(\E v \in rewinds : RewindWrite(v))
        <3>1. rewinds' = rewinds /\ (cursor' = cursor \/ cursor' <= floor')
            BY <1>0, <1>3, <2>4, ReconcilerAssumption
               DEF ReconcilerAssumption, Operator, SetPaymentStatus, Block, Unblock,
                   SetCursor, AtLeast, Now, TypeOK
        <3>2. QED
            BY <2>1, <3>1, RestingCursor, ChosenCursor, RestingRewinds, RestingProcess DEF Mild
    <2>5. QED
        BY <2>2, <2>3, <2>4
<1>4. CASE UNCHANGED vars
    <2>1. Mild /\ UNCHANGED <<cursor, rewinds>> /\ \A v \in Watchers : Rests(v)
        BY <1>0, <1>4 DEF vars, Mild, Rests
    <2>2. QED
        BY <2>1, RestingCursor, RestingRewinds, RestingProcess
<1>5. QED
    BY <1>1, <1>2, <1>3, <1>4

LEMMA SkipInvStep ==
    ASSUME OneAccount PROVE SkipInv /\ [Next]_vars => SkipInv'
<1> SUFFICES ASSUME SkipInv, [Next]_vars PROVE SkipInv'
    OBVIOUS
<1>1. TypeOK'
    BY TypeStep DEF SkipInv
<1>2. QED
    BY <1>1, SkipInvLand, SkipInvProgress, SkipInvOthers DEF Next

\* With one watched account, any number of processes, exits at any point,
\* replays and operators' rewinds: no position that is stored or worked from
\* is past an unrecorded payment that nobody chose to pass over.
THEOREM NoPaymentSkipped ==
    ASSUME OneAccount PROVE Spec => []NoSkippedPayment
<1>1. SkipInv => NoSkippedPayment
    BY DEF SkipInv, CursorInv, ProcessInv, NoSkippedPayment
<1>2. QED
    BY <1>1, SkipInvInit, SkipInvStep, PTL DEF Spec

-----------------------------------------------------------------------------
(* No payment of a denied payer is let through unscreened.                 *)

Screened == waived \cup UNION {checks[w] : w \in Watchers}

\* A step that keeps rows and chain may only move tokens between the checks
\* that run and those that were given up.
LEMMA ScreeningKept ==
    ASSUME TypeOK, NoUnscreenedPayment, payments' = payments,
           \A t \in Tokens : chain'[t] = chain[t], Screened \subseteq Screened'
    PROVE  NoUnscreenedPayment'
BY DEF NoUnscreenedPayment, Screened, TypeOK

\* What one process gives up shows among the waived.
LEMMA ChecksHandedOver ==
    ASSUME NEW w \in Watchers, waived \cup checks[w] \subseteq waived' \cup checks'[w],
           \A v \in Watchers \ {w} : checks'[v] = checks[v]
    PROVE  Screened \subseteq Screened'
<1> SUFFICES ASSUME NEW t \in Screened PROVE t \in Screened'
    OBVIOUS
<1>1. CASE t \in waived
    BY <1>1 DEF Screened
<1>2. ASSUME NEW v \in Watchers, t \in checks[v] PROVE t \in Screened'
    <2>1. CASE v = w
        BY <1>2, <2>1 DEF Screened
    <2>2. CASE v # w
        BY <1>2, <2>2 DEF Screened
    <2>3. QED
        BY <2>1, <2>2
<1>3. QED
    BY <1>1, <1>2 DEF Screened

LEMMA ScreeningStep ==
    TypeOK /\ NoUnscreenedPayment /\ [Next]_vars => NoUnscreenedPayment'
<1> SUFFICES ASSUME TypeOK, NoUnscreenedPayment, [Next]_vars PROVE NoUnscreenedPayment'
    OBVIOUS
<1> USE DEF dbVars, procVars, history, counters
<1>1. CASE Land
    <2>1. Screened' = Screened /\ payments' = payments
        BY <1>1 DEF Land, Screened
    <2>2. QED
        BY <1>1, <2>1, LandGrowsChain, ScreeningKept
<1>2. ASSUME NEW w \in Watchers, Progress(w) PROVE NoUnscreenedPayment'
    <2>1. ASSUME NEW t \in batch[w], Insert(w, t) PROVE NoUnscreenedPayment'
        <3>1. DOMAIN payments' = DOMAIN payments \cup {t} /\ chain' = chain
            BY <2>1 DEF Insert
        <3>2. Screened \subseteq Screened'
            BY <2>1, ChecksHandedOver DEF Insert, TypeOK
        <3>3. ASSUME NEW u \in DOMAIN payments', chain[u].from \in Denied,
                     payments'[u].status = "paid"
              PROVE  u \in Screened'
            <4>1. CASE u = t
                <5>1. payments'[t].status = IF sawBlocked[w] THEN "held" ELSE "paid"
                    BY <2>1, <3>1 DEF Insert
                <5>2. t \in checks'[w]
                    BY <2>1, <3>3, <4>1, <5>1 DEF Insert, TypeOK
                <5>3. QED
                    BY <4>1, <5>2 DEF Screened
            <4>2. CASE u # t
                <5>1. u \in DOMAIN payments /\ payments'[u] = payments[u]
                    BY <2>1, <3>1, <4>2 DEF Insert
                <5>2. QED
                    BY <3>2, <3>3, <5>1 DEF NoUnscreenedPayment, Screened
            <4>3. QED
                BY <4>1, <4>2
        <3>4. QED
            BY <3>1, <3>3 DEF NoUnscreenedPayment, Screened
    <2>2. ASSUME NEW t \in batch[w], Conflict(w, t) PROVE NoUnscreenedPayment'
        <3>1. Screened \subseteq Screened' /\ payments' = payments /\ chain' = chain
            BY <2>2, ChecksHandedOver DEF Conflict, Vanish, TypeOK
        <3>2. QED
            BY <3>1, ScreeningKept
    <2>3. CASE Finish(w)
        <3>1. Screened \subseteq Screened' /\ payments' = payments /\ chain' = chain
            BY <2>3, ChecksHandedOver DEF Finish, Vanish, TypeOK
        <3>2. QED
            BY <3>1, ScreeningKept
    <2>4. CASE UNCHANGED <<chain, payments, checks, waived>>
        BY <2>4, ScreeningKept DEF Screened
    <2>5. QED
        BY <1>2, <2>1, <2>2, <2>3, <2>4
           DEF Progress, Start, ResolveNow, SeedCursor, Poll, NextPoll, Skip, Screen, Replay, Save
<1>3. ASSUME NEW w \in Watchers, NEW t \in checks[w], MarkHeld(w, t)
      PROVE  NoUnscreenedPayment'
    <2>1. DOMAIN payments' = DOMAIN payments /\ chain' = chain /\ t \in DOMAIN payments
        BY <1>3 DEF MarkHeld, TypeOK
    <2>2. payments'[t].status = "held"
        BY <1>3, <2>1 DEF MarkHeld, TypeOK, Row
    <2>3. ASSUME NEW u \in Screened, u # t PROVE u \in Screened'
        BY <1>3, <2>3 DEF Screened, MarkHeld, TypeOK
    <2>4. ASSUME NEW u \in DOMAIN payments, u # t PROVE payments'[u] = payments[u]
        BY <1>3, <2>4 DEF MarkHeld, TypeOK
    <2>5. QED
        BY <2>1, <2>2, <2>3, <2>4 DEF NoUnscreenedPayment, Screened
<1>4. ASSUME NEW w \in Watchers, NEW t \in checks[w], LetPass(w, t)
      PROVE  NoUnscreenedPayment'
    <2>1. Screened \subseteq Screened' /\ payments' = payments /\ chain' = chain
        BY <1>4, ChecksHandedOver DEF LetPass, TypeOK
    <2>2. QED
        BY <2>1, ScreeningKept
<1>5. ASSUME NEW w \in Watchers, Drain(w) \/ Fail(w) PROVE NoUnscreenedPayment'
    <2>1. Screened \subseteq Screened' /\ payments' = payments /\ chain' = chain
        BY <1>5, ChecksHandedOver DEF Drain, Fail, Vanish, TypeOK
    <2>2. QED
        BY <2>1, ScreeningKept
<1>6. CASE Operator
    <2>1. ASSUME NEW t \in DOMAIN payments, NEW s \in Statuses, SetPaymentStatus(t, s)
          PROVE  NoUnscreenedPayment'
        <3>1. /\ DOMAIN payments' = DOMAIN payments /\ chain' = chain
              /\ Screened' = Screened \cup {t}
            BY <2>1 DEF SetPaymentStatus, Screened
        <3>2. ASSUME NEW u \in DOMAIN payments, u # t PROVE payments'[u] = payments[u]
            BY <2>1, <3>2 DEF SetPaymentStatus, TypeOK
        <3>3. QED
            BY <3>1, <3>2 DEF NoUnscreenedPayment, Screened
    <2>2. CASE UNCHANGED <<chain, payments, checks, waived>>
        BY <2>2, ScreeningKept DEF Screened
    <2>3. QED
        BY <1>6, <2>1, <2>2
           DEF Operator, Block, Unblock, RewindCheck, RewindWrite, SetCursor
<1>7. CASE UNCHANGED vars
    BY <1>7, ScreeningKept DEF vars, Screened
<1>8. QED
    BY <1>1, <1>2, <1>3, <1>4, <1>5, <1>6, <1>7 DEF Next, Check

\* A payment of a payer the contract denies never rests at "paid" with its
\* check neither running nor given up: whichever process recorded it, and
\* however that process ended.
THEOREM NoPayerUnscreened == Spec => []NoUnscreenedPayment
<1>1. Init => TypeOK /\ NoUnscreenedPayment
    BY InitTypeOK DEF Init, NoUnscreenedPayment
<1>2. QED
    BY <1>1, TypeStep, ScreeningStep, PTL DEF Spec
=============================================================================
