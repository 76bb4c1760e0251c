------------------------ MODULE TreasurySweepProofs -------------------------
(***************************************************************************)
(* What TLAPS proves about TreasurySweep, for any number of replicas, cap, *)
(* minimum and number of disruptions.                                      *)
(***************************************************************************)
EXTENDS TreasurySweep, TLAPS

PcValues == {"idle", "connecting", "reading", "guarding", "halting", "recording",
             "preparing", "sending", "polling", "unlocking"}

LEMMA BoundsAreNat ==
    /\ Cap \in Nat /\ Minimum \in Nat
    /\ MaxEarned \in Nat /\ MaxDays \in Nat /\ MaxOthers \in Nat
    /\ MaxResumes \in Nat /\ MaxDisruptions \in Nat
BY SweepAssumption DEF SweepAssumption

-----------------------------------------------------------------------------
(* Type correctness.                                                        *)

LEMMA InitType == Init => TypeOK
<1> SUFFICES ASSUME Init PROVE TypeOK
    OBVIOUS
<1>1. NoTx \in Tx
    BY DEF NoTx, Tx
<1>2. tx \in [Replicas -> Tx] /\ orphans \subseteq Tx
    BY <1>1 DEF Init
<1>3. /\ earned \in 0..MaxEarned /\ others \in 0..MaxOthers /\ day \in 0..MaxDays
      /\ resumes \in 0..MaxResumes /\ disruptions \in 0..MaxDisruptions
    BY BoundsAreNat DEF Init
<1>4. log \in Seq(Nat)
    BY DEF Init
<1>5. QED
    BY <1>2, <1>3, <1>4 DEF Init, TypeOK

LEMMA IncludeType ==
    ASSUME balance \in Nat, seq \in Nat, moved \in Nat, paid \subseteq Nat, NEW t \in Tx, Include(t)
    PROVE  balance' \in Nat /\ seq' \in Nat /\ moved' \in Nat /\ paid' \subseteq Nat
<1>1. t.amount \in Nat /\ t.seq \in Nat /\ t.entry \in Nat
    BY DEF Tx
<1>2. CASE t.amount <= balance
    <2>1. /\ seq' = t.seq /\ balance' = balance - t.amount
          /\ moved' = moved + t.amount /\ paid' = paid \cup {t.entry}
        BY <1>2 DEF Include
    <2>2. balance' \in Nat /\ moved' \in Nat
        BY <1>1, <1>2, <2>1
    <2>3. QED
        BY <1>1, <2>1, <2>2
<1>3. CASE ~ (t.amount <= balance)
    BY <1>1, <1>3 DEF Include
<1>4. QED
    BY <1>2, <1>3

LEMMA DisruptType ==
    ASSUME disruptions \in 0..MaxDisruptions, Disrupt
    PROVE  disruptions' \in 0..MaxDisruptions
BY BoundsAreNat DEF Disrupt

LEMMA TypeStep == TypeOK /\ [Next]_vars => TypeOK'
<1> SUFFICES ASSUME TypeOK, [Next]_vars PROVE TypeOK'
    OBVIOUS
<1>0. /\ pc \in [Replicas -> PcValues] /\ NoTx \in Tx
      /\ balance \in Nat /\ seq \in Nat /\ moved \in Nat /\ spent \in Nat
      /\ paid \subseteq Nat /\ log \in Seq(Nat) /\ entry \in [Replicas -> Nat]
      /\ lock \in Replicas \cup {None}
    BY DEF TypeOK, PcValues, NoTx, Tx
<1> USE DEF ledger, guard, procVars, history, counters
<1>1. ASSUME NEW r \in Replicas, Land(r) PROVE TypeOK'
    <2>1. balance' \in Nat /\ seq' \in Nat /\ moved' \in Nat /\ paid' \subseteq Nat
        BY <1>0, <1>1, IncludeType DEF Land, TypeOK
    <2>2. tx' \in [Replicas -> Tx]
        <3>1. tx \in [Replicas -> Tx]
            BY DEF TypeOK
        <3>2. PICK res \in {"success", "failed"} : tx' = [tx EXCEPT ![r].result = res]
            BY <1>1 DEF Land
        <3>3. [tx[r] EXCEPT !.result = res] \in Tx
            BY <3>1 DEF Tx
        <3>4. QED
            BY <3>1, <3>2, <3>3
    <2>3. QED
        BY <1>1, <2>1, <2>2 DEF Land, TypeOK
<1>2. ASSUME NEW t \in orphans, LandLate(t) PROVE TypeOK'
    <2>1. balance' \in Nat /\ seq' \in Nat /\ moved' \in Nat /\ paid' \subseteq Nat
        BY <1>0, <1>2, IncludeType DEF LandLate, TypeOK
    <2>2. QED
        BY <1>2, <2>1 DEF LandLate, TypeOK
<1>3. ASSUME NEW t \in orphans, Expire(t) PROVE TypeOK'
    BY <1>3 DEF Expire, TypeOK
<1>4. CASE Earn \/ OtherSubmission \/ Midnight \/ Resume
    <2>1. balance' \in Nat /\ seq' \in Nat /\ moved' = moved /\ spent' \in Nat
        BY <1>0, <1>4 DEF Earn, OtherSubmission, Midnight, Resume
    <2>2. /\ earned' \in 0..MaxEarned /\ others' \in 0..MaxOthers /\ day' \in 0..MaxDays
          /\ resumes' \in 0..MaxResumes /\ disruptions' = disruptions
        <3>1. CASE Earn
            BY <3>1, BoundsAreNat DEF Earn, TypeOK
        <3>2. CASE OtherSubmission
            BY <3>2, BoundsAreNat DEF OtherSubmission, TypeOK
        <3>3. CASE Midnight
            BY <3>3, BoundsAreNat DEF Midnight, TypeOK
        <3>4. CASE Resume
            BY <3>4, BoundsAreNat DEF Resume, TypeOK
        <3>5. QED
            BY <1>4, <3>1, <3>2, <3>3, <3>4
    <2>3. QED
        BY <1>4, <2>1, <2>2 DEF Earn, OtherSubmission, Midnight, Resume, TypeOK
<1>5. CASE Tick
    BY <1>5 DEF Tick, TypeOK
<1>6. ASSUME NEW r \in Replicas, TryLock(r) PROVE TypeOK'
    <2>1. lock' \in Replicas \cup {None} /\ pc' \in [Replicas -> PcValues]
        BY <1>0, <1>6 DEF TryLock, At, PcValues
    <2>2. QED
        BY <1>6, <2>1 DEF TryLock, TypeOK, PcValues
<1>7. ASSUME NEW r \in Replicas, ReadBalance(r) PROVE TypeOK'
    <2>1. amount' \in [Replicas -> Nat]
        <3>1. amount \in [Replicas -> Nat]
            BY DEF TypeOK
        <3>2. CASE balance > Minimum
            <4>1. balance - Minimum \in Nat
                BY <1>0, <3>2, BoundsAreNat
            <4>2. amount' = [amount EXCEPT ![r] = balance - Minimum]
                BY <1>7, <3>2 DEF ReadBalance
            <4>3. QED
                BY <3>1, <4>1, <4>2
        <3>3. CASE ~ (balance > Minimum)
            BY <1>7, <3>1, <3>3 DEF ReadBalance
        <3>4. QED
            BY <3>2, <3>3
    <2>2. pc' \in [Replicas -> PcValues]
        BY <1>0, <1>7 DEF ReadBalance, At, PcValues
    <2>3. overlapped' \in BOOLEAN
        BY <1>7 DEF ReadBalance
    <2>4. QED
        BY <1>7, <2>1, <2>2, <2>3 DEF ReadBalance, TypeOK, PcValues
<1>8. ASSUME NEW r \in Replicas, Guard(r) \/ Halt(r) \/ Record(r) \/ Prepare(r) \/ Unlock(r)
      PROVE  TypeOK'
    <2>1. pc' \in [Replicas -> PcValues]
        BY <1>0, <1>8 DEF Guard, Halt, Record, Prepare, Unlock, At, PcValues
    <2>2. spent' \in Nat
        <3>1. amount[r] \in Nat
            BY DEF TypeOK
        <3>2. QED
            BY <1>0, <1>8, <3>1 DEF Guard, Halt, Record, Prepare, Unlock
    <2>5. account' \in [Replicas -> Nat] /\ halted' \in BOOLEAN
        BY <1>0, <1>8 DEF Guard, Halt, Record, Prepare, Unlock, TypeOK
    <2>3. lock' \in Replicas \cup {None}
        BY <1>0, <1>8 DEF Guard, Halt, Record, Prepare, Unlock
    <2>6. log' \in Seq(Nat) /\ entry' \in [Replicas -> Nat]
        <3>1. CASE Record(r)
            <4>1. log' = Append(log, amount[r]) /\ amount[r] \in Nat
                BY <3>1 DEF Record, TypeOK
            <4>2. log' \in Seq(Nat)
                BY <1>0, <4>1
            <4>3. Len(log') \in Nat
                BY <4>2
            <4>4. QED
                BY <1>0, <3>1, <4>2, <4>3 DEF Record
        <3>2. CASE Guard(r) \/ Halt(r) \/ Prepare(r) \/ Unlock(r)
            BY <1>0, <3>2 DEF Guard, Halt, Prepare, Unlock
        <3>3. QED
            BY <1>8, <3>1, <3>2
    <2>4. QED
        BY <1>8, <2>1, <2>2, <2>3, <2>5, <2>6 DEF Guard, Halt, Record, Prepare, Unlock, TypeOK, PcValues
<1>9. ASSUME NEW r \in Replicas, Send(r) PROVE TypeOK'
    <2>1. [amount |-> amount[r], seq |-> account[r] + 1, result |-> "pending",
           entry |-> entry[r]] \in Tx
        BY DEF TypeOK, Tx
    <2>2. tx' \in [Replicas -> Tx]
        BY <1>9, <2>1 DEF Send, TypeOK
    <2>3. pc' \in [Replicas -> PcValues]
        BY <1>0, <1>9 DEF Send, At, PcValues
    <2>4. QED
        BY <1>9, <2>2, <2>3 DEF Send, TypeOK, PcValues
<1>10. ASSUME NEW r \in Replicas, PollEnds(r) \/ PollTimesOut(r) PROVE TypeOK'
    <2>0. tx \in [Replicas -> Tx] /\ orphans \subseteq Tx
        BY DEF TypeOK
    <2>1. tx' \in [Replicas -> Tx] /\ orphans' \subseteq Tx
        <3>1. tx' = [tx EXCEPT ![r] = NoTx] /\ orphans' \in {orphans, orphans \cup {tx[r]}}
            BY <1>10 DEF PollEnds, PollTimesOut
        <3>2. QED
            BY <1>0, <2>0, <3>1
    <2>2. pc' \in [Replicas -> PcValues]
        BY <1>0, <1>10 DEF PollEnds, PollTimesOut, At, PcValues
    <2>3. disruptions' \in 0..MaxDisruptions
        BY <1>10, DisruptType DEF PollEnds, PollTimesOut, TypeOK
    <2>4. UNCHANGED <<ledger, guard, lock, amount, entry, account, history, earned, others, resumes>>
        BY <1>10 DEF PollEnds, PollTimesOut
    <2>5. QED
        BY <2>1, <2>2, <2>3, <2>4 DEF TypeOK, PcValues
<1>11. ASSUME NEW r \in Replicas, Break(r) \/ LoseConnection(r) \/ Crash(r) PROVE TypeOK'
    <2>0. tx \in [Replicas -> Tx] /\ orphans \subseteq Tx
        BY DEF TypeOK
    <2>1. tx' \in [Replicas -> Tx] /\ orphans' \subseteq Tx
        BY <1>0, <1>11, <2>0 DEF Break, LoseConnection, Crash
    <2>2. pc' \in [Replicas -> PcValues]
        BY <1>0, <1>11 DEF Break, LoseConnection, Crash, PcValues
    <2>3. lock' \in Replicas \cup {None} /\ unguarded' \in BOOLEAN
        BY <1>0, <1>11 DEF Break, LoseConnection, Crash, TypeOK
    <2>4. disruptions' \in 0..MaxDisruptions
        BY <1>11, DisruptType DEF Break, LoseConnection, Crash, TypeOK
    <2>5. QED
        BY <1>11, <2>1, <2>2, <2>3, <2>4 DEF Break, LoseConnection, Crash, TypeOK, PcValues
<1>12. CASE UNCHANGED vars
    BY <1>12 DEF vars, TypeOK
<1>13. QED
    BY <1>1, <1>2, <1>3, <1>4, <1>5, <1>6, <1>7, <1>8, <1>9, <1>10, <1>11, <1>12 DEF Next, Sweep

\* Every variable keeps its type: the account is never overdrawn and no sweep
\* is of a negative amount.
THEOREM SweepTypeCorrect == Spec => []TypeOK
BY InitType, TypeStep, PTL DEF Spec

-----------------------------------------------------------------------------
(* The guard.  Its check and its insert are two statements; they act as one *)
(* because a replica that is past the lock holds it.                        *)

Working == PcValues \ {"idle", "connecting"}

HoldsLock(r) == pc[r] \in Working => lock = r

\* What the check established still holds when it is used.
Passed(r) ==
    /\ pc[r] = "recording" => spent + amount[r] <= Cap
    /\ pc[r] \in {"recording", "preparing", "sending"} => ~halted

GuardInv ==
    unguarded \/ (spent <= Cap /\ \A r \in Replicas : HoldsLock(r) /\ Passed(r))

LEMMA InitGuard == Init => GuardInv
BY BoundsAreNat DEF Init, GuardInv, HoldsLock, Passed, Working

\* A lost lock is not forgotten.
LEMMA LockLost == ASSUME [Next]_vars, unguarded PROVE unguarded'
<1>1. CASE UNCHANGED unguarded
    BY <1>1
<1>2. CASE \E r \in Replicas : LoseConnection(r)
    BY <1>2 DEF LoseConnection
<1>3. QED
    BY <1>1, <1>2
       DEF Next, Sweep, vars, history, TryLock, ReadBalance, Guard, Halt, Record, Prepare,
           Send, PollEnds, PollTimesOut, Unlock, Land, LandLate, Expire, Break, Crash, Earn,
           OtherSubmission, Tick, Midnight, Resume

LEMMA GuardStep == TypeOK /\ GuardInv /\ [Next]_vars => GuardInv'
<1> SUFFICES ASSUME TypeOK, GuardInv, [Next]_vars, ~unguarded' PROVE GuardInv'
    BY DEF GuardInv
<1>0. ~unguarded
    BY LockLost
<1>1. spent <= Cap /\ \A r \in Replicas : HoldsLock(r) /\ Passed(r)
    BY <1>0 DEF GuardInv
<1>2. /\ pc \in [Replicas -> PcValues] /\ amount \in [Replicas -> Nat]
      /\ spent \in Nat /\ Cap \in Nat /\ halted \in BOOLEAN
    BY BoundsAreNat DEF TypeOK, PcValues
<1> USE DEF guard, procVars, history
<1>q. ASSUME spent' <= Cap, NEW r \in Replicas, lock = r, lock' \in {r, None},
             \A s \in Replicas \ {r} : pc'[s] = pc[s],
             HoldsLock(r)', Passed(r)'
      PROVE  GuardInv'
    <2>1. ASSUME NEW s \in Replicas, s # r PROVE HoldsLock(s)' /\ Passed(s)'
        <3>1. pc[s] \notin Working /\ pc'[s] = pc[s]
            BY <1>1, <1>q, <2>1 DEF HoldsLock
        <3>2. pc[s] \in {"idle", "connecting"}
            BY <1>2, <3>1 DEF Working
        <3>3. QED
            BY <3>1, <3>2 DEF HoldsLock, Passed
    <2>2. QED
        BY <1>q, <2>1 DEF GuardInv
<1>3. ASSUME NEW r \in Replicas, TryLock(r) PROVE GuardInv'
    <2>1. spent' = spent /\ halted' = halted /\ amount' = amount
        BY <1>3 DEF TryLock
    <2>2. \A s \in Replicas \ {r} : pc'[s] = pc[s]
        BY <1>2, <1>3 DEF TryLock, At
    <2>3. pc'[r] \in {"reading", "idle"} /\ (pc'[r] = "reading" => lock' = r /\ lock = None)
        BY <1>2, <1>3 DEF TryLock, At
    <2>4. pc[r] = "connecting" /\ (lock' = lock \/ lock = None)
        BY <1>3 DEF TryLock, At
    <2>5. ASSUME NEW s \in Replicas, s # r PROVE HoldsLock(s)' /\ Passed(s)'
        BY <1>1, <2>1, <2>2, <2>4, <2>5, SweepAssumption DEF HoldsLock, Passed, SweepAssumption
    <2>6. HoldsLock(r)' /\ Passed(r)'
        BY <2>3 DEF HoldsLock, Passed, Working
    <2>7. QED
        BY <1>1, <2>1, <2>5, <2>6 DEF GuardInv
<1>4. ASSUME NEW r \in Replicas, Guard(r) PROVE GuardInv'
    <2>1. pc[r] \in Working /\ lock' = lock /\ spent' = spent /\ halted' = halted /\ amount' = amount
        BY <1>4 DEF Guard, At, Working, PcValues
    <2>2. pc' = [pc EXCEPT ![r] = IF halted THEN "unlocking"
                                  ELSE IF spent + amount[r] > Cap THEN "halting" ELSE "recording"]
        BY <1>4 DEF Guard, At
    <2>3. Passed(r)'
        BY <1>2, <2>1, <2>2 DEF Passed
    <2>4. QED
        BY <1>q, <1>1, <1>2, <2>1, <2>2, <2>3 DEF HoldsLock
<1>5. ASSUME NEW r \in Replicas, Record(r) PROVE GuardInv'
    <2>1. pc[r] = "recording" /\ lock' = lock /\ spent' = spent + amount[r] /\ halted' = halted
        BY <1>5 DEF Record, At
    <2>2. pc' = [pc EXCEPT ![r] = "preparing"]
        BY <1>5 DEF Record, At
    <2>3. spent' <= Cap /\ ~halted /\ lock = r
        BY <1>1, <2>1 DEF Passed, HoldsLock, Working, PcValues
    <2>4. Passed(r)'
        BY <1>2, <2>1, <2>2, <2>3 DEF Passed
    <2>5. QED
        BY <1>q, <1>2, <2>1, <2>2, <2>3, <2>4 DEF HoldsLock
<1>6. ASSUME NEW r \in Replicas, NEW there \in PcValues, pc[r] \in Working, lock' \in {lock, None},
             lock' = lock \/ there = "idle", there # "recording",
             there \in {"preparing", "sending"} => pc[r] \in {"recording", "preparing"} /\ halted' = halted,
             pc' = [pc EXCEPT ![r] = there], spent' = spent
      PROVE  GuardInv'
    <2>1. lock = r
        BY <1>1, <1>6 DEF HoldsLock
    <2>2. HoldsLock(r)'
        BY <1>2, <1>6, <2>1 DEF HoldsLock, Working
    <2>3. Passed(r)'
        BY <1>1, <1>2, <1>6 DEF Passed
    <2>4. QED
        BY <1>q, <1>1, <1>2, <1>6, <2>1, <2>2, <2>3
<1>7. ASSUME NEW r \in Replicas,
             \/ ReadBalance(r) \/ Halt(r) \/ Prepare(r) \/ Send(r) \/ PollEnds(r)
             \/ PollTimesOut(r) \/ Unlock(r) \/ Break(r)
      PROVE  GuardInv'
    <2>1. CASE ReadBalance(r)
        <3>1. PICK there \in {"guarding", "unlocking"} : At(r, "reading", there)
            BY <2>1 DEF ReadBalance
        <3>2. lock' = lock /\ spent' = spent
            BY <2>1 DEF ReadBalance
        <3>3. QED
            BY <1>6, <3>1, <3>2 DEF At, Working, PcValues
    <2>2. CASE Halt(r)
        BY <1>6, <2>2 DEF Halt, At, Working, PcValues
    <2>3. CASE Prepare(r)
        BY <1>6, <2>3 DEF Prepare, At, Working, PcValues
    <2>4. CASE Send(r)
        <3>1. PICK there \in {"polling", "unlocking"} : At(r, "sending", there)
            BY <2>4 DEF Send
        <3>2. lock' = lock /\ spent' = spent
            BY <2>4 DEF Send
        <3>3. QED
            BY <1>6, <3>1, <3>2 DEF At, Working, PcValues
    <2>5. CASE PollEnds(r) \/ PollTimesOut(r)
        BY <1>6, <2>5 DEF PollEnds, PollTimesOut, At, Working, PcValues
    <2>6. CASE Unlock(r)
        <3>1. At(r, "unlocking", "idle") /\ spent' = spent /\ lock' \in {lock, None}
            BY <2>6 DEF Unlock
        <3>2. QED
            BY <1>6, <3>1 DEF At, Working, PcValues
    <2>7. CASE Break(r)
        BY <1>6, <2>7 DEF Break, Working, PcValues
    <2>8. QED
        BY <1>7, <2>1, <2>2, <2>3, <2>4, <2>5, <2>6, <2>7
<1>8. ASSUME NEW r \in Replicas, Crash(r) PROVE GuardInv'
    <2>1. /\ pc' = [pc EXCEPT ![r] = "idle"] /\ spent' = spent /\ halted' = halted
          /\ amount' = amount /\ lock' = IF lock = r THEN None ELSE lock
        BY <1>8 DEF Crash
    <2>2. CASE lock = r
        <3>1. HoldsLock(r)' /\ Passed(r)'
            BY <1>2, <2>1 DEF HoldsLock, Passed, Working
        <3>2. QED
            BY <1>q, <1>1, <1>2, <2>1, <2>2, <3>1
    <2>3. CASE lock # r
        <3>1. ASSUME NEW s \in Replicas PROVE HoldsLock(s)' /\ Passed(s)'
            BY <1>1, <1>2, <2>1, <2>3 DEF HoldsLock, Passed, Working
        <3>2. QED
            BY <1>1, <2>1, <3>1 DEF GuardInv
    <2>4. QED
        BY <2>2, <2>3
<1>9. CASE Tick
    <2>1. \A r \in Replicas : pc'[r] = "connecting"
        BY <1>9 DEF Tick
    <2>2. spent' = spent
        BY <1>9 DEF Tick
    <2>3. QED
        BY <1>1, <2>1, <2>2 DEF GuardInv, HoldsLock, Passed, Working
<1>10. CASE Midnight
    <2>1. spent' = 0 /\ halted' = halted /\ lock' = lock /\ pc' = pc /\ amount' = amount
        BY <1>10 DEF Midnight
    <2>2. ASSUME NEW r \in Replicas PROVE HoldsLock(r)' /\ Passed(r)'
        BY <1>1, <1>2, <2>1 DEF HoldsLock, Passed
    <2>3. QED
        BY <1>2, <2>1, <2>2 DEF GuardInv
<1>11. CASE Resume
    <2>1. spent' = spent /\ halted' = FALSE /\ lock' = lock /\ pc' = pc /\ amount' = amount
        BY <1>11 DEF Resume
    <2>2. QED
        BY <1>1, <2>1 DEF GuardInv, HoldsLock, Passed
<1>12. CASE UNCHANGED <<guard, lock, pc, amount>>
    BY <1>1, <1>12 DEF GuardInv, HoldsLock, Passed
<1>13. \/ \E r \in Replicas :
             \/ TryLock(r) \/ Guard(r) \/ Record(r) \/ Crash(r) \/ ReadBalance(r) \/ Halt(r)
             \/ Prepare(r) \/ Send(r) \/ PollEnds(r) \/ PollTimesOut(r) \/ Unlock(r) \/ Break(r)
             \/ LoseConnection(r)
       \/ Tick \/ Midnight \/ Resume
       \/ UNCHANGED <<guard, lock, pc, amount>>
    BY DEF Next, Sweep, vars, Land, LandLate, Expire, Earn, OtherSubmission
<1>14. ASSUME NEW r \in Replicas, LoseConnection(r) PROVE FALSE
    BY <1>14 DEF LoseConnection
<1>15. QED
    BY <1>3, <1>4, <1>5, <1>7, <1>8, <1>9, <1>10, <1>11, <1>12, <1>13, <1>14

LEMMA GuardInvariant == Spec => [](TypeOK /\ GuardInv)
BY InitType, TypeStep, InitGuard, GuardStep, PTL DEF Spec

\* However many replicas sweep, fail and restart, a day's log stays within the
\* cap unless a session lost its lock.
THEOREM DailyCapHolds == Spec => []WithinCap
<1>1. GuardInv => WithinCap
    BY DEF GuardInv, WithinCap
<1>2. QED
    BY <1>1, GuardInvariant, PTL

\* No transfer of a sweep is sent while signing is halted.
THEOREM HaltHolds == Spec => HaltStopsSweep
<1>1. ASSUME TypeOK, GuardInv, NEW r \in Replicas, Send(r), halted, ~unguarded, tx'[r] # tx[r]
      PROVE  FALSE
    <2>1. pc[r] = "sending"
        BY <1>1 DEF Send, At
    <2>2. QED
        BY <1>1, <2>1 DEF GuardInv, Passed
<1>2. TypeOK /\ GuardInv /\ [Next]_vars =>
        [\A r \in Replicas : halted /\ ~unguarded => ~(Send(r) /\ tx'[r] # tx[r])]_vars
    BY <1>1
<1>3. QED
    BY <1>2, GuardInvariant, PTL DEF Spec, HaltStopsSweep

-----------------------------------------------------------------------------
(* What leaves the account.  Any number of transfers may be valid at a time,   *)
(* but those that still can land have one sequence number, so one of them will. *)

Pending(t) == \E r \in Replicas : tx[r] = t /\ t.result = "pending"
InFlight == {t \in Tx : t \in orphans \/ Pending(t)}
Live(t) == t.seq = seq + 1

\* What the log has ever allowed to leave, rounded up to whole days.
Logged == day * Cap + spent

LEMMA LoggedType == TypeOK => Logged \in Nat
<1> SUFFICES ASSUME TypeOK PROVE Logged \in Nat
    OBVIOUS
<1>1. day \in Nat /\ Cap \in Nat /\ spent \in Nat
    BY BoundsAreNat DEF TypeOK
<1>2. day * Cap \in Nat
    BY <1>1
<1>3. QED
    BY <1>1, <1>2 DEF Logged

LEMMA LoggedTypeThen == ASSUME TypeOK' PROVE Logged' \in Nat
<1>1. day' \in 0..MaxDays /\ spent' \in Nat
    BY DEF TypeOK
<1>2. ASSUME NEW d \in Nat, NEW n \in Nat PROVE d * Cap + n \in Nat
    <2>1. Cap \in Nat
        BY BoundsAreNat
    <2>2. d * Cap \in Nat
        BY <2>1
    <2>3. QED
        BY <2>2
<1>3. day' \in Nat
    BY <1>1, BoundsAreNat
<1>4. QED
    BY <1>1, <1>2, <1>3 DEF Logged

\* The day that ends has used up at most its cap.
LEMMA LoggedAtMidnight ==
    ASSUME TypeOK, spent <= Cap, Midnight PROVE Logged' >= Logged
<1>1. day \in Nat /\ Cap \in Nat /\ spent \in Nat /\ day' = day + 1 /\ spent' = 0
    BY BoundsAreNat DEF TypeOK, Midnight
<1>2. (day + 1) * Cap = day * Cap + Cap /\ day * Cap \in Nat
    BY <1>1
<1>3. QED
    BY <1>1, <1>2 DEF Logged

LEMMA LoggedKept == ASSUME UNCHANGED guard PROVE Logged' = Logged
BY DEF guard, Logged

\* Only Send puts a transfer in flight; every other way into orphans is from a
\* replica that polled for it.
LEMMA FlightShrinks ==
    ASSUME TypeOK,
           \A t \in orphans' : t \in orphans \/ Pending(t),
           \A r \in Replicas : tx'[r] = tx[r] \/ tx'[r].result # "pending"
    PROVE  InFlight' \subseteq InFlight
BY DEF InFlight, Pending

LEMMA FlightKept == ASSUME UNCHANGED <<orphans, tx>> PROVE InFlight' = InFlight
BY DEF InFlight, Pending

LEMMA FlightEnds ==
    ASSUME TypeOK, NEW r \in Replicas,
           tx' = [tx EXCEPT ![r] = NoTx],
           orphans' \subseteq orphans \cup (IF tx[r].result = "pending" THEN {tx[r]} ELSE {})
    PROVE  InFlight' \subseteq InFlight
<1>1. tx \in [Replicas -> Tx] /\ NoTx.result # "pending"
    BY DEF TypeOK, NoTx
<1>2. \A t \in orphans' : t \in orphans \/ Pending(t)
    BY DEF Pending
<1>3. \A z \in Replicas : tx'[z] = tx[z] \/ tx'[z].result # "pending"
    BY <1>1
<1>4. QED
    BY <1>2, <1>3, FlightShrinks

\* The steps that leave the ledger, the log and the transfers' provisions alone.
Elsewhere ==
    \/ \E r \in Replicas :
           \/ TryLock(r) \/ ReadBalance(r) \/ Guard(r) \/ Halt(r) \/ PollEnds(r)
           \/ PollTimesOut(r) \/ Unlock(r) \/ Break(r) \/ Crash(r)
    \/ \E t \in orphans : Expire(t)
    \/ Earn \/ Tick \/ Resume \/ UNCHANGED vars

LEMMA ElsewhereFlight == ASSUME TypeOK, Elsewhere PROVE InFlight' \subseteq InFlight
<1> USE DEF ledger, guard, procVars, history, counters
<1>1. ASSUME NEW r \in Replicas, PollEnds(r) \/ PollTimesOut(r) \/ Crash(r)
      PROVE  InFlight' \subseteq InFlight
    <2>1. tx' = [tx EXCEPT ![r] = NoTx]
        BY <1>1 DEF PollEnds, PollTimesOut, Crash
    <2>2. orphans' \subseteq orphans \cup (IF tx[r].result = "pending" THEN {tx[r]} ELSE {})
        BY <1>1 DEF PollEnds, PollTimesOut, Crash
    <2>3. QED
        BY <2>1, <2>2, FlightEnds
<1>2. ASSUME orphans' \subseteq orphans, tx' = tx PROVE InFlight' \subseteq InFlight
    BY <1>2 DEF InFlight, Pending
<1>3. QED
    BY <1>1, <1>2
       DEF Elsewhere, TryLock, ReadBalance, Guard, Halt, Unlock, Break, Expire, Earn, Tick,
           Resume, vars

LEMMA Steps ==
    ASSUME [Next]_vars, ~unguarded'
    PROVE  \/ Elsewhere \/ OtherSubmission \/ Midnight
           \/ \E r \in Replicas : Record(r) \/ Prepare(r) \/ Send(r) \/ Land(r)
           \/ \E t \in orphans : LandLate(t)
BY DEF Next, Sweep, LoseConnection, Elsewhere

\* Land and LandLate.
LEMMA Landing ==
    ASSUME TypeOK,
           \/ \E r \in Replicas : Land(r)
           \/ \E t \in orphans : LandLate(t)
    PROVE  /\ \E t \in InFlight : Live(t) /\ Include(t)
           /\ InFlight' \subseteq InFlight
           /\ UNCHANGED <<guard, lock, pc, amount, account, history>>
<1> USE DEF procVars, counters
<1>1. ASSUME NEW r \in Replicas, Land(r)
      PROVE  /\ \E t \in InFlight : Live(t) /\ Include(t)
             /\ InFlight' \subseteq InFlight
             /\ UNCHANGED <<guard, lock, pc, amount, account, history>>
    <2>1. tx[r] \in InFlight /\ Live(tx[r]) /\ Include(tx[r])
        BY <1>1 DEF Land, Include, Live, InFlight, Pending, TypeOK
    <2>2. InFlight' \subseteq InFlight
        <3>1. /\ orphans' = orphans /\ tx \in [Replicas -> Tx]
              /\ tx' = [tx EXCEPT ![r].result = IF tx[r].amount <= balance THEN "success" ELSE "failed"]
            BY <1>1 DEF Land, TypeOK
        <3>2. \A z \in Replicas : tx'[z] = tx[z] \/ tx'[z].result # "pending"
            BY <3>1 DEF Tx
        <3>3. QED
            BY <3>1, <3>2, FlightShrinks
    <2>3. QED
        BY <1>1, <2>1, <2>2 DEF Land
<1>2. ASSUME NEW t \in orphans, LandLate(t)
      PROVE  /\ \E u \in InFlight : Live(u) /\ Include(u)
             /\ InFlight' \subseteq InFlight
             /\ UNCHANGED <<guard, lock, pc, amount, account, history>>
    <2>1. t \in InFlight /\ Live(t) /\ Include(t)
        BY <1>2 DEF LandLate, Include, Live, InFlight, TypeOK
    <2>2. InFlight' \subseteq InFlight
        BY <1>2 DEF LandLate, InFlight, Pending
    <2>3. QED
        BY <1>2, <2>1, <2>2 DEF LandLate
<1>3. QED
    BY <1>1, <1>2

-----------------------------------------------------------------------------
(* The blast radius: what left, and whichever one transfer leaves next, is      *)
(* logged.  What is about to be sent is logged on top of what may land before.  *)

CanLand(t) == t.seq <= seq + 1 /\ (Live(t) => moved + t.amount <= Logged)

CanSend(r) ==
    /\ pc[r] = "preparing" =>
           /\ moved + amount[r] <= Logged
           /\ \A t \in InFlight : Live(t) => moved + t.amount + amount[r] <= Logged
    /\ pc[r] = "sending" =>
           account[r] <= seq /\ (account[r] = seq => moved + amount[r] <= Logged)

SpareInv ==
    unguarded \/ /\ moved <= Logged
                 /\ \A t \in InFlight : CanLand(t)
                 /\ \A r \in Replicas : CanSend(r)

LEMMA InitSpare == Init => SpareInv
<1> SUFFICES ASSUME Init PROVE SpareInv
    OBVIOUS
<1>1. InFlight = {}
    BY DEF Init, InFlight, Pending, NoTx
<1>2. Logged = 0
    BY BoundsAreNat DEF Init, Logged
<1>3. QED
    BY <1>1, <1>2 DEF Init, SpareInv, CanSend

LEMMA SpareStep == TypeOK /\ GuardInv /\ SpareInv /\ [Next]_vars => SpareInv'
<1> SUFFICES ASSUME TypeOK, GuardInv, SpareInv, [Next]_vars, ~unguarded' PROVE SpareInv'
    BY DEF SpareInv
<1>0. ~unguarded
    BY LockLost
<1>1. /\ spent <= Cap /\ \A r \in Replicas : HoldsLock(r)
      /\ moved <= Logged
      /\ \A t \in InFlight : CanLand(t)
      /\ \A r \in Replicas : CanSend(r)
    BY <1>0 DEF GuardInv, SpareInv
<1>2. TypeOK' /\ Logged \in Nat /\ Logged' \in Nat
    <2>1. TypeOK'
        BY TypeStep
    <2>2. Logged \in Nat
        BY LoggedType
    <2>3. Logged' \in Nat
        BY <2>1, LoggedTypeThen
    <2>4. QED
        BY <2>1, <2>2, <2>3
<1>3. /\ seq \in Nat /\ moved \in Nat /\ amount \in [Replicas -> Nat] /\ account \in [Replicas -> Nat]
      /\ pc \in [Replicas -> PcValues]
      /\ \A t \in InFlight : t.seq \in Nat /\ t.amount \in Nat
    BY DEF TypeOK, InFlight, Tx, PcValues
<1> USE DEF ledger, guard, procVars, history
\* Nothing leaves and nothing new may leave.
<1>4. ASSUME UNCHANGED <<seq, moved>>, Logged' >= Logged, InFlight' \subseteq InFlight,
             \A r \in Replicas : pc'[r] \in {"preparing", "sending"} =>
                 pc'[r] = pc[r] /\ amount'[r] = amount[r] /\ account'[r] = account[r]
      PROVE  SpareInv'
    <2>1. moved' <= Logged'
        BY <1>1, <1>2, <1>3, <1>4
    <2>2. \A t \in InFlight' : CanLand(t)'
        BY <1>1, <1>2, <1>3, <1>4 DEF CanLand, Live
    <2>3. ASSUME NEW r \in Replicas PROVE CanSend(r)'
        <3>1. CASE pc'[r] = "preparing"
            <4>1. pc[r] = "preparing" /\ amount'[r] = amount[r] /\ amount[r] \in Nat
                BY <1>3, <1>4, <3>1
            <4>2. /\ moved + amount[r] <= Logged
                  /\ \A t \in InFlight : Live(t) => moved + t.amount + amount[r] <= Logged
                BY <1>1, <4>1 DEF CanSend
            <4>3. \A t \in InFlight' : Live(t)' => moved' + t.amount + amount'[r] <= Logged'
                BY <1>2, <1>3, <1>4, <4>1, <4>2 DEF Live
            <4>4. QED
                BY <1>2, <1>3, <1>4, <3>1, <4>1, <4>2, <4>3 DEF CanSend
        <3>2. CASE pc'[r] = "sending"
            <4>1. /\ pc[r] = "sending" /\ amount'[r] = amount[r] /\ account'[r] = account[r]
                  /\ amount[r] \in Nat /\ account[r] \in Nat
                BY <1>3, <1>4, <3>2
            <4>2. QED
                BY <1>1, <1>2, <1>3, <1>4, <3>2, <4>1 DEF CanSend
        <3>3. QED
            BY <3>1, <3>2 DEF CanSend
    <2>4. QED
        BY <2>1, <2>2, <2>3 DEF SpareInv
<1>5. CASE Elsewhere
    <2>1. InFlight' \subseteq InFlight
        BY <1>5, ElsewhereFlight
    <2>2. UNCHANGED <<seq, moved, spent, day>>
        BY <1>5 DEF Elsewhere, TryLock, ReadBalance, Guard, Halt, PollEnds, PollTimesOut, Unlock,
               Break, Crash, Expire, Earn, Tick, Resume, vars
    <2>3. Logged' = Logged
        BY <2>2 DEF Logged
    <2>4. ASSUME NEW r \in Replicas, pc'[r] \in {"preparing", "sending"}
          PROVE  pc'[r] = pc[r] /\ amount'[r] = amount[r] /\ account'[r] = account[r]
        BY <1>3, <1>5, <2>4
           DEF Elsewhere, At, TryLock, ReadBalance, Guard, Halt, PollEnds, PollTimesOut, Unlock,
               Break, Crash, Expire, Earn, Tick, Resume, vars
    <2>5. QED
        BY <1>2, <1>4, <2>1, <2>2, <2>3, <2>4
<1>6. CASE Midnight
    <2>1. Logged' >= Logged
        BY <1>1, <1>6, LoggedAtMidnight
    <2>2. UNCHANGED <<seq, moved, pc, amount, account, tx, orphans>>
        BY <1>6 DEF Midnight
    <2>3. QED
        BY <1>4, <2>1, <2>2, FlightKept
\* Somebody else took the number: nothing in flight can land any more.
<1>7. CASE OtherSubmission
    <2>1. seq' = seq + 1 /\ UNCHANGED <<moved, guard, pc, amount, account, tx, orphans>>
        BY <1>7 DEF OtherSubmission
    <2>2. InFlight' = InFlight /\ Logged' = Logged
        BY <2>1, FlightKept, LoggedKept
    <2>3. \A t \in InFlight' : CanLand(t)' /\ ~Live(t)'
        BY <1>1, <1>3, <2>1, <2>2 DEF CanLand, Live
    <2>4. ASSUME NEW r \in Replicas PROVE CanSend(r)'
        <3>1. CanSend(r) /\ account[r] \in Nat
            BY <1>1, <1>3
        <3>2. QED
            BY <1>3, <2>1, <2>2, <2>3, <3>1 DEF CanSend
    <2>5. QED
        BY <1>1, <2>1, <2>2, <2>3, <2>4 DEF SpareInv
<1>8. CASE (\E r \in Replicas : Land(r)) \/ (\E t \in orphans : LandLate(t))
    <2>1. /\ InFlight' \subseteq InFlight
          /\ UNCHANGED <<guard, lock, pc, amount, account, history>>
        BY <1>8, Landing
    <2>2. PICK t \in InFlight : Live(t) /\ Include(t)
        BY <1>8, Landing
    <2>3. /\ seq' = seq + 1
          /\ moved' \in {moved, moved + t.amount}
        BY <1>3, <2>2 DEF Live, Include
    <2>4. Logged' = Logged /\ moved + t.amount <= Logged
        BY <1>1, <2>1, <2>2, LoggedKept DEF CanLand
    <2>5. \A u \in InFlight' : CanLand(u)' /\ ~Live(u)'
        BY <1>1, <1>3, <2>1, <2>3 DEF CanLand, Live
    <2>6. ASSUME NEW r \in Replicas PROVE CanSend(r)'
        <3>1. CanSend(r) /\ account[r] \in Nat /\ amount[r] \in Nat
            BY <1>1, <1>3
        <3>2. pc[r] = "preparing" => moved' + amount[r] <= Logged
            BY <1>3, <2>2, <2>3, <3>1 DEF CanSend
        <3>3. pc[r] = "sending" => account[r] <= seq' /\ account[r] # seq'
            BY <1>3, <2>3, <3>1 DEF CanSend
        <3>4. QED
            BY <2>1, <2>4, <2>5, <3>2, <3>3 DEF CanSend
    <2>7. QED
        BY <1>1, <1>3, <2>3, <2>4, <2>5, <2>6 DEF SpareInv
<1>9. ASSUME NEW r \in Replicas, Record(r) PROVE SpareInv'
    <2>1. /\ pc[r] = "recording" /\ pc' = [pc EXCEPT ![r] = "preparing"]
          /\ spent' = spent + amount[r]
          /\ UNCHANGED <<seq, moved, day, amount, account, tx, orphans>>
        BY <1>9 DEF Record, At
    <2>2. Logged' = Logged + amount[r] /\ amount[r] \in Nat
        <3>1. day \in Nat /\ Cap \in Nat /\ spent \in Nat /\ amount[r] \in Nat
            BY BoundsAreNat DEF TypeOK
        <3>2. day * Cap \in Nat
            BY <3>1
        <3>3. QED
            BY <2>1, <3>1, <3>2 DEF Logged
    <2>3. InFlight' = InFlight
        BY <2>1, FlightKept
    <2>4. moved' <= Logged' /\ \A t \in InFlight' : CanLand(t)'
        BY <1>1, <1>2, <1>3, <2>1, <2>2, <2>3 DEF CanLand, Live
    <2>5. /\ moved' + amount'[r] <= Logged'
          /\ \A t \in InFlight' : Live(t)' => moved' + t.amount + amount'[r] <= Logged'
        BY <1>1, <1>2, <1>3, <2>1, <2>2, <2>3 DEF CanLand, Live
    <2>6. CanSend(r)'
        BY <1>3, <2>1, <2>5 DEF CanSend
    <2>7. ASSUME NEW z \in Replicas, z # r PROVE CanSend(z)'
        <3>1. lock = r /\ (pc[z] \in Working => lock = z)
            BY <1>1, <2>1 DEF HoldsLock, Working, PcValues
        <3>2. pc'[z] \notin {"preparing", "sending"}
            BY <1>3, <2>1, <2>7, <3>1 DEF Working, PcValues
        <3>3. QED
            BY <3>2 DEF CanSend
    <2>8. QED
        BY <2>4, <2>6, <2>7 DEF SpareInv
<1>10. ASSUME NEW r \in Replicas, Prepare(r) PROVE SpareInv'
    <2>1. /\ pc[r] = "preparing" /\ pc' = [pc EXCEPT ![r] = "sending"]
          /\ account' = [account EXCEPT ![r] = seq]
          /\ UNCHANGED <<seq, moved, guard, amount, tx, orphans>>
        BY <1>10 DEF Prepare, At
    <2>2. InFlight' = InFlight /\ Logged' = Logged
        BY <2>1, FlightKept, LoggedKept
    <2>3. \A t \in InFlight' : CanLand(t)'
        BY <1>1, <2>1, <2>2 DEF CanLand, Live
    <2>4. CanSend(r)'
        BY <1>1, <1>3, <2>1, <2>2 DEF CanSend
    <2>5. ASSUME NEW z \in Replicas, z # r PROVE CanSend(z)'
        <3>1. pc'[z] = pc[z] /\ account'[z] = account[z] /\ CanSend(z)
            BY <1>1, <1>3, <2>1, <2>5
        <3>2. QED
            BY <2>1, <2>2, <3>1 DEF CanSend, Live
    <2>6. QED
        BY <1>1, <2>1, <2>2, <2>3, <2>4, <2>5 DEF SpareInv
<1>11. ASSUME NEW r \in Replicas, Send(r) PROVE SpareInv'
    <2>1. pc[r] = "sending" /\ UNCHANGED <<seq, moved, guard, lock, amount, account, orphans>>
        BY <1>11 DEF Send, At
    <2>2. Logged' = Logged
        BY <2>1, LoggedKept
    <2>3. /\ pc'[r] \in {"polling", "unlocking"} /\ \A z \in Replicas \ {r} : pc'[z] = pc[z]
        BY <1>3, <1>11 DEF Send, At
    <2>4. CASE tx' = tx
        BY <1>2, <1>4, <2>1, <2>2, <2>3, <2>4, FlightKept
    <2>5. CASE tx' # tx
        <3> DEFINE new == [amount |-> amount[r], seq |-> account[r] + 1, result |-> "pending",
                         entry |-> entry[r]]
        <3>1. account[r] = seq /\ tx' = [tx EXCEPT ![r] = new]
            BY <1>11, <2>5 DEF Send
        <3>2. InFlight' \subseteq InFlight \cup {new}
            BY <2>1, <3>1 DEF InFlight, Pending, TypeOK
        <3>3. moved + amount[r] <= Logged
            BY <1>1, <2>1, <3>1 DEF CanSend
        <3>4. new.seq = seq + 1 /\ new.amount = amount[r]
            BY <3>1
        <3> HIDE DEF new
        <3>5. \A t \in InFlight' : CanLand(t)'
            BY <1>1, <1>3, <2>1, <2>2, <3>2, <3>3, <3>4 DEF CanLand, Live
        <3>6. ASSUME NEW z \in Replicas PROVE CanSend(z)'
            <4>1. lock = r /\ (pc[z] \in Working => lock = z)
                BY <1>1, <2>1 DEF HoldsLock, Working, PcValues
            <4>2. pc'[z] \notin {"preparing", "sending"}
                BY <1>3, <2>1, <2>3, <4>1 DEF Working, PcValues
            <4>3. QED
                BY <4>2 DEF CanSend
        <3>7. QED
            BY <1>1, <2>1, <2>2, <3>5, <3>6 DEF SpareInv
    <2>6. QED
        BY <2>4, <2>5
<1>12. QED
    BY <1>5, <1>6, <1>7, <1>8, <1>9, <1>10, <1>11, Steps

LEMMA SpareInvariant == Spec => [](TypeOK /\ GuardInv /\ SpareInv)
BY InitType, TypeStep, InitGuard, GuardStep, InitSpare, SpareStep, PTL DEF Spec

\* However often sweeps fail, time out and are repeated, and whenever their
\* transfers land, no more than a cap a day leaves.
THEOREM BlastRadiusBounded == Spec => []BlastRadius
<1>1. TypeOK /\ GuardInv /\ SpareInv => BlastRadius
    <2> SUFFICES ASSUME TypeOK, GuardInv, SpareInv, ~unguarded PROVE moved <= (day + 1) * Cap
        BY DEF BlastRadius
    <2>1. day \in Nat /\ Cap \in Nat /\ spent \in Nat /\ moved \in Nat
        BY BoundsAreNat DEF TypeOK
    <2>2. (day + 1) * Cap = day * Cap + Cap /\ day * Cap \in Nat
        BY <2>1
    <2>3. moved <= day * Cap + spent /\ spent <= Cap
        BY DEF GuardInv, SpareInv, Logged
    <2>4. QED
        BY <2>1, <2>2, <2>3
<1>2. QED
    BY <1>1, SpareInvariant, PTL

-----------------------------------------------------------------------------
(* The minimum.  A sweep that read the balance with nothing in flight can rely  *)
(* on it until its own transfer has landed, or never will.                      *)

Carrying == {"guarding", "recording", "preparing", "sending"}

Leaves(t) == Live(t) => t.amount + Minimum <= balance
Carries(r) == pc[r] \in Carrying => InFlight = {} /\ amount[r] + Minimum <= balance

LeaveInv ==
    unguarded \/ overlapped \/
        ((\A t \in InFlight : Leaves(t)) /\ \A r \in Replicas : Carries(r))

LEMMA InitLeave == Init => LeaveInv
BY DEF Init, LeaveInv, InFlight, Pending, NoTx, Carries, Carrying

\* A balance that was read beside a transfer in flight is not forgotten either.
LEMMA OverlapKept == ASSUME [Next]_vars, overlapped PROVE overlapped'
BY DEF Next, Sweep, vars, history, TryLock, ReadBalance, Guard, Halt, Record, Prepare,
       Send, PollEnds, PollTimesOut, Unlock, Land, LandLate, Expire, Break, Crash, LoseConnection,
       Earn, OtherSubmission, Tick, Midnight, Resume

LEMMA LeaveStep == TypeOK /\ GuardInv /\ SpareInv /\ LeaveInv /\ [Next]_vars => LeaveInv'
<1> SUFFICES ASSUME TypeOK, GuardInv, SpareInv, LeaveInv, [Next]_vars, ~unguarded', ~overlapped'
             PROVE  LeaveInv'
    BY DEF LeaveInv
<1>0. ~unguarded /\ ~overlapped
    BY LockLost, OverlapKept
<1>1. /\ \A r \in Replicas : HoldsLock(r)
      /\ \A t \in InFlight : CanLand(t) /\ Leaves(t)
      /\ \A r \in Replicas : Carries(r)
    BY <1>0 DEF GuardInv, SpareInv, LeaveInv
<1>2. /\ seq \in Nat /\ balance \in Nat /\ Minimum \in Nat /\ amount \in [Replicas -> Nat]
      /\ pc \in [Replicas -> PcValues]
      /\ \A t \in InFlight : t.seq \in Nat /\ t.amount \in Nat
    BY BoundsAreNat DEF TypeOK, InFlight, Tx, PcValues
<1> USE DEF ledger, guard, procVars, history
\* Nothing lands, nothing is sent, nobody sets out with a balance it read.
<1>3. ASSUME seq' = seq, balance' \in Nat, balance' >= balance, InFlight' \subseteq InFlight,
             \A r \in Replicas : pc'[r] \in Carrying => pc[r] \in Carrying /\ amount'[r] = amount[r]
      PROVE  LeaveInv'
    <2>1. \A t \in InFlight' : Leaves(t)'
        BY <1>1, <1>2, <1>3 DEF Leaves, Live
    <2>2. ASSUME NEW r \in Replicas, pc'[r] \in Carrying
          PROVE  InFlight' = {} /\ amount'[r] + Minimum <= balance'
        <3>1. InFlight = {} /\ amount'[r] = amount[r] /\ amount[r] + Minimum <= balance
            BY <1>1, <1>3, <2>2 DEF Carries
        <3>2. QED
            BY <1>2, <1>3, <3>1
    <2>3. QED
        BY <2>1, <2>2 DEF LeaveInv, Carries
<1>4. ASSUME NEW r \in Replicas, ReadBalance(r) PROVE LeaveInv'
    <2>1. UNCHANGED <<orphans, tx, seq, balance>>
        BY <1>4 DEF ReadBalance
    <2>2. InFlight' = {}
        <3>1. orphans = {} /\ \A z \in Replicas : tx[z].result # "pending"
            BY <1>4 DEF ReadBalance
        <3>2. QED
            BY <2>1, <3>1 DEF InFlight, Pending
    <2>3. /\ \A z \in Replicas \ {r} : pc'[z] = pc[z] /\ amount'[z] = amount[z]
          /\ pc'[r] \in Carrying => balance > Minimum /\ amount'[r] = balance - Minimum
        BY <1>2, <1>4 DEF ReadBalance, At, Carrying
    <2>4. ASSUME NEW z \in Replicas, pc'[z] \in Carrying PROVE amount'[z] + Minimum <= balance'
        <3>1. CASE z = r
            BY <1>2, <2>1, <2>3, <2>4, <3>1
        <3>2. CASE z # r
            BY <1>1, <2>1, <2>3, <2>4, <3>2 DEF Carries
        <3>3. QED
            BY <3>1, <3>2
    <2>5. QED
        BY <2>2, <2>4 DEF LeaveInv, Carries
<1>5. CASE Elsewhere
    <2>1. CASE \E r \in Replicas : ReadBalance(r)
        BY <1>4, <2>1
    <2>2. CASE ~ \E r \in Replicas : ReadBalance(r)
        <3>1. InFlight' \subseteq InFlight
            BY <1>5, ElsewhereFlight
        <3>2. seq' = seq /\ balance' \in {balance, balance + 1}
            BY <1>5 DEF Elsewhere, TryLock, ReadBalance, Guard, Halt, PollEnds, PollTimesOut, Unlock,
                   Break, Crash, Expire, Earn, Tick, Resume, vars
        <3>3. ASSUME NEW r \in Replicas, pc'[r] \in Carrying
              PROVE  pc[r] \in Carrying /\ amount'[r] = amount[r]
            BY <1>2, <1>5, <2>2, <3>3
               DEF Carrying, Elsewhere, At, TryLock, Guard, Halt, PollEnds, PollTimesOut, Unlock,
                   Break, Crash, Expire, Earn, Tick, Resume, vars
        <3>4. QED
            BY <1>2, <1>3, <3>1, <3>2, <3>3
    <2>3. QED
        BY <2>1, <2>2
<1>6. CASE Midnight \/ \E r \in Replicas : Record(r) \/ Prepare(r)
    <2>1. UNCHANGED <<seq, balance, amount, orphans, tx>>
        BY <1>6 DEF Midnight, Record, Prepare
    <2>2. \A r \in Replicas : pc'[r] \in Carrying => pc[r] \in Carrying
        BY <1>2, <1>6 DEF Carrying, At, Midnight, Record, Prepare
    <2>3. QED
        BY <1>2, <1>3, <2>1, <2>2, FlightKept
<1>7. CASE OtherSubmission
    <2>1. seq' = seq + 1 /\ UNCHANGED <<balance, amount, pc, orphans, tx>>
        BY <1>7 DEF OtherSubmission
    <2>2. InFlight' = InFlight
        BY <2>1, FlightKept
    <2>3. \A t \in InFlight' : ~Live(t)'
        BY <1>1, <1>2, <2>1, <2>2 DEF CanLand, Live
    <2>4. QED
        BY <1>1, <2>1, <2>2, <2>3 DEF LeaveInv, Leaves, Carries
<1>8. CASE (\E r \in Replicas : Land(r)) \/ (\E t \in orphans : LandLate(t))
    <2>1. InFlight' \subseteq InFlight /\ pc' = pc
        BY <1>8, Landing
    <2>2. PICK t \in InFlight : Live(t) /\ Include(t)
        BY <1>8, Landing
    <2>3. seq' = seq + 1
        BY <1>2, <2>2 DEF Live, Include
    <2>4. \A u \in InFlight' : ~Live(u)'
        BY <1>1, <1>2, <2>1, <2>3 DEF CanLand, Live
    <2>5. \A r \in Replicas : pc'[r] \notin Carrying
        BY <1>1, <2>1, <2>2 DEF Carries
    <2>6. QED
        BY <2>4, <2>5 DEF LeaveInv, Leaves, Carries
<1>9. ASSUME NEW r \in Replicas, Send(r) PROVE LeaveInv'
    <2>1. pc[r] = "sending" /\ UNCHANGED <<seq, balance, lock, amount, orphans>>
        BY <1>9 DEF Send, At
    <2>2. pc'[r] \notin Carrying /\ \A z \in Replicas \ {r} : pc'[z] = pc[z]
        BY <1>2, <1>9 DEF Send, At, Carrying
    <2>3. CASE tx' = tx
        BY <1>2, <1>3, <2>1, <2>2, <2>3, FlightKept
    <2>4. CASE tx' # tx
        <3> DEFINE new == [amount |-> amount[r], seq |-> account[r] + 1, result |-> "pending",
                         entry |-> entry[r]]
        <3>1. tx' = [tx EXCEPT ![r] = new]
            BY <1>9, <2>4 DEF Send
        <3>2. InFlight' \subseteq InFlight \cup {new}
            BY <2>1, <3>1 DEF InFlight, Pending, TypeOK
        <3>3. new.amount = amount[r]
            OBVIOUS
        <3> HIDE DEF new
        <3>4. InFlight = {} /\ amount[r] + Minimum <= balance
            BY <1>1, <2>1 DEF Carries, Carrying
        <3>5. \A t \in InFlight' : Leaves(t)'
            BY <2>1, <3>2, <3>3, <3>4 DEF Leaves
        <3>6. ASSUME NEW z \in Replicas PROVE pc'[z] \notin Carrying
            <4>1. lock = r /\ (pc[z] \in Working => lock = z)
                BY <1>1, <2>1 DEF HoldsLock, Working, PcValues
            <4>2. QED
                BY <2>2, <4>1 DEF Working, PcValues, Carrying
        <3>7. QED
            BY <3>5, <3>6 DEF LeaveInv, Carries
    <2>5. QED
        BY <2>3, <2>4
<1>10. QED
    BY <1>5, <1>6, <1>7, <1>8, <1>9, Steps

\* The minimum stays, however much is received while a transfer is under way and
\* whatever else the account submits.
THEOREM MinimumStays == Spec => MinimumPreserved
<1>1. ASSUME TypeOK, SpareInv, LeaveInv, [Next]_vars, balance' < balance
      PROVE  balance' >= Minimum \/ overlapped \/ unguarded
    <2>1. SUFFICES ASSUME ~overlapped, ~unguarded PROVE balance' >= Minimum
        OBVIOUS
    <2>2. balance \in Nat /\ Minimum \in Nat
        BY <1>1, BoundsAreNat DEF TypeOK
    <2>3. (\E r \in Replicas : Land(r)) \/ (\E t \in orphans : LandLate(t))
        BY <1>1, <2>2
           DEF Next, Sweep, vars, ledger, TryLock, ReadBalance, Guard, Halt, Record, Prepare, Send,
               PollEnds, PollTimesOut, Unlock, Expire, Break, Crash, LoseConnection, Earn,
               OtherSubmission, Tick, Midnight, Resume
    <2>4. PICK t \in InFlight : Live(t) /\ Include(t)
        BY <1>1, <2>3, Landing
    <2>5. t.amount \in Nat /\ t.amount + Minimum <= balance
        BY <1>1, <2>1, <2>4 DEF LeaveInv, Leaves, InFlight, Tx
    <2>6. balance' = balance - t.amount
        BY <1>1, <2>2, <2>4, <2>5 DEF Include
    <2>7. QED
        BY <2>2, <2>5, <2>6
<1>2. TypeOK /\ SpareInv /\ LeaveInv /\ [Next]_vars =>
        [balance' < balance => balance' >= Minimum \/ overlapped \/ unguarded]_vars
    BY <1>1
<1>3. QED
    BY <1>2, SpareInvariant, InitLeave, LeaveStep, PTL DEF Spec, MinimumPreserved

-----------------------------------------------------------------------------
(* TreasurySweep implements Allowance.  A row of the log is due from its        *)
(* insertion until it is paid, to one replica or to one transfer that nobody    *)
(* polls for any more; a lost lock takes nothing from that.                     *)

Pend(r) == tx[r].result = "pending"
Holds(r) == pc[r] \in {"preparing", "sending"} \/ Pend(r)
Due(row, sum) == row \in 1..Len(log) /\ row \notin paid /\ log[row] = sum

OwnRow(r) == Pend(r) => pc[r] = "polling" /\ tx[r].entry = entry[r] /\ tx[r].amount = amount[r]
RowDue(r) == Holds(r) => Due(entry[r], amount[r])
Apart(r, s) == Holds(r) /\ Holds(s) => entry[r] # entry[s]

RowsInv ==
    /\ paid \subseteq 1..Len(log)
    /\ \A r \in Replicas : OwnRow(r) /\ RowDue(r)
    /\ \A r, s \in Replicas : r # s => Apart(r, s)
    /\ \A r \in Replicas, t \in orphans : Holds(r) => entry[r] # t.entry
    /\ \A t \in orphans : Due(t.entry, t.amount)
    /\ \A t, u \in orphans : t # u => t.entry # u.entry

LEMMA InitRows == Init => RowsInv
BY DEF Init, RowsInv, OwnRow, RowDue, Apart, Holds, Pend, NoTx

\* Nobody takes a row, and none is added or paid.
LEMMA RowsKept ==
    ASSUME RowsInv, UNCHANGED <<log, paid>>, orphans' \subseteq orphans,
           \A r \in Replicas : Holds(r)' => Holds(r) /\ entry'[r] = entry[r] /\ amount'[r] = amount[r],
           \A r \in Replicas : OwnRow(r)' \/ (Pend(r) /\ tx'[r] = tx[r] /\ pc'[r] = pc[r])
    PROVE  RowsInv'
<1>1. \A r \in Replicas : OwnRow(r)'
    BY DEF RowsInv, OwnRow, Holds
<1>2. \A r \in Replicas : RowDue(r)'
    BY DEF RowsInv, RowDue, Due
<1>3. \A r, s \in Replicas : r # s => Apart(r, s)'
    BY DEF RowsInv, Apart
<1>4. \A t \in orphans' : Due(t.entry, t.amount)'
    BY DEF RowsInv, Due
<1>5. QED
    BY <1>1, <1>2, <1>3, <1>4 DEF RowsInv

\* A replica leaves its transfer to itself.
LEMMA RowsHandedOver ==
    ASSUME TypeOK, RowsInv, NEW r \in Replicas, UNCHANGED <<log, paid, entry, amount>>,
           tx' = [tx EXCEPT ![r] = NoTx],
           pc'[r] \notin {"preparing", "sending"}, \A s \in Replicas \ {r} : pc'[s] = pc[s],
           orphans' \subseteq orphans \cup (IF Pend(r) THEN {tx[r]} ELSE {})
    PROVE  RowsInv'
<1>1. tx \in [Replicas -> Tx] /\ NoTx.result # "pending"
    BY DEF TypeOK, NoTx
<1>2. ~Pend(r)' /\ ~Holds(r)'
    BY <1>1 DEF Pend, Holds
<1>3. \A s \in Replicas \ {r} : (Pend(s)' <=> Pend(s)) /\ (Holds(s)' <=> Holds(s)) /\ tx'[s] = tx[s]
    BY <1>1 DEF Pend, Holds
<1>4. \A t \in orphans' : t \in orphans \/ (Pend(r) /\ t = tx[r] /\ Holds(r)
                                           /\ t.entry = entry[r] /\ t.amount = amount[r])
    BY DEF RowsInv, OwnRow, Holds
<1>5. \A s \in Replicas : OwnRow(s)' /\ RowDue(s)'
    BY <1>2, <1>3 DEF RowsInv, OwnRow, RowDue, Due
<1>6. \A s, z \in Replicas : s # z => Apart(s, z)'
    BY <1>2, <1>3 DEF RowsInv, Apart
<1>7. \A s \in Replicas, t \in orphans' : Holds(s)' => entry'[s] # t.entry
    BY <1>2, <1>3, <1>4 DEF RowsInv, Apart
<1>8. \A t \in orphans' : Due(t.entry, t.amount)'
    BY <1>4 DEF RowsInv, RowDue, Due
<1>9. \A t, u \in orphans' : t # u => t.entry # u.entry
    BY <1>4 DEF RowsInv
<1>10. QED
    BY <1>5, <1>6, <1>7, <1>8, <1>9 DEF RowsInv

\* A row is added, to whoever recorded it.
LEMMA RowAdded ==
    ASSUME TypeOK, RowsInv, NEW r \in Replicas, Record(r)
    PROVE  RowsInv'
<1> DEFINE row == Len(log) + 1
<1>1. /\ pc[r] = "recording" /\ pc' = [pc EXCEPT ![r] = "preparing"]
      /\ log' = Append(log, amount[r]) /\ entry' = [entry EXCEPT ![r] = Len(log')]
      /\ UNCHANGED <<paid, amount, tx, orphans>>
    BY DEF Record, At, ledger
<1>2. /\ log \in Seq(Nat) /\ amount[r] \in Nat /\ entry \in [Replicas -> Nat]
      /\ pc \in [Replicas -> PcValues]
    BY DEF TypeOK, PcValues
<1>3. Len(log) \in Nat /\ Len(log') = row /\ log'[row] = amount[r]
    BY <1>1, <1>2
<1>4. \A i \in 1..Len(log) : i \in 1..Len(log') /\ log'[i] = log[i] /\ i # row
    BY <1>1, <1>2, <1>3
<1>5. row \in 1..Len(log') /\ row \notin paid
    BY <1>3, <1>4 DEF RowsInv
<1>6. entry'[r] = row /\ \A s \in Replicas \ {r} : entry'[s] = entry[s] /\ pc'[s] = pc[s]
    BY <1>1, <1>2, <1>3
<1> HIDE DEF row
<1>7. ~Pend(r) /\ \A s \in Replicas : Pend(s)' <=> Pend(s)
    BY <1>1 DEF RowsInv, OwnRow, Pend
<1>8. \A s \in Replicas \ {r} : Holds(s)' <=> Holds(s)
    BY <1>6, <1>7 DEF Holds
<1>9. \A n, sum : Due(n, sum) => Due(n, sum)' /\ n # row
    BY <1>1, <1>4 DEF Due
<1>10. \A s \in Replicas : OwnRow(s)'
    BY <1>1, <1>6, <1>7 DEF RowsInv, OwnRow
<1>11. \A s \in Replicas : RowDue(s)'
    BY <1>1, <1>3, <1>5, <1>6, <1>8, <1>9 DEF RowsInv, RowDue, Due
<1>12. \A s, z \in Replicas : s # z => Apart(s, z)'
    BY <1>6, <1>8, <1>9 DEF RowsInv, Apart, RowDue
<1>13. \A s \in Replicas, t \in orphans' : Holds(s)' => entry'[s] # t.entry
    BY <1>1, <1>6, <1>8, <1>9 DEF RowsInv
<1>14. \A t \in orphans' : Due(t.entry, t.amount)'
    BY <1>1, <1>9 DEF RowsInv
<1>15. paid' \subseteq 1..Len(log')
    BY <1>1, <1>4 DEF RowsInv
<1>16. QED
    BY <1>1, <1>10, <1>11, <1>12, <1>13, <1>14, <1>15 DEF RowsInv

\* A transfer that was polled for is included, and pays its row or fails.
LEMMA RowLanded ==
    ASSUME TypeOK, RowsInv, NEW r \in Replicas, Land(r)
    PROVE  RowsInv'
<1>1. /\ Pend(r) /\ UNCHANGED <<log, pc, amount, entry, orphans>>
      /\ paid' \in {paid, paid \cup {entry[r]}}
    BY DEF Land, Include, Pend, guard, RowsInv, OwnRow
<1>2. /\ tx \in [Replicas -> Tx]
      /\ \E res \in {"success", "failed"} : tx' = [tx EXCEPT ![r].result = res]
    BY DEF Land, TypeOK
<1>3. ~Pend(r)' /\ \A s \in Replicas \ {r} : tx'[s] = tx[s]
    BY <1>2 DEF Pend, Tx
<1>4. Holds(r) /\ pc[r] = "polling" /\ Due(entry[r], amount[r])
    BY <1>1 DEF RowsInv, OwnRow, Holds, RowDue
<1>5. ~Holds(r)' /\ \A s \in Replicas \ {r} : (Holds(s)' <=> Holds(s)) /\ (Pend(s)' <=> Pend(s))
    BY <1>1, <1>3, <1>4 DEF Holds, Pend
<1>6. \A n, sum : Due(n, sum) /\ n # entry[r] => Due(n, sum)'
    BY <1>1 DEF Due
<1>7. \A s \in Replicas : OwnRow(s)'
    BY <1>1, <1>3, <1>5 DEF RowsInv, OwnRow
<1>8. \A s \in Replicas : RowDue(s)'
    BY <1>1, <1>4, <1>5, <1>6 DEF RowsInv, RowDue, Apart
<1>9. \A s, z \in Replicas : s # z => Apart(s, z)'
    BY <1>1, <1>5 DEF RowsInv, Apart
<1>10. \A s \in Replicas, t \in orphans' : Holds(s)' => entry'[s] # t.entry
    BY <1>1, <1>5 DEF RowsInv
<1>11. \A t \in orphans' : Due(t.entry, t.amount)'
    BY <1>1, <1>4, <1>6 DEF RowsInv
<1>12. paid' \subseteq 1..Len(log')
    BY <1>1, <1>4 DEF RowsInv, Due
<1>13. QED
    BY <1>1, <1>7, <1>8, <1>9, <1>10, <1>11, <1>12 DEF RowsInv

\* So is one that nobody polls for.
LEMMA RowLandedLate ==
    ASSUME TypeOK, RowsInv, NEW t \in orphans, LandLate(t)
    PROVE  RowsInv'
<1>1. /\ UNCHANGED <<log, pc, amount, entry, tx>> /\ orphans' = orphans \ {t}
      /\ paid' \in {paid, paid \cup {t.entry}}
    BY DEF LandLate, Include, guard, procVars
<1>2. \A r \in Replicas : (Holds(r)' <=> Holds(r)) /\ (Pend(r)' <=> Pend(r))
    BY <1>1 DEF Holds, Pend
<1>3. \A n, sum : Due(n, sum) /\ n # t.entry => Due(n, sum)'
    BY <1>1 DEF Due
<1>4. \A r \in Replicas : OwnRow(r)'
    BY <1>1, <1>2 DEF RowsInv, OwnRow
<1>5. \A r \in Replicas : RowDue(r)'
    BY <1>1, <1>2, <1>3 DEF RowsInv, RowDue
<1>6. \A r, s \in Replicas : r # s => Apart(r, s)'
    BY <1>1, <1>2 DEF RowsInv, Apart
<1>7. \A u \in orphans' : Due(u.entry, u.amount)'
    BY <1>1, <1>3 DEF RowsInv
<1>8. paid' \subseteq 1..Len(log')
    BY <1>1 DEF RowsInv, Due
<1>9. QED
    BY <1>1, <1>2, <1>4, <1>5, <1>6, <1>7, <1>8 DEF RowsInv

LEMMA RowsStep == TypeOK /\ RowsInv /\ [Next]_vars => RowsInv'
<1> SUFFICES ASSUME TypeOK, RowsInv, [Next]_vars PROVE RowsInv'
    OBVIOUS
<1>1. /\ pc \in [Replicas -> PcValues] /\ amount \in [Replicas -> Nat]
      /\ tx \in [Replicas -> Tx]
    BY DEF TypeOK, PcValues
<1>2. \A r \in Replicas : Pend(r) => pc[r] = "polling"
    BY DEF RowsInv, OwnRow
<1> USE DEF ledger, guard, procVars, history, counters
\* A replica goes on that has no transfer and does not record.
<1>3. ASSUME NEW r \in Replicas, UNCHANGED <<log, paid, entry, tx, orphans>>,
             pc[r] # "polling",
             pc'[r] \in {"preparing", "sending"} =>
                 pc[r] \in {"preparing", "sending"} /\ amount'[r] = amount[r],
             \A s \in Replicas \ {r} : pc'[s] = pc[s] /\ amount'[s] = amount[s]
      PROVE  RowsInv'
    <2>1. ~Pend(r)' /\ \A s \in Replicas : Pend(s)' <=> Pend(s)
        BY <1>2, <1>3 DEF Pend
    <2>2. \A s \in Replicas : Holds(s)' => Holds(s) /\ entry'[s] = entry[s] /\ amount'[s] = amount[s]
        BY <1>3, <2>1 DEF Holds
    <2>3. \A s \in Replicas : OwnRow(s)' \/ (Pend(s) /\ tx'[s] = tx[s] /\ pc'[s] = pc[s])
        BY <1>3, <2>1 DEF OwnRow
    <2>4. QED
        BY <1>3, <2>2, <2>3, RowsKept
<1>4. ASSUME NEW r \in Replicas, NEW here \in PcValues, NEW there \in PcValues,
             At(r, here, there), here # "polling",
             there \in {"preparing", "sending"} => here \in {"preparing", "sending"} /\ amount'[r] = amount[r],
             \A s \in Replicas \ {r} : amount'[s] = amount[s],
             UNCHANGED <<log, paid, entry, tx, orphans>>
      PROVE  RowsInv'
    <2>1. pc[r] = here /\ pc'[r] = there /\ \A s \in Replicas \ {r} : pc'[s] = pc[s]
        BY <1>1, <1>4 DEF At
    <2>2. QED
        BY <1>3, <1>4, <2>1
<1>5. ASSUME NEW r \in Replicas, TryLock(r) \/ ReadBalance(r) \/ Guard(r) \/ Halt(r) \/ Prepare(r) \/ Unlock(r)
      PROVE  RowsInv'
    <2>1. UNCHANGED <<log, paid, entry, tx, orphans>>
        BY <1>5 DEF TryLock, ReadBalance, Guard, Halt, Prepare, Unlock
    <2>2. \A s \in Replicas \ {r} : amount'[s] = amount[s]
        BY <1>1, <1>5 DEF TryLock, ReadBalance, Guard, Halt, Prepare, Unlock
    <2>3. CASE TryLock(r)
        <3>1. PICK there \in {"reading", "idle"} : At(r, "connecting", there)
            BY <2>3 DEF TryLock
        <3>2. QED
            BY <1>4, <2>1, <2>2, <3>1 DEF PcValues
    <2>4. CASE ReadBalance(r)
        <3>1. PICK there \in {"guarding", "unlocking"} : At(r, "reading", there)
            BY <2>4 DEF ReadBalance
        <3>2. QED
            BY <1>4, <2>1, <2>2, <3>1 DEF PcValues
    <2>5. CASE Guard(r)
        <3>1. PICK there \in {"unlocking", "halting", "recording"} : At(r, "guarding", there)
            BY <2>5 DEF Guard
        <3>2. QED
            BY <1>4, <2>1, <2>2, <3>1 DEF PcValues
    <2>6. CASE Halt(r)
        BY <1>4, <2>1, <2>2, <2>6 DEF Halt, PcValues
    <2>7. CASE Prepare(r)
        <3>1. At(r, "preparing", "sending") /\ amount' = amount
            BY <2>7 DEF Prepare
        <3>2. QED
            BY <1>4, <2>1, <2>2, <3>1 DEF PcValues
    <2>8. CASE Unlock(r)
        BY <1>4, <2>1, <2>2, <2>8 DEF Unlock, PcValues
    <2>9. QED
        BY <1>5, <2>3, <2>4, <2>5, <2>6, <2>7, <2>8
<1>6. ASSUME NEW r \in Replicas, Break(r) PROVE RowsInv'
    <2>1. /\ UNCHANGED <<log, paid, entry, amount, tx, orphans>>
          /\ pc[r] # "polling" /\ pc' = [pc EXCEPT ![r] = "unlocking"]
        BY <1>6 DEF Break
    <2>2. QED
        BY <1>1, <1>3, <2>1
<1>7. ASSUME NEW r \in Replicas, Send(r) PROVE RowsInv'
    <2>1. /\ pc[r] = "sending" /\ UNCHANGED <<log, paid, entry, amount, orphans>>
        BY <1>7 DEF Send, At
    <2>2. CASE tx' = tx
        <3>1. PICK there \in {"polling", "unlocking"} : At(r, "sending", there)
            BY <1>7 DEF Send
        <3>2. QED
            BY <1>4, <2>1, <2>2, <3>1 DEF PcValues
    <2>3. CASE tx' # tx
        <3>1. /\ pc' = [pc EXCEPT ![r] = "polling"]
              /\ tx' = [tx EXCEPT ![r] = [amount |-> amount[r], seq |-> account[r] + 1,
                                          result |-> "pending", entry |-> entry[r]]]
            BY <1>7, <2>3 DEF Send, At
        <3>2. pc'[r] = "polling" /\ tx'[r].entry = entry[r] /\ tx'[r].amount = amount[r]
            BY <1>1, <3>1
        <3>3. \A s \in Replicas \ {r} : pc'[s] = pc[s] /\ tx'[s] = tx[s]
            BY <1>1, <3>1
        <3>4. \A s \in Replicas : Holds(s)' => Holds(s)
            BY <2>1, <3>3 DEF Holds, Pend
        <3>5. \A s \in Replicas : OwnRow(s)' \/ (Pend(s) /\ tx'[s] = tx[s] /\ pc'[s] = pc[s])
            BY <2>1, <3>2, <3>3 DEF OwnRow, Pend
        <3>6. QED
            BY <2>1, <3>4, <3>5, RowsKept
    <2>4. QED
        BY <2>2, <2>3
<1>8. ASSUME NEW r \in Replicas, PollEnds(r) \/ PollTimesOut(r) \/ Crash(r) PROVE RowsInv'
    <2>1. UNCHANGED <<log, paid, entry, amount>> /\ tx' = [tx EXCEPT ![r] = NoTx]
        BY <1>8 DEF PollEnds, PollTimesOut, Crash
    <2>2. PICK there \in {"unlocking", "idle"} : pc' = [pc EXCEPT ![r] = there]
        BY <1>8 DEF PollEnds, PollTimesOut, Crash, At
    <2>3. orphans' \subseteq orphans \cup (IF Pend(r) THEN {tx[r]} ELSE {})
        BY <1>8 DEF PollEnds, PollTimesOut, Crash, Pend
    <2>4. pc'[r] \notin {"preparing", "sending"} /\ \A s \in Replicas \ {r} : pc'[s] = pc[s]
        BY <1>1, <2>2
    <2>5. QED
        BY <2>1, <2>3, <2>4, RowsHandedOver
<1>9. CASE Tick
    <2>1. /\ UNCHANGED <<log, paid, entry, amount, tx, orphans>>
          /\ \A r \in Replicas : pc[r] = "idle" /\ pc'[r] = "connecting"
        BY <1>9 DEF Tick
    <2>2. \A r \in Replicas : ~Pend(r)' /\ ~Holds(r)'
        BY <1>2, <2>1 DEF Pend, Holds
    <2>3. QED
        BY <2>1, <2>2, RowsKept DEF OwnRow
<1>10. ASSUME UNCHANGED <<log, paid, procVars>>, orphans' \subseteq orphans PROVE RowsInv'
    <2>1. \A r \in Replicas : (Holds(r)' <=> Holds(r)) /\ (OwnRow(r)' <=> OwnRow(r))
        BY <1>10 DEF Holds, Pend, OwnRow
    <2>2. QED
        BY <1>10, <2>1, RowsKept DEF RowsInv
<1>11. CASE \/ Earn \/ OtherSubmission \/ Midnight \/ Resume \/ UNCHANGED vars
            \/ \E r \in Replicas : LoseConnection(r)
            \/ \E t \in orphans : Expire(t)
    BY <1>10, <1>11 DEF Earn, OtherSubmission, Midnight, Resume, vars, LoseConnection, Expire
<1>12. ASSUME NEW r \in Replicas, Record(r) \/ Land(r) PROVE RowsInv'
    BY <1>12, RowAdded, RowLanded
<1>13. ASSUME NEW t \in orphans, LandLate(t) PROVE RowsInv'
    BY <1>13, RowLandedLate
<1>14. QED
    BY <1>5, <1>6, <1>7, <1>8, <1>9, <1>11, <1>12, <1>13 DEF Next, Sweep

LEMMA AllowanceInit == Init => A!AInit
BY DEF Init, A!AInit

\* A transfer that is included pays the row it was sent for, or fails.
LEMMA IncludedPays ==
    ASSUME TypeOK, NEW t \in Tx, Due(t.entry, t.amount), Include(t),
           UNCHANGED <<guard, unguarded>>
    PROVE  A!Pay(t.entry) \/ UNCHANGED A!avars
BY DEF Due, Include, guard, A!Pay, A!avars

LEMMA AllowanceStep == TypeOK /\ GuardInv /\ RowsInv /\ [Next]_vars => [A!ANext]_(A!avars)
<1> SUFFICES ASSUME TypeOK, GuardInv, RowsInv, [Next]_vars PROVE A!ANext \/ UNCHANGED A!avars
    OBVIOUS
<1> USE DEF ledger, guard, procVars, history, counters
<1>1. ASSUME NEW t \in Tx, Due(t.entry, t.amount), Include(t), UNCHANGED <<guard, unguarded>>
      PROVE  A!ANext \/ UNCHANGED A!avars
    <2>1. A!Pay(t.entry) \/ UNCHANGED A!avars
        BY <1>1, IncludedPays
    <2>2. t.entry \in 1..Len(log)
        BY <1>1 DEF Due
    <2>3. QED
        BY <2>1, <2>2 DEF A!ANext
<1>2. ASSUME NEW r \in Replicas, Land(r) PROVE A!ANext \/ UNCHANGED A!avars
    <2>1. tx[r] \in Tx /\ Include(tx[r]) /\ UNCHANGED <<guard, unguarded>>
        BY <1>2 DEF Land, TypeOK
    <2>2. Due(tx[r].entry, tx[r].amount)
        BY <1>2 DEF Land, RowsInv, OwnRow, RowDue, Holds, Pend
    <2>3. QED
        BY <1>1, <2>1, <2>2
<1>3. ASSUME NEW t \in orphans, LandLate(t) PROVE A!ANext \/ UNCHANGED A!avars
    <2>1. t \in Tx /\ Include(t) /\ UNCHANGED <<guard, unguarded>> /\ Due(t.entry, t.amount)
        BY <1>3 DEF LandLate, TypeOK, RowsInv
    <2>2. QED
        BY <1>1, <2>1
<1>4. ASSUME NEW r \in Replicas, Record(r) PROVE A!Enter
    <2>1. /\ pc[r] = "recording" /\ log' = Append(log, amount[r]) /\ spent' = spent + amount[r]
          /\ UNCHANGED <<halted, paid, moved, unguarded>>
        BY <1>4 DEF Record, At
    <2>2. amount[r] \in Nat /\ spent \in Nat
        BY DEF TypeOK
    <2>3. unguarded \/ (~halted /\ spent' <= Cap)
        BY <2>1 DEF GuardInv, Passed
    <2>4. spent' >= spent /\ spent' - spent = amount[r]
        BY <2>1, <2>2
    <2>5. QED
        BY <2>1, <2>3, <2>4 DEF A!Enter
<1>5. CASE Midnight
    BY <1>5 DEF Midnight, A!ANext, A!NewDay
<1>6. CASE Resume \/ \E r \in Replicas : Halt(r)
    BY <1>6 DEF Resume, Halt, A!ANext, A!Switch
<1>7. ASSUME NEW r \in Replicas, LoseConnection(r) PROVE A!ANext
    BY <1>7 DEF LoseConnection, A!ANext, A!Lose
<1>8. CASE UNCHANGED <<ledger, guard, unguarded>>
    BY <1>8 DEF A!avars
<1>9. CASE Earn \/ OtherSubmission
    BY <1>9 DEF Earn, OtherSubmission, A!avars
<1>10. ASSUME NEW r \in Replicas,
              \/ TryLock(r) \/ ReadBalance(r) \/ Guard(r) \/ Prepare(r) \/ Send(r) \/ PollEnds(r)
              \/ PollTimesOut(r) \/ Unlock(r) \/ Break(r) \/ Crash(r)
       PROVE  UNCHANGED <<ledger, guard, unguarded>>
    BY <1>10 DEF TryLock, ReadBalance, Guard, Prepare, Send, PollEnds, PollTimesOut, Unlock, Break, Crash
<1>11. CASE Tick \/ (\E t \in orphans : Expire(t)) \/ UNCHANGED vars
    BY <1>8, <1>11 DEF Tick, Expire, vars
<1>12. QED
    BY <1>2, <1>3, <1>4, <1>5, <1>6, <1>7, <1>8, <1>9, <1>10, <1>11 DEF Next, Sweep, A!ANext

\* Whatever is retried, left to itself or killed, and even where the lock was
\* lost, money leaves for one row of the log each time, which was there before
\* and says how much; rows are added within the cap, and not under a halt,
\* unless it was lost.
THEOREM SpendingImplementsAllowance == Spec => PaidFromLog
BY GuardInvariant, InitRows, RowsStep, AllowanceInit, AllowanceStep, PTL
   DEF Spec, PaidFromLog, A!ASpec

=============================================================================
