--------------------------- MODULE SettlementProofs ---------------------------
(***************************************************************************)
(* What TLAPS proves about Settlement, for any number of requests,         *)
(* payloads and payers.                                                    *)
(***************************************************************************)
EXTENDS Settlement, TLAPS

Places == {"new", "local", "contract", "queued", "prepared", "sent", "record", "done"}

InLine  == {"queued", "prepared", "sent"}
Serving == {"prepared", "sent"}

\* What a request knows at each of its places.
Begun ==
    \A r \in Requests :
        /\ pc[r] = "new" => r \notin orphans /\ answer[r] = "none"
        /\ pc[r] # "new" => payload[r] \in Payloads
        /\ pc[r] = "record" => outcome[r] \in Statuses
        /\ r \in orphans => pc[r] # "new"

\* The queue holds whoever waits for it; who is served is its head.
InQueue ==
    \A r \in Requests :
        /\ pc[r] \in InLine => \E i \in 1..Len(queue) : queue[i] = r
        /\ pc[r] \in Serving => queue[1] = r

TypeInv == TypeOK /\ Begun /\ InQueue

LEMMA InitType == Init => TypeInv
<1> SUFFICES ASSUME Init PROVE TypeInv
    OBVIOUS
<1>1. changes \in 0..MaxChanges /\ disruptions \in 0..MaxDisruptions
    BY SettlementAssumption DEF SettlementAssumption, Init
<1>2. queue \in Seq(Requests)
    BY DEF Init
<1>3. TypeOK
    BY <1>1, <1>2 DEF Init, TypeOK
<1>4. Begun /\ InQueue
    BY DEF Init, Begun, InQueue, InLine, Serving
<1>5. QED
    BY <1>3, <1>4 DEF TypeInv

LEMMA DisruptType ==
    ASSUME disruptions \in 0..MaxDisruptions, changes \in 0..MaxChanges, Disrupt
    PROVE  disruptions' \in 0..MaxDisruptions /\ changes' \in 0..MaxChanges
BY SettlementAssumption DEF Disrupt, SettlementAssumption

\* A verified request joins the end of the queue, or ends.
LEMMA Joins ==
    ASSUME TypeInv, NEW r \in Requests, pc[r] = "contract", Verified(r)
    PROVE  /\ queue' \in Seq(Requests) /\ InQueue'
           /\ pc' \in [Requests -> Places] /\ pc'[r] \in {"queued", "done"}
           /\ \A z \in Requests \ {r} : pc'[z] = pc[z]
<1>1. pc \in [Requests -> Places] /\ queue \in Seq(Requests)
    BY DEF TypeInv, TypeOK, Places
<1>2. CASE settling[r]
    <2>1. pc' = [pc EXCEPT ![r] = "queued"] /\ queue' = Append(queue, r)
        BY <1>2 DEF Verified, Goto
    <2>2. /\ queue' \in Seq(Requests) /\ Len(queue') = Len(queue) + 1 /\ queue'[Len(queue) + 1] = r
          /\ \A i \in 1..Len(queue) : queue'[i] = queue[i]
        BY <1>1, <2>1
    <2>3. ASSUME NEW z \in Requests
          PROVE  /\ pc'[z] \in InLine => \E i \in 1..Len(queue') : queue'[i] = z
                 /\ pc'[z] \in Serving => queue'[1] = z
        <3>1. CASE z = r
            <4>1. Len(queue) + 1 \in 1..Len(queue')
                BY <1>1, <2>2
            <4>2. QED
                BY <1>1, <2>1, <2>2, <3>1, <4>1 DEF Serving
        <3>2. CASE z # r
            <4>1. pc'[z] = pc[z]
                BY <1>1, <2>1, <3>2
            <4>2. ASSUME pc[z] \in InLine PROVE \E i \in 1..Len(queue') : queue'[i] = z
                <5>1. PICK i \in 1..Len(queue) : queue[i] = z
                    BY <4>2 DEF TypeInv, InQueue
                <5>2. i \in 1..Len(queue') /\ queue'[i] = z
                    BY <1>1, <2>2, <5>1
                <5>3. QED
                    BY <5>2
            <4>3. ASSUME pc[z] \in Serving PROVE queue'[1] = z
                <5>1. PICK i \in 1..Len(queue) : queue[i] = z
                    BY <4>3 DEF TypeInv, InQueue, InLine, Serving
                <5>2. 1 \in 1..Len(queue) /\ queue[1] = z
                    BY <1>1, <4>3, <5>1 DEF TypeInv, InQueue
                <5>3. QED
                    BY <2>2, <5>2
            <4>4. QED
                BY <4>1, <4>2, <4>3
        <3>3. QED
            BY <3>1, <3>2
    <2>4. QED
        BY <1>1, <2>1, <2>2, <2>3 DEF InQueue, Places
<1>3. CASE ~settling[r]
    <2>1. pc' = [pc EXCEPT ![r] = "done"] /\ queue' = queue
        BY <1>3 DEF Verified, Goto
    <2>2. QED
        BY <1>1, <2>1 DEF TypeInv, InQueue, InLine, Serving, Places
<1>4. QED
    BY <1>2, <1>3

\* Who was served leaves the queue; nobody else was being served.
LEMMA Leaves ==
    ASSUME TypeInv, NEW r \in Requests, pc[r] \in Serving,
           NEW status \in Statuses, RecordNext(r, status), queue' = Advanced
    PROVE  /\ queue' \in Seq(Requests) /\ InQueue'
           /\ pc' = [pc EXCEPT ![r] = "record"] /\ outcome' = [outcome EXCEPT ![r] = status]
<1>1. /\ pc' = [pc EXCEPT ![r] = "record"] /\ outcome' = [outcome EXCEPT ![r] = status]
      /\ queue' = Tail(queue)
    BY DEF RecordNext, Goto, Advanced
<1>2. pc \in [Requests -> Places] /\ queue \in Seq(Requests)
    BY DEF TypeInv, TypeOK, Places
<1>3. queue[1] = r /\ queue # << >>
    <2>1. PICK i \in 1..Len(queue) : queue[i] = r
        BY DEF TypeInv, InQueue, InLine, Serving
    <2>2. queue[1] = r
        BY DEF TypeInv, InQueue
    <2>3. QED
        BY <1>2, <2>1, <2>2
<1>4. /\ queue' \in Seq(Requests) /\ Len(queue') = Len(queue) - 1
      /\ \A i \in 1..Len(queue') : queue'[i] = queue[i + 1]
    BY <1>1, <1>2, <1>3
<1>5. ASSUME NEW z \in Requests
      PROVE  /\ pc'[z] \in InLine => \E i \in 1..Len(queue') : queue'[i] = z
             /\ pc'[z] \in Serving => queue'[1] = z
    <2>1. CASE z = r
        BY <1>1, <1>2, <2>1 DEF InLine, Serving
    <2>2. CASE z # r
        <3>1. pc'[z] = pc[z] /\ pc[z] \notin Serving
            BY <1>1, <1>2, <1>3, <2>2 DEF TypeInv, InQueue
        <3>2. ASSUME pc[z] \in InLine PROVE \E i \in 1..Len(queue') : queue'[i] = z
            <4>1. PICK i \in 1..Len(queue) : queue[i] = z
                BY <3>2 DEF TypeInv, InQueue
            <4>2. i # 1
                BY <1>3, <2>2, <4>1
            <4>3. i - 1 \in 1..Len(queue') /\ queue'[i - 1] = z
                BY <1>2, <1>4, <4>1, <4>2
            <4>4. QED
                BY <4>3
        <3>3. QED
            BY <3>1, <3>2
    <2>3. QED
        BY <2>1, <2>2
<1>6. QED
    BY <1>1, <1>4, <1>5 DEF InQueue

\* The network's answer keeps the types of the ledger.
LEMMA IncludeType ==
    ASSUME TypeInv, NEW r \in Requests, payload[r] \in Payloads, Include(r)
    PROVE  /\ sequence' \in Nat /\ charged' \subseteq Payloads /\ clashed' \in BOOLEAN
           /\ answer' \in [Requests -> {"none", "charged", "failed"}]
           /\ answer'[r] # "none" /\ \A z \in Requests \ {r} : answer'[z] = answer[z]
<1>1. /\ number \in [Requests -> Nat] /\ sequence \in Nat /\ charged \subseteq Payloads
      /\ answer \in [Requests -> {"none", "charged", "failed"}] /\ clashed \in BOOLEAN
    BY DEF TypeInv, TypeOK
<1>2. PICK a \in {"charged", "failed"} : answer' = [answer EXCEPT ![r] = a]
    BY DEF Include
<1>3. sequence' \in {number[r], sequence} /\ charged' \in {charged, charged \cup {payload[r]}}
    BY DEF Include
<1>4. clashed' \in BOOLEAN
    BY <1>1 DEF Include
<1>5. QED
    BY <1>1, <1>2, <1>3, <1>4

LEMMA TypeStep == TypeInv /\ [Next]_vars => TypeInv'
<1> SUFFICES ASSUME TypeInv, [Next]_vars PROVE TypeInv'
    OBVIOUS
<1>0. /\ TypeOK /\ Begun /\ InQueue
      /\ pc \in [Requests -> Places] /\ queue \in Seq(Requests)
      /\ outcome \in [Requests -> Statuses \cup {None}] /\ payload \in [Requests -> Payloads \cup {None}]
    BY DEF TypeInv, TypeOK, Places
<1> USE DEF request, ledger, screens, history, bounds
<1>1. ASSUME NEW r \in Requests, NEW d \in Payloads, NEW settle \in BOOLEAN, Receive(r, d, settle)
      PROVE  TypeInv'
    <2>1. pc' = [pc EXCEPT ![r] = "local"] /\ payload' = [payload EXCEPT ![r] = d] /\ pc[r] = "new"
        BY <1>1 DEF Receive, Goto
    <2>2. TypeOK'
        BY <1>0, <1>1, <2>1 DEF Receive, TypeOK, Places
    <2>3. Begun' /\ InQueue'
        BY <1>0, <1>1, <2>1 DEF Receive, Begun, InQueue, InLine, Serving
    <2>4. QED
        BY <2>2, <2>3 DEF TypeInv
<1>2. ASSUME NEW r \in Requests, ScreenLocal(r) PROVE TypeInv'
    <2>1. /\ pc[r] = "local" /\ payload[r] \in Payloads /\ cleared' \in {cleared, cleared \cup {r}}
          /\ \/ pc' = [pc EXCEPT ![r] = "record"] /\ outcome' = [outcome EXCEPT ![r] = "held"]
             \/ pc' = [pc EXCEPT ![r] = "contract"] /\ outcome' = outcome
        BY <1>0, <1>2 DEF ScreenLocal, RecordNext, Goto, Begun
    <2>2. TypeOK'
        BY <1>0, <1>2, <2>1 DEF ScreenLocal, TypeOK, Places, Statuses
    <2>3. Begun' /\ InQueue'
        BY <1>0, <1>2, <2>1 DEF ScreenLocal, Begun, InQueue, InLine, Serving, Statuses
    <2>4. QED
        BY <2>2, <2>3 DEF TypeInv
<1>3. ASSUME NEW r \in Requests, AskContract(r) PROVE TypeInv'
    <2>1. CASE Payer[payload[r]] \in Denied
        <3>1. /\ pc[r] = "contract" /\ payload[r] \in Payloads /\ queue' = queue
              /\ pc' = [pc EXCEPT ![r] = "record"] /\ outcome' = [outcome EXCEPT ![r] = "held"]
            BY <1>0, <1>3, <2>1 DEF AskContract, RecordNext, Goto, Begun
        <3>2. TypeOK'
            BY <1>0, <1>3, <3>1 DEF AskContract, TypeOK, Places, Statuses
        <3>3. Begun' /\ InQueue'
            BY <1>0, <1>3, <3>1 DEF AskContract, Begun, InQueue, InLine, Serving, Statuses
        <3>4. QED
            BY <3>2, <3>3 DEF TypeInv
    <2>2. CASE Payer[payload[r]] \notin Denied
        <3>1. pc[r] = "contract" /\ Verified(r) /\ outcome' = outcome
            BY <1>3, <2>2 DEF AskContract
        <3>2. /\ queue' \in Seq(Requests) /\ InQueue'
              /\ pc' \in [Requests -> Places] /\ pc'[r] \in {"queued", "done"}
              /\ \A z \in Requests \ {r} : pc'[z] = pc[z]
            BY <3>1, Joins
        <3>3. TypeOK'
            BY <1>0, <1>3, <3>1, <3>2 DEF AskContract, TypeOK, Places
        <3>4. Begun'
            BY <1>0, <1>3, <3>1, <3>2 DEF AskContract, Begun
        <3>5. QED
            BY <3>2, <3>3, <3>4 DEF TypeInv
    <2>3. QED
        BY <2>1, <2>2
<1>4. ASSUME NEW r \in Requests, FailOpen(r) PROVE TypeInv'
    <2>1. pc[r] = "contract" /\ Verified(r) /\ Disrupt
        BY <1>4 DEF FailOpen
    <2>2. /\ queue' \in Seq(Requests) /\ InQueue'
          /\ pc' \in [Requests -> Places] /\ pc'[r] \in {"queued", "done"}
          /\ \A z \in Requests \ {r} : pc'[z] = pc[z]
        BY <2>1, Joins
    <2>3. disruptions' \in 0..MaxDisruptions /\ changes' \in 0..MaxChanges
        BY <1>0, <2>1, DisruptType DEF TypeOK
    <2>4. TypeOK'
        BY <1>0, <1>4, <2>2, <2>3 DEF FailOpen, TypeOK, Places
    <2>5. Begun'
        BY <1>0, <1>4, <2>1, <2>2 DEF FailOpen, Begun
    <2>6. QED
        BY <2>2, <2>4, <2>5 DEF TypeInv
<1>5. ASSUME NEW r \in Requests, Prepare(r) PROVE TypeInv'
    <2>1. /\ pc[r] = "queued" /\ pc' = [pc EXCEPT ![r] = "prepared"] /\ queue' = queue
          /\ r = Head(queue) /\ number' = [number EXCEPT ![r] = sequence + 1]
        BY <1>5 DEF Prepare, Turn, Goto
    <2>2. queue[1] = r
        BY <1>0, <2>1
    <2>3. TypeOK'
        BY <1>0, <1>5, <2>1 DEF Prepare, TypeOK, Places
    <2>4. Begun' /\ InQueue'
        BY <1>0, <1>5, <2>1, <2>2 DEF Prepare, Begun, InQueue, InLine, Serving
    <2>5. QED
        BY <2>3, <2>4 DEF TypeInv
<1>6. ASSUME NEW r \in Requests, Send(r) PROVE TypeInv'
    <2>1. pc[r] = "prepared" /\ pc' = [pc EXCEPT ![r] = "sent"] /\ queue' = queue
        BY <1>6 DEF Send, Goto
    <2>2. TypeOK'
        BY <1>0, <1>6, <2>1 DEF Send, TypeOK, Places
    <2>3. Begun' /\ InQueue'
        BY <1>0, <1>6, <2>1 DEF Send, Begun, InQueue, InLine, Serving
    <2>4. QED
        BY <2>2, <2>3 DEF TypeInv
<1>7. ASSUME NEW r \in Requests, PollEnds(r) PROVE TypeInv'
    <2>1. PICK status \in Statuses : RecordNext(r, status) /\ queue' = Advanced
        BY <1>7 DEF PollEnds, Statuses
    <2>2. /\ pc[r] = "sent" /\ queue' \in Seq(Requests) /\ InQueue'
          /\ pc' = [pc EXCEPT ![r] = "record"] /\ outcome' = [outcome EXCEPT ![r] = status]
        BY <1>7, <2>1, Leaves DEF PollEnds, Serving
    <2>3. TypeOK'
        BY <1>0, <1>7, <2>2 DEF PollEnds, TypeOK, Places
    <2>4. Begun'
        BY <1>0, <1>7, <2>2 DEF PollEnds, Begun
    <2>5. QED
        BY <2>2, <2>3, <2>4 DEF TypeInv
<1>8. ASSUME NEW r \in Requests, PollTimesOut(r) \/ Break(r) PROVE TypeInv'
    <2>1. RecordNext(r, "failed") /\ queue' = Advanced /\ pc[r] \in Serving /\ Disrupt
        BY <1>8 DEF PollTimesOut, Break, Unknown, Serving
    <2>2. /\ queue' \in Seq(Requests) /\ InQueue'
          /\ pc' = [pc EXCEPT ![r] = "record"] /\ outcome' = [outcome EXCEPT ![r] = "failed"]
        BY <2>1, Leaves DEF Statuses
    <2>3. disruptions' \in 0..MaxDisruptions /\ changes' \in 0..MaxChanges
        BY <1>0, <2>1, DisruptType DEF TypeOK
    <2>4. TypeOK'
        BY <1>0, <1>8, <2>2, <2>3 DEF PollTimesOut, Break, TypeOK, Places, Statuses
    <2>5. Begun'
        BY <1>0, <1>8, <2>1, <2>2 DEF PollTimesOut, Break, Begun, Serving, Statuses
    <2>6. QED
        BY <2>2, <2>4, <2>5 DEF TypeInv
<1>9. ASSUME NEW r \in Requests, Record(r) \/ RecordFails(r) PROVE TypeInv'
    <2>1. /\ pc[r] = "record" /\ pc' = [pc EXCEPT ![r] = "done"] /\ queue' = queue
          /\ outcome[r] \in Statuses /\ payload[r] \in Payloads
        BY <1>0, <1>9 DEF Record, RecordFails, Goto, Begun
    <2>2. rows' \in [Payloads -> Statuses \cup {None}] /\ lost' \subseteq Payloads
        BY <1>0, <1>9, <2>1 DEF Record, RecordFails, Stored, TypeOK
    <2>3. disruptions' \in 0..MaxDisruptions /\ changes' \in 0..MaxChanges
        BY <1>0, <1>9, DisruptType DEF Record, RecordFails, TypeOK
    <2>4. TypeOK'
        BY <1>0, <1>9, <2>1, <2>2, <2>3 DEF Record, RecordFails, TypeOK, Places
    <2>5. Begun' /\ InQueue'
        BY <1>0, <1>9, <2>1 DEF Record, RecordFails, Begun, InQueue, InLine, Serving
    <2>6. QED
        BY <2>4, <2>5 DEF TypeInv
<1>10. ASSUME NEW r \in Requests, Land(r) \/ LandLate(r) PROVE TypeInv'
    <2>1. Include(r) /\ payload[r] \in Payloads /\ pc' = pc /\ pc[r] # "new"
        BY <1>0, <1>10 DEF Land, LandLate, Begun
    <2>2. /\ sequence' \in Nat /\ charged' \subseteq Payloads /\ clashed' \in BOOLEAN
          /\ answer' \in [Requests -> {"none", "charged", "failed"}]
          /\ \A z \in Requests \ {r} : answer'[z] = answer[z]
        BY <2>1, IncludeType
    <2>3. TypeOK'
        BY <1>0, <1>10, <2>2 DEF Land, LandLate, TypeOK
    <2>4. Begun' /\ InQueue'
        BY <1>0, <1>10, <2>1, <2>2 DEF Land, LandLate, Begun, InQueue
    <2>5. QED
        BY <2>3, <2>4 DEF TypeInv
<1>11. ASSUME NEW r \in Requests, Expire(r) PROVE TypeInv'
    BY <1>0, <1>11 DEF Expire, TypeInv, TypeOK, Begun, InQueue
<1>12. ASSUME NEW p \in Payers, SetBlocked(p) PROVE TypeInv'
    <2>1. changes' \in 0..MaxChanges /\ blocked' \subseteq Payers
        BY <1>0, <1>12, SettlementAssumption DEF SetBlocked, TypeOK, SettlementAssumption
    <2>2. QED
        BY <1>0, <1>12, <2>1 DEF SetBlocked, TypeInv, TypeOK, Begun, InQueue
<1>13. ASSUME Crash PROVE TypeInv'
    <2>1. /\ pc' = [r \in Requests |-> IF r \in Working THEN "done" ELSE pc[r]]
          /\ queue' = << >> /\ Working = {r \in Requests : pc[r] \notin {"new", "done"}} /\ Disrupt
        BY <1>13 DEF Crash, Working
    <2>2. disruptions' \in 0..MaxDisruptions /\ changes' \in 0..MaxChanges
        BY <1>0, <2>1, DisruptType DEF TypeOK
    <2>3. orphans' \subseteq Requests /\ \A r \in orphans' : r \in orphans \/ r \in Working
        BY <1>0, <1>13 DEF Crash, Working, TypeOK
    <2>4. lost' \subseteq Payloads
        BY <1>0, <1>13, <2>1 DEF Crash, TypeOK, Begun
    <2>5. abandoned' \in BOOLEAN
        BY <1>0, <1>13 DEF Crash, TypeOK
    <2>6. TypeOK'
        BY <1>0, <1>13, <2>1, <2>2, <2>3, <2>4, <2>5 DEF Crash, TypeOK, Places
    <2>7. Begun' /\ InQueue'
        BY <1>0, <1>13, <2>1, <2>3 DEF Crash, Begun, InQueue, InLine, Serving
    <2>8. QED
        BY <2>6, <2>7 DEF TypeInv
<1>14. CASE UNCHANGED vars
    BY <1>0, <1>14 DEF vars, TypeInv, TypeOK, Begun, InQueue
<1>15. QED
    BY <1>1, <1>2, <1>3, <1>4, <1>5, <1>6, <1>7, <1>8, <1>9, <1>10, <1>11, <1>12, <1>13, <1>14
       DEF Next, Step

LEMMA TypeInvariant == Spec => []TypeInv
BY InitType, TypeStep, PTL DEF Spec

\* Every variable keeps its type.
THEOREM SettlementTypeCorrect == Spec => []TypeOK
<1>1. TypeInv => TypeOK
    BY DEF TypeInv
<1>2. QED
    BY <1>1, TypeInvariant, PTL

-----------------------------------------------------------------------------
(* Screening.  What a request passed is remembered by the place it reached,  *)
(* and by its transaction when it has left that place.                       *)

Screened(r) == settling[r] /\ r \in cleared /\ (Payer[payload[r]] \in Denied => r \in waived)

ScreenInv ==
    \A r \in Requests :
        /\ pc[r] = "contract" => r \in cleared
        /\ pc[r] \in InLine \/ r \in orphans \/ answer[r] = "charged" => Screened(r)

LEMMA InitScreen == Init => ScreenInv
BY DEF Init, ScreenInv, InLine

LEMMA ScreenStep == TypeInv /\ ScreenInv /\ [Next]_vars => ScreenInv'
<1> SUFFICES ASSUME TypeInv, ScreenInv, [Next]_vars PROVE ScreenInv'
    OBVIOUS
<1>0. /\ Begun /\ pc \in [Requests -> Places] /\ payload \in [Requests -> Payloads \cup {None}]
      /\ settling \in [Requests -> BOOLEAN] /\ answer \in [Requests -> {"none", "charged", "failed"}]
    BY DEF TypeInv, TypeOK, Places
<1> USE DEF request, ledger, screens, history, bounds
<1>1. ASSUME NEW r \in Requests, NEW d \in Payloads, NEW settle \in BOOLEAN, Receive(r, d, settle)
      PROVE  ScreenInv'
    BY <1>0, <1>1 DEF Receive, Goto, Begun, ScreenInv, Screened, InLine
<1>2. ASSUME NEW r \in Requests, ScreenLocal(r) PROVE ScreenInv'
    BY <1>0, <1>2 DEF ScreenLocal, Blocked, RecordNext, Goto, ScreenInv, Screened, InLine
<1>3. ASSUME NEW r \in Requests, AskContract(r) \/ FailOpen(r) PROVE ScreenInv'
    <2>1. /\ pc[r] = "contract" /\ cleared' = cleared /\ UNCHANGED <<payload, settling, answer, orphans>>
          /\ \/ pc' = [pc EXCEPT ![r] = "record"] /\ waived' = waived
             \/ pc' = [pc EXCEPT ![r] = "done"] /\ waived' \in {waived, waived \cup {r}}
             \/ /\ pc' = [pc EXCEPT ![r] = "queued"] /\ settling[r]
                /\ \/ waived' = waived /\ Payer[payload[r]] \notin Denied
                   \/ waived' = waived \cup {r}
        BY <1>3 DEF AskContract, FailOpen, Verified, RecordNext, Goto
    <2>2. QED
        BY <1>0, <2>1 DEF ScreenInv, Screened, InLine
<1>4. ASSUME NEW r \in Requests, Prepare(r) \/ Send(r) PROVE ScreenInv'
    BY <1>0, <1>4 DEF Prepare, Send, Goto, ScreenInv, Screened, InLine
<1>5. ASSUME NEW r \in Requests, PollEnds(r) \/ PollTimesOut(r) \/ Break(r) PROVE ScreenInv'
    BY <1>0, <1>5 DEF PollEnds, PollTimesOut, Break, RecordNext, Goto, ScreenInv, Screened, InLine
<1>6. ASSUME NEW r \in Requests, Record(r) \/ RecordFails(r) PROVE ScreenInv'
    BY <1>0, <1>6 DEF Record, RecordFails, Goto, ScreenInv, Screened, InLine
<1>7. ASSUME NEW r \in Requests, Land(r) \/ LandLate(r) PROVE ScreenInv'
    <2>1. /\ UNCHANGED <<pc, payload, settling, cleared, waived>> /\ orphans' \subseteq orphans
          /\ (pc[r] \in InLine \/ r \in orphans) /\ Include(r)
        BY <1>7 DEF Land, LandLate, InLine
    <2>2. \A z \in Requests \ {r} : answer'[z] = answer[z]
        BY <1>0, <1>7 DEF Land, LandLate, Include
    <2>3. QED
        BY <2>1, <2>2 DEF ScreenInv, Screened
<1>8. ASSUME Crash PROVE ScreenInv'
    <2>1. /\ UNCHANGED <<payload, settling, answer, cleared, waived>>
          /\ \A r \in Requests : pc'[r] \in {pc[r], "done"}
          /\ \A r \in orphans' : r \in orphans \/ pc[r] = "sent"
        BY <1>8 DEF Crash, Working
    <2>2. QED
        BY <2>1 DEF ScreenInv, Screened, InLine
<1>9. CASE UNCHANGED <<pc, payload, settling, answer, cleared, waived>> /\ orphans' \subseteq orphans
    BY <1>9 DEF ScreenInv, Screened
<1>10. QED
    BY <1>1, <1>2, <1>3, <1>4, <1>5, <1>6, <1>7, <1>8, <1>9 DEF Next, Step, Expire, SetBlocked, vars

\* Nobody is charged by a request that was not screened, however late its
\* transaction lands.
THEOREM ScreenedFirst == Spec => []ScreenedBeforeCharged
<1>1. ScreenInv => ScreenedBeforeCharged
    BY DEF ScreenInv, Screened, ScreenedBeforeCharged
<1>2. QED
    BY <1>1, TypeInvariant, InitScreen, ScreenStep, PTL DEF Spec

-----------------------------------------------------------------------------
(* Sequence numbers.  While nothing was given up, the one submission that is  *)
(* served knows the account's number.                                         *)

NumberInv ==
    abandoned \/ /\ ~clashed /\ orphans = {}
                 /\ \A r \in Requests :
                        pc[r] = "prepared" \/ (pc[r] = "sent" /\ answer[r] = "none") =>
                            number[r] = sequence + 1

LEMMA InitNumber == Init => NumberInv
BY DEF Init, NumberInv

\* One at a time is served.
LEMMA OneServed ==
    ASSUME TypeInv, NEW r \in Requests, NEW z \in Requests, pc[r] \in Serving, pc[z] \in Serving
    PROVE  r = z
BY DEF TypeInv, InQueue

LEMMA NumberStep == TypeInv /\ NumberInv /\ [Next]_vars => NumberInv'
<1> SUFFICES ASSUME TypeInv, NumberInv, [Next]_vars PROVE NumberInv'
    OBVIOUS
<1>0. /\ Begun /\ pc \in [Requests -> Places] /\ sequence \in Nat /\ number \in [Requests -> Nat]
      /\ answer \in [Requests -> {"none", "charged", "failed"}]
    BY DEF TypeInv, TypeOK, Places
<1> USE DEF request, ledger, screens, history, bounds
<1>1. ASSUME NEW r \in Requests, Prepare(r) PROVE NumberInv'
    BY <1>0, <1>1 DEF Prepare, Goto, NumberInv
<1>2. ASSUME NEW r \in Requests, Send(r) PROVE NumberInv'
    BY <1>0, <1>2 DEF Send, Goto, NumberInv
<1>3. ASSUME NEW r \in Requests, Land(r) PROVE NumberInv'
    <2>1. CASE abandoned
        BY <1>3, <2>1 DEF Land, NumberInv
    <2>2. CASE ~abandoned
        <3>1. pc[r] = "sent" /\ answer[r] = "none" /\ pc' = pc /\ number' = number /\ orphans' = orphans
            BY <1>3 DEF Land
        <3>2. number[r] = sequence + 1 /\ ~clashed /\ orphans = {}
            BY <2>2, <3>1 DEF NumberInv
        <3>3. ~clashed' /\ answer'[r] # "none"
            BY <1>0, <1>3, <3>2 DEF Land, Include
        <3>4. \A z \in Requests : pc[z] \in Serving => z = r
            BY <3>1, OneServed DEF Serving
        <3>5. QED
            BY <3>1, <3>2, <3>3, <3>4 DEF NumberInv, Serving
    <2>3. QED
        BY <2>1, <2>2
<1>4. ASSUME NEW r \in Requests, LandLate(r) PROVE NumberInv'
    BY <1>4 DEF LandLate, NumberInv
<1>5. ASSUME NEW r \in Requests, PollTimesOut(r) PROVE NumberInv'
    BY <1>5 DEF PollTimesOut, NumberInv
<1>6. ASSUME Crash PROVE NumberInv'
    <2>1. CASE abandoned
        BY <1>6, <2>1 DEF Crash, NumberInv
    <2>2. CASE ~abandoned
        <3> DEFINE flying == {r \in {q \in Working : pc[q] = "sent"} : answer[r] = "none"}
        <3>1. orphans' = orphans \cup flying /\ abandoned' = (abandoned \/ flying # {}) /\ clashed' = clashed
            BY <1>6 DEF Crash
        <3>2. \A r \in Requests : pc'[r] \in {"new", "done"}
            BY <1>6 DEF Crash, Working
        <3>3. QED
            BY <2>2, <3>1, <3>2 DEF NumberInv
    <2>3. QED
        BY <2>1, <2>2
<1>7. ASSUME NEW r \in Requests, pc' = [pc EXCEPT ![r] = pc'[r]], pc'[r] \notin Serving,
             UNCHANGED <<number, answer, sequence, abandoned, clashed>>, orphans' \subseteq orphans
      PROVE  NumberInv'
    BY <1>0, <1>7 DEF NumberInv, Serving
<1>8. ASSUME NEW r \in Requests, NEW d \in Payloads, NEW settle \in BOOLEAN, Receive(r, d, settle)
      PROVE  NumberInv'
    BY <1>0, <1>7, <1>8 DEF Receive, Goto, Serving
<1>9. ASSUME NEW r \in Requests, ScreenLocal(r) PROVE NumberInv'
    BY <1>0, <1>7, <1>9 DEF ScreenLocal, RecordNext, Goto, Serving
<1>10. ASSUME NEW r \in Requests, AskContract(r) \/ FailOpen(r) PROVE NumberInv'
    BY <1>0, <1>7, <1>10 DEF AskContract, FailOpen, Verified, RecordNext, Goto, Serving
<1>11. ASSUME NEW r \in Requests, PollEnds(r) \/ Break(r) PROVE NumberInv'
    BY <1>0, <1>7, <1>11 DEF PollEnds, Break, RecordNext, Goto, Serving
<1>12. ASSUME NEW r \in Requests, Record(r) \/ RecordFails(r) PROVE NumberInv'
    BY <1>0, <1>7, <1>12 DEF Record, RecordFails, Goto, Serving
<1>13. CASE UNCHANGED <<pc, number, answer, sequence, abandoned, clashed>> /\ orphans' \subseteq orphans
    BY <1>13 DEF NumberInv
<1>14. QED
    BY <1>1, <1>2, <1>3, <1>4, <1>5, <1>6, <1>8, <1>9, <1>10, <1>11, <1>12, <1>13
       DEF Next, Step, Expire, SetBlocked, vars

\* The queue keeps submissions from meeting on a sequence number.
THEOREM SubmissionsDoNotClash == Spec => []SequenceNeverClashes
<1>1. NumberInv => SequenceNeverClashes
    BY DEF NumberInv, SequenceNeverClashes
<1>2. QED
    BY <1>1, TypeInvariant, InitNumber, NumberStep, PTL DEF Spec

-----------------------------------------------------------------------------
(* Records.  A payload that is charged, or whose transaction is left to       *)
(* itself, has a row, is about to have one, or lost it.                       *)

Filed(d) ==
    \/ rows[d] # None \/ d \in lost
    \/ \E r \in Requests : payload[r] = d /\ pc[r] \in {"sent", "record"}

FiledInv == (\A d \in charged : Filed(d)) /\ (\A r \in orphans : Filed(payload[r]))

LEMMA FiledStep == TypeInv /\ FiledInv /\ [Next]_vars => FiledInv'
<1> SUFFICES ASSUME TypeInv, FiledInv, [Next]_vars PROVE FiledInv'
    OBVIOUS
<1>0. /\ Begun /\ pc \in [Requests -> Places] /\ payload \in [Requests -> Payloads \cup {None}]
      /\ rows \in [Payloads -> Statuses \cup {None}] /\ orphans \subseteq Requests
      /\ charged \subseteq Payloads
    BY DEF TypeInv, TypeOK, Places
<1> USE DEF request, ledger, screens, history, bounds
<1>1. TypeInv'
    BY TypeStep
<1>2. ASSUME \A d \in Payloads : rows[d] # None => rows'[d] # None,
             lost \subseteq lost',
             \A r \in Requests : pc[r] \in {"sent", "record"} =>
                 /\ payload'[r] = payload[r]
                 /\ pc'[r] \in {"sent", "record"} \/ rows'[payload[r]] # None \/ payload[r] \in lost',
             \A d \in charged' : d \in charged \/ Filed(d),
             \A r \in orphans' : payload'[r] = payload[r] /\ (r \in orphans \/ Filed(payload[r]))
      PROVE  FiledInv'
    <2>1. ASSUME NEW d \in Payloads, Filed(d) PROVE Filed(d)'
        BY <1>2, <2>1 DEF Filed
    <2>2. charged' \subseteq Payloads /\ orphans' \subseteq Requests
        BY <1>1 DEF TypeInv, TypeOK
    <2>3. \A r \in orphans' : payload'[r] \in Payloads
        BY <1>1, <2>2 DEF TypeInv, Begun
    <2>4. \A d \in charged' : Filed(d)'
        BY <1>2, <2>1, <2>2 DEF FiledInv
    <2>5. \A r \in orphans' : Filed(payload[r])'
        <3> SUFFICES ASSUME NEW r \in orphans' PROVE Filed(payload[r])'
            OBVIOUS
        <3>1. Filed(payload[r]) /\ payload'[r] = payload[r] /\ payload[r] \in Payloads
            BY <1>2, <2>3 DEF FiledInv
        <3>2. PICK d \in Payloads : d = payload[r]
            BY <3>1
        <3>3. Filed(d)' /\ d = payload'[r]
            BY <2>1, <3>1, <3>2
        <3>4. QED
            BY <3>3 DEF Filed
    <2>6. QED
        BY <2>4, <2>5 DEF FiledInv
<1>3. ASSUME NEW r \in Requests, NEW d \in Payloads, NEW settle \in BOOLEAN, Receive(r, d, settle)
      PROVE  FiledInv'
    BY <1>0, <1>2, <1>3 DEF Receive, Goto, Begun
<1>4. ASSUME NEW r \in Requests, pc[r] \notin {"sent", "record"}, \A z \in Requests \ {r} : pc'[z] = pc[z],
             UNCHANGED <<payload, rows, lost, charged, orphans>>
      PROVE  FiledInv'
    BY <1>0, <1>2, <1>4
<1>5. ASSUME NEW r \in Requests, ScreenLocal(r) PROVE FiledInv'
    BY <1>0, <1>4, <1>5 DEF ScreenLocal, RecordNext, Goto
<1>6. ASSUME NEW r \in Requests, AskContract(r) \/ FailOpen(r) PROVE FiledInv'
    BY <1>0, <1>4, <1>6 DEF AskContract, FailOpen, Verified, RecordNext, Goto
<1>7. ASSUME NEW r \in Requests, Prepare(r) \/ Send(r) \/ Break(r) PROVE FiledInv'
    BY <1>0, <1>4, <1>7 DEF Prepare, Send, Break, RecordNext, Goto
<1>8. ASSUME NEW r \in Requests, PollEnds(r) \/ PollTimesOut(r) PROVE FiledInv'
    <2>1. /\ pc[r] = "sent" /\ pc' = [pc EXCEPT ![r] = "record"] /\ orphans' \subseteq orphans \cup {r}
          /\ UNCHANGED <<payload, rows, lost, charged>>
        BY <1>8 DEF PollEnds, PollTimesOut, RecordNext, Goto
    <2>2. Filed(payload[r])
        BY <2>1 DEF Filed
    <2>3. QED
        BY <1>0, <1>2, <2>1, <2>2
<1>9. ASSUME NEW r \in Requests, Record(r) \/ RecordFails(r) PROVE FiledInv'
    <2>1. /\ pc[r] = "record" /\ pc' = [pc EXCEPT ![r] = "done"]
          /\ payload[r] \in Payloads /\ outcome[r] # None
          /\ UNCHANGED <<payload, charged, orphans>>
        BY <1>0, <1>9, SettlementAssumption DEF Record, RecordFails, Goto, Begun, Statuses, SettlementAssumption
    <2>2. \/ lost' = lost /\ rows' = [rows EXCEPT ![payload[r]] = IF @ = None THEN outcome[r] ELSE @]
          \/ lost' = lost \cup {payload[r]} /\ rows' = rows
        BY <1>9 DEF Record, RecordFails, Stored
    <2>3. QED
        BY <1>0, <1>2, <2>1, <2>2
<1>10. ASSUME NEW r \in Requests, Land(r) \/ LandLate(r) PROVE FiledInv'
    <2>1. /\ UNCHANGED <<pc, payload, rows, lost>> /\ charged' \subseteq charged \cup {payload[r]}
          /\ orphans' \subseteq orphans
        BY <1>10 DEF Land, LandLate, Include
    <2>2. Filed(payload[r])
        BY <1>10 DEF Land, LandLate, FiledInv, Filed
    <2>3. QED
        BY <1>0, <1>2, <2>1, <2>2
<1>11. ASSUME Crash PROVE FiledInv'
    <2>1. /\ UNCHANGED <<payload, rows, charged>> /\ lost \subseteq lost'
          /\ \A r \in Requests : pc[r] \in {"sent", "record"} => payload[r] \in lost'
          /\ \A r \in orphans' : r \in orphans \/ (r \in Requests /\ pc[r] = "sent")
        BY <1>11 DEF Crash, Working
    <2>2. QED
        BY <1>2, <2>1 DEF Filed
<1>12. CASE UNCHANGED <<pc, payload, rows, lost, charged>> /\ orphans' \subseteq orphans
    BY <1>2, <1>12
<1>13. QED
    BY <1>3, <1>5, <1>6, <1>7, <1>8, <1>9, <1>10, <1>11, <1>12 DEF Next, Step, Expire, SetBlocked, vars

\* No charge without a record: only a failed INSERT or the death of the process
\* can lose the row of a charged payload.
THEOREM ChargesOnRecord == Spec => []ChargeIsOnRecord
<1>1. Init => FiledInv
    BY DEF Init, FiledInv
<1>2. FiledInv => ChargeIsOnRecord
    BY DEF FiledInv, Filed, ChargeIsOnRecord
<1>3. QED
    BY <1>1, <1>2, TypeInvariant, FiledStep, PTL DEF Spec

-----------------------------------------------------------------------------
(* Honest records.  Every row is some request's outcome, every charge some     *)
(* request's answer, and no request tells another story than its answer.       *)

Told(r) ==
    /\ pc[r] \notin {"record", "done"} => outcome[r] = None
    /\ pc[r] \notin {"sent", "record", "done"} => answer[r] = "none"
    /\ r \in orphans => pc[r] \in {"record", "done"} /\ answer[r] = "none" /\ abandoned
    /\ answer[r] = "charged" \/ outcome[r] = "settled" => payload[r] \in charged
    /\ outcome[r] \in {"failed", "held"} /\ answer[r] = "charged" => abandoned

ChargesHaveAnswers ==
    \A d \in charged : \E q \in Requests : payload[q] = d /\ answer[q] = "charged"

RowsAreOutcomes ==
    \A d \in Payloads : rows[d] # None =>
        \E r \in Requests : payload[r] = d /\ outcome[r] = rows[d]

HonestInv == (\A r \in Requests : Told(r)) /\ ChargesHaveAnswers /\ RowsAreOutcomes

LEMMA InitHonest == Init => HonestInv
<1>1. None # "settled"
    BY SettlementAssumption DEF SettlementAssumption
<1>2. QED
    BY <1>1 DEF Init, HonestInv, Told, ChargesHaveAnswers, RowsAreOutcomes

\* Whoever was answered keeps its payload, and so does whoever has an outcome.
LEMMA Answered ==
    ASSUME TypeInv, HonestInv, NEW r \in Requests, answer[r] # "none" \/ outcome[r] # None
    PROVE  pc[r] # "new"
BY DEF HonestInv, Told

\* A step that leaves one request's story consistent and the others' alone.
LEMMA HonestMove ==
    ASSUME TypeInv, HonestInv, NEW r \in Requests,
           \A z \in Requests \ {r} :
               /\ pc'[z] = pc[z] /\ payload'[z] = payload[z]
               /\ answer'[z] = answer[z] /\ outcome'[z] = outcome[z],
           Told(r)',
           charged \subseteq charged',
           orphans' \subseteq orphans \cup {r},
           abandoned => abandoned'
    PROVE  \A z \in Requests : Told(z)'
BY DEF HonestInv, Told

\* Charges and rows are as they were, and whoever accounts for them does so still.
LEMMA HonestKept ==
    ASSUME TypeInv, HonestInv, UNCHANGED <<charged, rows>>,
           \A z \in Requests :
               /\ pc[z] # "new" => payload'[z] = payload[z]
               /\ answer'[z] = answer[z]
               /\ outcome[z] # None => outcome'[z] = outcome[z]
    PROVE  ChargesHaveAnswers' /\ RowsAreOutcomes'
<1>1. ChargesHaveAnswers'
    <2> SUFFICES ASSUME NEW d \in charged PROVE \E q \in Requests : payload'[q] = d /\ answer'[q] = "charged"
        BY DEF ChargesHaveAnswers
    <2>1. PICK q \in Requests : payload[q] = d /\ answer[q] = "charged"
        BY DEF HonestInv, ChargesHaveAnswers
    <2>2. pc[q] # "new"
        BY <2>1, Answered
    <2>3. QED
        BY <2>1, <2>2
<1>2. RowsAreOutcomes'
    <2> SUFFICES ASSUME NEW d \in Payloads, rows[d] # None
                 PROVE  \E z \in Requests : payload'[z] = d /\ outcome'[z] = rows[d]
        BY DEF RowsAreOutcomes
    <2>1. PICK z \in Requests : payload[z] = d /\ outcome[z] = rows[d]
        BY DEF HonestInv, RowsAreOutcomes
    <2>2. pc[z] # "new"
        BY <2>1, Answered
    <2>3. QED
        BY <2>1, <2>2
<1>3. QED
    BY <1>1, <1>2

\* The network's verdict on a transaction nobody had an answer to.
LEMMA HonestInclude ==
    ASSUME TypeInv, HonestInv, NEW r \in Requests, Include(r), answer[r] = "none",
           pc[r] \in {"sent", "record", "done"},
           outcome[r] # None => abandoned,
           UNCHANGED <<pc, payload, outcome, rows, abandoned>>,
           orphans' = orphans \ {r}
    PROVE  HonestInv'
<1>1. \/ /\ charged' = charged \cup {payload[r]} /\ answer' = [answer EXCEPT ![r] = "charged"]
      \/ /\ charged' = charged /\ answer' = [answer EXCEPT ![r] = "failed"]
    BY DEF Include
<1>2. answer \in [Requests -> {"none", "charged", "failed"}] /\ Told(r)
    BY DEF TypeInv, TypeOK, HonestInv
<1>3. Told(r)'
    <2>1. answer'[r] = "charged" => payload[r] \in charged'
        BY <1>1, <1>2
    <2>2. outcome[r] = "settled" => payload[r] \in charged'
        BY <1>1, <1>2 DEF Told
    <2>3. outcome[r] \in {"failed", "held"} => abandoned
        BY SettlementAssumption DEF SettlementAssumption
    <2>4. QED
        BY <1>2, <2>1, <2>2, <2>3 DEF Told
<1>4. \A z \in Requests : Told(z)'
    BY <1>1, <1>2, <1>3, HonestMove
<1>5. ChargesHaveAnswers'
    <2> SUFFICES ASSUME NEW d \in charged' PROVE \E q \in Requests : payload[q] = d /\ answer'[q] = "charged"
        BY DEF ChargesHaveAnswers
    <2>1. CASE d \in charged
        <3>1. PICK q \in Requests : payload[q] = d /\ answer[q] = "charged"
            BY <2>1 DEF HonestInv, ChargesHaveAnswers
        <3>2. QED
            BY <1>1, <1>2, <3>1
    <2>2. CASE d \notin charged
        BY <1>1, <1>2, <2>2
    <2>3. QED
        BY <2>1, <2>2
<1>6. RowsAreOutcomes'
    BY DEF HonestInv, RowsAreOutcomes
<1>7. QED
    BY <1>4, <1>5, <1>6 DEF HonestInv

LEMMA HonestStep == TypeInv /\ HonestInv /\ [Next]_vars => HonestInv'
<1> SUFFICES ASSUME TypeInv, HonestInv, [Next]_vars PROVE HonestInv'
    OBVIOUS
<1>0. /\ pc \in [Requests -> Places] /\ payload \in [Requests -> Payloads \cup {None}]
      /\ answer \in [Requests -> {"none", "charged", "failed"}]
      /\ outcome \in [Requests -> Statuses \cup {None}]
      /\ rows \in [Payloads -> Statuses \cup {None}]
      /\ \A r \in Requests : Told(r)
      /\ None \notin {"settled", "failed", "held"}
    BY SettlementAssumption DEF TypeInv, TypeOK, Places, HonestInv, SettlementAssumption
<1> USE DEF request, ledger, screens, history, bounds
\* One request goes on, with an outcome if it had none.
<1>1. ASSUME NEW r \in Requests,
             \A z \in Requests \ {r} :
                 pc'[z] = pc[z] /\ payload'[z] = payload[z] /\ outcome'[z] = outcome[z],
             UNCHANGED <<answer, charged, rows>>,
             pc[r] # "new" => payload'[r] = payload[r],
             outcome[r] # None => outcome'[r] = outcome[r],
             Told(r)', orphans' \subseteq orphans \cup {r}, abandoned => abandoned'
      PROVE  HonestInv'
    <2>1. \A z \in Requests : Told(z)'
        BY <1>1, HonestMove
    <2>2. ChargesHaveAnswers' /\ RowsAreOutcomes'
        BY <1>1, HonestKept
    <2>3. QED
        BY <2>1, <2>2 DEF HonestInv
<1>2. ASSUME NEW r \in Requests, NEW d \in Payloads, NEW settle \in BOOLEAN, Receive(r, d, settle)
      PROVE  HonestInv'
    BY <1>0, <1>1, <1>2 DEF Receive, Goto, Told
<1>3. ASSUME NEW r \in Requests, ScreenLocal(r) PROVE HonestInv'
    BY <1>0, <1>1, <1>3 DEF ScreenLocal, RecordNext, Goto, Told
<1>4. ASSUME NEW r \in Requests, AskContract(r) PROVE HonestInv'
    BY <1>0, <1>1, <1>4 DEF AskContract, Verified, RecordNext, Goto, Told
<1>5. ASSUME NEW r \in Requests, FailOpen(r) PROVE HonestInv'
    BY <1>0, <1>1, <1>5 DEF FailOpen, Verified, Goto, Told
<1>6. ASSUME NEW r \in Requests, Prepare(r) \/ Send(r) PROVE HonestInv'
    BY <1>0, <1>1, <1>6 DEF Prepare, Send, Goto, Told
<1>7. ASSUME NEW r \in Requests, PollEnds(r) PROVE HonestInv'
    BY <1>0, <1>1, <1>7 DEF PollEnds, RecordNext, Goto, Told
<1>8. ASSUME NEW r \in Requests, PollTimesOut(r) PROVE HonestInv'
    BY <1>0, <1>1, <1>8 DEF PollTimesOut, RecordNext, Goto, Unknown, Told
<1>9. ASSUME NEW r \in Requests, Break(r) PROVE HonestInv'
    BY <1>0, <1>1, <1>9 DEF Break, RecordNext, Goto, Unknown, Told
<1>10. ASSUME NEW r \in Requests, RecordFails(r) PROVE HonestInv'
    BY <1>0, <1>1, <1>10 DEF RecordFails, Goto, Told
<1>11. ASSUME NEW r \in Requests, Record(r) PROVE HonestInv'
    <2>1. /\ pc[r] = "record" /\ pc' = [pc EXCEPT ![r] = "done"]
          /\ UNCHANGED <<payload, answer, outcome, charged, orphans, abandoned>>
          /\ rows' = [rows EXCEPT ![payload[r]] = IF @ = None THEN outcome[r] ELSE @]
        BY <1>11 DEF Record, Goto, Stored
    <2>2. \A z \in Requests : Told(z)'
        BY <1>0, <2>1 DEF Told
    <2>3. ChargesHaveAnswers'
        BY <2>1 DEF HonestInv, ChargesHaveAnswers
    <2>4. RowsAreOutcomes'
        <3> SUFFICES ASSUME NEW d \in Payloads, rows'[d] # None
                     PROVE  \E z \in Requests : payload[z] = d /\ outcome[z] = rows'[d]
            BY <2>1 DEF RowsAreOutcomes
        <3>1. rows'[d] = rows[d] \/ (d = payload[r] /\ rows'[d] = outcome[r])
            BY <1>0, <2>1
        <3>2. QED
            BY <3>1 DEF HonestInv, RowsAreOutcomes
    <2>5. QED
        BY <2>2, <2>3, <2>4 DEF HonestInv
<1>12. ASSUME NEW r \in Requests, Land(r) PROVE HonestInv'
    <2>1. outcome[r] = None
        BY <1>0, <1>12 DEF Land, Told
    <2>2. r \notin orphans
        BY <1>0, <1>12 DEF Land, Told
    <2>3. QED
        <3>1. /\ pc[r] = "sent" /\ answer[r] = "none" /\ Include(r)
              /\ UNCHANGED <<pc, payload, outcome, rows, abandoned, orphans>>
            BY <1>12 DEF Land
        <3>2. orphans' = orphans \ {r}
            BY <2>2, <3>1
        <3>3. QED
            BY <2>1, <3>1, <3>2, HonestInclude
<1>13. ASSUME NEW r \in Requests, LandLate(r) PROVE HonestInv'
    <2>1. answer[r] = "none" /\ abandoned
        BY <1>0, <1>13 DEF LandLate, Told
    <2>2. QED
        <3>1. /\ Include(r) /\ orphans' = orphans \ {r} /\ r \in orphans
              /\ UNCHANGED <<pc, payload, outcome, rows, abandoned>>
            BY <1>13 DEF LandLate
        <3>2. pc[r] \in {"record", "done"}
            BY <1>0, <3>1 DEF Told
        <3>3. QED
            BY <2>1, <3>1, <3>2, HonestInclude
<1>14. ASSUME Crash PROVE HonestInv'
    <2>1. UNCHANGED <<payload, answer, outcome, charged, rows>> /\ (abandoned => abandoned')
        BY <1>14 DEF Crash
    <2>2. ASSUME NEW z \in Requests PROVE Told(z)'
        <3>1. pc'[z] = IF pc[z] = "new" THEN "new" ELSE "done"
            BY <1>14 DEF Crash, Working
        <3>2. z \in orphans' => z \in orphans \/ (pc[z] = "sent" /\ answer[z] = "none" /\ abandoned')
            BY <1>14 DEF Crash, Working
        <3>3. Told(z)
            BY <1>0
        <3>4. CASE pc[z] = "new"
            BY <2>1, <3>1, <3>2, <3>3, <3>4 DEF Told
        <3>5. CASE pc[z] # "new"
            BY <2>1, <3>1, <3>2, <3>3, <3>5 DEF Told
        <3>6. QED
            BY <3>4, <3>5
    <2>3. QED
        BY <2>1, <2>2, HonestKept DEF HonestInv
<1>15. CASE UNCHANGED <<request, rows, charged, abandoned>> /\ orphans' \subseteq orphans
    BY <1>15 DEF HonestInv, Told, ChargesHaveAnswers, RowsAreOutcomes
<1>16. QED
    BY <1>2, <1>3, <1>4, <1>5, <1>6, <1>7, <1>8, <1>9, <1>10, <1>11, <1>12, <1>13, <1>14, <1>15
       DEF Next, Step, Expire, SetBlocked, vars

\* What kind of request an outcome belongs to: only a submission fails, and whoever
\* is held was never submitted.
Unsubmitted == {"new", "local", "contract", "queued"}

KindInv ==
    \A r \in Requests :
        /\ pc[r] \in Unsubmitted => number[r] = 0
        /\ outcome[r] # None => pc[r] \in {"record", "done"}
        /\ outcome[r] = "failed" => settling[r]
        /\ outcome[r] = "held" => number[r] = 0

LEMMA InitKind == Init => KindInv
<1>1. None \notin {"failed", "held"}
    BY SettlementAssumption DEF SettlementAssumption
<1>2. QED
    BY <1>1 DEF Init, KindInv, Unsubmitted

LEMMA KindStep == TypeInv /\ ScreenInv /\ KindInv /\ [Next]_vars => KindInv'
<1> SUFFICES ASSUME TypeInv, ScreenInv, KindInv, [Next]_vars PROVE KindInv'
    OBVIOUS
<1>0. /\ pc \in [Requests -> Places] /\ settling \in [Requests -> BOOLEAN]
      /\ number \in [Requests -> Nat] /\ outcome \in [Requests -> Statuses \cup {None}]
    BY DEF TypeInv, TypeOK, Places
<1>1. None \notin {"settled", "failed", "held"}
    BY SettlementAssumption DEF SettlementAssumption
<1> USE DEF request, ledger, screens, history, bounds
<1>2. ASSUME NEW r \in Requests, NEW d \in Payloads, NEW settle \in BOOLEAN, Receive(r, d, settle)
      PROVE  KindInv'
    BY <1>0, <1>1, <1>2 DEF Receive, Goto, KindInv, Unsubmitted
<1>3. ASSUME NEW r \in Requests, ScreenLocal(r) PROVE KindInv'
    BY <1>0, <1>1, <1>3 DEF ScreenLocal, Blocked, RecordNext, Goto, KindInv, Unsubmitted
<1>4. ASSUME NEW r \in Requests, AskContract(r) PROVE KindInv'
    BY <1>0, <1>1, <1>4 DEF AskContract, Verified, RecordNext, Goto, KindInv, Unsubmitted
<1>5. ASSUME NEW r \in Requests, FailOpen(r) PROVE KindInv'
    BY <1>0, <1>1, <1>5 DEF FailOpen, Verified, Goto, KindInv, Unsubmitted
<1>6. ASSUME NEW r \in Requests, Prepare(r) \/ Send(r) PROVE KindInv'
    BY <1>0, <1>1, <1>6 DEF Prepare, Send, Goto, KindInv, Unsubmitted
<1>7. ASSUME NEW r \in Requests, PollEnds(r) \/ PollTimesOut(r) \/ Break(r) PROVE KindInv'
    <2>1. settling[r] /\ pc[r] \in {"prepared", "sent"}
        BY <1>7 DEF PollEnds, PollTimesOut, Break, ScreenInv, InLine, Screened
    <2>2. /\ UNCHANGED <<settling, number>> /\ pc' = [pc EXCEPT ![r] = "record"]
          /\ \/ outcome' = [outcome EXCEPT ![r] = "settled"]
             \/ outcome' = [outcome EXCEPT ![r] = "failed"]
        BY <1>7 DEF PollEnds, PollTimesOut, Break, Unknown, RecordNext, Goto
    <2>3. QED
        BY <1>0, <1>1, <2>1, <2>2 DEF KindInv, Unsubmitted
<1>8. ASSUME NEW r \in Requests, Record(r) \/ RecordFails(r) PROVE KindInv'
    BY <1>0, <1>1, <1>8 DEF Record, RecordFails, Goto, KindInv, Unsubmitted
<1>9. ASSUME Crash PROVE KindInv'
    BY <1>0, <1>1, <1>9 DEF Crash, Working, KindInv, Unsubmitted
<1>10. CASE UNCHANGED <<pc, settling, number, outcome>>
    BY <1>10 DEF KindInv
<1>11. QED
    BY <1>2, <1>3, <1>4, <1>5, <1>6, <1>7, <1>8, <1>9, <1>10
       DEF Next, Step, Land, LandLate, Expire, SetBlocked, vars

\* A row never says that a payload was charged when it was not.  It says 'failed'
\* of a charged one only if something was given up or it was to be settled twice,
\* and 'held' only if it was refused once before it was submitted.
THEOREM RecordsAreHonest == Spec => []RecordIsHonest
<1>1. HonestInv /\ ScreenInv /\ KindInv => RecordIsHonest
    <2> DEFINE Of(d) == {r \in Requests : payload[r] = d}
               Denies(d) == /\ rows[d] = "failed" /\ d \in charged =>
                                abandoned \/ \E r, q \in Of(d) : r # q /\ settling[r] /\ settling[q]
                            /\ rows[d] = "held" /\ d \in charged =>
                                \E r \in Of(d) : outcome[r] = "held" /\ number[r] = 0
    <2> SUFFICES ASSUME HonestInv, ScreenInv, KindInv, NEW d \in Payloads, rows[d] # None
                 PROVE  (rows[d] = "settled" => d \in charged) /\ Denies(d)
        BY SettlementAssumption DEF RecordIsHonest, SettlementAssumption
    <2>1. PICK r \in Requests : payload[r] = d /\ outcome[r] = rows[d]
        BY DEF HonestInv, RowsAreOutcomes
    <2>2. Told(r)
        BY DEF HonestInv
    <2>3. ASSUME rows[d] = "failed", d \in charged, ~abandoned
          PROVE  \E z, q \in Of(d) : z # q /\ settling[z] /\ settling[q]
        <3>1. PICK q \in Requests : payload[q] = d /\ answer[q] = "charged"
            BY <2>3 DEF HonestInv, ChargesHaveAnswers
        <3>2. answer[r] # "charged"
            BY <2>1, <2>2, <2>3 DEF Told
        <3>3. settling[r] /\ settling[q]
            BY <2>1, <2>3, <3>1 DEF KindInv, ScreenInv, Screened
        <3>4. QED
            BY <2>1, <3>1, <3>2, <3>3
    <2>4. rows[d] = "held" => \E z \in Of(d) : outcome[z] = "held" /\ number[z] = 0
        BY <2>1 DEF KindInv
    <2>5. rows[d] = "settled" => d \in charged
        BY <2>1, <2>2 DEF Told
    <2>6. QED
        BY <2>3, <2>4, <2>5
<1>2. QED
    BY <1>1, TypeInvariant, InitScreen, ScreenStep, InitKind, KindStep, InitHonest, HonestStep, PTL DEF Spec

-----------------------------------------------------------------------------
(* Settlement implements Clearing                                              *)

\* What is vouched for when one request gets on.
LEMMA OneVouches ==
    ASSUME NEW r \in Requests,
           \A z \in Requests \ {r} : (Passed(z)' <=> Passed(z)) /\ payload'[z] = payload[z],
           Passed(r) => Passed(r)' /\ payload'[r] = payload[r]
    PROVE  Vouched' = Vouched \/ Vouched' = Vouched \cup {payload'[r]}
BY DEF Vouched

\* Where a request is makes no difference, once it was received.
LEMMA NobodyVouches ==
    ASSUME UNCHANGED <<payload, settling, cleared, waived>>,
           \A z \in Requests : pc'[z] = "new" <=> pc[z] = "new"
    PROVE  Vouched' = Vouched
BY DEF Vouched, Passed

LEMMA ScreenedIsVouched ==
    ASSUME TypeInv, ScreenInv, NEW r \in Requests, pc[r] \in InLine \/ r \in orphans
    PROVE  payload[r] \in Vouched /\ payload[r] \in Payloads
BY DEF TypeInv, Begun, ScreenInv, Screened, InLine, Vouched, Passed

LEMMA IncludeCharges ==
    ASSUME TypeInv, ScreenInv, NEW r \in Requests, pc[r] \in InLine \/ r \in orphans,
           Include(r), UNCHANGED <<Vouched, rows>>
    PROVE  [C!ClearingNext]_<<Vouched, charged, rows>>
<1>1. payload[r] \in Vouched /\ payload[r] \in Payloads
    BY ScreenedIsVouched
<1>2. charged' = charged \/ (payload[r] \notin charged /\ charged' = charged \cup {payload[r]})
    BY DEF Include
<1>3. QED
    BY <1>1, <1>2 DEF C!ClearingNext, C!Charge

LEMMA ClearingStep ==
    TypeInv /\ ScreenInv /\ HonestInv /\ [Next]_vars
        => [C!ClearingNext]_<<Vouched, charged, rows>>
<1> SUFFICES ASSUME TypeInv, ScreenInv, HonestInv, [Next]_vars
             PROVE  [C!ClearingNext]_<<Vouched, charged, rows>>
    OBVIOUS
<1>0. /\ Begun /\ pc \in [Requests -> Places] /\ payload \in [Requests -> Payloads \cup {None}]
      /\ settling \in [Requests -> BOOLEAN] /\ rows \in [Payloads -> Statuses \cup {None}]
    BY DEF TypeInv, TypeOK, Places
<1>v. ASSUME NEW d \in Payloads, Vouched' = Vouched \/ Vouched' = Vouched \cup {d},
             UNCHANGED <<charged, rows>>
      PROVE  [C!ClearingNext]_<<Vouched, charged, rows>>
    BY <1>v DEF C!ClearingNext, C!Vouch
<1> USE DEF request, ledger, screens, history, bounds
<1>1. ASSUME NEW r \in Requests, NEW d \in Payloads, NEW settle \in BOOLEAN, Receive(r, d, settle)
      PROVE  [C!ClearingNext]_<<Vouched, charged, rows>>
    <2>1. /\ payload'[r] = d /\ ~Passed(r) /\ UNCHANGED <<charged, rows>>
          /\ \A z \in Requests \ {r} : (Passed(z)' <=> Passed(z)) /\ payload'[z] = payload[z]
        BY <1>0, <1>1 DEF Receive, Goto, Passed
    <2>2. QED
        BY <1>v, <2>1, OneVouches
<1>2. ASSUME NEW r \in Requests, ScreenLocal(r) \/ FailOpen(r)
      PROVE  [C!ClearingNext]_<<Vouched, charged, rows>>
    <2>1. /\ UNCHANGED <<payload, settling, charged, rows>> /\ pc[r] # "new"
          /\ \E place \in Places \ {"new"} : pc' = [pc EXCEPT ![r] = place]
          /\ cleared' \in {cleared, cleared \cup {r}} /\ waived' \in {waived, waived \cup {r}}
        BY <1>2 DEF ScreenLocal, FailOpen, Verified, RecordNext, Goto, Places
    <2>2. payload[r] \in Payloads
        BY <1>0, <2>1 DEF Begun
    <2>3. /\ \A z \in Requests \ {r} : (Passed(z)' <=> Passed(z)) /\ payload'[z] = payload[z]
          /\ Passed(r) => Passed(r)'
        BY <1>0, <2>1 DEF Passed
    <2>4. QED
        BY <1>v, <2>1, <2>2, <2>3, OneVouches
<1>3. ASSUME NEW r \in Requests,
             \/ AskContract(r) \/ Prepare(r) \/ Send(r) \/ PollEnds(r) \/ PollTimesOut(r)
             \/ Break(r) \/ RecordFails(r)
      PROVE  [C!ClearingNext]_<<Vouched, charged, rows>>
    <2>1. /\ UNCHANGED <<payload, settling, cleared, waived, charged, rows>> /\ pc[r] # "new"
          /\ \E place \in Places \ {"new"} : pc' = [pc EXCEPT ![r] = place]
        BY <1>3 DEF AskContract, Verified, Prepare, Send, PollEnds, PollTimesOut, Break, RecordFails,
                    RecordNext, Goto, Places
    <2>2. \A z \in Requests : pc'[z] = "new" <=> pc[z] = "new"
        BY <1>0, <2>1
    <2>3. QED
        BY <2>1, <2>2, NobodyVouches
<1>4. ASSUME NEW r \in Requests, Land(r) \/ LandLate(r)
      PROVE  [C!ClearingNext]_<<Vouched, charged, rows>>
    <2>1. /\ UNCHANGED <<pc, payload, settling, cleared, waived, rows>> /\ Include(r)
          /\ pc[r] \in InLine \/ r \in orphans
        BY <1>4 DEF Land, LandLate, InLine
    <2>2. Vouched' = Vouched
        BY <2>1, NobodyVouches
    <2>3. QED
        BY <2>1, <2>2, IncludeCharges
<1>5. ASSUME NEW r \in Requests, Record(r)
      PROVE  [C!ClearingNext]_<<Vouched, charged, rows>>
    <2> DEFINE d == payload[r]
    <2>1. /\ pc[r] = "record" /\ UNCHANGED <<payload, settling, cleared, waived, charged>>
          /\ pc' = [pc EXCEPT ![r] = "done"]
          /\ rows' = [rows EXCEPT ![d] = IF rows[d] = None THEN outcome[r] ELSE rows[d]]
        BY <1>5 DEF Record, Goto, Stored
    <2>2. \A z \in Requests : pc'[z] = "new" <=> pc[z] = "new"
        BY <1>0, <2>1
    <2>3. Vouched' = Vouched
        BY <2>1, <2>2, NobodyVouches
    <2>4. d \in Payloads /\ outcome[r] \in Statuses
        BY <1>0, <2>1 DEF Begun
    <2>5. outcome[r] = "settled" => d \in charged
        BY DEF HonestInv, Told
    <2> HIDE DEF d
    <2>6. CASE rows[d] = None
        <3>1. rows' = [rows EXCEPT ![d] = outcome[r]]
            BY <2>1, <2>6
        <3>2. C!File(d)
            BY <2>1, <2>3, <2>4, <2>5, <2>6, <3>1 DEF C!File, Statuses
        <3>3. QED
            BY <2>4, <3>2 DEF C!ClearingNext
    <2>7. CASE rows[d] # None
        <3>1. rows' = rows
            BY <1>0, <2>1, <2>4, <2>7
        <3>2. QED
            BY <2>1, <2>3, <3>1
    <2>8. QED
        BY <2>6, <2>7
<1>6. ASSUME Crash PROVE [C!ClearingNext]_<<Vouched, charged, rows>>
    <2>1. UNCHANGED <<payload, settling, cleared, waived, charged, rows>>
        BY <1>6 DEF Crash
    <2>2. \A z \in Requests : pc'[z] = "new" <=> pc[z] = "new"
        BY <1>6 DEF Crash, Working
    <2>3. QED
        BY <2>1, <2>2, NobodyVouches
<1>7. CASE UNCHANGED <<pc, payload, settling, cleared, waived, charged, rows>>
    BY <1>7, NobodyVouches
<1>8. QED
    BY <1>1, <1>2, <1>3, <1>4, <1>5, <1>6, <1>7 DEF Next, Step, Expire, SetBlocked, vars

\* Payloads are vouched for, charged once and filed once, for any number of
\* requests, payloads, payers, failures and crashes (src/x402/x402.service.ts).
THEOREM PayloadsClear == Spec => ClearedOnce
<1>1. Init => C!ClearingInit
    BY DEF Init, C!ClearingInit, Vouched, Passed
<1>2. QED
    BY <1>1, TypeInvariant, InitScreen, ScreenStep, InitHonest, HonestStep, ClearingStep, PTL
       DEF Spec, ClearedOnce, C!ClearingSpec
=============================================================================
