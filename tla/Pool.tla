--------------------------------- MODULE Pool ---------------------------------
(***************************************************************************)
(* The database pool of one api process (src/db/pool.ts) and who draws on  *)
(* it: requests, one client for one query at a time, and the two cron      *)
(* sweeps (src/x402/channel-keeper.service.ts,                             *)
(* src/facilitator/facilitator-sweep.service.ts), each of which holds a    *)
(* client for its advisory lock while its own queries wait for another.    *)
(*                                                                         *)
(* A ticket is a call to the pool.  What the queries do is in Channel and  *)
(* TreasurySweep; here each of them ends.  The pool lends in the order of  *)
(* the calls and, with connectionTimeoutMillis at its default of 0, a call *)
(* waits for ever.                                                         *)
(***************************************************************************)
EXTENDS Sequences, FiniteSets, Naturals

CONSTANTS
    Jobs,       \* the cron jobs that hold a client
    Sweeps,     \* their runs, which may overlap
    Job,        \* the job of each run
    Requests,   \* requests that query
    MaxClients  \* DB_POOL_MAX

ASSUME PoolAssumption ==
    /\ IsFiniteSet(Jobs) /\ IsFiniteSet(Sweeps) /\ IsFiniteSet(Requests)
    /\ Job \in [Sweeps -> Jobs]
    /\ Sweeps \cap Requests = {}
    /\ MaxClients \in Nat /\ Cardinality(Jobs) < MaxClients

VARIABLES
    lent,     \* tickets that hold a client
    queue,    \* tickets that wait for one
    sweepAt,  \* where each run is
    runs      \* runs that hold their job's advisory lock

pool == <<lent, queue, sweepAt, runs>>

\* A run's own client and its inner query, a request's query.
Tickets == [of : Sweeps, use : {"run", "inner"}] \cup [of : Requests, use : {"query"}]
Own(s) == [of |-> s, use |-> "run"]
Inner(s) == [of |-> s, use |-> "inner"]
Query(r) == [of |-> r, use |-> "query"]
Waiting == {queue[i] : i \in DOMAIN queue}

PoolInit ==
    /\ lent = {} /\ queue = <<>>
    /\ sweepAt = [s \in Sweeps |-> "off"]
    /\ runs = {}

\* pool.connect: a client at once, or a place in the queue.
Connect(t) ==
    IF Cardinality(lent) < MaxClients
    THEN lent' = lent \cup {t} /\ UNCHANGED queue
    ELSE queue' = Append(queue, t) /\ UNCHANGED lent

\* client.release: the next ticket takes it over.
Release(t) ==
    IF queue = <<>>
    THEN lent' = lent \ {t} /\ UNCHANGED queue
    ELSE lent' = (lent \ {t}) \cup {Head(queue)} /\ queue' = Tail(queue)

-----------------------------------------------------------------------------
(* Requests: pool.query                                                       *)

Call(r) ==
    /\ Query(r) \notin lent \cup Waiting
    /\ Connect(Query(r))
    /\ UNCHANGED <<sweepAt, runs>>

\* The rows, or an error.
Answer(r) ==
    /\ Query(r) \in lent
    /\ Release(Query(r))
    /\ UNCHANGED <<sweepAt, runs>>

-----------------------------------------------------------------------------
(* sweep(), of the keeper and of the facilitator                              *)

Tick(s) ==
    /\ sweepAt[s] = "off"
    /\ sweepAt' = [sweepAt EXCEPT ![s] = "connecting"]
    /\ Connect(Own(s))
    /\ UNCHANGED runs

\* Broken variant of TryLock: runs overlap.
TryLockNever(s) ==
    /\ sweepAt[s] = "connecting" /\ Own(s) \in lent
    /\ runs' = runs \cup {s}
    /\ sweepAt' = [sweepAt EXCEPT ![s] = "running"]
    /\ UNCHANGED <<lent, queue>>

\* pg_try_advisory_lock.  The loser, be it to a run in another replica, gives
\* its client back.
TryLock(s) ==
    /\ sweepAt[s] = "connecting" /\ Own(s) \in lent
    /\ \/ /\ \A o \in runs : Job[o] # Job[s]
          /\ runs' = runs \cup {s}
          /\ sweepAt' = [sweepAt EXCEPT ![s] = "running"]
          /\ UNCHANGED <<lent, queue>>
       \/ /\ Release(Own(s))
          /\ sweepAt' = [sweepAt EXCEPT ![s] = "off"]
          /\ UNCHANGED runs

\* The next of the sweep's own queries goes through the pool.
SweepQuery(s) ==
    /\ sweepAt[s] = "running"
    /\ Connect(Inner(s))
    /\ sweepAt' = [sweepAt EXCEPT ![s] = "querying"]
    /\ UNCHANGED runs

SweepAnswer(s) ==
    /\ sweepAt[s] = "querying" /\ Inner(s) \in lent
    /\ Release(Inner(s))
    /\ sweepAt' = [sweepAt EXCEPT ![s] = "running"]
    /\ UNCHANGED runs

\* After the last query or the first error: unlock, then release.
SweepEnds(s) ==
    /\ sweepAt[s] = "running"
    /\ runs' = runs \ {s}
    /\ Release(Own(s))
    /\ sweepAt' = [sweepAt EXCEPT ![s] = "off"]

PoolNext ==
    \/ \E r \in Requests : Call(r) \/ Answer(r)
    \/ \E s \in Sweeps :
           Tick(s) \/ TryLock(s) \/ SweepQuery(s) \/ SweepAnswer(s) \/ SweepEnds(s)

PoolSpec == PoolInit /\ [][PoolNext]_pool

-----------------------------------------------------------------------------
PoolTypeOK ==
    /\ lent \subseteq Tickets
    /\ queue \in Seq(Tickets)
    /\ sweepAt \in [Sweeps -> {"off", "connecting", "running", "querying"}]
    /\ runs \subseteq Sweeps

\* Runs that hold a client and wait for one.
Stuck == {s \in runs : Inner(s) \in Waiting}

\* While anybody waits for a client, somebody who holds one does not wait and
\* will give it back, whatever ticks overlap and however long the queue is: the
\* sweeps, which hold a client and wait for another, never hold them all
\* (channel-keeper.service.ts:57-81, facilitator-sweep.service.ts:87-105).
SomebodyMoves ==
    queue # <<>> => \E t \in lent : t \notin {Own(s) : s \in Stuck}
=============================================================================
