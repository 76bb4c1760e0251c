------------------------------ MODULE Migrations ------------------------------
(***************************************************************************)
(* db/migrate.ts: runs of `up` and of `down n`, several at once when two   *)
(* deploys overlap.  Each file is one transaction that changes the schema  *)
(* and the tracking table; a run that dies leaves the rest to the next.    *)
(*                                                                         *)
(* A file is its place in the sorted directory, and what it creates is one *)
(* object: its SQL does nothing where that is already there, or is already *)
(* gone (IF [NOT] EXISTS), as the transaction sees it.                     *)
(***************************************************************************)
EXTENDS Integers, Sequences, FiniteSets

CONSTANTS
    Files,     \* how many migrations there are
    HasDown,   \* those with a down file
    Runs,      \* runs that may be started
    MaxSteps   \* bound: the argument of down

ASSUME MigrationsAssumption ==
    Files \in Nat /\ MaxSteps \in Nat /\ HasDown \subseteq 1..Files

VARIABLES
    schema,   \* committed: what the files' SQL made
    applied,  \* schema_migrations: applied_at of each tracked file, else 0
    clock,    \* NOW(): the number of transactions begun
    run       \* the runs' process states

migrations == <<schema, applied, clock, run>>

File == 1..Files
Tracked == {f \in File : applied[f] > 0}
Idle == [at |-> "new", cmd |-> "up", todo |-> <<>>, began |-> 0, changes |-> FALSE]
Busy == {"list", "next", "sql", "track", "commit"}
This(r) == Head(run[r].todo)

MigrationsInit ==
    /\ schema = {} /\ applied = [f \in File |-> 0] /\ clock = 0
    /\ run = [r \in Runs |-> Idle]

\* Operators do not revert while another run applies.
Alone(cmd) ==
    \A o \in Runs : run[o].at \in Busy => run[o].cmd = cmd

Start(r) ==
    /\ run[r].at = "new"
    /\ \E cmd \in {"up", "down"} :
           /\ Alone(cmd)
           /\ run' = [run EXCEPT ![r] = [Idle EXCEPT !.at = "list", !.cmd = cmd]]
    /\ UNCHANGED <<schema, applied, clock>>

\* The first n of S by rank: what comes before one of them is one of them, and
\* listed before it.
First(n, S, rank) ==
    {q \in [1..n -> S] : \A i \in 1..n, f \in S :
        rank[f] < rank[q[i]] <=> \E j \in 1..(i - 1) : q[j] = f}

Name == [f \in File |-> f]
Age  == [f \in File |-> clock - applied[f]]

AtMost(n, S) == IF n < Cardinality(S) THEN n ELSE Cardinality(S)

\* up: every pending file by its name.
ListPending(r) ==
    /\ run[r].at = "list" /\ run[r].cmd = "up"
    /\ \E todo \in First(Cardinality(File \ Tracked), File \ Tracked, Name) :
           run' = [run EXCEPT ![r].at = "next", ![r].todo = todo]
    /\ UNCHANGED <<schema, applied, clock>>

\* Broken variant of ListLatest: without DESC.
ListOldest(r) ==
    /\ run[r].at = "list" /\ run[r].cmd = "down"
    /\ \E n \in 1..MaxSteps :
           \E todo \in First(AtMost(n, Tracked), Tracked, applied) :
               run' = [run EXCEPT ![r].at = "next", ![r].todo = todo]
    /\ UNCHANGED <<schema, applied, clock>>

\* down: the files that were applied last, the newest first.
ListLatest(r) ==
    /\ run[r].at = "list" /\ run[r].cmd = "down"
    /\ \E n \in 1..MaxSteps :
           \E todo \in First(AtMost(n, Tracked), Tracked, Age) :
               run' = [run EXCEPT ![r].at = "next", ![r].todo = todo]
    /\ UNCHANGED <<schema, applied, clock>>

\* Nothing (more) to do, or a down file that does not exist.
Finish(r) ==
    /\ run[r].at = "next"
    /\ run[r].todo # <<>> => run[r].cmd = "down" /\ This(r) \notin HasDown
    /\ run' = [run EXCEPT ![r] = [Idle EXCEPT !.at = "done"]]
    /\ UNCHANGED <<schema, applied, clock>>

Begin(r) ==
    /\ run[r].at = "next" /\ run[r].todo # <<>>
    /\ run[r].cmd = "down" => This(r) \in HasDown
    /\ clock' = clock + 1
    /\ run' = [run EXCEPT ![r].at = "sql", ![r].began = clock + 1]
    /\ UNCHANGED <<schema, applied>>

\* Broken variant of RunSql: outside the transaction.
RunSqlAtOnce(r) ==
    /\ run[r].at = "sql"
    /\ schema' = IF run[r].cmd = "up" THEN schema \cup {This(r)} ELSE schema \ {This(r)}
    /\ run' = [run EXCEPT ![r].at = "track"]
    /\ UNCHANGED <<applied, clock>>

\* The file's SQL, seen by nobody else before the commit.
RunSql(r) ==
    /\ run[r].at = "sql"
    /\ run' = [run EXCEPT ![r].at = "track",
                          ![r].changes = (run[r].cmd = "up") = (This(r) \notin schema)]
    /\ UNCHANGED <<schema, applied, clock>>

\* INSERT or DELETE of the tracking row, which waits for a transaction that has
\* written the same one.
Track(r) ==
    /\ run[r].at = "track"
    /\ \A o \in Runs \ {r} : run[o].at = "commit" => This(o) # This(r)
    /\ run[r].cmd = "up" => This(r) \notin Tracked
    /\ run' = [run EXCEPT ![r].at = "commit"]
    /\ UNCHANGED <<schema, applied, clock>>

\* Any statement fails (the row exists, among other reasons), or the process
\* dies: what the transaction did is undone, and the run is over.
Fail(r) ==
    /\ run[r].at \in Busy
    /\ run' = [run EXCEPT ![r] = [Idle EXCEPT !.at = "done"]]
    /\ UNCHANGED <<schema, applied, clock>>

Commit(r) ==
    /\ run[r].at = "commit"
    /\ LET f == This(r)  up == run[r].cmd = "up" IN
       /\ schema' = IF ~run[r].changes THEN schema
                    ELSE IF up THEN schema \cup {f} ELSE schema \ {f}
       /\ applied' = [applied EXCEPT ![f] = IF up THEN run[r].began ELSE 0]
    /\ run' = [run EXCEPT ![r].at = "next", ![r].todo = Tail(@)]
    /\ UNCHANGED clock

MigrationsNext ==
    \E r \in Runs :
        \/ Start(r) \/ ListPending(r) \/ ListLatest(r) \/ Finish(r)
        \/ Begin(r) \/ RunSql(r) \/ Track(r) \/ Commit(r) \/ Fail(r)

MigrationsSpec == MigrationsInit /\ [][MigrationsNext]_migrations

-----------------------------------------------------------------------------
MigrationsTypeOK ==
    /\ schema \subseteq File
    /\ applied \in [File -> Nat] /\ clock \in Nat
    /\ run \in [Runs -> [at : Busy \cup {"new", "done"}, cmd : {"up", "down"},
                         todo : Seq(File), began : Nat, changes : BOOLEAN]]
    /\ \A r \in Runs : run[r].at \in {"sql", "track", "commit"} => run[r].todo # <<>>

\* The tracking table says what the schema is, at every moment and whatever
\* fails, dies or races, as long as nobody reverts beside a run that applies:
\* a file whose SQL did nothing is never tracked as applied, and the loser of a
\* race leaves no trace (migrate.ts:30-46).
SchemaInStep == schema = Tracked

\* The applied files are always the first ones: the loser of a race stops at
\* its first conflict, a run that dies leaves a prefix, and down takes off from
\* the end although it orders by the time the transactions began (migrate.ts:
\* 48-87).
NoGaps == \A f \in Tracked : \A g \in 1..(f - 1) : g \in Tracked

\* Whoever connects finds one version after the other (see Versions), however
\* runs overlap, fail and list what others apply or revert meanwhile: no step
\* skips a version, changes the schema or the table alone, or reverts a file
\* that has no down file, at which down stops (migrate.ts:30-87).
Version == INSTANCE Versions WITH tracked <- Tracked
OneByOne == Version!VersionsSpec
=============================================================================
