------------------------------ MODULE MCStore ------------------------------
(***************************************************************************)
(* The store, in one model: calls over the rows of memory.rs, the sessions *)
(* of sqlite.rs and postgres.rs under their callers, and the rows that     *)
(* engine.rs keeps to report from (the lists of runs, the workers' rows,   *)
(* the totals).  `part' says which of them this behaviour is about; the    *)
(* others stay in their initial state.                                     *)
(***************************************************************************)
EXTENDS MemoryTx, Integers, TLC

VARIABLES
    part,
    guard, open, pending, file, task, sqlitePhase,
    slot, server, orphans, database, postgresPhase,
    listNow, listRun, pager,
    beatNow, beatRow, expiry, flying, process,
    sumNow, sumRun, bucket

\* Programs that read points and ranges, hide rows of their own and decide
\* writes.
get(k) == [do |-> "get", key |-> k]
scan(s, e, n) == [do |-> "scan", start |-> s, end |-> e, limit |-> n]
put(k) == [do |-> "put", key |-> k, value |-> "new"]
delete(k) == [do |-> "put", key |-> k, value |-> Missing]

update(ops) == [ops |-> ops, read |-> FALSE]
query(ops) == [ops |-> ops, read |-> TRUE]

Programs ==
    {update(<<scan(1, 4, 1), put(3)>>),
     update(<<get(2), scan(1, 3, 2), put(3)>>),
     update(<<scan(2, 2, 1), delete(1), scan(1, 4, 1), get(1)>>),
     update(<<put(2), delete(3), scan(1, 4, 2)>>),
     query(<<get(1), get(2), scan(2, 4, 1)>>),
     query(<<get(1), put(1)>>)}

Symmetry == Permutations(Call)

\* Three callers that write two rows each; Postgres has one session for them.
Callers == {"a", "b", "c"}

Sqlite == INSTANCE SqliteSession WITH
    Caller <- Callers, Rows <- 2, Nobody <- "nobody", db <- file, phase <- sqlitePhase

Postgres == INSTANCE PostgresSession WITH
    Caller <- Callers, Rows <- 2, Session <- {"s"}, Nobody <- "nobody",
    db <- database, phase <- postgresPhase

(* Reports: lists of two runs, two workers' rows, the totals of a run, its   *)
(* child and another one around the epoch.                                   *)

Lists == INSTANCE Listing WITH
    None <- Missing, Run <- {1, 2}, Limits <- {1}, Skew <- 1, MaxTime <- 2, now <- listNow, run <- listRun

Beats == INSTANCE Workers WITH
    None <- Missing, Worker <- {"w", "v"}, LeaseMs <- 1, KeptMs <- 1, InFlight <- 2, MaxTime <- 4,
    now <- beatNow, row <- beatRow

Sums == INSTANCE Totals WITH
    None <- Missing, Run <- {1, 2, 3}, Parent <- 1 :> Missing @@ 2 :> 1 @@ 3 :> Missing, Name <- {1, 2}, MaxNames <- 2,
    Width <- 2, MaxBuckets <- 2, Answers <- 1, Times <- {-2, -1, 0, 1}, now <- sumNow, run <- sumRun

ASSUME Sqlite!SqliteConstants /\ Postgres!PostgresConstants

ASSUME Lists!ListingConstants /\ Beats!WorkersConstants /\ Sums!TotalsConstants

-----------------------------------------------------------------------------

sqliteVars == <<guard, open, pending, file, task, sqlitePhase>>
postgresVars == <<slot, server, orphans, database, postgresPhase>>
listVars == <<listNow, listRun, pager>>
beatVars == <<beatNow, beatRow, expiry, flying, process>>
sumVars == <<sumNow, sumRun, bucket>>
reportVars == <<listVars, beatVars, sumVars>>
storeVars == <<part, vars, sqliteVars, postgresVars, reportVars>>

InitialRows == [k \in Key |-> [version |-> 0, value |-> Missing]]
OneProgram == [c \in Call |-> [program |-> query(<<get(1), put(1)>>), log |-> << >>, attempt |-> 0]]

StoreInit ==
    /\ part \in {"memory", "sqlite", "postgres", "lists", "beats", "sums"}
    /\ Init /\ (part # "memory" => rows = InitialRows /\ call = OneProgram)
    /\ Sqlite!Init
    /\ Postgres!Init
    /\ Lists!Init /\ Beats!Init /\ Sums!Init

MemoryStep ==
    part = "memory" /\ Next /\ UNCHANGED <<part, sqliteVars, postgresVars, reportVars>>
SqliteStep ==
    part = "sqlite" /\ Sqlite!Next /\ UNCHANGED <<part, vars, postgresVars, reportVars>>
PostgresStep ==
    part = "postgres" /\ Postgres!Next /\ UNCHANGED <<part, vars, sqliteVars, reportVars>>

ReportStep ==
    /\ \/ part = "lists" /\ Lists!Next /\ UNCHANGED <<beatVars, sumVars>>
       \/ part = "beats" /\ Beats!Next /\ UNCHANGED <<listVars, sumVars>>
       \/ part = "sums" /\ Sums!Next /\ UNCHANGED <<listVars, beatVars>>
    /\ UNCHANGED <<part, vars, sqliteVars, postgresVars>>

StoreSpec ==
    StoreInit /\ [][MemoryStep \/ SqliteStep \/ PostgresStep \/ ReportStep]_storeVars

-----------------------------------------------------------------------------

\* Whoever gets the SQLite connection finds nothing of another caller on it,
\* and a transaction shows whole or not at all, whenever its caller left
\* (Session::drop and `blocking', sqlite.rs).
SqliteIsClean == Sqlite!SqliteIsClean

\* A pooled Postgres session carries nothing over, a call that is repeated was
\* not applied and will not be, and a transaction shows whole or not at all
\* (`definite', `statement' and `commit', postgres.rs).
PostgresIsClean == Postgres!PostgresIsClean

\* What is listed and counted is so: pages miss and repeat no run that stayed,
\* a worker's row and its expiry agree and go stale with a clean stop, and a
\* window's totals are those of the runs that ended in it (list, beat, totals).
ReportsAreTrue ==
    /\ part = "lists" => Lists!PagesAdvance /\ Lists!ListedOnce /\ Lists!ListingIsComplete
    /\ part = "beats" => Beats!ExpiryIsTheRows /\ Beats!CleanStopIsStale
    /\ part = "sums" => /\ Sums!RunsCountOnce /\ Sums!WindowIsWhole
                        /\ Sums!PresentIsExact /\ Sums!WindowIsExact
=============================================================================
