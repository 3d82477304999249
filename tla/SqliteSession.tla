--------------------------- MODULE SqliteSession ---------------------------
(***************************************************************************)
(* The SQLite adapter (crates/durable/src/sqlite.rs): every transaction of *)
(* a backend uses its one connection, behind a lock that travels with the  *)
(* Session into the blocking pool and back.  A caller may stop waiting at  *)
(* any await; the statement it started goes on without it.  The database   *)
(* itself is external: a transaction's rows show when COMMIT succeeds.     *)
(***************************************************************************)
EXTENDS Naturals, FiniteSets

CONSTANTS
    Caller,     \* transactions of one backend, each writing Rows rows
    Rows,
    Nobody

SqliteConstants == Rows \in Nat /\ Nobody \notin Caller

VARIABLES
    guard,      \* who holds the connection's lock, or Nobody
    open,       \* a transaction is open on the connection
    pending,    \* uncommitted <<caller, row>> pairs of that transaction
    db,         \* committed <<caller, row>> pairs
    task,       \* the statement in the blocking pool, or "none"
    phase       \* per caller: where it is, or how it ended

vars == <<guard, open, pending, db, task, phase>>

Ended == {"ok", "failed", "dropped", "lost"}

Written(c) == {n \in 1..Rows : <<c, n>> \in pending}

\* Altered: a dropped session is not rolled back.
DropSessionAsItIs ==
    /\ guard' = Nobody
    /\ UNCHANGED <<open, pending>>

\* The lock is free again and the connection is as Session::drop leaves it.
DropSession ==
    /\ guard' = Nobody
    /\ open' = FALSE
    /\ pending' = {}

Start(c, job) ==
    /\ task' = job
    /\ phase' = [phase EXCEPT ![c] = "waiting"]

-----------------------------------------------------------------------------

\* SqliteBackend::transaction: the lock, then BEGIN in the pool.
Begin(c) ==
    /\ phase[c] = "idle"
    /\ guard = Nobody
    /\ guard' = c
    /\ Start(c, "begin")
    /\ UNCHANGED <<open, pending, db>>

\* put or delete of the next row.
Put(c) ==
    /\ phase[c] = "open"
    /\ Cardinality(Written(c)) < Rows
    /\ Start(c, "put")
    /\ UNCHANGED <<guard, open, pending, db>>

Commit(c) ==
    /\ phase[c] = "open"
    /\ Cardinality(Written(c)) = Rows
    /\ Start(c, "commit")
    /\ UNCHANGED <<guard, open, pending, db>>

\* An error of the operation, an injected fault or the caller's drop between
\* two statements: SqliteTransaction::drop hands the session to the pool.
Leave(c) ==
    /\ phase[c] = "open"
    /\ \E end \in {"failed", "dropped"} : phase' = [phase EXCEPT ![c] = end]
    /\ task' = "rollback"
    /\ UNCHANGED <<guard, open, pending, db>>

\* The caller's future is dropped while its statement is in the pool.
Abandon(c) ==
    /\ phase[c] = "waiting"
    /\ phase' = [phase EXCEPT ![c] = "dropped"]
    /\ UNCHANGED <<guard, open, pending, db, task>>

-----------------------------------------------------------------------------
(* The pool finishes a task.  The session goes back to a caller that still *)
(* waits and got an answer; otherwise it is dropped.                       *)

Answered(end) == phase' = [phase EXCEPT ![guard] = IF @ = "waiting" THEN end ELSE @]

\* BEGIN or a write is done and its caller goes on.
StatementDone ==
    /\ task \in {"begin", "put"}
    /\ task' = "none"
    /\ Answered("open")
    /\ IF phase[guard] = "waiting"
       THEN /\ open' = TRUE
            /\ pending' = IF task = "put"
                          THEN pending \cup {<<guard, Cardinality(Written(guard)) + 1>>}
                          ELSE pending
            /\ UNCHANGED guard
       ELSE DropSession
    /\ UNCHANGED db

\* COMMIT is done; the answer of a fault after it is an error.
CommitDone ==
    /\ task = "commit"
    /\ task' = "none"
    /\ db' = db \cup pending
    /\ \E end \in {"ok", "lost"} : Answered(end)
    /\ guard' = Nobody /\ open' = FALSE /\ pending' = {}

\* The statement fails: `blocking' drops the session with the error.
TaskFails ==
    /\ task \in {"begin", "put", "commit"}
    /\ task' = "none"
    /\ Answered("failed")
    /\ DropSession
    /\ UNCHANGED db

RollbackDone ==
    /\ task = "rollback"
    /\ task' = "none"
    /\ DropSession
    /\ UNCHANGED <<db, phase>>

-----------------------------------------------------------------------------

Init ==
    /\ guard = Nobody
    /\ open = FALSE
    /\ pending = {}
    /\ db = {}
    /\ task = "none"
    /\ phase = [c \in Caller |-> "idle"]

Pool == StatementDone \/ CommitDone \/ TaskFails \/ RollbackDone

Client(c) == Begin(c) \/ Put(c) \/ Commit(c) \/ Leave(c) \/ Abandon(c)

Next == Pool \/ \E c \in Caller : Client(c)

Spec == Init /\ [][Next]_vars

-----------------------------------------------------------------------------

TypeOK ==
    /\ guard \in Caller \cup {Nobody}
    /\ open \in BOOLEAN
    /\ pending \subseteq Caller \X (1..Rows) /\ db \subseteq Caller \X (1..Rows)
    /\ task \in {"none", "begin", "put", "commit", "rollback"}
    /\ phase \in [Caller -> {"idle", "waiting", "open"} \cup Ended]

\* Whoever gets the connection finds no transaction of another caller on it
\* (Session::drop rolls back before the lock is released).
CleanHandover == guard = Nobody => ~open /\ pending = {} /\ task = "none"

\* A transaction is committed whole or not at all, also when its caller left
\* in the middle of COMMIT; one that left earlier, or failed, has no row.
AllOrNothing ==
    \A c \in Caller :
        LET shown == {n \in 1..Rows : <<c, n>> \in db}
        IN /\ shown \in {{}, 1..Rows}
           /\ phase[c] = "ok" => shown = 1..Rows
           /\ phase[c] \in {"idle", "open", "failed"} => shown = {}

\* What the adapter owes its callers, whenever one of them leaves.
SqliteIsClean == CleanHandover /\ AllOrNothing

=============================================================================
