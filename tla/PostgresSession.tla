-------------------------- MODULE PostgresSession --------------------------
(***************************************************************************)
(* The Postgres adapter (crates/durable/src/postgres.rs): transactions on  *)
(* pooled sessions, every round trip under a deadline.  A session returns  *)
(* to the pool only when the server answered that its transaction is over; *)
(* any other end discards it, and the server rolls back what it finds on   *)
(* the closed connection, unless a COMMIT was already on its way.          *)
(*                                                                         *)
(* A statement past its deadline is no end: the transaction is rolled back *)
(* on the same session, behind the statement that still runs, and a        *)
(* rollback that is answered in time returns the session to the pool.      *)
(*                                                                         *)
(* The server is external: it does the requests of a session in order, and *)
(* its answers may be late or lost.                                        *)
(***************************************************************************)
EXTENDS Naturals, FiniteSets, Sequences

CONSTANTS
    Caller,     \* transactions, each of which writes Rows rows
    Rows,
    Session,    \* the slots of the pool
    Nobody

PostgresConstants == Rows \in Nat /\ Nobody \notin Caller

VARIABLES
    slot,       \* per session: who has it, or Nobody when it is in the pool
    server,     \* per session: the server's side of its connection
    orphans,    \* the server's side of discarded connections
    db,         \* committed <<caller, row>> pairs
    phase       \* per caller: where it is, or how it ended

vars == <<slot, server, orphans, db, phase>>

\* Nothing is open, asked or answered on a connection.
Fresh == [open |-> FALSE, pending |-> {}, asked |-> <<>>, reply |-> "none"]

Holds(c, s) == slot[s] = c

Wrote(c, s) == {n \in 1..Rows : <<c, n>> \in server[s].pending}

Ask(c, s, request) ==
    /\ server' = [server EXCEPT ![s].asked = <<request>>]
    /\ phase' = [phase EXCEPT ![c] = request]

\* `transact' asks for a rollback, behind a statement that is not answered.
\* An answer that came unnoticed is dropped.
RollBack(c, s, undo) ==
    /\ server' = [server EXCEPT ![s].asked = Append(@, "rollback"), ![s].reply = "none"]
    /\ phase' = [phase EXCEPT ![c] = undo]
    /\ UNCHANGED <<slot, orphans>>

\* The session goes back to the pool in the state the server left it.
Return(s, c, end) ==
    /\ slot' = [slot EXCEPT ![s] = Nobody]
    /\ server' = [server EXCEPT ![s].reply = "none"]
    /\ phase' = [phase EXCEPT ![c] = end]
    /\ UNCHANGED orphans

\* PostgresTransaction::drop: the connection closes, a new one takes its place.
Discard(s, c, end) ==
    /\ slot' = [slot EXCEPT ![s] = Nobody]
    /\ orphans' = orphans \cup {server[s]}
    /\ server' = [server EXCEPT ![s] = Fresh]
    /\ phase' = [phase EXCEPT ![c] = end]

-----------------------------------------------------------------------------
(* The caller's side.                                                      *)

\* PostgresBackend::begin on a session of the pool.
Begin(c, s) ==
    /\ phase[c] = "idle"
    /\ slot[s] = Nobody
    /\ slot' = [slot EXCEPT ![s] = c]
    /\ Ask(c, s, "begin")
    /\ UNCHANGED <<orphans, db>>

\* No session within the deadline.
BeginTimeout(c) ==
    /\ phase[c] = "idle"
    /\ \A s \in Session : slot[s] # Nobody
    /\ phase' = [phase EXCEPT ![c] = "failed"]
    /\ UNCHANGED <<slot, server, orphans, db>>

\* put or delete of the next row, and then COMMIT.
Statement(c, s) ==
    /\ Holds(c, s)
    /\ phase[c] = "open"
    /\ Ask(c, s, IF Cardinality(Wrote(c, s)) < Rows THEN "put" ELSE "commit")
    /\ UNCHANGED <<slot, orphans, db>>

\* BEGIN or a statement is answered.
Proceed(c, s) ==
    /\ Holds(c, s)
    /\ phase[c] \in {"begin", "put"}
    /\ server[s].reply = "ok"
    /\ server' = [server EXCEPT ![s].reply = "none"]
    /\ phase' = [phase EXCEPT ![c] = "open"]
    /\ UNCHANGED <<slot, orphans, db>>

\* The operation fails between two statements.
Fails(c, s) ==
    /\ Holds(c, s)
    /\ phase[c] = "open"
    /\ RollBack(c, s, "undo")
    /\ UNCHANGED db

\* A statement is refused: the operation fails with a conflict or another
\* error, and `transact' asks for a rollback.
Refused(c, s) ==
    /\ Holds(c, s)
    /\ phase[c] = "put"
    /\ server[s].reply \in {"conflict", "error"}
    /\ RollBack(c, s, IF server[s].reply = "conflict" THEN "undo conflict" ELSE "undo")
    /\ UNCHANGED db

Undone(c) == IF phase[c] = "undo conflict" THEN "conflict" ELSE "failed"

\* BEGIN is refused: the transaction is dropped before it is one.
BeginRefused(c, s) ==
    /\ Holds(c, s)
    /\ phase[c] = "begin"
    /\ server[s].reply = "error"
    /\ Discard(s, c, "failed")
    /\ UNCHANGED db

\* Altered: the session is kept when the rollback was sent.
RolledBackUnheard(c, s) ==
    /\ Holds(c, s)
    /\ phase[c] \in {"undo", "undo conflict"}
    /\ Return(s, c, Undone(c))
    /\ UNCHANGED db

\* PostgresTransaction::rollback is answered.
RolledBack(c, s) ==
    /\ Holds(c, s)
    /\ phase[c] \in {"undo", "undo conflict"}
    /\ server[s].reply = "ok"
    /\ Return(s, c, Undone(c))
    /\ UNCHANGED db

\* PostgresTransaction::commit is answered: over either way.
CommitAnswered(c, s) ==
    /\ Holds(c, s)
    /\ phase[c] = "commit"
    /\ \/ server[s].reply = "ok" /\ \E end \in {"ok", "lost"} : Return(s, c, end)
       \/ server[s].reply = "conflict" /\ Return(s, c, "conflict")
       \/ server[s].reply = "error" /\ Return(s, c, "failed")
    /\ UNCHANGED db

\* What a caller is told that gave its round trip up: a rollback keeps the
\* error it was for.
GivenUp(c) ==
    CASE phase[c] = "commit" -> "lost"
      [] phase[c] \in {"undo", "undo conflict"} -> Undone(c)
      [] OTHER -> "failed"

\* The deadline of a round trip passes: a statement's leads to a rollback, any
\* other drops the transaction.
Timeout(c, s) ==
    /\ Holds(c, s)
    /\ \/ phase[c] = "put" /\ RollBack(c, s, "undo")
       \/ phase[c] \notin {"open", "put"} /\ Discard(s, c, GivenUp(c))
    /\ UNCHANGED db

\* The connection breaks under a round trip: its error is no answer, and a
\* rollback on it fails at once.
Broken(c, s) ==
    /\ Holds(c, s)
    /\ phase[c] # "open"
    /\ Discard(s, c, GivenUp(c))
    /\ UNCHANGED db

\* The caller's future is dropped at an await.
Drop(c, s) ==
    /\ Holds(c, s)
    /\ Discard(s, c, "dropped")
    /\ UNCHANGED db

-----------------------------------------------------------------------------
(* The server's side (external).                                           *)

\* The first request is done; its answer is heard if it is the last one, since
\* a caller waits for the last and drops the ones before.
Done(conn, open, pending, reply) ==
    [open |-> open, pending |-> pending, asked |-> Tail(conn.asked),
     reply |-> IF Tail(conn.asked) = <<>> THEN reply ELSE "none"]

\* What the server makes of the first request: the connection and what shows.
Does(conn, c) ==
    CASE Head(conn.asked) = "begin" ->
           {[conn |-> Done(conn, TRUE, {}, "ok"), shown |-> {}],
            [conn |-> Done(conn, FALSE, {}, "error"), shown |-> {}]}
      [] Head(conn.asked) = "put" ->
           {[conn |-> Done(conn, conn.open,
                           conn.pending \cup {<<c, Cardinality(conn.pending) + 1>>}, "ok"),
             shown |-> {}]}
           \cup {[conn |-> Done(conn, conn.open, conn.pending, r), shown |-> {}] :
                    r \in {"conflict", "error"}}
      [] Head(conn.asked) = "commit" ->
           {[conn |-> Done(conn, FALSE, {}, "ok"), shown |-> conn.pending]}
           \cup {[conn |-> Done(conn, FALSE, {}, r), shown |-> {}] : r \in {"conflict", "error"}}
      [] Head(conn.asked) = "rollback" ->
           {[conn |-> Done(conn, FALSE, {}, "ok"), shown |-> {}]}

ServerAnswers(s) ==
    /\ server[s].asked # <<>>
    /\ \E d \in Does(server[s], slot[s]) :
          /\ server' = [server EXCEPT ![s] = d.conn]
          /\ db' = db \cup d.shown
    /\ UNCHANGED <<slot, orphans, phase>>

\* The server finds a connection closed: a COMMIT that reached it may still be
\* done, everything else is rolled back.
OrphanEnds(o) ==
    /\ orphans' = orphans \ {o}
    /\ \/ o.asked = <<"commit">> /\ db' = db \cup o.pending
       \/ UNCHANGED db
    /\ UNCHANGED <<slot, server, phase>>

-----------------------------------------------------------------------------

Init ==
    /\ slot = [s \in Session |-> Nobody]
    /\ server = [s \in Session |-> Fresh]
    /\ orphans = {}
    /\ db = {}
    /\ phase = [c \in Caller |-> "idle"]

Round(c, s) == \/ Statement(c, s) \/ Proceed(c, s) \/ Fails(c, s)
               \/ Refused(c, s) \/ BeginRefused(c, s) \/ RolledBack(c, s)
               \/ CommitAnswered(c, s) \/ Timeout(c, s) \/ Broken(c, s)

Next ==
    \/ \E c \in Caller, s \in Session : Begin(c, s) \/ Round(c, s) \/ Drop(c, s)
    \/ \E c \in Caller : BeginTimeout(c)
    \/ \E s \in Session : ServerAnswers(s)
    \/ \E o \in orphans : OrphanEnds(o)

Spec == Init /\ [][Next]_vars

-----------------------------------------------------------------------------

\* One request, or a rollback behind a statement.
Queue == {<<>>, <<"put", "rollback">>} \cup {<<q>> : q \in {"begin", "put", "commit", "rollback"}}

Connection ==
    [open : BOOLEAN, pending : SUBSET (Caller \X (1..Rows)), asked : Queue,
     reply : {"none", "ok", "conflict", "error"}]

TypeOK ==
    /\ slot \in [Session -> Caller \cup {Nobody}]
    /\ server \in [Session -> Connection]
    /\ orphans \subseteq Connection
    /\ db \subseteq Caller \X (1..Rows)
    /\ phase \in [Caller -> {"idle", "begin", "open", "put", "commit", "undo", "undo conflict",
                            "ok", "conflict", "failed", "lost", "dropped"}]

\* A session in the pool has no transaction, no request and no answer left on
\* it (`commit', `rollback' and Drop of PostgresTransaction).
CleanSessions == \A s \in Session : slot[s] = Nobody => server[s] = Fresh

\* A call that is told of a conflict, and so is repeated, was not applied and
\* will not be, whatever is still on its way (`definite', `statement').
RetriesAreSafe ==
    \A c \in Caller : phase[c] = "conflict" =>
        /\ ~\E n \in 1..Rows : <<c, n>> \in db
        /\ ~\E o \in orphans : o.asked = <<"commit">> /\ \E n \in 1..Rows : <<c, n>> \in o.pending

\* A transaction shows whole or not at all, and shows when its caller was told
\* so, also when COMMIT outlives its caller.
WholeTransactions ==
    \A c \in Caller :
        LET shown == {n \in 1..Rows : <<c, n>> \in db}
        IN shown \in {{}, 1..Rows} /\ (phase[c] = "ok" => shown = 1..Rows)

\* What the adapter owes its callers and the next user of a session, whatever
\* times out, breaks or is dropped.
PostgresIsClean == CleanSessions /\ RetriesAreSafe /\ WholeTransactions

=============================================================================
