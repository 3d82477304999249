-------------------------- MODULE SessionProofs ---------------------------
(***************************************************************************)
(* Proofs about the sessions of the two databases, SqliteSession and       *)
(* PostgresSession, for any callers, sessions and number of rows.          *)
(***************************************************************************)
EXTENDS PostgresSession, TLAPS, FiniteSetTheorems, SequenceTheorems

VARIABLES guard, begun, batch, file, task, stage

Sqlite == INSTANCE SqliteSession WITH open <- begun, pending <- batch, db <- file, phase <- stage

\* The first m rows of a caller.
Prefix(c, m) == {<<c, n>> : n \in 1..m}

-----------------------------------------------------------------------------
(* SQLite.  What is not inductive in SqliteIsClean is who may still touch  *)
(* the connection: a caller waits or goes on only while it holds the lock, *)
(* the rows pending on the connection are the first ones of the lock's     *)
(* holder, and the holder has committed nothing yet.                       *)

Filed(c) == {n \in 1..Rows : <<c, n>> \in file}

\* A caller waits for, or goes on with, the connection only as its holder.
HolderActs ==
    \A c \in Caller :
        /\ stage[c] = "waiting" => guard = c /\ task \in {"begin", "put", "commit"}
        /\ stage[c] = "open" => guard = c /\ task = "none"
        /\ guard = c => \/ task = "none" /\ stage[c] = "open"
                        \/ task = "rollback" /\ stage[c] \in {"failed", "dropped"}
                        \/ /\ task \in {"begin", "put", "commit"}
                           /\ stage[c] \in {"waiting", "dropped"}

\* The holder wrote its rows in order, all of them before it commits.
HolderWrites ==
    guard # Nobody =>
        \E m \in 0..Rows :
            /\ batch = Prefix(guard, m)
            /\ task = "put" => m < Rows
            /\ task = "commit" => m = Rows

\* Nothing of the holder is committed yet.
HolderIsHidden == \A c \in Caller : guard = c => Filed(c) = {}

SqliteInv ==
    /\ Sqlite!TypeOK /\ Sqlite!CleanHandover /\ Sqlite!AllOrNothing
    /\ HolderActs /\ HolderWrites /\ HolderIsHidden

-----------------------------------------------------------------------------

\* SqliteSession counts with the Cardinality that is used here.
LEMMA SameCount == ASSUME NEW S PROVE Sqlite!Cardinality(S) = Cardinality(S)
  BY DEF Sqlite!Cardinality, Cardinality

\* Of a caller with m rows pending, m are counted.
LEMMA WrittenPrefix ==
    ASSUME Sqlite!SqliteConstants, NEW c \in Caller, NEW m \in 0..Rows, batch = Prefix(c, m)
    PROVE  Sqlite!Written(c) = 1..m /\ Sqlite!Cardinality(Sqlite!Written(c)) = m
<1>1. Sqlite!Written(c) = 1..m
  BY DEF Sqlite!Written, Prefix, Sqlite!SqliteConstants
<1> QED BY <1>1, SameCount, FS_Interval

\* What was shown stays shown when nothing is committed.
LEMMA FiledKept == ASSUME UNCHANGED file, NEW c PROVE Filed(c)' = Filed(c)
  BY DEF Filed

LEMMA SqliteInit == ASSUME Sqlite!SqliteConstants, Sqlite!Init PROVE SqliteInv
<1>1. Sqlite!TypeOK
  BY DEF Sqlite!Init, Sqlite!TypeOK, Sqlite!Ended
<1>2. Sqlite!CleanHandover /\ Sqlite!AllOrNothing /\ HolderIsHidden
  BY DEF Sqlite!Init, Sqlite!CleanHandover, Sqlite!AllOrNothing, HolderIsHidden, Filed
<1>3. HolderActs /\ HolderWrites
  BY DEF Sqlite!Init, HolderActs, HolderWrites, Sqlite!SqliteConstants
<1> QED BY <1>1, <1>2, <1>3 DEF SqliteInv

\* A caller's own steps commit nothing.
LEMMA ClientStep ==
    ASSUME Sqlite!SqliteConstants, SqliteInv, NEW c \in Caller, Sqlite!Client(c)
    PROVE  SqliteInv'
<1> USE DEF Sqlite!SqliteConstants
<1>0. \A d \in Caller : Filed(d)' = Filed(d)
  BY FiledKept DEF Sqlite!Client, Sqlite!Begin, Sqlite!Put, Sqlite!Commit,
                   Sqlite!Leave, Sqlite!Abandon
<1>1. Sqlite!TypeOK'
  BY DEF SqliteInv, Sqlite!TypeOK, Sqlite!Ended, Sqlite!Client, Sqlite!Begin,
         Sqlite!Put, Sqlite!Commit, Sqlite!Leave, Sqlite!Abandon, Sqlite!Start
<1>2. Sqlite!CleanHandover'
  BY DEF SqliteInv, Sqlite!CleanHandover, HolderActs, Sqlite!Client, Sqlite!Begin,
         Sqlite!Put, Sqlite!Commit, Sqlite!Leave, Sqlite!Abandon, Sqlite!Start
<1>3. HolderActs'
  <2> USE DEF SqliteInv, Sqlite!TypeOK, HolderActs, Sqlite!Start
  <2>1. CASE Sqlite!Begin(c)
    BY <2>1 DEF Sqlite!Begin
  <2>2. CASE Sqlite!Put(c) \/ Sqlite!Commit(c)
    BY <2>2 DEF Sqlite!Put, Sqlite!Commit
  <2>3. CASE Sqlite!Leave(c)
    BY <2>3 DEF Sqlite!Leave
  <2>4. CASE Sqlite!Abandon(c)
    BY <2>4 DEF Sqlite!Abandon
  <2> QED BY <2>1, <2>2, <2>3, <2>4 DEF Sqlite!Client
<1>4. HolderWrites'
  <2>1. CASE Sqlite!Begin(c)
    <3>1. batch' = Prefix(c, 0) /\ guard' = c /\ task' = "begin"
      BY <2>1 DEF Sqlite!Begin, Sqlite!Start, SqliteInv, Sqlite!CleanHandover, Prefix
    <3> QED BY <3>1 DEF HolderWrites
  <2>2. CASE ~Sqlite!Begin(c)
    <3>1. guard = c /\ guard' = c /\ batch' = batch
      BY <2>2 DEF Sqlite!Client, Sqlite!Put, Sqlite!Commit, Sqlite!Leave,
                  Sqlite!Abandon, SqliteInv, HolderActs
    <3>2. PICK m \in 0..Rows : /\ batch = Prefix(c, m)
                               /\ task = "put" => m < Rows
                               /\ task = "commit" => m = Rows
      BY <3>1 DEF SqliteInv, HolderWrites
    <3>3. Sqlite!Cardinality(Sqlite!Written(c)) = m
      BY <3>2, WrittenPrefix
    <3>4. (task' = "put" => m < Rows) /\ (task' = "commit" => m = Rows)
      BY <2>2, <3>2, <3>3 DEF Sqlite!Client, Sqlite!Put, Sqlite!Commit, Sqlite!Leave,
                              Sqlite!Abandon, Sqlite!Start
    <3> QED BY <3>1, <3>2, <3>4 DEF HolderWrites
  <2> QED BY <2>1, <2>2
<1>5. HolderIsHidden'
  BY <1>0 DEF SqliteInv, HolderIsHidden, Sqlite!AllOrNothing, Filed, Sqlite!Client,
              Sqlite!Begin, Sqlite!Put, Sqlite!Commit, Sqlite!Leave, Sqlite!Abandon
<1>6. Sqlite!AllOrNothing'
  <2>1. \A d \in Caller : stage'[d] \in {"ok", "idle", "open"} => stage'[d] = stage[d]
    BY DEF Sqlite!Client, Sqlite!Begin, Sqlite!Put, Sqlite!Commit, Sqlite!Leave,
           Sqlite!Abandon, Sqlite!Start, SqliteInv, Sqlite!TypeOK
  <2>2. \A d \in Caller : stage'[d] = "failed" => stage[d] = "failed" \/ stage[d] = "open"
    BY DEF Sqlite!Client, Sqlite!Begin, Sqlite!Put, Sqlite!Commit, Sqlite!Leave,
           Sqlite!Abandon, Sqlite!Start, SqliteInv, Sqlite!TypeOK
  <2> QED BY <1>0, <2>1, <2>2 DEF SqliteInv, Sqlite!AllOrNothing, Filed
<1> QED BY <1>1, <1>2, <1>3, <1>4, <1>5, <1>6 DEF SqliteInv

\* The pool drops a session: the connection is clean, nothing is committed.
LEMMA DropStep ==
    ASSUME Sqlite!SqliteConstants, SqliteInv, Sqlite!DropSession, UNCHANGED file, task' = "none",
           guard \in Caller,
           \/ stage' = stage /\ stage[guard] \notin {"waiting", "open"}
           \/ stage' = [stage EXCEPT ![guard] = "failed"]
    PROVE  SqliteInv'
<1>0. \A d \in Caller : Filed(d)' = Filed(d)
  BY FiledKept
<1>1. Sqlite!TypeOK' /\ Sqlite!CleanHandover'
  BY DEF SqliteInv, Sqlite!TypeOK, Sqlite!Ended, Sqlite!DropSession, Sqlite!CleanHandover
<1>2. HolderActs' /\ HolderWrites' /\ HolderIsHidden'
  BY DEF Sqlite!SqliteConstants, SqliteInv, Sqlite!TypeOK, HolderActs, HolderWrites,
         HolderIsHidden, Sqlite!DropSession
<1>3. Sqlite!AllOrNothing'
  BY <1>0 DEF SqliteInv, Sqlite!TypeOK, Sqlite!AllOrNothing, HolderIsHidden, Filed
<1> QED BY <1>1, <1>2, <1>3 DEF SqliteInv

\* Whoever has a statement in the pool holds the connection.
LEMMA TaskHasHolder == ASSUME SqliteInv, task # "none" PROVE guard \in Caller
  BY DEF SqliteInv, Sqlite!TypeOK, Sqlite!CleanHandover

LEMMA SqliteStatementStep ==
    ASSUME Sqlite!SqliteConstants, SqliteInv, Sqlite!StatementDone
    PROVE  SqliteInv'
<1> USE DEF Sqlite!SqliteConstants
<1>0. guard \in Caller
  BY TaskHasHolder DEF Sqlite!StatementDone
<1>1. CASE stage[guard] # "waiting"
  <2>1. stage' = stage
    BY <1>0, <1>1 DEF Sqlite!StatementDone, Sqlite!Answered, SqliteInv, Sqlite!TypeOK
  <2>2. stage[guard] # "open"
    BY <1>0 DEF Sqlite!StatementDone, SqliteInv, HolderActs
  <2> QED BY <1>0, <1>1, <2>1, <2>2, DropStep DEF Sqlite!StatementDone
<1>2. CASE stage[guard] = "waiting"
  <2>1. /\ guard' = guard /\ task' = "none" /\ begun' = TRUE
        /\ stage' = [stage EXCEPT ![guard] = "open"] /\ file' = file
    BY <1>2 DEF Sqlite!StatementDone, Sqlite!Answered
  <2>2. \A d \in Caller : Filed(d)' = Filed(d)
    BY <2>1, FiledKept
  <2>3. PICK m \in 0..Rows : batch = Prefix(guard, m) /\ (task = "put" => m < Rows)
    BY <1>0 DEF SqliteInv, HolderWrites
  <2>4. \E k \in 0..Rows : batch' = Prefix(guard, k)
    <3>1. CASE task = "put"
      <4>1. m + 1 \in 0..Rows /\ Sqlite!Cardinality(Sqlite!Written(guard)) = m
        BY <1>0, <2>3, <3>1, WrittenPrefix
      <4>2. batch' = Prefix(guard, m) \cup {<<guard, m + 1>>}
        BY <1>2, <2>3, <3>1, <4>1 DEF Sqlite!StatementDone
      <4>3. 1..(m + 1) = (1..m) \cup {m + 1}
        BY <4>1
      <4>4. batch' = Prefix(guard, m + 1)
        BY <4>2, <4>3 DEF Prefix
      <4> QED BY <4>1, <4>4
    <3>2. CASE task # "put"
      BY <1>2, <2>3, <3>2 DEF Sqlite!StatementDone
    <3> QED BY <3>1, <3>2
  <2>5. HolderWrites'
    BY <2>1, <2>4 DEF HolderWrites
  <2>6. Sqlite!TypeOK'
    <3>1. batch' \subseteq Caller \X (1..Rows)
      BY <1>0, <2>4 DEF Prefix
    <3> QED BY <2>1, <3>1 DEF SqliteInv, Sqlite!TypeOK, Sqlite!Ended
  <2>7. Sqlite!CleanHandover' /\ HolderActs' /\ HolderIsHidden'
    <3>1. Sqlite!CleanHandover' /\ HolderIsHidden'
      BY <1>0, <2>1, <2>2 DEF SqliteInv, Sqlite!CleanHandover, HolderIsHidden
    <3>2. HolderActs'
      BY <1>0, <2>1 DEF SqliteInv, Sqlite!TypeOK, HolderActs
    <3> QED BY <3>1, <3>2
  <2>8. Sqlite!AllOrNothing'
    BY <1>0, <2>1, <2>2 DEF SqliteInv, Sqlite!TypeOK, Sqlite!AllOrNothing,
                            HolderIsHidden, Filed
  <2> QED BY <2>5, <2>6, <2>7, <2>8 DEF SqliteInv
<1> QED BY <1>1, <1>2

LEMMA CommitStep ==
    ASSUME Sqlite!SqliteConstants, SqliteInv, Sqlite!CommitDone
    PROVE  SqliteInv'
<1> USE DEF Sqlite!SqliteConstants
<1>0. PICK h \in Caller : guard = h
  BY TaskHasHolder DEF Sqlite!CommitDone
<1>1. batch = Prefix(h, Rows)
  BY <1>0 DEF Sqlite!CommitDone, SqliteInv, HolderWrites
<1>2. Filed(h)' = 1..Rows /\ \A d \in Caller \ {h} : Filed(d)' = Filed(d)
  <2>1. file' = file \cup batch
    BY DEF Sqlite!CommitDone
  <2>2. \A n \in 1..Rows : <<h, n>> \in batch
    BY <1>1 DEF Prefix
  <2>3. \A d \in Caller \ {h}, n \in 1..Rows : <<d, n>> \notin batch
    BY <1>1 DEF Prefix
  <2>4. Filed(h)' = 1..Rows
    <3>1. \A n \in 1..Rows : <<h, n>> \in file'
      BY <2>1, <2>2
    <3> QED BY <3>1 DEF Filed
  <2>5. \A d \in Caller \ {h} : Filed(d)' = Filed(d)
    BY <2>1, <2>3 DEF Filed
  <2> QED BY <2>4, <2>5
<1>3. PICK end \in {"ok", "lost"} :
        stage' = [stage EXCEPT ![h] = IF @ = "waiting" THEN end ELSE @]
  BY <1>0 DEF Sqlite!CommitDone, Sqlite!Answered
<1>4. stage'[h] \in {"ok", "lost", "dropped"}
  BY <1>0, <1>3 DEF Sqlite!CommitDone, SqliteInv, HolderActs, Sqlite!TypeOK
<1>5. \A d \in Caller \ {h} : stage'[d] = stage[d]
  BY <1>3 DEF SqliteInv, Sqlite!TypeOK
<1>6. Sqlite!TypeOK'
  BY <1>0, <1>3 DEF Sqlite!CommitDone, SqliteInv, Sqlite!TypeOK, Sqlite!Ended
<1>7. Sqlite!CleanHandover' /\ HolderActs' /\ HolderWrites' /\ HolderIsHidden'
  <2>1. \A d \in Caller : stage'[d] \notin {"waiting", "open"}
    BY <1>0, <1>4, <1>5 DEF Sqlite!CommitDone, SqliteInv, HolderActs
  <2> QED BY <2>1 DEF Sqlite!CommitDone, Sqlite!CleanHandover, HolderActs,
                      HolderWrites, HolderIsHidden
<1>8. Sqlite!AllOrNothing'
  <2>1. \A d \in Caller \ {h} : /\ Filed(d) \in {{}, 1..Rows}
                                /\ stage[d] = "ok" => Filed(d) = 1..Rows
                                /\ stage[d] \in {"idle", "open", "failed"} => Filed(d) = {}
    BY DEF SqliteInv, Sqlite!AllOrNothing, Filed
  <2>2. \A d \in Caller : /\ Filed(d)' \in {{}, 1..Rows}
                          /\ stage'[d] = "ok" => Filed(d)' = 1..Rows
                          /\ stage'[d] \in {"idle", "open", "failed"} => Filed(d)' = {}
    <3> SUFFICES ASSUME NEW d \in Caller
                 PROVE  /\ Filed(d)' \in {{}, 1..Rows}
                        /\ stage'[d] = "ok" => Filed(d)' = 1..Rows
                        /\ stage'[d] \in {"idle", "open", "failed"} => Filed(d)' = {}
      OBVIOUS
    <3>1. CASE d = h
      BY <1>2, <1>4, <3>1
    <3>2. CASE d # h
      <4>1. Filed(d)' = Filed(d) /\ stage'[d] = stage[d]
        BY <1>2, <1>5, <3>2
      <4> QED BY <2>1, <3>2, <4>1
    <3> QED BY <3>1, <3>2
  <2> QED BY <2>2 DEF Sqlite!AllOrNothing, Filed
<1> QED BY <1>6, <1>7, <1>8 DEF SqliteInv

LEMMA FailStep ==
    ASSUME Sqlite!SqliteConstants, SqliteInv, Sqlite!TaskFails \/ Sqlite!RollbackDone
    PROVE  SqliteInv'
<1>0. guard \in Caller
  BY TaskHasHolder DEF Sqlite!TaskFails, Sqlite!RollbackDone
<1>1. CASE Sqlite!TaskFails
  <2>1. \/ stage' = stage /\ stage[guard] \notin {"waiting", "open"}
        \/ stage' = [stage EXCEPT ![guard] = "failed"]
    BY <1>0, <1>1 DEF Sqlite!TaskFails, Sqlite!Answered, SqliteInv, Sqlite!TypeOK,
                      HolderActs
  <2> QED BY <1>0, <1>1, <2>1, DropStep DEF Sqlite!TaskFails
<1>2. CASE Sqlite!RollbackDone
  <2>1. stage[guard] \notin {"waiting", "open"}
    BY <1>0, <1>2 DEF Sqlite!RollbackDone, SqliteInv, HolderActs
  <2> QED BY <1>0, <1>2, <2>1, DropStep DEF Sqlite!RollbackDone
<1> QED BY <1>1, <1>2

LEMMA SqliteStep ==
    ASSUME Sqlite!SqliteConstants, SqliteInv, [Sqlite!Next]_(Sqlite!vars)
    PROVE  SqliteInv'
<1>1. CASE Sqlite!Pool
  BY <1>1, SqliteStatementStep, CommitStep, FailStep DEF Sqlite!Pool
<1>2. CASE \E c \in Caller : Sqlite!Client(c)
  BY <1>2, ClientStep
<1>3. CASE UNCHANGED Sqlite!vars
  BY <1>3 DEF Sqlite!vars, SqliteInv, Sqlite!TypeOK, Sqlite!CleanHandover,
              Sqlite!AllOrNothing, HolderActs,
              HolderWrites, HolderIsHidden, Filed, Prefix
<1> QED BY <1>1, <1>2, <1>3 DEF Sqlite!Next

\* Whoever gets SQLite's one connection finds nothing of another caller on it,
\* and a transaction shows whole or not at all, whenever its caller leaves.
THEOREM SqliteSafety ==
    ASSUME Sqlite!SqliteConstants
    PROVE  Sqlite!Spec => []Sqlite!SqliteIsClean
<1>1. Sqlite!Init => SqliteInv
  BY SqliteInit
<1>2. SqliteInv /\ [Sqlite!Next]_(Sqlite!vars) => SqliteInv'
  BY SqliteStep
<1>3. SqliteInv => Sqlite!SqliteIsClean
  BY DEF SqliteInv, Sqlite!SqliteIsClean
<1> QED BY <1>1, <1>2, <1>3, PTL DEF Sqlite!Spec

-----------------------------------------------------------------------------
(* Postgres.  The invariant says, of each session that somebody has, what  *)
(* its connection can look like in each phase of its holder, and, of each  *)
(* discarded connection on which a COMMIT is on its way, that it is of a   *)
(* caller that was told nothing definite.                                  *)

Shown(c) == {n \in 1..Rows : <<c, n>> \in db}

\* A connection on which nothing is left but an answer.
Spent(conn) == conn.open = FALSE /\ conn.pending = {} /\ conn.asked = <<>>

\* The rows pending on a connection are the first ones of a caller.
Writes(c, conn) ==
    \E m \in 0..Rows :
        /\ conn.pending = Prefix(c, m)
        /\ conn.asked \in {<<"put">>, <<"put", "rollback">>} => m < Rows
        /\ conn.asked = <<"commit">> => m = Rows

\* The connection of a caller in each of its phases.
Serves(c, conn) ==
    \/ /\ phase[c] = "begin" /\ conn.asked \in {<<"begin">>, <<>>}
    \/ /\ phase[c] = "open" /\ conn.asked = <<>> /\ conn.reply = "none"
    \/ /\ phase[c] = "put" /\ conn.asked \in {<<"put">>, <<>>}
    \/ /\ phase[c] = "commit"
       /\ \/ conn.asked = <<"commit">> /\ Shown(c) = {}
          \/ /\ Spent(conn)
             /\ Shown(c) = IF conn.reply = "ok" THEN 1..Rows ELSE {}
    \/ /\ phase[c] \in {"undo", "undo conflict"}
       /\ conn.asked \in {<<"rollback">>, <<"put", "rollback">>} \/ Spent(conn)

HoldersAreServed ==
    \A s \in Session : slot[s] # Nobody =>
        /\ Writes(slot[s], server[s])
        /\ Serves(slot[s], server[s])
        /\ server[s].asked # <<>> => server[s].reply = "none"

\* A caller has one session.
OneSession == \A s, t \in Session : slot[s] = slot[t] /\ slot[s] # Nobody => s = t

\* A COMMIT that outlived its connection is of a caller that was told nothing.
OrphansAreLost ==
    \A o \in orphans : o.asked = <<"commit">> =>
        \E c \in Caller : o.pending = Prefix(c, Rows) /\ phase[c] \in {"lost", "dropped"}

\* What is shown of a caller, by what it knows.
ShownAsTold ==
    \A c \in Caller :
        /\ Shown(c) \in {{}, 1..Rows}
        /\ phase[c] = "ok" => Shown(c) = 1..Rows
        /\ phase[c] \notin {"commit", "ok", "lost", "dropped"} => Shown(c) = {}

Inv ==
    /\ TypeOK /\ CleanSessions /\ HoldersAreServed /\ OneSession
    /\ OrphansAreLost /\ ShownAsTold

Phase == {"idle", "begin", "open", "put", "commit", "undo", "undo conflict",
          "ok", "conflict", "failed", "lost", "dropped"}

-----------------------------------------------------------------------------

\* The first m rows of a caller are m pairs.
LEMMA PrefixCardinality ==
    ASSUME NEW c, NEW m \in Nat
    PROVE  Cardinality(Prefix(c, m)) = m
<1> DEFINE f == [n \in 1..m |-> <<c, n>>]
<1>1. f \in Bijection(1..m, Prefix(c, m))
  BY DEF Prefix, Bijection, Injection, Surjection, IsInjective
<1>2. ExistsBijection(1..m, Prefix(c, m))
  BY <1>1 DEF ExistsBijection
<1>3. IsFiniteSet(1..m) /\ Cardinality(1..m) = m
  BY FS_Interval
<1> QED BY <1>2, <1>3, FS_Bijection

LEMMA WrotePrefix ==
    ASSUME PostgresConstants, NEW c, NEW s \in Session, NEW m \in 0..Rows,
           server[s].pending = Prefix(c, m)
    PROVE  Cardinality(Wrote(c, s)) = m
<1>1. Wrote(c, s) = 1..m
  BY DEF Wrote, Prefix, PostgresConstants
<1> QED BY <1>1, FS_Interval

LEMMA PrefixNext ==
    ASSUME NEW c, NEW m \in Nat
    PROVE  Prefix(c, m + 1) = Prefix(c, m) \cup {<<c, m + 1>>}
<1>1. 1..(m + 1) = (1..m) \cup {m + 1}
  OBVIOUS
<1> QED BY <1>1 DEF Prefix

Reply == {"none", "ok", "conflict", "error"}

\* The queues of requests, told apart.
LEMMA Queues ==
    /\ <<>> \in Queue /\ <<"put", "rollback">> \in Queue
    /\ \A q \in {"begin", "put", "commit", "rollback"} :
          /\ <<q>> \in Queue /\ <<q>> # <<>> /\ <<q>> # <<"put", "rollback">>
          /\ Head(<<q>>) = q /\ Tail(<<q>>) = <<>>
          /\ \A r \in {"begin", "put", "commit", "rollback"} : <<q>> = <<r>> => q = r
    /\ <<"put", "rollback">> # <<>>
    /\ Head(<<"put", "rollback">>) = "put" /\ Tail(<<"put", "rollback">>) = <<"rollback">>
    /\ Append(<<>>, "rollback") = <<"rollback">>
    /\ Append(<<"put">>, "rollback") = <<"put", "rollback">>
<1>1. <<"put", "rollback">> # <<>> /\ \A q : <<q>> # <<>> /\ <<q>> # <<"put", "rollback">>
  <2>1. Len(<<"put", "rollback">>) = 2 /\ Len(<<>>) = 0 /\ \A q : Len(<<q>>) = 1
    OBVIOUS
  <2> QED BY <2>1
<1>2. \A q, r : <<q>> = <<r>> => q = r
  <2> SUFFICES ASSUME NEW q, NEW r, <<q>> = <<r>> PROVE q = r
    OBVIOUS
  <2>1. <<q>>[1] = q /\ <<r>>[1] = r
    OBVIOUS
  <2> QED BY <2>1
<1>3. \A q : Head(<<q>>) = q /\ Tail(<<q>>) = <<>>
  OBVIOUS
<1>4. Head(<<"put", "rollback">>) = "put" /\ Tail(<<"put", "rollback">>) = <<"rollback">>
  OBVIOUS
<1>5. /\ Append(<<>>, "rollback") = <<"rollback">>
      /\ Append(<<"put">>, "rollback") = <<"put", "rollback">>
  <2>1. \A x : Append(<<>>, x) = <<x>>
    OBVIOUS
  <2>2. PICK S : S = {"put", "rollback"}
    OBVIOUS
  <2>3. PICK s \in Seq(S), t \in Seq(S) : s = <<"put">> /\ t = <<"put", "rollback">>
    <3>1. "put" \in S /\ "rollback" \in S
      BY <2>2
    <3>2. <<"put">> \in Seq(S) /\ <<"put", "rollback">> \in Seq(S)
      BY <3>1
    <3> QED BY <3>2, Zenon
  <2>4. /\ Len(s) = 1 /\ s[1] = "put"
        /\ Len(t) = 2 /\ t[1] = "put" /\ t[2] = "rollback"
    BY <2>3
  <2>5. PICK u \in Seq(S) :
          /\ u = Append(s, "rollback")
          /\ Len(u) = 2 /\ u[1] = "put" /\ u[2] = "rollback"
    <3>1. PICK q \in S : q = "rollback"
      BY <2>2
    <3>2. /\ Append(s, q) \in Seq(S) /\ Len(Append(s, q)) = Len(s) + 1
          /\ \A i \in 1..Len(s) : Append(s, q)[i] = s[i]
          /\ Append(s, q)[Len(s) + 1] = q
      BY AppendProperties
    <3>3. PICK u \in Seq(S) :
            /\ u = Append(s, q) /\ Len(u) = Len(s) + 1
            /\ \A i \in 1..Len(s) : u[i] = s[i]
            /\ u[Len(s) + 1] = q
      BY <3>2, Zenon
    <3>4. Len(u) = 2 /\ u[1] = "put" /\ u[2] = "rollback"
      BY <2>4, <3>1, <3>3
    <3> QED BY <3>1, <3>3, <3>4, Zenon
  <2>6. u = t
    BY <2>4, <2>5, SeqEqual
  <2> QED BY <2>1, <2>3, <2>5, <2>6
<1> QED BY <1>1, <1>2, <1>3, <1>4, <1>5 DEF Queue

LEMMA QueuesDiffer ==
    /\ <<"begin">> # <<>> /\ <<"put">> # <<>> /\ <<"commit">> # <<>> /\ <<"rollback">> # <<>>
    /\ <<"put", "rollback">> # <<>> /\ <<"begin">> # <<"commit">> /\ <<"put">> # <<"commit">>
    /\ <<"rollback">> # <<"commit">> /\ <<"put", "rollback">> # <<"commit">>
    /\ <<"begin">> # <<"put", "rollback">> /\ <<"rollback">> # <<"put", "rollback">>
  BY Queues

LEMMA FreshType ==
    /\ Fresh \in Connection /\ Fresh.open = FALSE /\ Fresh.pending = {}
    /\ Fresh.asked = <<>> /\ Fresh.reply = "none"
  BY Queues DEF Fresh, Connection

\* The parts of a connection on which requests are sent or an answer is taken.
LEMMA Asked ==
    ASSUME NEW k \in Connection, NEW q \in Queue
    PROVE  \E conn \in Connection :
             /\ conn = [k EXCEPT !.asked = q]
             /\ conn.open = k.open /\ conn.pending = k.pending
             /\ conn.asked = q /\ conn.reply = k.reply
<1> DEFINE conn == [k EXCEPT !.asked = q]
<1>1. /\ conn = [open |-> k.open, pending |-> k.pending, asked |-> q, reply |-> k.reply]
      /\ k.open \in BOOLEAN /\ k.pending \in SUBSET (Caller \X (1..Rows))
      /\ k.asked \in Queue /\ k.reply \in Reply
  BY DEF Connection, Reply
<1>2. conn \in Connection
  BY <1>1 DEF Connection, Reply
<1> QED BY <1>1, <1>2

LEMMA Taken ==
    ASSUME NEW k \in Connection, NEW r \in Reply
    PROVE  \E conn \in Connection :
             /\ conn = [k EXCEPT !.reply = r]
             /\ conn.open = k.open /\ conn.pending = k.pending
             /\ conn.asked = k.asked /\ conn.reply = r
<1> DEFINE conn == [k EXCEPT !.reply = r]
<1>1. /\ conn = [open |-> k.open, pending |-> k.pending, asked |-> k.asked, reply |-> r]
      /\ k.open \in BOOLEAN /\ k.pending \in SUBSET (Caller \X (1..Rows))
      /\ k.asked \in Queue /\ k.reply \in Reply
  BY DEF Connection, Reply
<1>2. conn \in Connection
  BY <1>1 DEF Connection, Reply
<1> QED BY <1>1, <1>2

LEMMA ShownKept == ASSUME UNCHANGED db, NEW c PROVE Shown(c)' = Shown(c)
  BY DEF Shown

LEMMA InvInit == ASSUME PostgresConstants, Init PROVE Inv
<1>1. TypeOK /\ CleanSessions
  BY FreshType DEF Init, TypeOK, CleanSessions
<1>2. HoldersAreServed /\ OneSession /\ OrphansAreLost /\ ShownAsTold
  BY DEF Init, HoldersAreServed, OneSession, OrphansAreLost, ShownAsTold, Shown
<1> QED BY <1>1, <1>2 DEF Inv

-----------------------------------------------------------------------------
(* A step of one caller on one session.                                    *)

\* Caller c goes on as `told', session s is left to `holder' with connection
\* conn, and the connection it had may be discarded.
SessionChange(c, s, holder, conn, told) ==
    /\ slot[s] = c \/ (slot[s] = Nobody /\ phase[c] = "idle")
    /\ slot' = [slot EXCEPT ![s] = holder]
    /\ server' = [server EXCEPT ![s] = conn]
    /\ phase' = [phase EXCEPT ![c] = told]
    /\ UNCHANGED db
    /\ \/ UNCHANGED orphans
       \/ /\ orphans' = orphans \cup {server[s]} /\ slot[s] = c
          /\ server[s].asked = <<"commit">> => told \in {"lost", "dropped"}

\* Such a step keeps the invariant if it leaves the session as it should be
\* and tells the caller what is so.
LEMMA SessionStep ==
    ASSUME PostgresConstants, Inv, NEW c \in Caller, NEW s \in Session,
           NEW holder \in {c, Nobody}, NEW conn \in Connection, NEW told \in Phase,
           SessionChange(c, s, holder, conn, told),
           holder = Nobody => conn = Fresh,
           holder = c => /\ Writes(c, conn) /\ Serves(c, conn)'
                         /\ conn.asked # <<>> => conn.reply = "none",
           told = "ok" => Shown(c) = 1..Rows,
           told \notin {"commit", "ok", "lost", "dropped"} => Shown(c) = {}
    PROVE  Inv'
<1> USE DEF SessionChange
<1> USE DEF PostgresConstants
<1>0. \A d \in Caller : Shown(d)' = Shown(d)
  BY ShownKept
<1>1. /\ \A d \in Caller \ {c} : phase'[d] = phase[d]
      /\ phase'[c] = told
      /\ \A t \in Session \ {s} : slot'[t] = slot[t] /\ server'[t] = server[t]
      /\ slot'[s] = holder /\ server'[s] = conn
  BY DEF Inv, TypeOK
<1>2. \A t \in Session \ {s} : slot[t] # c
  <2>1. CASE slot[s] = c
    BY <2>1 DEF Inv, OneSession
  <2>2. CASE phase[c] = "idle"
    BY <2>2 DEF Inv, HoldersAreServed, Serves
  <2> QED BY <2>1, <2>2
<1>3. phase[c] \notin {"lost", "dropped"}
  BY DEF Inv, HoldersAreServed, Serves
<1>4. TypeOK'
  <2>1. server[s] \in Connection /\ orphans \subseteq Connection
    BY DEF Inv, TypeOK
  <2>2. orphans' \subseteq Connection
    BY <2>1
  <2> QED BY <2>2 DEF Inv, TypeOK, Phase
<1>5. CleanSessions' /\ OneSession'
  BY <1>1, <1>2 DEF Inv, CleanSessions, OneSession
<1>6. HoldersAreServed'
  <2> SUFFICES ASSUME NEW t \in Session, slot'[t] # Nobody
               PROVE  /\ Writes(slot[t], server[t])'
                      /\ Serves(slot[t], server[t])'
                      /\ server'[t].asked # <<>> => server'[t].reply = "none"
    BY DEF HoldersAreServed
  <2>1. CASE t = s
    <3>1. slot'[t] = c /\ server'[t] = conn /\ holder = c
      BY <1>1, <2>1
    <3> QED BY <3>1 DEF Writes, Serves, Shown, Spent
  <2>2. CASE t # s
    <3>1. slot'[t] = slot[t] /\ server'[t] = server[t] /\ slot[t] \in Caller \ {c}
      BY <1>1, <1>2, <2>2 DEF Inv, TypeOK
    <3>2. phase'[slot[t]] = phase[slot[t]] /\ Shown(slot[t])' = Shown(slot[t])
      BY <1>1, <3>1 DEF Shown
    <3>3. /\ Writes(slot[t], server[t]) /\ Serves(slot[t], server[t])
          /\ server[t].asked # <<>> => server[t].reply = "none"
      BY <3>1 DEF Inv, HoldersAreServed
    <3>4. Writes(slot[t], server[t])'
      BY <3>1, <3>3 DEF Writes
    <3>5. Serves(slot[t], server[t])'
      BY <3>1, <3>2, <3>3 DEF Serves, Spent
    <3> QED BY <3>1, <3>3, <3>4, <3>5
  <2> QED BY <2>1, <2>2
<1>7. OrphansAreLost'
  <2> SUFFICES ASSUME NEW o \in orphans', o.asked = <<"commit">>
               PROVE  \E d \in Caller : o.pending = Prefix(d, Rows) /\ phase'[d] \in {"lost", "dropped"}
    BY DEF OrphansAreLost, Prefix
  <2>1. CASE o \in orphans
    BY <1>1, <1>3, <2>1 DEF Inv, OrphansAreLost
  <2>2. CASE o \notin orphans
    <3>1. o = server[s] /\ slot[s] = c /\ told \in {"lost", "dropped"}
      BY <2>2
    <3>2. slot[s] # Nobody
      BY <3>1
    <3>3. o.pending = Prefix(c, Rows)
      BY <3>1, <3>2 DEF Inv, HoldersAreServed, Writes
    <3> QED BY <1>1, <3>1, <3>3
  <2> QED BY <2>1, <2>2
<1>8. ShownAsTold'
  <2> SUFFICES ASSUME NEW d \in Caller
               PROVE  /\ Shown(d) \in {{}, 1..Rows}
                      /\ phase'[d] = "ok" => Shown(d) = 1..Rows
                      /\ phase'[d] \notin {"commit", "ok", "lost", "dropped"} => Shown(d) = {}
    BY <1>0 DEF ShownAsTold
  <2> QED BY <1>1 DEF Inv, ShownAsTold
<1> QED BY <1>4, <1>5, <1>6, <1>7, <1>8 DEF Inv

\* What a caller that has a session knows of it.
LEMMA Held ==
    ASSUME PostgresConstants, Inv, NEW c \in Caller, NEW s \in Session, Holds(c, s)
    PROVE  /\ slot[s] = c /\ server[s] \in Connection /\ phase[c] \in Phase
           /\ Writes(c, server[s]) /\ Serves(c, server[s])
           /\ server[s].asked # <<>> => server[s].reply = "none"
           /\ phase[c] # "commit" => Shown(c) = {}
<1>1. slot[s] = c /\ c # Nobody
  BY DEF Holds, PostgresConstants
<1>2. /\ Writes(c, server[s]) /\ Serves(c, server[s])
      /\ server[s].asked # <<>> => server[s].reply = "none"
  BY <1>1 DEF Inv, HoldersAreServed
<1>3. phase[c] \notin {"ok", "lost", "dropped"}
  BY <1>2 DEF Serves
<1> QED BY <1>1, <1>2, <1>3 DEF Inv, TypeOK, Phase, ShownAsTold

LEMMA BeginStep ==
    ASSUME PostgresConstants, Inv, NEW c \in Caller, NEW s \in Session, Begin(c, s)
    PROVE  Inv'
<1>1. server[s] = Fresh
  BY DEF Begin, Inv, CleanSessions
<1>2. PICK conn \in Connection :
        /\ conn = [server[s] EXCEPT !.asked = <<"begin">>]
        /\ conn.pending = {} /\ conn.asked = <<"begin">> /\ conn.reply = "none"
  <2>1. <<"begin">> \in Queue
    BY DEF Queue
  <2> QED BY <1>1, <2>1, FreshType, Asked
<1>3. /\ slot' = [slot EXCEPT ![s] = c] /\ server' = [server EXCEPT ![s] = conn]
      /\ phase' = [phase EXCEPT ![c] = "begin"] /\ UNCHANGED <<orphans, db>>
      /\ slot[s] = Nobody /\ phase[c] = "idle" /\ c # Nobody
  BY <1>2 DEF Begin, Ask, PostgresConstants
<1>4. Writes(c, conn)
  <2>1. Prefix(c, 0) = {} /\ 0 \in 0..Rows
    BY DEF Prefix, PostgresConstants
  <2> QED BY <1>2, <2>1, Queues DEF Writes
<1>5. Serves(c, conn)'
  BY <1>2, <1>3 DEF Serves, Inv, TypeOK
<1>6. Shown(c) = {}
  BY <1>3 DEF Inv, ShownAsTold
<1>7. SessionChange(c, s, c, conn, "begin")
  BY <1>3 DEF SessionChange
<1> QED BY <1>2, <1>3, <1>4, <1>5, <1>6, <1>7, SessionStep DEF Phase

LEMMA StatementStep ==
    ASSUME PostgresConstants, Inv, NEW c \in Caller, NEW s \in Session, Statement(c, s)
    PROVE  Inv'
<1>0. Holds(c, s) /\ phase[c] = "open" /\ c # Nobody
  BY DEF Statement, PostgresConstants
<1>1. /\ slot[s] = c /\ server[s] \in Connection /\ server[s].reply = "none"
      /\ server[s].asked = <<>> /\ Writes(c, server[s]) /\ Shown(c) = {}
  <2>1. Serves(c, server[s])
    BY <1>0, Held
  <2>2. server[s].reply = "none" /\ server[s].asked = <<>>
    BY <1>0, <2>1 DEF Serves
  <2> QED BY <1>0, <2>2, Held
<1>2. PICK m \in 0..Rows : server[s].pending = Prefix(c, m)
  BY <1>1 DEF Writes
<1>3. PICK ask \in {"put", "commit"} :
        /\ ask = IF Cardinality(Wrote(c, s)) < Rows THEN "put" ELSE "commit"
        /\ ask = IF m < Rows THEN "put" ELSE "commit"
  BY <1>2, WrotePrefix
<1>5. PICK conn \in Connection :
        /\ conn = [server[s] EXCEPT !.asked = <<ask>>]
        /\ conn.pending = Prefix(c, m) /\ conn.asked = <<ask>> /\ conn.reply = "none"
  <2>1. <<ask>> \in Queue
    BY DEF Queue
  <2> QED BY <1>1, <1>2, <2>1, Asked
<1>4. /\ slot' = [slot EXCEPT ![s] = c] /\ server' = [server EXCEPT ![s] = conn]
      /\ phase' = [phase EXCEPT ![c] = ask] /\ UNCHANGED <<orphans, db>>
  BY <1>0, <1>1, <1>3, <1>5 DEF Statement, Ask, Inv, TypeOK
<1>6. Writes(c, conn)
  BY <1>2, <1>3, <1>5, Queues DEF Writes, PostgresConstants
<1>7. Serves(c, conn)'
  <2>1. phase'[c] = ask
    BY <1>4 DEF Inv, TypeOK
  <2>2. Shown(c)' = {}
    BY <1>1, <1>4, ShownKept
  <2> QED BY <1>5, <2>1, <2>2 DEF Serves
<1>8. SessionChange(c, s, c, conn, ask)
  BY <1>1, <1>4 DEF SessionChange
<1> QED BY <1>0, <1>1, <1>3, <1>5, <1>6, <1>7, <1>8, SessionStep DEF Phase

LEMMA ProceedStep ==
    ASSUME PostgresConstants, Inv, NEW c \in Caller, NEW s \in Session, Proceed(c, s)
    PROVE  Inv'
<1>0. Holds(c, s) /\ phase[c] \in {"begin", "put"} /\ c # Nobody /\ server[s].reply = "ok"
  BY DEF Proceed, PostgresConstants
<1>1. /\ slot[s] = c /\ server[s] \in Connection /\ server[s].asked = <<>>
      /\ Writes(c, server[s]) /\ Shown(c) = {}
  BY <1>0, Held
<1>2. PICK conn \in Connection :
        /\ conn = [server[s] EXCEPT !.reply = "none"]
        /\ conn.pending = server[s].pending
        /\ conn.asked = <<>> /\ conn.reply = "none"
  <2>1. "none" \in Reply
    BY DEF Reply
  <2> QED BY <1>1, <2>1, Taken
<1>3. SessionChange(c, s, c, conn, "open")
  BY <1>0, <1>1, <1>2 DEF SessionChange, Proceed, Inv, TypeOK
<1>4. Writes(c, conn) /\ Serves(c, conn)'
  BY <1>1, <1>2, <1>3 DEF SessionChange, Writes, Serves, Inv, TypeOK
<1> QED BY <1>0, <1>1, <1>2, <1>3, <1>4, SessionStep DEF Phase

\* A transaction is rolled back, behind a statement that runs.
LEMMA RollBackStep ==
    ASSUME PostgresConstants, Inv, NEW c \in Caller, NEW s \in Session, Holds(c, s),
           phase[c] \in {"open", "put"}, NEW told \in {"undo", "undo conflict"},
           RollBack(c, s, told), UNCHANGED db
    PROVE  Inv'
<1>1. /\ slot[s] = c /\ server[s] \in Connection /\ c # Nobody
      /\ Writes(c, server[s]) /\ Serves(c, server[s]) /\ Shown(c) = {}
  BY Held DEF PostgresConstants
<1>2. PICK q \in {<<"rollback">>, <<"put", "rollback">>} :
        /\ q = Append(server[s].asked, "rollback")
        /\ q = <<"put", "rollback">> => server[s].asked = <<"put">>
  BY <1>1, Queues DEF Serves
<1>3. PICK conn \in Connection :
        /\ conn = [[server[s] EXCEPT !.asked = q] EXCEPT !.reply = "none"]
        /\ conn.pending = server[s].pending /\ conn.asked = q /\ conn.reply = "none"
  <2>0. "none" \in Reply
    BY DEF Reply
  <2>1. q \in Queue
    BY Queues
  <2>2. PICK mid \in Connection :
          /\ mid = [server[s] EXCEPT !.asked = q]
          /\ mid.pending = server[s].pending /\ mid.asked = q
    BY <1>1, <2>1, Asked
  <2>3. PICK conn \in Connection :
          /\ conn = [mid EXCEPT !.reply = "none"]
          /\ conn.open = mid.open /\ conn.pending = mid.pending
          /\ conn.asked = mid.asked /\ conn.reply = "none"
    BY <2>0, Taken, Zenon
  <2> QED BY <2>2, <2>3
<1>4. SessionChange(c, s, c, conn, told)
  <2>1. server' = [server EXCEPT ![s] = conn]
    BY <1>2, <1>3 DEF RollBack
  <2> QED BY <1>1, <2>1 DEF SessionChange, RollBack, Inv, TypeOK
<1>5. Writes(c, conn)
  BY <1>1, <1>2, <1>3, Queues DEF Writes
<1>6. Serves(c, conn)'
  BY <1>2, <1>3, <1>4 DEF SessionChange, Serves, Inv, TypeOK
<1> QED BY <1>1, <1>3, <1>4, <1>5, <1>6, SessionStep DEF Phase

LEMMA RefusedStep ==
    ASSUME PostgresConstants, Inv, NEW c \in Caller, NEW s \in Session,
           Fails(c, s) \/ Refused(c, s)
    PROVE  Inv'
<1>1. PICK told \in {"undo", "undo conflict"} :
        told = IF server[s].reply = "conflict" THEN "undo conflict" ELSE "undo"
  OBVIOUS
<1>2. CASE Refused(c, s)
  BY <1>1, <1>2, RollBackStep DEF Refused
<1>3. CASE Fails(c, s)
  BY <1>3, RollBackStep DEF Fails
<1> QED BY <1>2, <1>3

\* A connection that is spent is a new one but for the answer.
LEMMA SpentConnection ==
    ASSUME NEW conn \in Connection, Spent(conn)
    PROVE  [conn EXCEPT !.reply = "none"] = Fresh
<1>1. [conn EXCEPT !.reply = "none"]
        = [open |-> conn.open, pending |-> conn.pending, asked |-> conn.asked, reply |-> "none"]
  BY DEF Connection
<1> QED BY <1>1 DEF Spent, Fresh

\* A session whose connection is spent goes back to the pool.
LEMMA ReturnStep ==
    ASSUME PostgresConstants, Inv, NEW c \in Caller, NEW s \in Session, Holds(c, s),
           NEW end \in Phase, Return(s, c, end), UNCHANGED db, Spent(server[s]),
           end = "ok" => Shown(c) = 1..Rows,
           end \notin {"commit", "ok", "lost", "dropped"} => Shown(c) = {}
    PROVE  Inv'
<1>1. slot[s] = c /\ Nobody # c
  BY DEF Holds, PostgresConstants
<1>2. /\ slot' = [slot EXCEPT ![s] = Nobody] /\ server' = [server EXCEPT ![s] = Fresh]
      /\ phase' = [phase EXCEPT ![c] = end] /\ UNCHANGED orphans
  <2>1. [server[s] EXCEPT !.reply = "none"] = Fresh
    BY SpentConnection DEF Inv, TypeOK
  <2> QED BY <2>1 DEF Return
<1>3. SessionChange(c, s, Nobody, Fresh, end)
  BY <1>1, <1>2 DEF SessionChange
<1> QED BY <1>1, <1>3, FreshType, SessionStep

\* A session is given up with what is on its connection.
LEMMA DiscardStep ==
    ASSUME PostgresConstants, Inv, NEW c \in Caller, NEW s \in Session, Holds(c, s),
           NEW end \in Phase, Discard(s, c, end), UNCHANGED db,
           end \in {"lost", "dropped"} \/ (phase[c] # "commit" /\ end # "ok")
    PROVE  Inv'
<1>1. slot[s] = c /\ Nobody # c
  BY DEF Holds, PostgresConstants
<1>2. server[s].asked = <<"commit">> => phase[c] = "commit"
  <2>1. Serves(c, server[s])
    BY Held
  <2> QED BY <2>1, QueuesDiffer DEF Serves, Spent
<1>3. phase[c] # "commit" => Shown(c) = {}
  BY Held
<1>4. /\ slot' = [slot EXCEPT ![s] = Nobody] /\ server' = [server EXCEPT ![s] = Fresh]
      /\ phase' = [phase EXCEPT ![c] = end] /\ orphans' = orphans \cup {server[s]}
  BY DEF Discard
<1>5. SessionChange(c, s, Nobody, Fresh, end)
  BY <1>1, <1>2, <1>4 DEF SessionChange
<1> QED BY <1>1, <1>3, <1>5, FreshType, SessionStep

LEMMA EndStep ==
    ASSUME PostgresConstants, Inv, NEW c \in Caller, NEW s \in Session,
           \/ BeginRefused(c, s) \/ RolledBack(c, s) \/ CommitAnswered(c, s)
           \/ Timeout(c, s) \/ Broken(c, s) \/ Drop(c, s)
    PROVE  Inv'
<1>0. Holds(c, s) /\ UNCHANGED db
  BY DEF BeginRefused, RolledBack, CommitAnswered, Timeout, Broken, Drop
<1>1. CASE BeginRefused(c, s)
  BY <1>0, <1>1, DiscardStep DEF BeginRefused, Phase
<1>2. CASE Drop(c, s)
  BY <1>0, <1>2, DiscardStep DEF Drop, Phase
<1>3. CASE RolledBack(c, s)
  <2>1. phase[c] \in {"undo", "undo conflict"} /\ server[s].reply = "ok"
    BY <1>3 DEF RolledBack
  <2>2. Spent(server[s]) /\ Shown(c) = {}
    <3>1. Serves(c, server[s]) /\ server[s].asked = <<>> /\ Shown(c) = {}
      BY <1>0, <2>1, Held
    <3> QED BY <2>1, <3>1, QueuesDiffer DEF Serves
  <2>3. Undone(c) \in {"conflict", "failed"}
    BY DEF Undone
  <2> QED BY <1>0, <1>3, <2>2, <2>3, ReturnStep DEF RolledBack, Phase
<1>4. CASE CommitAnswered(c, s)
  <2>1. phase[c] = "commit" /\ server[s].reply # "none"
    BY <1>4 DEF CommitAnswered
  <2>2. Spent(server[s]) /\ Shown(c) = IF server[s].reply = "ok" THEN 1..Rows ELSE {}
    <3>1. Serves(c, server[s]) /\ server[s].asked = <<>>
      BY <1>0, <2>1, Held
    <3> QED BY <2>1, <3>1, QueuesDiffer DEF Serves
  <2> QED BY <1>0, <1>4, <2>2, ReturnStep DEF CommitAnswered, Phase
<1>5. GivenUp(c) \in Phase /\ (GivenUp(c) = "lost" \/ (phase[c] # "commit" /\ GivenUp(c) # "ok"))
  BY DEF GivenUp, Undone, Phase
<1>6. CASE Broken(c, s)
  BY <1>0, <1>5, <1>6, DiscardStep DEF Broken
<1>7. CASE Timeout(c, s)
  <2>1. CASE phase[c] = "put"
    BY <1>0, <1>7, <2>1, RollBackStep DEF Timeout
  <2>2. CASE phase[c] # "put"
    BY <1>0, <1>5, <1>7, <2>2, DiscardStep DEF Timeout
  <2> QED BY <2>1, <2>2
<1> QED BY <1>1, <1>2, <1>3, <1>4, <1>6, <1>7

-----------------------------------------------------------------------------
(* The server's side.                                                      *)

\* The server answers on a session that a caller has.
LEMMA ServerStep ==
    ASSUME PostgresConstants, Inv, NEW c \in Caller, NEW s \in Session, slot[s] = c,
           NEW conn \in Connection, NEW shown \in SUBSET ({c} \X (1..Rows)),
           server' = [server EXCEPT ![s] = conn], db' = db \cup shown,
           UNCHANGED <<slot, orphans, phase>>,
           Writes(c, conn), Serves(c, conn)', conn.asked # <<>> => conn.reply = "none",
           Shown(c)' \in {{}, 1..Rows}, phase[c] # "commit" => Shown(c)' = {}
    PROVE  Inv'
<1>1. \A d \in Caller \ {c} : Shown(d)' = Shown(d)
  BY DEF Shown
<1>2. \A t \in Session \ {s} : server'[t] = server[t] /\ slot[t] # c
  BY DEF Inv, TypeOK, OneSession, PostgresConstants
<1>3. server'[s] = conn /\ c # Nobody
  BY DEF Inv, TypeOK, PostgresConstants
<1>4. TypeOK'
  BY DEF Inv, TypeOK
<1>5. CleanSessions' /\ OneSession'
  BY <1>2, <1>3 DEF Inv, CleanSessions, OneSession
<1>6. HoldersAreServed'
  <2> SUFFICES ASSUME NEW t \in Session, slot[t] # Nobody
               PROVE  /\ Writes(slot[t], server[t])'
                      /\ Serves(slot[t], server[t])'
                      /\ server'[t].asked # <<>> => server'[t].reply = "none"
    BY DEF HoldersAreServed
  <2>1. CASE t = s
    BY <1>3, <2>1 DEF Writes, Serves, Shown, Spent
  <2>2. CASE t # s
    <3>1. server'[t] = server[t] /\ slot[t] \in Caller \ {c}
      BY <1>2, <2>2 DEF Inv, TypeOK
    <3>2. /\ Writes(slot[t], server[t]) /\ Serves(slot[t], server[t])
          /\ server[t].asked # <<>> => server[t].reply = "none"
      BY DEF Inv, HoldersAreServed
    <3>3. Shown(slot[t])' = Shown(slot[t])
      BY <1>1, <3>1 DEF Shown
    <3>4. Serves(slot[t], server[t])'
      BY <3>1, <3>2, <3>3 DEF Serves, Spent
    <3> QED BY <3>1, <3>2, <3>4 DEF Writes
  <2> QED BY <2>1, <2>2
<1>7. OrphansAreLost'
  BY DEF Inv, OrphansAreLost, Prefix
<1>8. ShownAsTold'
  <2>1. phase[c] # "ok"
    BY <1>3 DEF Inv, HoldersAreServed, Serves
  <2> QED BY <1>1, <2>1 DEF Inv, ShownAsTold
<1> QED BY <1>4, <1>5, <1>6, <1>7, <1>8 DEF Inv

\* A connection on which the server has answered.
LEMMA DoneType ==
    ASSUME NEW k \in Connection, k.asked # <<>>, NEW open \in BOOLEAN,
           NEW pending \in SUBSET (Caller \X (1..Rows)), NEW r \in Reply
    PROVE  \E conn \in Connection :
             /\ conn = Done(k, open, pending, r)
             /\ conn.open = open /\ conn.pending = pending
             /\ conn.asked = IF k.asked = <<"put", "rollback">> THEN <<"rollback">> ELSE <<>>
             /\ conn.reply = IF k.asked = <<"put", "rollback">> THEN "none" ELSE r
<1>1. PICK q \in Queue :
        q = Tail(k.asked) /\ q = IF k.asked = <<"put", "rollback">> THEN <<"rollback">> ELSE <<>>
  BY Queues DEF Connection, Queue
<1>2. PICK p \in Reply :
        /\ p = IF q = <<>> THEN r ELSE "none"
        /\ p = IF k.asked = <<"put", "rollback">> THEN "none" ELSE r
  BY <1>1, Queues DEF Reply
<1>3. PICK conn : conn = [open |-> open, pending |-> pending, asked |-> q, reply |-> p]
  OBVIOUS
<1>4. conn = Done(k, open, pending, r)
  BY <1>1, <1>2, <1>3 DEF Done
<1>5. conn \in Connection
  BY <1>3 DEF Connection, Reply
<1> QED BY <1>1, <1>2, <1>3, <1>4, <1>5

\* An answer that leaves only itself on the connection.
LEMMA AnswerOnly ==
    ASSUME PostgresConstants, NEW conn, conn.pending = {}, conn.asked = <<>>, NEW c
    PROVE  Writes(c, conn) /\ (conn.open = FALSE => Spent(conn))
<1>1. Writes(c, conn)
  <2>1. Prefix(c, 0) = {} /\ 0 \in 0..Rows
    BY DEF Prefix, PostgresConstants
  <2> QED BY <2>1, Queues DEF Writes
<1> QED BY <1>1 DEF Spent

\* The first request is a statement: the transaction has one more row or not.
LEMMA PutAnswered ==
    ASSUME PostgresConstants, NEW k \in Connection, NEW c \in Caller, Writes(c, k),
           k.asked \in {<<"put">>, <<"put", "rollback">>}, NEW d \in Does(k, c)
    PROVE  /\ d.shown = {}
           /\ \E conn \in Connection :
                /\ conn = d.conn /\ Writes(c, conn)
                /\ conn.asked = IF k.asked = <<"put", "rollback">> THEN <<"rollback">> ELSE <<>>
                /\ conn.asked # <<>> => conn.reply = "none"
<1>0. /\ Head(k.asked) = "put" /\ k.asked # <<>>
      /\ k.open \in BOOLEAN /\ k.pending \in SUBSET (Caller \X (1..Rows))
  BY Queues DEF Connection
<1>1. PICK m \in 0..Rows : k.pending = Prefix(c, m) /\ m < Rows
  BY DEF Writes
<1>2. \/ d = [conn |-> Done(k, k.open, k.pending \cup {<<c, Cardinality(k.pending) + 1>>}, "ok"),
              shown |-> {}]
      \/ \E r \in {"conflict", "error"} :
            d = [conn |-> Done(k, k.open, k.pending, r), shown |-> {}]
  BY <1>0 DEF Does
<1>3. PICK j \in 0..Rows, p \in SUBSET (Caller \X (1..Rows)), r \in Reply :
        p = Prefix(c, j) /\ d = [conn |-> Done(k, k.open, p, r), shown |-> {}]
  <2>1. CASE \E r \in {"conflict", "error"} :
               d = [conn |-> Done(k, k.open, k.pending, r), shown |-> {}]
    BY <1>0, <1>1, <2>1 DEF Reply
  <2>2. CASE d = [conn |-> Done(k, k.open, k.pending \cup {<<c, Cardinality(k.pending) + 1>>}, "ok"),
                  shown |-> {}]
    <3>1. Cardinality(k.pending) = m
      BY <1>1, PrefixCardinality DEF PostgresConstants
    <3>2. m + 1 \in 0..Rows /\ Prefix(c, m + 1) = k.pending \cup {<<c, m + 1>>}
      BY <1>1, PrefixNext DEF PostgresConstants
    <3>3. Prefix(c, m + 1) \in SUBSET (Caller \X (1..Rows))
      BY <3>2 DEF Prefix, PostgresConstants
    <3> QED BY <2>2, <3>1, <3>2, <3>3 DEF Reply
  <2> QED BY <1>2, <2>1, <2>2
<1>4. PICK conn \in Connection :
        /\ conn = Done(k, k.open, p, r) /\ conn.pending = p
        /\ conn.asked = IF k.asked = <<"put", "rollback">> THEN <<"rollback">> ELSE <<>>
        /\ conn.reply = IF k.asked = <<"put", "rollback">> THEN "none" ELSE r
  BY <1>0, DoneType
<1>5. Writes(c, conn)
  BY <1>3, <1>4, Queues DEF Writes
<1> QED BY <1>3, <1>4, <1>5

LEMMA ServerAnswersStep ==
    ASSUME PostgresConstants, Inv, NEW s \in Session, ServerAnswers(s)
    PROVE  Inv'
<1>0. server[s].asked # <<>> /\ UNCHANGED <<slot, orphans, phase>>
  BY DEF ServerAnswers
<1>1. PICK d \in Does(server[s], slot[s]) :
        /\ server' = [server EXCEPT ![s] = d.conn]
        /\ db' = db \cup d.shown
  BY DEF ServerAnswers
<1>2. slot[s] # Nobody
  BY <1>0, FreshType DEF Inv, CleanSessions
<1>3. PICK c \in Caller : c = slot[s] /\ c # Nobody
  BY <1>2 DEF Inv, TypeOK
<1>4. Holds(c, s)
  BY <1>3 DEF Holds
<1>5. /\ server[s] \in Connection /\ Writes(c, server[s]) /\ Serves(c, server[s])
      /\ server[s].reply = "none" /\ (phase[c] # "commit" => Shown(c) = {})
  BY <1>0, <1>4, Held
<1>6. PICK m \in 0..Rows : /\ server[s].pending = Prefix(c, m)
                           /\ server[s].asked = <<"commit">> => m = Rows
  BY <1>5 DEF Writes
<1>7. /\ server[s].asked \in {<<q>> : q \in {"begin", "put", "commit", "rollback"}}
                                 \cup {<<"put", "rollback">>}
      /\ ~Spent(server[s])
  BY <1>0, <1>5 DEF Connection, Queue, Spent
<1>8. /\ server[s].asked = <<"begin">> => phase[c] = "begin"
      /\ server[s].asked = <<"put">> => phase[c] = "put"
      /\ server[s].asked = <<"commit">> => phase[c] = "commit" /\ Shown(c) = {}
      /\ server[s].asked \in {<<"rollback">>, <<"put", "rollback">>} => phase[c] \in {"undo", "undo conflict"}
  BY <1>5, <1>7, Queues DEF Serves
<1>9. Shown(c) = {}
  BY <1>5, <1>7, <1>8
<1>10. ASSUME d.shown = {} PROVE Shown(c)' = {}
  BY <1>1, <1>9, <1>10 DEF Shown
<1>11. CASE server[s].asked = <<"begin">>
  <2>1. \E open \in BOOLEAN, r \in {"ok", "error"} :
          d = [conn |-> Done(server[s], open, {}, r), shown |-> {}]
    BY <1>1, <1>11, Queues DEF Does
  <2>2. PICK conn \in Connection :
          /\ conn = d.conn /\ conn.asked = <<>> /\ Writes(c, conn)
    <3>1. PICK open \in BOOLEAN, r \in {"ok", "error"} :
            d = [conn |-> Done(server[s], open, {}, r), shown |-> {}]
      BY <2>1
    <3>2. d.conn = Done(server[s], open, {}, r) /\ r \in Reply
      BY <3>1 DEF Reply
    <3>3. PICK conn \in Connection :
            /\ conn = Done(server[s], open, {}, r)
            /\ conn.asked = <<>> /\ conn.reply = r
            /\ Writes(c, conn)
      <4>1. server[s].asked # <<"put", "rollback">>
        BY <1>11, QueuesDiffer
      <4>2. PICK k \in Connection :
              k = server[s] /\ k.asked # <<>> /\ k.asked # <<"put", "rollback">>
        BY <1>0, <1>5, <4>1
      <4>3. PICK a \in Reply : a = r
        BY <3>2
      <4>4. PICK conn \in Connection :
              /\ conn = Done(k, open, {}, a) /\ conn.open = open
              /\ conn.pending = {} /\ conn.asked = <<>> /\ conn.reply = a
        BY <4>2, DoneType
      <4>5. Writes(c, conn) /\ (conn.open = FALSE => Spent(conn))
        BY <4>4, AnswerOnly
      <4> QED BY <4>2, <4>3, <4>4, <4>5
    <3> QED BY <3>2, <3>3
  <2>3. d.shown = {}
    BY <2>1
  <2>4. Serves(c, conn)'
    BY <1>0, <1>8, <1>11, <2>2 DEF Serves
  <2> QED BY <1>0, <1>1, <1>3, <1>8, <1>10, <1>11, <2>2, <2>3, <2>4, ServerStep
<1>12. CASE server[s].asked \in {<<"put">>, <<"put", "rollback">>}
  <2>1. d.shown = {}
    BY <1>1, <1>3, <1>5, <1>12, PutAnswered
  <2>2. PICK conn \in Connection :
          /\ conn = d.conn /\ Writes(c, conn)
          /\ conn.asked = IF server[s].asked = <<"put", "rollback">> THEN <<"rollback">> ELSE <<>>
          /\ conn.asked # <<>> => conn.reply = "none"
    BY <1>1, <1>3, <1>5, <1>12, PutAnswered
  <2>3. Serves(c, conn)'
    BY <1>0, <1>8, <1>12, <2>2 DEF Serves
  <2>4. phase[c] # "commit"
    BY <1>8, <1>12
  <2>5. d.shown \in SUBSET ({c} \X (1..Rows))
    BY <2>1
  <2> QED BY <1>0, <1>1, <1>3, <1>10, <2>1, <2>2, <2>3, <2>4, <2>5, ServerStep
<1>13. CASE server[s].asked = <<"commit">>
  <2>1. PICK r \in {"ok", "conflict", "error"} :
          d = [conn |-> Done(server[s], FALSE, {}, r),
               shown |-> IF r = "ok" THEN server[s].pending ELSE {}]
    BY <1>1, <1>13, Queues DEF Does
  <2>2. r \in Reply /\ d.conn = Done(server[s], FALSE, {}, r)
    BY <2>1 DEF Reply
  <2>3. PICK conn \in Connection :
          /\ conn = d.conn /\ conn.asked = <<>> /\ conn.reply = r
          /\ Writes(c, conn) /\ Spent(conn)
    <3>1. server[s].asked # <<"put", "rollback">>
      BY <1>13, QueuesDiffer
    <3>2. PICK k \in Connection :
            k = server[s] /\ k.asked # <<>> /\ k.asked # <<"put", "rollback">>
      BY <1>0, <1>5, <3>1
    <3>3. PICK open \in BOOLEAN, a \in Reply : open = FALSE /\ a = r
      BY <2>2
    <3>4. PICK conn \in Connection :
            /\ conn = Done(k, open, {}, a) /\ conn.open = open
            /\ conn.pending = {} /\ conn.asked = <<>> /\ conn.reply = a
      BY <3>2, DoneType
    <3>5. Writes(c, conn) /\ (conn.open = FALSE => Spent(conn))
      BY <3>4, AnswerOnly
    <3> QED BY <2>2, <3>2, <3>3, <3>4, <3>5
  <2>4. server[s].pending = Prefix(c, Rows)
    BY <1>6, <1>13
  <2>5. Shown(c)' = IF r = "ok" THEN 1..Rows ELSE {}
    <3>1. CASE r = "ok"
      <4>1. db' = db \cup Prefix(c, Rows)
        BY <1>1, <2>1, <2>4, <3>1
      <4> QED BY <3>1, <4>1 DEF Shown, Prefix
    <3>2. CASE r # "ok"
      BY <1>10, <2>1, <3>2
    <3> QED BY <3>1, <3>2
  <2>6. Serves(c, conn)'
    BY <1>0, <1>8, <1>13, <2>3, <2>5 DEF Serves, Spent
  <2>7. d.shown \in SUBSET ({c} \X (1..Rows))
    BY <2>1, <2>4 DEF Prefix
  <2> QED BY <1>0, <1>1, <1>3, <1>8, <1>13, <2>3, <2>5, <2>6, <2>7, ServerStep
<1>14. CASE server[s].asked = <<"rollback">>
  <2>1. d = [conn |-> Done(server[s], FALSE, {}, "ok"), shown |-> {}]
    BY <1>1, <1>14, Queues DEF Does
  <2>2. "ok" \in Reply
    BY DEF Reply
  <2>3. PICK conn \in Connection :
          /\ conn = d.conn /\ conn.asked = <<>> /\ Writes(c, conn) /\ Spent(conn)
    <3>1. server[s].asked # <<"put", "rollback">>
      BY <1>14, QueuesDiffer
    <3>2. PICK k \in Connection :
            k = server[s] /\ k.asked # <<>> /\ k.asked # <<"put", "rollback">>
      BY <1>0, <1>5, <3>1
    <3>3. PICK open \in BOOLEAN, a \in Reply : open = FALSE /\ a = "ok"
      BY <2>2
    <3>4. PICK conn \in Connection :
            /\ conn = Done(k, open, {}, a) /\ conn.open = open
            /\ conn.pending = {} /\ conn.asked = <<>> /\ conn.reply = a
      BY <3>2, DoneType
    <3>5. Writes(c, conn) /\ (conn.open = FALSE => Spent(conn))
      BY <3>4, AnswerOnly
    <3> QED BY <2>1, <3>2, <3>3, <3>4, <3>5
  <2>4. d.shown = {}
    BY <2>1
  <2>5. Serves(c, conn)'
    BY <1>0, <1>8, <1>14, <2>3 DEF Serves, Spent
  <2> QED BY <1>0, <1>1, <1>3, <1>8, <1>10, <1>14, <2>3, <2>4, <2>5, ServerStep
<1> QED BY <1>7, <1>11, <1>12, <1>13, <1>14

LEMMA OrphanEndsStep ==
    ASSUME PostgresConstants, Inv, NEW o \in orphans, OrphanEnds(o)
    PROVE  Inv'
<1>1. orphans' = orphans \ {o} /\ UNCHANGED <<slot, server, phase>>
  BY DEF OrphanEnds
<1>2. CASE UNCHANGED db
  <2>1. \A c \in Caller : Shown(c)' = Shown(c)
    BY <1>2, ShownKept
  <2>2. TypeOK' /\ CleanSessions' /\ OneSession' /\ OrphansAreLost'
    BY <1>1, <1>2 DEF Inv, TypeOK, CleanSessions, OneSession, OrphansAreLost, Prefix
  <2>3. HoldersAreServed'
    BY <1>1, <2>1 DEF Inv, TypeOK, HoldersAreServed, Serves, Writes, Spent
  <2>4. ShownAsTold'
    BY <1>1, <2>1 DEF Inv, ShownAsTold
  <2> QED BY <2>2, <2>3, <2>4 DEF Inv
<1>3. CASE o.asked = <<"commit">> /\ db' = db \cup o.pending
  <2>1. PICK c \in Caller : o.pending = Prefix(c, Rows) /\ phase[c] \in {"lost", "dropped"}
    BY <1>3 DEF Inv, OrphansAreLost
  <2>2. \A d \in Caller \ {c} : Shown(d)' = Shown(d)
    BY <1>3, <2>1 DEF Shown, Prefix
  <2>3. Shown(c)' = 1..Rows
    BY <1>3, <2>1 DEF Shown, Prefix
  <2>4. TypeOK'
    BY <1>1, <1>3 DEF Inv, TypeOK, Connection
  <2>5. HoldersAreServed'
    <3> SUFFICES ASSUME NEW t \in Session, slot[t] # Nobody
                 PROVE  /\ Writes(slot[t], server[t])'
                        /\ Serves(slot[t], server[t])'
                        /\ server'[t].asked # <<>> => server'[t].reply = "none"
      BY <1>1 DEF HoldersAreServed
    <3>1. /\ Writes(slot[t], server[t]) /\ Serves(slot[t], server[t])
          /\ server[t].asked # <<>> => server[t].reply = "none"
      BY DEF Inv, HoldersAreServed
    <3>2. slot[t] \in Caller \ {c}
      BY <2>1, <3>1 DEF Inv, TypeOK, Serves
    <3>3. Shown(slot[t])' = Shown(slot[t])
      BY <1>1, <2>2, <3>2 DEF Shown
    <3> QED BY <1>1, <3>1, <3>3 DEF Serves, Writes, Spent
  <2>6. ShownAsTold'
    BY <1>1, <2>1, <2>2, <2>3 DEF Inv, ShownAsTold
  <2> QED BY <1>1, <2>4, <2>5, <2>6
     DEF Inv, CleanSessions, OneSession, OrphansAreLost, Prefix
<1> QED BY <1>2, <1>3 DEF OrphanEnds

LEMMA BeginTimeoutStep ==
    ASSUME PostgresConstants, Inv, NEW c \in Caller, BeginTimeout(c)
    PROVE  Inv'
<1>1. /\ phase[c] = "idle" /\ phase' = [phase EXCEPT ![c] = "failed"]
      /\ UNCHANGED <<slot, server, orphans, db>>
  BY DEF BeginTimeout
<1>2. \A d \in Caller : Shown(d)' = Shown(d)
  BY <1>1, ShownKept
<1>3. TypeOK'
  BY <1>1 DEF Inv, TypeOK
<1>4. HoldersAreServed'
  <2> SUFFICES ASSUME NEW t \in Session, slot[t] # Nobody
               PROVE  /\ Writes(slot[t], server[t])'
                      /\ Serves(slot[t], server[t])'
                      /\ server'[t].asked # <<>> => server'[t].reply = "none"
    BY <1>1 DEF HoldersAreServed
  <2>1. /\ Writes(slot[t], server[t]) /\ Serves(slot[t], server[t])
        /\ server[t].asked # <<>> => server[t].reply = "none"
    BY DEF Inv, HoldersAreServed
  <2>2. slot[t] \in Caller \ {c}
    BY <1>1, <2>1 DEF Inv, TypeOK, Serves
  <2>3. Shown(slot[t])' = Shown(slot[t]) /\ phase'[slot[t]] = phase[slot[t]]
    BY <1>1, <1>2, <2>2 DEF Shown, Inv, TypeOK
  <2> QED BY <1>1, <2>1, <2>3 DEF Serves, Writes, Spent
<1>5. OrphansAreLost' /\ ShownAsTold'
  BY <1>1, <1>2 DEF Inv, TypeOK, OrphansAreLost, ShownAsTold, Prefix
<1> QED BY <1>1, <1>3, <1>4, <1>5 DEF Inv, CleanSessions, OneSession

LEMMA StutterStep == ASSUME Inv, UNCHANGED vars PROVE Inv'
<1>1. \A c \in Caller : Shown(c)' = Shown(c)
  BY DEF vars, Shown
<1>2. HoldersAreServed'
  BY <1>1 DEF Inv, TypeOK, vars, HoldersAreServed, Serves, Writes, Spent
<1> QED BY <1>1, <1>2 DEF Inv, vars, TypeOK, CleanSessions, OneSession, OrphansAreLost,
                         ShownAsTold, Prefix

LEMMA InvStep == ASSUME PostgresConstants, Inv, [Next]_vars PROVE Inv'
<1>1. CASE UNCHANGED vars
  BY <1>1, StutterStep
<1>2. ASSUME NEW c \in Caller, NEW s \in Session, Begin(c, s) \/ Round(c, s) \/ Drop(c, s)
      PROVE  Inv'
  BY <1>2, BeginStep, StatementStep, ProceedStep, RefusedStep, EndStep DEF Round
<1>3. ASSUME NEW c \in Caller, BeginTimeout(c) PROVE Inv'
  BY <1>3, BeginTimeoutStep
<1>4. ASSUME NEW s \in Session, ServerAnswers(s) PROVE Inv'
  BY <1>4, ServerAnswersStep
<1>5. ASSUME NEW o \in orphans, OrphanEnds(o) PROVE Inv'
  BY <1>5, OrphanEndsStep
<1> QED BY <1>1, <1>2, <1>3, <1>4, <1>5 DEF Next

LEMMA InvImplies == ASSUME PostgresConstants, Inv PROVE PostgresIsClean
<1>1. CleanSessions /\ WholeTransactions
  BY DEF Inv, ShownAsTold, Shown, WholeTransactions
<1>2. RetriesAreSafe
  <2> SUFFICES ASSUME NEW c \in Caller, phase[c] = "conflict", NEW n \in 1..Rows
               PROVE  /\ <<c, n>> \notin db
                      /\ \A o \in orphans : o.asked = <<"commit">> => <<c, n>> \notin o.pending
    BY DEF RetriesAreSafe
  <2>1. <<c, n>> \notin db
    BY DEF Inv, ShownAsTold, Shown
  <2>2. \A o \in orphans : o.asked = <<"commit">> => <<c, n>> \notin o.pending
    BY DEF Inv, OrphansAreLost, Prefix
  <2> QED BY <2>1, <2>2
<1> QED BY <1>1, <1>2 DEF PostgresIsClean

\* Whatever times out, breaks, is refused or is dropped, a session goes back to
\* the pool with nothing on it, a call that is told of a conflict was not and
\* will not be applied, and a transaction shows whole or not at all and always
\* when its caller was told so.
THEOREM PostgresSafety == ASSUME PostgresConstants PROVE Spec => []PostgresIsClean
<1>1. Init => Inv
  BY InvInit
<1>2. Inv /\ [Next]_vars => Inv'
  BY InvStep
<1>3. Inv => PostgresIsClean
  BY InvImplies
<1> QED BY <1>1, <1>2, <1>3, PTL DEF Spec

=============================================================================
