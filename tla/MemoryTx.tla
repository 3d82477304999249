------------------------------ MODULE MemoryTx ------------------------------
(***************************************************************************)
(* The optimistic transactions of the memory store                         *)
(* (crates/durable/src/memory.rs) under the retries of                     *)
(* TransactionalStore::transact (crates/durable/src/backend.rs).           *)
(*                                                                         *)
(* A row carries a version that every write renews.  A transaction keeps   *)
(* the row versions that its gets and range scans observed and a private   *)
(* map of writes; commit validates the observations under the store's lock *)
(* and applies the writes, or reports a conflict, which the caller retries *)
(* from nothing.  Every get, scan, put and commit takes the lock for       *)
(* itself, so the calls interleave between any two of them.                *)
(***************************************************************************)
EXTENDS Naturals, Sequences, FiniteSets

CONSTANTS
    Call, Key, Missing,
    Value,          \* what a row may hold
    Program,        \* the operations a call may be made of
    MaxAttempts     \* attempts before a call is given up (128 in the code)

Op == [do : {"get"}, key : Key]
      \cup [do : {"scan"}, start : Nat, end : Nat, limit : Nat]
      \cup [do : {"put"}, key : Key, value : Value \cup {Missing}]

ASSUME MemoryAssumption ==
    /\ Key \subseteq Nat /\ IsFiniteSet(Key)
    /\ "old" \in Value /\ Missing \notin Value
    /\ Program \subseteq [ops : Seq(Op), read : BOOLEAN]
    /\ MaxAttempts \in Nat

VARIABLES
    rows,           \* [version, value] of each key; version 0 when absent
    fresh,          \* the versions used so far
    call,           \* per call: its program, the log of this attempt, attempts
    tx,             \* per call: reads, scans and writes of the open attempt
    outcome,        \* per call: "pending", or how it ended
    past            \* history: every <<key, row>> there has been

vars == <<rows, fresh, call, tx, outcome, past>>

Absent == [version |-> 0, value |-> Missing]

Empty == [k \in {} |-> 0]

\* The map f with k set to v.
With(f, k, v) == [j \in DOMAIN f \cup {k} |-> IF j = k THEN v ELSE f[j]]

NoTx == [reads |-> Empty, scans |-> {}, writes |-> Empty]

Atomic == INSTANCE AtomicStore WITH
    store <- [k \in Key |-> rows[k].value],
    log <- [c \in Call |-> IF outcome[c] \in {"ok", "lost"} THEN call[c].log ELSE << >>]

Open(c) == outcome[c] = "pending"

\* The operation a call does next.
Doing(c, do) ==
    /\ Open(c)
    /\ Len(call[c].log) < Len(call[c].program.ops)
    /\ call[c].program.ops[Len(call[c].log) + 1].do = do

Current(c) == call[c].program.ops[Len(call[c].log) + 1]

Logged(c, o) == [call EXCEPT ![c].log = Append(@, o)]

-----------------------------------------------------------------------------
(* Reads.                                                                  *)

\* The reads after a point read of k: the first one is kept.
Observed(x, k) ==
    IF k \in DOMAIN x.writes \cup DOMAIN x.reads THEN x.reads
    ELSE With(x.reads, k, rows[k])

\* MemoryTransaction::get: its own write, or the first observation.
Get(c) ==
    LET k == Current(c).key
    IN /\ Doing(c, "get")
       /\ tx' = [tx EXCEPT ![c].reads = Observed(tx[c], k)]
       /\ call' = Logged(c, [do |-> "get", key |-> k,
                             saw |-> IF k \in DOMAIN tx[c].writes THEN tx[c].writes[k]
                                     ELSE Observed(tx[c], k)[k].value])
       /\ UNCHANGED <<rows, fresh, outcome, past>>

\* range: the versions of a table's rows in [start, end), up to a limit.
Stored(table, start, end, limit) ==
    LET present == {k \in Key : start <= k /\ k < end /\ table[k].version # 0}
    IN [k \in Atomic!First(present, limit) |-> table[k].version]

\* A scan observes as many rows more as its own writes may hide.
ReadLimit(x, limit) == limit + Cardinality(DOMAIN x.writes)

\* What a scan returns: the rows observed, under the transaction's own writes.
Merged(x, o, table, observed) ==
    LET own == {k \in DOMAIN x.writes : o.start <= k /\ k < o.end}
        merged == [k \in (observed \cup own) |->
                      IF k \in own THEN x.writes[k] ELSE table[k].value]
        found == {k \in observed \cup own : merged[k] # Missing}
    IN [k \in Atomic!First(found, o.limit) |-> merged[k]]

ScanSaw(o, saw) ==
    [do |-> "scan", start |-> o.start, end |-> o.end, limit |-> o.limit, saw |-> saw]

\* MemoryTransaction::scan: nothing is observed when nothing can be found.
Scan(c) ==
    LET o == Current(c)
        limit == ReadLimit(tx[c], o.limit)
        versions == Stored(rows, o.start, o.end, limit)
    IN /\ Doing(c, "scan")
       /\ IF o.limit = 0 \/ o.end <= o.start
          THEN /\ call' = Logged(c, ScanSaw(o, Empty))
               /\ UNCHANGED tx
          ELSE /\ call' = Logged(c, ScanSaw(o, Merged(tx[c], o, rows, DOMAIN versions)))
               /\ tx' = [tx EXCEPT ![c].scans = @ \cup
                            {[start |-> o.start, end |-> o.end, limit |-> limit, versions |-> versions]}]
       /\ UNCHANGED <<rows, fresh, outcome, past>>

-----------------------------------------------------------------------------
(* Writes.                                                                 *)

\* MemoryTransaction::put and delete: the old row is read first.
Put(c) ==
    LET o == Current(c)
    IN /\ Doing(c, "put")
       /\ ~call[c].program.read
       /\ tx' = [tx EXCEPT ![c] = [reads |-> Observed(@, o.key), scans |-> @.scans,
                                   writes |-> With(@.writes, o.key, o.value)]]
       /\ call' = Logged(c, o)
       /\ UNCHANGED <<rows, fresh, outcome, past>>

\* ReadTransaction::put and delete, and a read-only store: refused, so the
\* operation fails and is rolled back.
PutRefused(c) ==
    /\ Doing(c, "put")
    /\ call[c].program.read
    /\ outcome' = [outcome EXCEPT ![c] = "failed"]
    /\ tx' = [tx EXCEPT ![c] = NoTx]
    /\ UNCHANGED <<rows, fresh, call, past>>

-----------------------------------------------------------------------------
(* The end of an attempt.                                                  *)

\* The point observations that a range validates by itself.
Ranged(x) == UNION {{<<k, s.versions[k]>> : k \in DOMAIN s.versions} : s \in x.scans}

PointsHold(x, table) ==
    \A k \in DOMAIN x.reads :
        \/ x.reads[k].version # 0 /\ <<k, x.reads[k].version>> \in Ranged(x)
        \/ table[k].version = x.reads[k].version

\* Altered: only the rows that a scan returned are looked at again.
RangesHoldOfSeenRows(x, table) ==
    \A s \in x.scans : \A k \in DOMAIN s.versions : table[k].version = s.versions[k]

RangesHold(x, table) ==
    \A s \in x.scans : Stored(table, s.start, s.end, s.limit) = s.versions

\* What the transaction observed is so in a table.
Holds(x, table) == PointsHold(x, table) /\ RangesHold(x, table)

Ready(c) ==
    /\ Open(c)
    /\ Len(call[c].log) = Len(call[c].program.ops)

\* A written row gets a version that its key never had (versions are compared
\* key by key, so one commit needs one); a deleted row has none.
Written(c) ==
    [k \in Key |->
        IF k \notin DOMAIN tx[c].writes THEN rows[k]
        ELSE IF tx[c].writes[k] = Missing THEN Absent
        ELSE [version |-> fresh + 1, value |-> tx[c].writes[k]]]

\* MemoryTransaction::commit; an error after the writes loses the answer.
Commit(c) ==
    /\ Ready(c)
    /\ Holds(tx[c], rows)
    /\ rows' = Written(c)
    /\ fresh' = IF DOMAIN tx[c].writes = {} THEN fresh ELSE fresh + 1
    /\ \E x \in {"ok", "lost"} : outcome' = [outcome EXCEPT ![c] = x]
    /\ tx' = [tx EXCEPT ![c] = NoTx]
    /\ past' = past \cup {<<k, rows'[k]>> : k \in Key}
    /\ UNCHANGED call

\* The call from its beginning, once more.
Again(k) == [program |-> k.program, log |-> << >>, attempt |-> k.attempt + 1]

CanRetry(c) == call[c].attempt + 1 < MaxAttempts

\* A conflict: transact begins the operation again, or gives up.
Conflict(c) ==
    /\ Ready(c)
    /\ ~Holds(tx[c], rows)
    /\ tx' = [tx EXCEPT ![c] = NoTx]
    /\ IF CanRetry(c)
       THEN /\ call' = [call EXCEPT ![c] = Again(@)]
            /\ UNCHANGED outcome
       ELSE /\ outcome' = [outcome EXCEPT ![c] = "failed"]
            /\ UNCHANGED call
    /\ UNCHANGED <<rows, fresh, past>>

\* The transaction is dropped at an await, or fails before it commits.
Drop(c) ==
    /\ Open(c)
    /\ outcome' = [outcome EXCEPT ![c] = "failed"]
    /\ tx' = [tx EXCEPT ![c] = NoTx]
    /\ UNCHANGED <<rows, fresh, call, past>>

-----------------------------------------------------------------------------

\* A store with some rows, and the calls about to begin.
Init ==
    /\ \E present \in SUBSET Key :
          rows = [k \in Key |-> IF k \in present THEN [version |-> 1, value |-> "old"]
                                ELSE Absent]
    /\ fresh = 1
    /\ call \in [Call -> [program : Program, log : {<< >>}, attempt : {0}]]
    /\ tx = [c \in Call |-> NoTx]
    /\ outcome = [c \in Call |-> "pending"]
    /\ past = {<<k, rows[k]>> : k \in Key}

Next == \E c \in Call : \/ Get(c) \/ Scan(c) \/ Put(c) \/ PutRefused(c)
                        \/ Commit(c) \/ Conflict(c) \/ Drop(c)

Spec == Init /\ [][Next]_vars

-----------------------------------------------------------------------------

\* Transactions are serializable, phantoms included: whatever a committed call
\* saw is what it would have seen had it run alone when it committed, and a
\* call that failed left nothing (memory.rs, `commit'; backend.rs, `transact').
Serializable == Atomic!Spec

=============================================================================
