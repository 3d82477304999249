---------------------------- MODULE AtomicStore ----------------------------
(***************************************************************************)
(* What the store promises a caller of `update' or `read' (the Transaction *)
(* contract of crates/durable/src/backend.rs): a call that succeeds took   *)
(* all its reads and applied all its writes at one instant; a call that    *)
(* fails applied nothing, except that a commit whose answer is lost may    *)
(* have been applied as a whole.                                           *)
(***************************************************************************)
EXTENDS Naturals, Sequences, FiniteSets

CONSTANTS
    Call,       \* calls of the store
    Key,        \* row keys of one kind, a set of numbers, in key order
    Missing     \* the value of a key without a row

VARIABLES
    store,      \* the value of each key
    log,        \* per call, what it did and saw when it took place
    outcome     \* per call, how it ended

vars == <<store, log, outcome>>

\* The first `limit' members of a set of keys.
First(keys, limit) == {k \in keys : Cardinality({j \in keys : j < k}) < limit}

\* The rows of [start, end), at most `limit' of them.
ScanOf(view, start, end, limit) ==
    LET present == {k \in Key : start <= k /\ k < end /\ view[k] # Missing}
    IN [k \in First(present, limit) |-> view[k]]

\* Whether an operation saw what it would see in this view of the rows.
Sees(view, o) ==
    CASE o.do = "get"  -> o.saw = view[o.key]
      [] o.do = "scan" -> o.saw = ScanOf(view, o.start, o.end, o.limit)
      [] o.do = "put"  -> TRUE

\* A delete is a put of Missing.
Effect(view, o) == IF o.do = "put" THEN [view EXCEPT ![o.key] = o.value] ELSE view

\* The rows as operation i of the log leaves them.
Views(ops, rows) ==
    LET view[i \in 0..Len(ops)] == IF i = 0 THEN rows ELSE Effect(view[i - 1], ops[i])
    IN view

Explains(ops, rows) == \A i \in DOMAIN ops : Sees(Views(ops, rows)[i - 1], ops[i])

-----------------------------------------------------------------------------

\* The call takes place, and its caller learns it or loses the answer.
TakePlace(c) ==
    /\ outcome[c] = "pending"
    /\ outcome' \in {[outcome EXCEPT ![c] = x] : x \in {"ok", "lost"}}
    /\ log' = [log EXCEPT ![c] = log'[c]]
    /\ Explains(log'[c], store)
    /\ store' = Views(log'[c], store)[Len(log'[c])]

\* The call ends and nothing of it is applied.
Fail(c) ==
    /\ outcome[c] = "pending"
    /\ outcome' = [outcome EXCEPT ![c] = "failed"]
    /\ UNCHANGED <<store, log>>

Init ==
    /\ log = [c \in Call |-> << >>]
    /\ outcome = [c \in Call |-> "pending"]

Next == \E c \in Call : TakePlace(c) \/ Fail(c)

Spec == Init /\ [][Next]_vars
=============================================================================
