------------------------------ MODULE Workers ------------------------------
(***************************************************************************)
(* Worker liveness rows: Runtime::heartbeat and the last beat of           *)
(* Runtime::worker (runtime/src/execution.rs), RunStore::beat, sweep and   *)
(* workers (durable/src/engine.rs), Control::workers (runtime/src/         *)
(* control.rs).                                                            *)
(*                                                                         *)
(* A beat carries the clock reading it was composed with and may commit    *)
(* late: the worker's own loop, a host that calls heartbeat and a retried  *)
(* commit are all in flight at once.                                       *)
(***************************************************************************)
EXTENDS Integers, FiniteSets, FiniteSetsExt

CONSTANTS
    Worker,
    LeaseMs,    \* a beat is good for a lease
    KeptMs,     \* WORKERS_KEPT_MS
    InFlight,   \* how many beats of a worker are under way
    MaxTime,
    None

WorkersConstants ==
    /\ LeaseMs \in Nat \ {0} /\ KeptMs \in Nat /\ MaxTime \in Nat
    /\ InFlight \in Nat \ {0}

VARIABLES
    now,
    row,        \* `worker': the row of each worker, or None
    expiry,     \* `worker_expiry': <<expires, worker>>
    flying,     \* the beats composed and not committed
    process     \* "up", "stopping" (its beats are drained), "stopped" or "dead"
vars == <<now, row, expiry, flying, process>>

Beat(t, e) == [beat |-> t, expires |-> e]

Init ==
    /\ now = 0
    /\ row = [w \in Worker |-> None]
    /\ expiry = {}
    /\ flying = [w \in Worker |-> {}]
    /\ process = [w \in Worker |-> "up"]

\* heartbeat: the clock is read, the commit is awaited.
Compose(w) ==
    /\ process[w] = "up" /\ Cardinality(flying[w]) < InFlight
    /\ flying' = [flying EXCEPT ![w] = @ \cup {Beat(now, now + LeaseMs)}]
    /\ UNCHANGED <<now, row, expiry, process>>

\* A beat older than the row's is dropped.
Late(w, b) == row[w] # None /\ row[w].beat > b.beat

Reindexed(w, b) ==
    (IF row[w] = None THEN expiry ELSE expiry \ {<<row[w].expires, w>>})
    \cup {<<b.expires, w>>}

Stores(w, b) ==
    IF Late(w, b) THEN UNCHANGED <<row, expiry>>
    ELSE /\ expiry' = Reindexed(w, b)
         /\ row' = [row EXCEPT ![w] = b]
Commit(w, b) ==
    /\ b \in flying[w] /\ process[w] # "dead"
    /\ Stores(w, b)
    /\ flying' = [flying EXCEPT ![w] = @ \ {b}]
    /\ UNCHANGED <<now, process>>

\* The worker is told to stop; its beats are drained and its last one says
\* that it holds nothing and is stale at once.
Stop(w) ==
    /\ process[w] = "up"
    /\ process' = [process EXCEPT ![w] = "stopping"]
    /\ UNCHANGED <<now, row, expiry, flying>>
Drained(w) == flying[w] = {}
Bye(w) ==
    /\ process[w] = "stopping" /\ Drained(w)
    /\ Stores(w, Beat(now, now))
    /\ process' = [process EXCEPT ![w] = "stopped"]
    /\ UNCHANGED <<now, flying>>

\* The process dies; a commit it had sent may still arrive.
Die(w) ==
    /\ process[w] \in {"up", "stopping"}
    /\ process' = [process EXCEPT ![w] = "dead"]
    /\ UNCHANGED <<now, row, expiry, flying>>
Arrive(w, b) ==
    /\ process[w] = "dead" /\ b \in flying[w]
    /\ flying' = [flying EXCEPT ![w] = {}]
    /\ Stores(w, b)
    /\ UNCHANGED <<now, process>>

\* sweep: rows stale for KeptMs, found in the expiry index.
Swept == {x \in expiry : x[1] <= now - KeptMs}
Sweep ==
    /\ Swept # {}
    /\ expiry' = expiry \ Swept
    /\ row' = [w \in Worker |-> IF \E x \in Swept : x[2] = w THEN None ELSE row[w]]
    /\ UNCHANGED <<now, flying, process>>

Tick ==
    /\ now < MaxTime
    /\ now' = now + 1
    /\ UNCHANGED <<row, expiry, flying, process>>

Next ==
    \/ Tick \/ Sweep
    \/ \E w \in Worker :
          \/ Compose(w) \/ Stop(w) \/ Bye(w) \/ Die(w)
          \/ \E b \in flying[w] : Commit(w, b) \/ Arrive(w, b)

Spec == Init /\ [][Next]_vars

-----------------------------------------------------------------------------
\* Control::workers: a row is shown stale from its expiry on.
Stale(w) == row[w].expires <= now

\* The expiry index holds one entry for every row, its own: the sweep removes
\* no row that beat again, and misses none.
ExpiryIsTheRows ==
    expiry = {<<row[w].expires, w>> : w \in {v \in Worker : row[v] # None}}

\* A worker that stopped cleanly is shown as stale from its last beat on,
\* whatever beats of it were under way.
CleanStopIsStale ==
    \A w \in Worker : process[w] = "stopped" /\ row[w] # None => Stale(w)

=============================================================================
