------------------------------- MODULE Notices -------------------------------
(***************************************************************************)
(* Notices: breaker trips handed on to the host. Runtime::notify and the   *)
(* part of Runtime::worker that calls it (runtime/src/schedule.rs section  *)
(* 4, runtime/src/execution.rs), over notices and acknowledge of the       *)
(* engine (durable/src/engine.rs).                                         *)
(*                                                                         *)
(* Every worker reads a page of the pending notices, publishes each, gives *)
(* it to the event sink and acknowledges it. What a refused notice waits   *)
(* is kept in the worker's memory, here as the ticks left. Workers crash,  *)
(* are stopped and start again; a publication is one step (Ingress has its *)
(* own). Notices are numbered in the order of their keys, the order in     *)
(* which a page lists them but not in which they are committed.            *)
(***************************************************************************)
EXTENDS Integers, Sequences, FiniteSets

CONSTANTS Worker, N,
          Page,        \* NOTICES
          MaxDelay,    \* NOTICE_RETRY_MAX_MS, in units of NOTICE_RETRY_MS
          Bad,         \* notices some `on` schedule's filter fails on
          MaxFaults    \* crashes, stops and storage errors

NoticesAssumption ==
    /\ N \in Nat /\ Page \in Nat \ {0} /\ MaxDelay \in Nat \ {0} /\ MaxFaults \in Nat
    /\ Bad \subseteq 1..N

Notice == 1..N

(* pending: the `notice' rows. committed, published, accepted, reported and
   owed are history: what was ever committed, what listeners, the sink and
   the observers got, and the ticks a worker's last failure asks it to wait. *)
VARIABLES pending, pc, page, backoff, stopping, faults,
          committed, published, accepted, reported, owed

worker == <<pc, page, backoff, stopping>>
history == <<committed, published, accepted, reported, owed>>
vars == <<pending, worker, faults, history>>

NoBackoff == [n \in Notice |-> [delay |-> 0, wait |-> 0]]
NothingOwed == [n \in Notice |-> 0]

Init ==
    /\ pending = {} /\ committed = {} /\ published = {} /\ accepted = {} /\ faults = 0
    /\ reported = [n \in Notice |-> 0]
    /\ pc = [w \in Worker |-> "idle"]
    /\ page = [w \in Worker |-> <<>>]
    /\ backoff = [w \in Worker |-> NoBackoff]
    /\ owed = [w \in Worker |-> NothingOwed]
    /\ stopping = [w \in Worker |-> FALSE]

(* A breaker trips: its notice is committed with the trip. *)
Commit(n) ==
    /\ n \notin committed
    /\ committed' = committed \union {n}
    /\ pending' = pending \union {n}
    /\ UNCHANGED <<worker, faults, published, accepted, reported, owed>>

-----------------------------------------------------------------------------
(* One call of notify. *)

(* notices: the first rows in key order. *)
FirstPage ==
    LET rank(n) == Cardinality({m \in pending : m <= n})
        size == IF Cardinality(pending) < Page THEN Cardinality(pending) ELSE Page
    IN [i \in 1..size |-> CHOOSE n \in pending : rank(n) = i]

Listed(s) == {s[i] : i \in DOMAIN s}

(* Backoffs are kept of the page's notices. *)
Retain(b, s) == [n \in Notice |-> IF n \in Listed(s) THEN b[n] ELSE NoBackoff[n]]

(* The worker's tick, when no hand-off is under way. *)
Read(w) ==
    /\ pc[w] = "idle" /\ ~stopping[w]
    /\ pc' = [pc EXCEPT ![w] = "loop"]
    /\ page' = [page EXCEPT ![w] = FirstPage]
    /\ backoff' = [backoff EXCEPT ![w] = Retain(@, FirstPage)]
    /\ UNCHANGED <<pending, stopping, faults, history>>

Head1(w) == page[w][1]

Waits(w) == backoff[w][Head1(w)].wait > 0

(* The next notice, or the end of the call: a stopping worker is done. *)
Turn(w) ==
    /\ pc[w] = "loop"
    /\ \/ /\ page[w] = <<>> \/ stopping[w]
          /\ pc' = [pc EXCEPT ![w] = IF stopping[w] THEN "down" ELSE "idle"]
          /\ page' = [page EXCEPT ![w] = <<>>]
       \/ /\ page[w] # <<>> /\ ~stopping[w] /\ Waits(w)
          /\ page' = [page EXCEPT ![w] = Tail(@)]
          /\ UNCHANGED pc
       \/ /\ page[w] # <<>> /\ ~stopping[w] /\ ~Waits(w)
          /\ pc' = [pc EXCEPT ![w] = "publish"]
          /\ UNCHANGED page
    /\ UNCHANGED <<pending, backoff, stopping, faults, history>>

(* retry_at: one unit, doubling with each failure, to MaxDelay. *)
Delay(d) == IF d = 0 THEN 1 ELSE IF 2 * d < MaxDelay THEN 2 * d ELSE MaxDelay

(* failed: the notice is left for a later call. *)
Failed(w) ==
    LET n == Head1(w)
        d == Delay(backoff[w][n].delay)
    IN /\ backoff' = [backoff EXCEPT ![w][n] = [delay |-> d, wait |-> d]]
       /\ owed' = [owed EXCEPT ![w][n] = d]
       /\ page' = [page EXCEPT ![w] = Tail(@)]
       /\ pc' = [pc EXCEPT ![w] = "loop"]

(* publish reached the runs and schedules that listen. *)
PublishOk(w) ==
    /\ pc[w] = "publish" /\ Head1(w) \notin Bad
    /\ published' = published \union {Head1(w)}
    /\ pc' = [pc EXCEPT ![w] = "sink"]
    /\ UNCHANGED <<pending, page, backoff, stopping, faults, committed, accepted, reported, owed>>

(* An interrupted admission (ResourceUnavailable) is a failure of this
   notice; any other error is returned and ends the worker. *)
PublishFail(w) ==
    /\ pc[w] = "publish"
    /\ \/ Failed(w) /\ Head1(w) \notin Bad /\ UNCHANGED <<stopping, faults>>
       \/ /\ Head1(w) \in Bad
          /\ pc' = [pc EXCEPT ![w] = "down"]
          /\ page' = [page EXCEPT ![w] = <<>>]
          /\ UNCHANGED <<backoff, stopping, faults, owed>>
    /\ UNCHANGED <<pending, committed, published, accepted, reported>>

SinkOk(w) ==
    /\ pc[w] = "sink" /\ ~stopping[w]
    /\ accepted' = accepted \union {Head1(w)}
    /\ pc' = [pc EXCEPT ![w] = "ack"]
    /\ UNCHANGED <<pending, page, backoff, stopping, faults, committed, published, reported, owed>>

(* Altered: a refused notice is acknowledged all the same. *)
SinkFailForgets(w) ==
    /\ pc[w] = "sink" /\ ~stopping[w]
    /\ pc' = [pc EXCEPT ![w] = "ack"]
    /\ UNCHANGED <<pending, page, backoff, stopping, faults, history>>

SinkFail(w) ==
    /\ pc[w] = "sink" /\ ~stopping[w]
    /\ Failed(w)
    /\ UNCHANGED <<pending, stopping, faults, committed, published, accepted, reported>>

(* A stop drops the sink's answer, which may have accepted. *)
SinkStopped(w) ==
    /\ pc[w] = "sink" /\ stopping[w]
    /\ accepted' \in {accepted, accepted \union {Head1(w)}}
    /\ pc' = [pc EXCEPT ![w] = "down"]
    /\ page' = [page EXCEPT ![w] = <<>>]
    /\ UNCHANGED <<pending, backoff, stopping, faults, committed, published, reported, owed>>

(* acknowledge says whether this call removed the row. *)
Removes(n) == n \in pending

Acknowledge(w) ==
    /\ pc[w] = "ack"
    /\ LET n == Head1(w) IN
       /\ pending' = pending \ {n}
       /\ pc' = [pc EXCEPT ![w] = IF Removes(n) THEN "report" ELSE "forget"]
    /\ UNCHANGED <<page, backoff, stopping, faults, history>>

(* observers.tripped, for the hand-off that removed the notice. *)
Report(w) ==
    /\ pc[w] = "report"
    /\ reported' = [reported EXCEPT ![Head1(w)] = @ + 1]
    /\ pc' = [pc EXCEPT ![w] = "forget"]
    /\ UNCHANGED <<pending, page, backoff, stopping, faults, committed, published, accepted, owed>>

Forget(w) ==
    /\ pc[w] = "forget"
    /\ backoff' = [backoff EXCEPT ![w][Head1(w)] = NoBackoff[Head1(w)]]
    /\ owed' = [owed EXCEPT ![w][Head1(w)] = 0]
    /\ page' = [page EXCEPT ![w] = Tail(@)]
    /\ pc' = [pc EXCEPT ![w] = "loop"]
    /\ UNCHANGED <<pending, stopping, faults, committed, published, accepted, reported>>

-----------------------------------------------------------------------------
(* Workers and time. *)

(* The stop token, or a failure elsewhere in the worker, which drains. *)
Stop(w) ==
    /\ pc[w] # "down" /\ ~stopping[w] /\ faults < MaxFaults
    /\ faults' = faults + 1
    /\ stopping' = [stopping EXCEPT ![w] = TRUE]
    /\ pc' = [pc EXCEPT ![w] = IF @ = "idle" THEN "down" ELSE @]
    /\ UNCHANGED <<pending, page, backoff, history>>

(* A crash, or a storage error that notify returns. *)
Crash(w) ==
    /\ pc[w] # "down" /\ faults < MaxFaults
    /\ faults' = faults + 1
    /\ pc' = [pc EXCEPT ![w] = "down"]
    /\ page' = [page EXCEPT ![w] = <<>>]
    /\ UNCHANGED <<pending, backoff, stopping, history>>

(* The host starts the worker again, with an empty memory. *)
Restart(w) ==
    /\ pc[w] = "down"
    /\ pc' = [pc EXCEPT ![w] = "idle"]
    /\ backoff' = [backoff EXCEPT ![w] = NoBackoff]
    /\ owed' = [owed EXCEPT ![w] = NothingOwed]
    /\ stopping' = [stopping EXCEPT ![w] = FALSE]
    /\ UNCHANGED <<pending, page, faults, committed, published, accepted, reported>>

Less(t) == IF t = 0 THEN 0 ELSE t - 1

Tick ==
    /\ \E w \in Worker, n \in Notice : backoff[w][n].wait > 0 \/ owed[w][n] > 0
    /\ backoff' = [w \in Worker |-> [n \in Notice |-> [backoff[w][n] EXCEPT !.wait = Less(@)]]]
    /\ owed' = [w \in Worker |-> [n \in Notice |-> Less(owed[w][n])]]
    /\ UNCHANGED <<pending, pc, page, stopping, faults, committed, published, accepted, reported>>

Call(w) ==
    Read(w) \/ Turn(w) \/ PublishOk(w) \/ PublishFail(w) \/ SinkOk(w) \/ SinkFail(w)
    \/ SinkStopped(w) \/ Acknowledge(w) \/ Report(w) \/ Forget(w)

Next ==
    \/ \E n \in Notice : Commit(n)
    \/ \E w \in Worker : Call(w) \/ Stop(w) \/ Crash(w) \/ Restart(w)
    \/ Tick

Spec == Init /\ [][Next]_vars

-----------------------------------------------------------------------------
(* Properties. *)

Backoff == [delay : 0..MaxDelay, wait : 0..MaxDelay]

TypeOK ==
    /\ pending \subseteq committed /\ committed \subseteq Notice
    /\ pc \in [Worker -> {"idle", "loop", "publish", "sink", "ack", "report", "forget", "down"}]
    /\ \A w \in Worker : Len(page[w]) <= Page /\ Listed(page[w]) \subseteq committed
    /\ \A w \in Worker : pc[w] \notin {"idle", "loop", "down"} => page[w] # <<>>
    /\ backoff \in [Worker -> [Notice -> Backoff]]

(* A notice is gone from the store only after its listeners were reached and
   the sink accepted it, whichever workers tried and where they stopped. *)
GoneIsHanded == committed \ pending \subseteq published \intersect accepted

(* A trip is reported at most once, however many workers hand its notice on
   at the same time, and only when it was handed on. *)
ReportedOnce ==
    \A n \in Notice : reported[n] <= 1 /\ (reported[n] = 1 => n \in accepted \ pending)

(* What a worker remembers stays within a page, whatever other workers
   acknowledge behind its back. *)
MemoryBounded ==
    \A w \in Worker : Cardinality({n \in Notice : backoff[w][n].delay > 0}) <= Page

(* A worker tries a notice again only after the backoff of its last failure. *)
RetriedAfterBackoff ==
    \A w \in Worker : pc[w] = "publish" => owed[w][Head1(w)] = 0

=============================================================================
