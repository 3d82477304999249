-------------------------------- MODULE Runs --------------------------------
(***************************************************************************)
(* The run rows of the durable store (crates/durable/src/engine.rs):       *)
(* admission, leases and fences, hand-back and completion, interruptions,  *)
(* the tree of owned child runs, operator holds, cancellation and the      *)
(* emergency stop.                                                         *)
(*                                                                         *)
(* Every operation of the store is one serializable transaction, hence one *)
(* action.  What interleaves is the processes: each passes the `now' it    *)
(* read from its own clock, possibly long before the transaction commits,  *)
(* and each may come back with a fence it lost long ago.  Time is a real   *)
(* time `now' that no process sees; a process's clock shows a value        *)
(* between now and now + Skew, so two clocks differ by at most Skew, the   *)
(* bound the store is configured with (Policy::skew_ms).                   *)
(*                                                                         *)
(* Triggers, buffered slots, events and budgets are other modules' state.  *)
(* Where an operation of this module reads them, the outcome is a          *)
(* parameter of the action: the runs a drain of buffered slots admits      *)
(* (`ready') or refuses (`refused'), and whether a notice wakes the parent *)
(* (`woken').                                                              *)
(***************************************************************************)
EXTENDS Integers

CONSTANTS
    Run,              \* run ids
    Process,          \* the processes that share the store
    NoRun,            \* the parent of a root
    NoFence,          \* the fence of a run nobody owns
    LeaseMs,          \* LEASE_MS
    Skew,             \* Policy::skew_ms
    BackoffMs,        \* the first interruption's back-off (2_000 ms)
    BackoffCap,       \* the longest back-off (600_000 ms)
    MaxInterruptions, \* MAX_INTERRUPTIONS
    MaxGeneration,    \* the last generation (u64::MAX; a bound for TLC)
    MaxTime           \* the last instant (a bound for TLC)

\* The two absent values are not ids.
ASSUME NoRunAssumption == NoRun \notin Run

\* The store's configuration: a lease outlives the skew bound
\* (Runtime::new refuses a heartbeat that does not fit in between).
ASSUME PolicyAssumption ==
    /\ LeaseMs \in Nat /\ Skew \in Nat /\ Skew < LeaseMs
    /\ BackoffMs \in Nat /\ BackoffCap \in Nat
    /\ MaxInterruptions \in Nat \ {0}
    /\ MaxGeneration \in Nat /\ MaxTime \in Nat

VARIABLES
    run,      \* the stored row of each run id
    stopped,  \* the emergency stop (the `control/stopped' row)
    granted,  \* history: every fence a run's claims ever gave out
    now,      \* real time, which no process sees
    reading   \* the `now' each process read last from its own clock

vars == <<run, stopped, granted, now, reading>>

-----------------------------------------------------------------------------
(* The row.                                                                *)

Fence == [owner : Process, generation : Nat]

ASSUME NoFenceAssumption == NoFence \notin Fence

\* lease_until_ms of a run without a lease (None).
NoLease == -1

Terminal == {"Completed", "Failed", "Cancelled"}
RunState == {"absent", "Ready", "Running", "Waiting"} \cup Terminal

StoredRun ==
    [ state         : RunState,
      fence         : Fence \cup {NoFence},
      generation    : Nat,
      lease         : Nat \cup {NoLease},
      wake          : Int,
      interruptions : Nat,
      held          : BOOLEAN,
      parent        : Run \cup {NoRun} ]

\* No row is stored under the id.
NoRow ==
    [ state |-> "absent", fence |-> NoFence, generation |-> 0,
      lease |-> NoLease, wake |-> 0, interruptions |-> 0, held |-> FALSE,
      parent |-> NoRun ]

Absent(r) == run[r].state = "absent"
Ended(r)  == run[r].state \in Terminal
Live(r)   == ~Absent(r) /\ ~Ended(r)

\* What a process's clock can show now.
Clock == now..(now + Skew)

Min(a, b) == IF a <= b THEN a ELSE b

-----------------------------------------------------------------------------
(* Who may act on a run, and who may take it.                              *)

\* Altered: an owner trusts its own clock to the lease's end.
AuthorityWithoutSkew(r, f, t) ==
    /\ run[r].state = "Running"
    /\ run[r].fence = f
    /\ run[r].lease > t

\* The current owner's authority: it acts only while its lease has more than
\* the skew bound left on its own clock.
Authority(r, f, t) ==
    /\ run[r].state = "Running"
    /\ run[r].fence = f
    /\ run[r].lease > t + Skew

\* Every fenced step: no emergency stop, current ownership, no hold.
Checked(r, f, t) == ~stopped /\ Authority(r, f, t) /\ ~run[r].held

\* A run is taken when it is due, and from an owner only after the lease.
Claimable(r, t) ==
    /\ ~run[r].held
    /\ \/ run[r].state \in {"Ready", "Waiting"} /\ run[r].wake <= t
       \/ run[r].state = "Running" /\ run[r].lease <= t

\* Altered: an owned run is listed by its wake time, not by its lease.
DueAtWake(r) == IF ~Live(r) \/ run[r].held THEN {} ELSE {run[r].wake}

\* The instant the row's entries in the `due' indexes say it is due from, if
\* any: a held or an ended run is due to nobody.
DueAt(r) ==
    CASE ~Live(r) \/ run[r].held   -> {}
      [] Live(r) /\ ~run[r].held /\ run[r].state = "Running" ->
            {run[r].lease} \ {NoLease}
      [] Live(r) /\ ~run[r].held /\ run[r].state # "Running" -> {run[r].wake}

\* claim_run: the next generation's fence; a takeover records the end of the
\* lease it takes over as the run's wake-up.
Claimed(row, p, t) ==
    [row EXCEPT !.generation = @ + 1,
                !.wake = IF row.state = "Running" THEN row.lease ELSE @,
                !.fence = [owner |-> p, generation |-> row.generation + 1],
                !.lease = t + LeaseMs,
                !.state = "Running"]

\* The row a new run starts with.
Admitted(t) == [NoRow EXCEPT !.state = "Ready", !.wake = t]

-----------------------------------------------------------------------------
(* Trees.                                                                  *)

\* A run and its live owned descendants, found level by level through the
\* `children' index, which lists only live children: the smallest set that
\* holds the run and every live child of its members.
LiveSubtree(r) ==
    { x \in Run :
        \A S \in SUBSET Run :
            /\ r \in S
            /\ \A c \in Run : (run[c].parent \in S /\ Live(c)) => c \in S
            => x \in S }

OneLevel(r) == {r} \cup {c \in Run : run[c].parent = r /\ Live(c)}

EndedRow(row, status) ==
    [row EXCEPT !.state = status, !.fence = NoFence, !.lease = NoLease,
                !.held = FALSE]

\* Altered: an end reaches the children only.
TerminatedOneLevel(rows, r, status) ==
    [x \in Run |-> IF x = r THEN EndedRow(rows[x], status)
                   ELSE IF x \in OneLevel(r) THEN EndedRow(rows[x], "Cancelled")
                   ELSE rows[x]]

\* terminate: the run ends with its status and its live descendants are
\* cancelled with it.
Terminated(rows, r, status) ==
    [x \in Run |-> IF x = r THEN EndedRow(rows[x], status)
                   ELSE IF x \in LiveSubtree(r) THEN EndedRow(rows[x], "Cancelled")
                   ELSE rows[x]]

\* lifecycle / notify: a child's notice, which wakes the parent only if a
\* listen that can take it stands, and never an ended parent.
Notified(rows, r, woken, t) ==
    LET p == run[r].parent
    IN [x \in Run |-> IF x = p /\ woken /\ rows[x].state \notin Terminal
                      THEN [rows[x] EXCEPT !.wake = t] ELSE rows[x]]

\* Buffered slots that a drain promotes: admitted, or recorded as a refused
\* run that ends failed in the same write.  Nothing drains under a stop.
Promoted(rows, ready, refused, t) ==
    [x \in Run |-> IF x \in ready THEN Admitted(t)
                   ELSE IF x \in refused THEN EndedRow(Admitted(t), "Failed")
                   ELSE rows[x]]

\* The run ids that buffered slots may take.  (Quantified one at a time: TLC
\* finds no pair in `a, b \in SUBSET {}'.)
Slots == SUBSET {x \in Run : Absent(x)}

Drains(ready, refused) ==
    /\ ready \cup refused \subseteq {x \in Run : Absent(x)}
    /\ ready \cap refused = {}
    /\ stopped => ready \cup refused = {}

Grant(r, p) ==
    granted' = [granted EXCEPT
        ![r] = @ \cup {[owner |-> p, generation |-> run[r].generation + 1]}]

-----------------------------------------------------------------------------
(* Time.                                                                   *)

Tick ==
    /\ now < MaxTime
    /\ now' = now + 1
    /\ UNCHANGED <<run, stopped, granted, reading>>

\* A process reads its clock; it passes this instant to the store later.
ReadClock(p, t) ==
    /\ t \in Clock
    /\ t # reading[p]
    /\ reading' = [reading EXCEPT ![p] = t]
    /\ UNCHANGED <<run, stopped, granted, now>>

-----------------------------------------------------------------------------
(* Admission and ownership.                                                *)

\* admit: a new root, after the deferred drain of its definition.
Admit(p, r, ready, refused) ==
    /\ ~stopped
    /\ Absent(r) /\ r \notin ready \cup refused
    /\ Drains(ready, refused)
    /\ run' = [Promoted(run, ready, refused, reading[p])
                  EXCEPT ![r] = Admitted(reading[p])]
    /\ UNCHANGED <<stopped, granted, now, reading>>

\* start: a new root, claimed in the commit that admits it.
Start(p, r, ready, refused) ==
    /\ ~stopped
    /\ Absent(r) /\ r \notin ready \cup refused
    /\ Drains(ready, refused)
    /\ 0 < MaxGeneration
    /\ run' = [Promoted(run, ready, refused, reading[p])
                  EXCEPT ![r] = Claimed(Admitted(reading[p]), p, reading[p])]
    /\ Grant(r, p)
    /\ UNCHANGED <<stopped, now, reading>>

\* fire: a schedule's commit.  A `replace' firing cancels the trigger's live
\* runs (roots) first; then the slot is admitted, refused, or left out (the
\* ceiling).  What a cancellation's drain promotes is among `ready'.  An
\* admission that is refused, or joins a stored run, after the deferred drain
\* commits that drain alone: the case in which nothing is replaced.
Fire(p, replaced, ready, refused) ==
    /\ ~stopped
    /\ replaced \subseteq {x \in Run : Live(x) /\ run[x].parent = NoRun}
    /\ Drains(ready, refused)
    /\ replaced \cup ready \cup refused # {}
    /\ LET cancelled == UNION {LiveSubtree(x) : x \in replaced}
       IN run' = Promoted([x \in Run |-> IF x \in cancelled
                                         THEN EndedRow(run[x], "Cancelled")
                                         ELSE run[x]],
                          ready, refused, reading[p])
    /\ UNCHANGED <<stopped, granted, now, reading>>

\* Altered: a claim does not look at the emergency stop.
ClaimWhileStopped(p, r) ==
    /\ Claimable(r, reading[p])
    /\ run[r].generation < MaxGeneration
    /\ run' = [run EXCEPT ![r] = Claimed(@, p, reading[p])]
    /\ Grant(r, p)
    /\ UNCHANGED <<stopped, now, reading>>

\* claim_as: a due run, or one whose owner's lease is over.
Claim(p, r) ==
    /\ ~stopped
    /\ Claimable(r, reading[p])
    /\ run[r].generation < MaxGeneration
    /\ run' = [run EXCEPT ![r] = Claimed(@, p, reading[p])]
    /\ Grant(r, p)
    /\ UNCHANGED <<stopped, now, reading>>

\* renew: extends the lease, of a held run too (the caller then learns of
\* the hold).
Renew(p, r, f) ==
    /\ ~stopped
    /\ Authority(r, f, reading[p])
    /\ run' = [run EXCEPT ![r].lease = reading[p] + LeaseMs]
    /\ UNCHANGED <<stopped, granted, now, reading>>

\* Altered: a released run starts its generations anew.
ReleaseResettingGeneration(p, r, f) ==
    /\ Authority(r, f, reading[p])
    /\ run' = [run EXCEPT ![r] = [Admitted(reading[p]) EXCEPT
                 !.parent = run[r].parent, !.held = run[r].held]]
    /\ UNCHANGED <<stopped, granted, now, reading>>

\* release: the owner hands the run back, under a hold or a stop too.
Release(p, r, f) ==
    /\ Authority(r, f, reading[p])
    /\ run' = [run EXCEPT ![r] =
                 [@ EXCEPT !.state = "Ready", !.fence = NoFence,
                           !.lease = NoLease, !.wake = reading[p]]]
    /\ UNCHANGED <<stopped, granted, now, reading>>

-----------------------------------------------------------------------------
(* Completion.                                                             *)

\* finish(Waiting): until `at', or at once if a wanted event is pending.
FinishWaiting(p, r, f, at, woken) ==
    /\ Checked(r, f, reading[p])
    /\ run' = Notified([run EXCEPT ![r] =
                 [@ EXCEPT !.state = "Waiting", !.interruptions = 0,
                           !.wake = at, !.fence = NoFence, !.lease = NoLease]],
                 r, woken, reading[p])
    /\ UNCHANGED <<stopped, granted, now, reading>>

\* 2_000 << (n - 1).min(20), capped.
Backoff(n) == Min(BackoffMs * 2^Min(n - 1, 20), BackoffCap)

\* Altered: the last interruption does not end the run.
FinishInterruptedForever(p, r, f) ==
    /\ Checked(r, f, reading[p])
    /\ run[r].interruptions + 1 <= MaxInterruptions
    /\ run' = [run EXCEPT ![r] =
                 [@ EXCEPT !.state = "Ready",
                           !.interruptions = run[r].interruptions + 1,
                           !.wake = reading[p] + Backoff(run[r].interruptions + 1),
                           !.fence = NoFence, !.lease = NoLease]]
    /\ UNCHANGED <<stopped, granted, now, reading>>

\* finish(Interrupted), below the limit: ready again after a back-off.
FinishInterrupted(p, r, f) ==
    /\ Checked(r, f, reading[p])
    /\ run[r].interruptions + 1 < MaxInterruptions
    /\ run' = [run EXCEPT ![r] =
                 [@ EXCEPT !.state = "Ready",
                           !.interruptions = run[r].interruptions + 1,
                           !.wake = reading[p] + Backoff(run[r].interruptions + 1),
                           !.fence = NoFence, !.lease = NoLease]]
    /\ UNCHANGED <<stopped, granted, now, reading>>

\* The terminal part of finish, shared by the next two actions.
FinishTerminal(p, r, status, counted, woken, ready, refused) ==
    /\ Drains(ready, refused)
    /\ LET rows == [run EXCEPT ![r].interruptions = counted]
       IN run' = Promoted(Notified(Terminated(rows, r, status), r, woken, reading[p]),
                          ready, refused, reading[p])
    /\ UNCHANGED <<stopped, granted, now, reading>>

\* finish(Interrupted), the last time: the run is given up and faults.
GiveUp(p, r, f, woken, ready, refused) ==
    /\ Checked(r, f, reading[p])
    /\ run[r].interruptions + 1 >= MaxInterruptions
    /\ FinishTerminal(p, r, "Failed", run[r].interruptions + 1, woken,
                      ready, refused)

\* finish(Completed | Faulted | Cancelled).
Finish(p, r, f, status, woken, ready, refused) ==
    /\ Checked(r, f, reading[p])
    /\ FinishTerminal(p, r, status, 0, woken, ready, refused)

\* start_child: the owner of a run starts an owned child, claimed in the same
\* commit.  An id held by a run that is not this invocation's child is refused.
StartChild(p, r, f, c, ready, refused) ==
    /\ Checked(r, f, reading[p])
    /\ c # r /\ Absent(c) /\ c \notin ready \cup refused
    /\ Drains(ready, refused)
    /\ 0 < MaxGeneration
    /\ run' = [Promoted(run, ready, refused, reading[p]) EXCEPT ![c] =
                 [Claimed(Admitted(reading[p]), p, reading[p])
                     EXCEPT !.parent = r]]
    /\ Grant(c, p)
    /\ UNCHANGED <<stopped, now, reading>>

\* start_child of a child this invocation already started: it is joined, not
\* claimed, and its notice is repeated if it has ended or waits.
JoinChild(p, r, f, c, woken, ready, refused) ==
    /\ Checked(r, f, reading[p])
    /\ ~Absent(c) /\ run[c].parent = r
    /\ woken => run[c].state \in Terminal \cup {"Waiting"}
    /\ Drains(ready, refused)
    /\ run' = Promoted(Notified(run, c, woken, reading[p]), ready, refused, reading[p])
    /\ UNCHANGED <<stopped, granted, now, reading>>

-----------------------------------------------------------------------------
(* Hosts and operators.                                                    *)

\* cancel_run and Command::Cancel: a live run and its tree, held or stopped.
Cancel(p, r, woken, ready, refused) ==
    /\ Live(r)
    /\ Drains(ready, refused)
    /\ run' = Promoted(Notified(Terminated(run, r, "Cancelled"), r, woken, reading[p]),
                       ready, refused, reading[p])
    /\ UNCHANGED <<stopped, granted, now, reading>>

\* Altered: a hold reaches the children only.
SetHoldOneLevel(r, hold) ==
    /\ Live(r)
    /\ \E x \in OneLevel(r) : run[x].held # hold
    /\ run' = [x \in Run |-> IF x \in OneLevel(r)
                             THEN [run[x] EXCEPT !.held = hold] ELSE run[x]]
    /\ UNCHANGED <<stopped, granted, now, reading>>

\* Command::Hold and Command::Release: a live run's whole live subtree.
SetHold(r, hold) ==
    /\ Live(r)
    /\ \E x \in LiveSubtree(r) : run[x].held # hold
    /\ run' = [x \in Run |-> IF x \in LiveSubtree(r)
                             THEN [run[x] EXCEPT !.held = hold] ELSE run[x]]
    /\ UNCHANGED <<stopped, granted, now, reading>>

\* Command::Stop.
Stop ==
    /\ ~stopped
    /\ stopped' = TRUE
    /\ UNCHANGED <<run, granted, now, reading>>

\* Clearing the stop drains the slots deferred under it.
ClearStop(p, ready, refused) ==
    /\ stopped
    /\ stopped' = FALSE
    /\ ready \cup refused \subseteq {x \in Run : Absent(x)}
    /\ ready \cap refused = {}
    /\ run' = Promoted(run, ready, refused, reading[p])
    /\ UNCHANGED <<granted, now, reading>>

\* deliver / publish: an accepted event wakes the run that wants it.
Deliver(p, r) ==
    /\ Live(r)
    /\ run' = [run EXCEPT ![r].wake = Min(@, reading[p])]
    /\ UNCHANGED <<stopped, granted, now, reading>>

-----------------------------------------------------------------------------
Init ==
    /\ run = [r \in Run |-> NoRow]
    /\ stopped = FALSE
    /\ granted = [r \in Run |-> {}]
    /\ now = 0
    /\ reading \in [Process -> {now}]

\* The steps of a process that holds a fence, current or long lost.
Owner(p, r) ==
    \E f \in granted[r] :
        /\ f.owner = p
        /\ \/ Renew(p, r, f)
           \/ Release(p, r, f)
           \/ \E at \in 0..(MaxTime + 1), woken \in BOOLEAN :
                 FinishWaiting(p, r, f, at, woken)
           \/ FinishInterrupted(p, r, f)
           \/ \E woken \in BOOLEAN, ready \in Slots, refused \in Slots :
                 \/ GiveUp(p, r, f, woken, ready, refused)
                 \/ \E status \in Terminal :
                       Finish(p, r, f, status, woken, ready, refused)
           \/ \E c \in Run, ready \in Slots, refused \in Slots :
                 \/ StartChild(p, r, f, c, ready, refused)
                 \/ \E woken \in BOOLEAN : JoinChild(p, r, f, c, woken, ready, refused)

\* The steps of anybody: a host, a poll of the workers, an operator.
Anybody(p, r) ==
    \/ Claim(p, r)
    \/ Deliver(p, r)
    \/ \E hold \in BOOLEAN : SetHold(r, hold)
    \/ \E ready \in Slots, refused \in Slots :
          \/ Admit(p, r, ready, refused)
          \/ Start(p, r, ready, refused)
          \/ \E woken \in BOOLEAN : Cancel(p, r, woken, ready, refused)

Next ==
    \/ Tick
    \/ \E p \in Process : \E t \in Clock : ReadClock(p, t)
    \/ Stop
    \/ \E p \in Process, ready \in Slots, refused \in Slots :
          \/ ClearStop(p, ready, refused)
          \/ \E replaced \in SUBSET Run : Fire(p, replaced, ready, refused)
    \/ \E p \in Process, r \in Run : Owner(p, r) \/ Anybody(p, r)

Spec == Init /\ [][Next]_vars

-----------------------------------------------------------------------------
(* Invariants.                                                             *)

\* Every row, clock reading and fence has its type.
TypeOK ==
    /\ run \in [Run -> StoredRun]
    /\ stopped \in BOOLEAN
    /\ granted \in [Run -> SUBSET Fence]
    /\ now \in Nat
    /\ reading \in [Process -> Nat]

\* A run has an owner, a lease and the state Running together or not at all,
\* its owner's fence is of its newest generation, and only a live run is held
\* (claim_run, release, finish, terminate).
OwnedWhileRunning ==
    \A r \in Run :
        /\ run[r].state = "Running" <=> run[r].fence # NoFence
        /\ run[r].state = "Running" <=> run[r].lease # NoLease
        /\ run[r].fence # NoFence => run[r].fence.generation = run[r].generation
        /\ run[r].held => Live(r)
        /\ Absent(r) => run[r] = NoRow

\* No generation of a run is given to two owners, and none is newer than the
\* row says, whichever process claimed, took over, crashed or came back.
FencesDistinct ==
    \A r \in Run :
        /\ \A f \in granted[r] : f.generation \in 1..run[r].generation
        /\ \A f, g \in granted[r] : f.generation = g.generation => f = g
        /\ run[r].fence # NoFence => run[r].fence \in granted[r]

\* No reading is ahead of what a clock can show.
ReadingsInSkew == \A p \in Process : reading[p] <= now + Skew

\* While an owner that looked at its clock now would still find itself in
\* charge, no process can take the run from it, however early or late that
\* process read its own clock (the skew margin of `authority' against
\* `claimable').
NoTakeoverWhileActing ==
    \A r \in Run : \A f \in granted[r] :
        (\E t \in Clock : Authority(r, f, t))
            => \A p \in Process : ~Claimable(r, reading[p])

\* A live child has a live parent, not itself: the cascade of `terminate'
\* misses none, and no child is started under a run that ended meanwhile.
NoOrphans ==
    \A c \in Run :
        Live(c) /\ run[c].parent # NoRun
            => Live(run[c].parent) /\ run[c].parent # c

\* The due indexes and the claim agree: a run can be claimed at an instant
\* exactly if a poll at that instant finds it, so no live run is forgotten
\* except under a hold.
DueIsClaimable ==
    \A r \in Run :
        /\ \A t \in 0..(now + Skew) :
               Claimable(r, t) <=> \E due \in DueAt(r) : due <= t
        /\ Live(r) /\ ~run[r].held => DueAt(r) # {}

\* A run that is still live has interruptions left: the limit ends it.
GivesUp == \A r \in Run : Live(r) => run[r].interruptions < MaxInterruptions

-----------------------------------------------------------------------------
(* What a step may never do.                                               *)

\* Ownership once lost is never regained under the same fence, so a process
\* that comes back with an old fence is refused for ever.
LostOwnershipIsFinal ==
    [][\A r \in Run : \A f \in granted[r] :
          run[r].fence # f => run'[r].fence # f]_vars

\* An ended run's row never changes again: one outcome, no late wake-up, hold
\* or owner.
EndedIsFinal == [][\A r \in Run : Ended(r) => run'[r] = run[r]]_vars

\* A held run stays where it is: its owner may renew or hand it back and an
\* operator or its parent's end may cancel it; nobody claims it, finishes it
\* or starts a child under it.
HeldIsFrozen ==
    [][\A r \in Run : run[r].held /\ run'[r].held =>
          /\ run'[r].generation = run[r].generation
          /\ run'[r].interruptions = run[r].interruptions
          /\ \/ run'[r].state = run[r].state
             \/ run[r].state = "Running" /\ run'[r].state = "Ready"
          /\ \A c \in Run : run'[c].parent = r => run[c].parent = r]_vars

\* A hold reaches the whole tree: a live child of a held run that is not held
\* itself was under that hold and released from it on its own.
HoldReachesTree ==
    [][\A c \in Run :
          LET p == run'[c].parent
          IN  /\ p # NoRun
              /\ run'[c].state \notin Terminal
              /\ run'[p].held /\ ~run'[c].held
              => run[p].held /\ Live(c)]_vars

\* A hold reaches a whole tree and keeps it where it is, whatever its members
\* start, end or hand back meanwhile (set_hold, claim, start_child, finish).
HoldIsKept == HeldIsFrozen /\ HoldReachesTree

\* Under the emergency stop nothing starts and nobody gets a run: a run can
\* only be handed back or cancelled.
StoppedIsFrozen ==
    [][stopped /\ stopped' => \A r \in Run :
          /\ run'[r].generation = run[r].generation
          /\ \/ run'[r].state = run[r].state
             \/ run[r].state = "Running" /\ run'[r].state = "Ready"
             \/ Live(r) /\ run'[r].state = "Cancelled"]_vars

=============================================================================
