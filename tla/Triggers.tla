------------------------------ MODULE Triggers ------------------------------
(***************************************************************************)
(* One definition's schedule: its triggers, the slots they fire, the slot  *)
(* each may buffer, the circuit breaker, activation epochs, and the        *)
(* operator's pause and emergency stop (engine.rs, sections 4 and 5;       *)
(* control_command; crates/runtime/src/schedule.rs).                       *)
(*                                                                         *)
(* A transaction of the store is an operator from rows to rows, named for  *)
(* the function it translates, and commits in one action.  What            *)
(* interleaves is the workers' firings and activations, which read in one  *)
(* transaction, decide, and commit in a later one: `plan' holds what a     *)
(* worker read and has not committed yet, the instant it read included.    *)
(*                                                                         *)
(* A run is live or ended here; leases, holds and trees are in Runs.  The  *)
(* runs a host or a parent starts are in Host.                             *)
(***************************************************************************)
EXTENDS Integers, FiniteSets

CONSTANTS
    Version,    \* the saved versions of the definition
    Digest,     \* each version's content digest
    Arms,       \* the kinds of trigger each version's schedule arms
    Overlap,    \* each version's overlap policy
    CatchupOf,  \* each version's rule for missed slots
    Threshold,  \* consecutive faults that trip the breaker
    Ceiling,    \* max_concurrent_runs
    Every,      \* the period of an `every' schedule
    After,      \* the delay of an `after' schedule
    At,         \* the instant of an `at' schedule
    RetryMs,    \* an interrupted admission's first back-off (1 s)
    RetryMaxMs, \* its longest back-off (five minutes)
    Worker,     \* the processes that fire and activate
    Host,       \* ids of runs started by hosts and parents
    Operator,   \* the commands operators use: a subset of {"pause", "stop"}
    MaxEpoch,   \* the last activation epoch (a bound for TLC)
    MaxTime,    \* the last instant (a bound for TLC)
    None        \* an absent value

Key == {"after", "at", "every"}

ASSUME ScheduleAssumption ==
    /\ Arms \in [Version -> SUBSET Key]
    /\ Overlap \in [Version -> {"Skip", "Allow", "Queue", "Replace"}]
    /\ CatchupOf \in [Version -> {"Latest", "None"}]
    /\ DOMAIN Digest = Version
    /\ {Threshold, Ceiling, Every, After, RetryMs} \subseteq Nat \ {0}
    /\ {At, RetryMaxMs, MaxEpoch, MaxTime} \subseteq Nat
    /\ Operator \subseteq {"pause", "stop"}

-----------------------------------------------------------------------------
(* The types of the rows, and of what a worker holds between transactions. *)

Instant == Int \cup {None}

\* at: when the trigger is due; n: the ordinal of an `after' trigger's next
\* run; retry, failures: the slot an interrupted admission kept.
Trigger == [at : Instant, epoch : Nat, n : Nat, retry : Instant, failures : Nat]

SlotIds == [kind : Key, at : Int, epoch : Nat]
Slot == [id : SlotIds, version : Version, refused : BOOLEAN, rearm : BOOLEAN]
Trip == [manual : BOOLEAN, breaker : BOOLEAN, version : Version]
Paused == [epoch : Nat, trigger : [Key -> Trigger \cup {None}],
           queue : [Key -> Slot \cup {None}]]
RunRow == [live : BOOLEAN, key : Key \cup {None}, version : Version,
           rearm : Trigger \cup {None}, epoch : Nat \cup {None}]

Decision == [step : {"decide"}, key : Key, expected : Trigger, now : Nat, version : Version]
Commit == [step : {"fire"}, key : Key, expected : Trigger, next : Trigger, busy : Trigger,
           id : SlotIds, how : {"move", "admit", "refuse"}, version : Version,
           policy : {"Skip", "Allow", "Queue", "Replace"}, now : Nat]
Activation == [step : {"activate"}, version : Version, epoch : Nat, now : Nat]

ASSUME NoneAssumption ==
    /\ None \notin Int /\ None \notin Key /\ None \notin Version
    /\ None \notin Trigger /\ None \notin Slot /\ None \notin Trip /\ None \notin Paused
    /\ None \notin Decision /\ None \notin Commit /\ None \notin Activation

VARIABLES
    rows,    \* the store's rows of this definition
    plan,    \* what each worker read and has not committed
    handed,  \* history: the notices handed on and acknowledged
    now

vars == <<rows, plan, handed, now>>

-----------------------------------------------------------------------------
(* Rows.                                                                   *)

NewTrigger(at, epoch) ==
    [at |-> at, epoch |-> epoch, n |-> 1, retry |-> None, failures |-> 0]

NoTriggers == [k \in Key |-> None]

Armed(s) == {k \in Key : s.trigger[k] # None}
Live(s) == {i \in DOMAIN s.run : s.run[i].live}
TriggerLive(s, k) == {i \in Live(s) : s.run[i].key = k}
Queues(s) == {k \in Key : s.queue[k] # None}

ManualTrip(s) == s.trip # None /\ s.trip.manual
BreakerTrip(s) == s.trip # None /\ s.trip.breaker

\* Altered: the ceiling is off by one.
CapacityOneMore(s) == Cardinality(Live(s)) <= Ceiling

\* capacity: room under the ceiling for one more run of the definition.
Capacity(s) == Cardinality(Live(s)) < Ceiling

\* barred: a pause refuses every new run, a breaker's trip the content that
\* tripped it.
Barred(s, v) ==
    /\ s.trip # None
    /\ s.trip.manual \/ Digest[v] = Digest[s.trip.version]

\* admitted: a new run belongs to the current epoch if it is of the active
\* version, and to no epoch otherwise (a pinned start).
NewRun(s, v) ==
    [live |-> TRUE, key |-> None, version |-> v, rearm |-> None,
     epoch |-> IF s.active = v THEN s.epoch ELSE None]

WithRun(s, i, row) ==
    [s EXCEPT !.run = [j \in DOMAIN s.run \cup {i} |-> IF j = i THEN row ELSE s.run[j]]]

\* arm: the definition's triggers and buffered slots give way to `wanted'.
Arm(s, wanted) ==
    [s EXCEPT !.queue = [k \in Key |-> IF k \in s.owned THEN None ELSE s.queue[k]],
              !.trigger = [k \in Key |-> IF wanted[k] # None \/ k \in s.owned
                                         THEN wanted[k] ELSE s.trigger[k]],
              !.owned = {k \in Key : wanted[k] # None}]

-----------------------------------------------------------------------------
(* The breaker, promotion and termination.                                 *)

\* Altered: faults of earlier epochs count.
CountsAnyEpoch(s, row) == s.active = row.version /\ s.trip = None

\* A run counts toward the breaker if it is of the active version and was
\* admitted in the current epoch, while nothing tripped.
Counts(s, row) ==
    /\ s.active = row.version
    /\ row.epoch = s.epoch
    /\ s.trip = None

\* The next fault reaches the threshold.
Trips(s) == s.faults + 1 >= Threshold

\* A trip disarms the definition and stores its notice in the same commit.
Tripped(s, v, at) ==
    Arm([s EXCEPT !.trip = [manual |-> FALSE, breaker |-> TRUE, version |-> v],
                  !.notice = @ \cup {[at |-> at, epoch |-> s.epoch]}],
        NoTriggers)

\* breaker: a terminal outcome's observation; a cancelled or given-up run is
\* no fault of the version.
Breaker(s, row, outcome, at) ==
    LET counted == [s EXCEPT !.faults = @ + 1]
    IN  CASE Counts(s, row) /\ outcome = "Completed" -> [s EXCEPT !.faults = 0]
          [] Counts(s, row) /\ outcome = "Faulted" ->
                IF Trips(s) THEN Tripped(counted, row.version, at) ELSE counted
          [] OTHER -> s

\* refuse: a slot this host cannot admit, recorded as a run that faulted.
Refuse(s, i, v, at) ==
    IF i \in DOMAIN s.run THEN s
    ELSE LET row == [NewRun(s, v) EXCEPT !.live = FALSE]
         IN  Breaker(WithRun(s, i, row), row, "Faulted", at)

\* admit_firing: a slot's run; an `after' slot's run re-arms the trigger as it
\* is stored now.  A run stored under the id is joined.
AdmitFiring(s, k, i, v, rearm) ==
    IF i \in DOMAIN s.run THEN s
    ELSE WithRun(s, i, [NewRun(s, v) EXCEPT
                           !.key = k,
                           !.rearm = IF rearm THEN s.trigger[k] ELSE None])

\* A buffered slot goes once no run of its trigger is live and there is room.
Ready(s, k) == s.queue[k] # None /\ TriggerLive(s, k) = {} /\ Capacity(s)

\* The body of drain_queues' loop.
Promote(s, k, at) ==
    IF ~Ready(s, k) THEN s
    ELSE LET q == s.queue[k]
             rest == [s EXCEPT !.queue[k] = None]
         IN  IF q.refused THEN Refuse(rest, q.id, q.version, at)
             ELSE AdmitFiring(rest, k, q.id, q.version, q.rearm)

\* The loop over the buffered slots, in the order of their keys.
PromoteAll(s, at) ==
    Promote(Promote(Promote(s, "after", at), "at", at), "every", at)

\* Altered: a drain under a stop is not deferred but forgotten.
DrainQueuesForgetful(s, at) == IF s.stopped THEN s ELSE PromoteAll(s, at)

\* drain_queues: every buffered slot that can go is promoted; under a stop the
\* drain is deferred (the `control_drain' row).
DrainQueues(s, at) ==
    IF s.stopped THEN [s EXCEPT !.drain = @ \/ Queues(s) # {}]
    ELSE PromoteAll(s, at)

Marked(s) == s.drain /\ ~s.stopped

\* drain_marked: a deferred drain comes before anything else is admitted.
DrainMarked(s, at) ==
    IF Marked(s) THEN DrainQueues([s EXCEPT !.drain = FALSE], at) ELSE s

\* The first half of terminate, of the runs `ids': they end, and the trigger a
\* firing stored is re-armed by its run, if it still stands as it was.
Rearm(s, ids, at) ==
    LET armed == s.trigger["after"]
        due == [armed EXCEPT !.at = at + After]
        over == [i \in DOMAIN s.run |->
                    IF i \in ids THEN [s.run[i] EXCEPT !.live = FALSE] ELSE s.run[i]]
    IN  IF armed # None /\ armed.at = None /\ \E i \in ids : s.run[i].rearm = armed
        THEN [s EXCEPT !.run = over, !.trigger = [s.trigger EXCEPT !["after"] = due]]
        ELSE [s EXCEPT !.run = over]

\* terminate: the definition's buffered slots may go now.
Terminate(s, i, at) == DrainQueues(Rearm(s, {i}, at), at)

-----------------------------------------------------------------------------
(* The commit of a firing f: from trigger f.expected to f.next, with the   *)
(* run f.id admitted or refused (f.how), or no run at all ("move").        *)

\* The runs a `replace' slot makes way for are cancelled, each as by terminate.
\* Only the `queue' policy buffers slots, so the drains that end these runs find
\* nothing to promote whenever the trigger is the one the firing read, and one
\* drain stands for all of them.
Replaced(s, f) ==
    IF f.policy = "Replace"
    THEN DrainQueues(Rearm(s, TriggerLive(s, f.key), f.now), f.now)
    ELSE s

Buffered(s, f) ==
    [s EXCEPT !.queue[f.key] =
        [id |-> f.id, version |-> f.version, refused |-> f.how = "refuse",
         rearm |-> f.how = "admit" /\ f.key = "after"]]

StoreTrigger(s, f, t) == [s EXCEPT !.trigger[f.key] = t]

CommitSlot(s, f) ==
    LET moved == StoreTrigger(s, f, f.next)
    IN  IF f.how = "refuse" THEN Refuse(moved, f.id, f.version, f.now)
        ELSE AdmitFiring(moved, f.key, f.id, f.version, f.key = "after")

\* fire_checked: a slot without a run moves the trigger; a slot whose run is
\* stored is joined; otherwise the ceiling and the overlap policy decide.
FireChecked(s, f) ==
    LET r == Replaced(s, f)
        overlaps == TriggerLive(s, f.key) # {} /\ f.policy \in {"Skip", "Queue"}
    IN  CASE f.how = "move" -> StoreTrigger(s, f, f.next)
          [] f.how # "move" /\ f.id \in DOMAIN s.run -> CommitSlot(s, f)
          [] OTHER ->
               CASE ~Capacity(r) -> StoreTrigger(r, f, f.busy)
                 [] Capacity(r) /\ ~overlaps -> CommitSlot(r, f)
                 [] Capacity(r) /\ overlaps ->
                      IF f.policy = "Queue" /\ s.queue[f.key] = None
                      THEN StoreTrigger(Buffered(r, f), f, f.next)
                      ELSE StoreTrigger(r, f, f.busy)

\* Altered: the trigger is not compared with the one the firing read.
FireStale(s, f) ==
    LET d == IF f.how = "move" THEN s ELSE DrainMarked(s, f.now)
    IN  IF s.stopped THEN s
        ELSE IF f.how # "move" /\ Marked(s) /\ f.id \notin DOMAIN d.run /\ Barred(d, f.version)
             THEN d
        ELSE FireChecked(d, f)

\* fire: nothing under a stop; the deferred drain first, which is kept even
\* if the trigger changed meanwhile or the drain tripped the definition.
Fire(s, f) ==
    LET d == IF f.how = "move" THEN s ELSE DrainMarked(s, f.now)
    IN  IF s.stopped THEN s
        ELSE IF d.trigger[f.key] # f.expected THEN d
        ELSE IF f.how # "move" /\ Marked(s) /\ f.id \notin DOMAIN d.run /\ Barred(d, f.version)
             THEN d
        ELSE FireChecked(d, f)

-----------------------------------------------------------------------------
(* The workers: what they read and decide between transactions.            *)

MinOf(a, b) == IF a <= b THEN a ELSE b
MaxOf(a, b) == IF a >= b THEN a ELSE b

\* next_every: slots are aligned to the epoch.
NextEvery(after) == after - (after % Every) + Every

\* The doubling of retry_at, and its cap.
BackOff(failures) == RetryMs * 2^MinOf(failures - 1, 20)
Capped(ms) == IF ms \in 0..RetryMaxMs THEN ms ELSE RetryMaxMs

\* retry_at.
RetryAt(at, failures) == at + Capped(BackOff(failures))

\* A slot whose admission was interrupted keeps its identity.
SlotOf(t) == IF t.retry # None THEN t.retry ELSE t.at

\* The run a slot starts: the slot's own id, `after' slots by epoch and ordinal.
SlotId(k, t) ==
    IF k = "after" THEN [kind |-> k, at |-> t.n, epoch |-> t.epoch]
    ELSE [kind |-> k, at |-> SlotOf(t), epoch |-> 0]

HostId(h) == [kind |-> "host", at |-> h, epoch |-> 0]

\* The trigger after its slot was taken (admitted, queued or refused).
Taken(k, t, at, how) ==
    LET u == [t EXCEPT !.retry = None, !.failures = 0]
    IN  CASE k = "every" -> [u EXCEPT !.at = NextEvery(MaxOf(SlotOf(t), at))]
          [] k = "after" -> [u EXCEPT !.at = IF how = "refuse" THEN at + After ELSE None,
                                      !.n = @ + 1]
          [] k = "at"    -> [u EXCEPT !.at = None]

\* The trigger after its slot was passed over.
Busy(k, t, at) ==
    LET u == [t EXCEPT !.retry = None, !.failures = 0]
    IN  CASE k = "every" -> [u EXCEPT !.at = NextEvery(MaxOf(SlotOf(t), at))]
          [] k = "after" -> [u EXCEPT !.at = at + After]
          [] k = "at"    -> [u EXCEPT !.at = None]

Idle(w) == plan[w] = None

\* fire_due reads a due trigger and the definition (the trigger must be of the
\* current, untripped epoch).
ReadDue(w, k) ==
    LET t == rows.trigger[k]
    IN  /\ Idle(w) /\ ~rows.stopped
        /\ t # None /\ t.at # None /\ t.at <= now
        /\ rows.trip = None /\ t.epoch = rows.epoch
        /\ plan' = [plan EXCEPT ![w] =
              [step |-> "decide", key |-> k, expected |-> t, now |-> now,
               version |-> rows.active]]
        /\ UNCHANGED <<rows, handed, now>>

\* A firing decided from the plan p, to be committed later.
Firing(p, how, v, next) ==
    [step |-> "fire", key |-> p.key, expected |-> p.expected, next |-> next,
     busy |-> Busy(p.key, p.expected, p.now), id |-> SlotId(p.key, p.expected),
     how |-> how, version |-> v, policy |-> Overlap[p.version], now |-> p.now]

Missed(p) ==
    /\ p.key = "every"
    /\ NextEvery(SlotOf(p.expected)) <= p.now
    /\ CatchupOf[p.version] = "None"

\* A one-shot whose instant has its run already (an earlier activation's).
AlreadyRun(p) == p.key = "at" /\ SlotId("at", p.expected) \in DOMAIN rows.run

\* A slot that starts no run: missed, or run already.
DecideSkip(w) ==
    LET p == plan[w]
    IN  /\ ~Idle(w) /\ p.step = "decide"
        /\ Missed(p) \/ AlreadyRun(p)
        /\ plan' = [plan EXCEPT ![w] =
              Firing(p, "move", p.version, Taken(p.key, p.expected, p.now, "move"))]
        /\ UNCHANGED <<rows, handed, now>>

\* The admission is built from the version that is active now, or refused by
\* this host (a function it lacks).
DecideRun(w, how) ==
    LET p == plan[w]
    IN  /\ ~Idle(w) /\ p.step = "decide"
        /\ ~Missed(p) /\ ~AlreadyRun(p)
        /\ rows.trip = None
        /\ plan' = [plan EXCEPT ![w] =
              Firing(p, how, rows.active, Taken(p.key, p.expected, p.now, how))]
        /\ UNCHANGED <<rows, handed, now>>

\* The admission is interrupted (a resource this host cannot reach now): the
\* trigger keeps the slot and is due again after a back-off.
DecideRetry(w) ==
    LET p == plan[w]
        failures == p.expected.failures + 1
    IN  /\ ~Idle(w) /\ p.step = "decide"
        /\ ~Missed(p) /\ ~AlreadyRun(p)
        /\ rows.trip = None
        /\ plan' = [plan EXCEPT ![w] =
              Firing(p, "move", p.version,
                     [p.expected EXCEPT !.at = RetryAt(p.now, failures),
                                        !.retry = SlotOf(p.expected),
                                        !.failures = failures])]
        /\ UNCHANGED <<rows, handed, now>>

\* A worker dies, or finds the definition tripped, before it commits.
Abandon(w) ==
    /\ ~Idle(w)
    /\ plan' = [plan EXCEPT ![w] = None]
    /\ UNCHANGED <<rows, handed, now>>

CommitFiring(w) ==
    /\ ~Idle(w) /\ plan[w].step = "fire"
    /\ rows' = Fire(rows, plan[w])
    /\ plan' = [plan EXCEPT ![w] = None]
    /\ UNCHANGED <<handed, now>>

\* arming: the triggers of a version's schedule.
Arming(v, epoch, at) ==
    [k \in Key |-> IF k \notin Arms[v] THEN None
                   ELSE NewTrigger(CASE k = "every" -> NextEvery(at)
                                     [] k = "after" -> at
                                     [] k = "at" -> At, epoch)]

\* activate_armed reads the definition's epoch ...
ReadEpoch(w, v) ==
    /\ Idle(w) /\ rows.epoch < MaxEpoch
    /\ plan' = [plan EXCEPT ![w] =
          [step |-> "activate", version |-> v, epoch |-> rows.epoch, now |-> now]]
    /\ UNCHANGED <<rows, handed, now>>

\* activate: a new epoch, which clears every trip and pause.
Activated(s, v, e, at) ==
    Arm([s EXCEPT !.active = v, !.epoch = e + 1, !.faults = 0, !.trip = None,
                  !.paused = None],
        Arming(v, e + 1, at))

\* ... and commits only if it is unchanged (otherwise it reads again).
Activate(w) ==
    LET p == plan[w]
    IN  /\ ~Idle(w) /\ p.step = "activate"
        /\ rows' = IF rows.epoch = p.epoch THEN Activated(rows, p.version, p.epoch, p.now)
                   ELSE rows
        /\ plan' = [plan EXCEPT ![w] = None]
        /\ UNCHANGED <<handed, now>>

-----------------------------------------------------------------------------
(* Runs, hosts and operators.                                              *)

\* admit, start and start_child of a run no trigger fired, pinned to version
\* v or of the active one: the deferred drain first, kept if it refuses.
StartRun(h, v) ==
    LET d == DrainMarked(rows, now)
    IN  /\ ~rows.stopped
        /\ HostId(h) \notin DOMAIN rows.run
        /\ ~Barred(rows, v)
        /\ rows' = IF Barred(d, v) THEN d ELSE WithRun(d, HostId(h), NewRun(d, v))
        /\ UNCHANGED <<plan, handed, now>>

\* finish: the breaker's observation, then the run's end.
Finish(i, outcome) ==
    /\ i \in Live(rows) /\ ~rows.stopped
    /\ rows' = Terminate(Breaker(rows, rows.run[i], outcome, now), i, now)
    /\ UNCHANGED <<plan, handed, now>>

\* cancel: under a stop too.
Cancel(i) ==
    /\ i \in Live(rows)
    /\ rows' = Terminate(rows, i, now)
    /\ UNCHANGED <<plan, handed, now>>

\* suspend: the triggers and buffered slots move to the `paused' row.
Suspended(s) ==
    Arm([s EXCEPT !.paused = [epoch |-> s.epoch,
                     trigger |-> [k \in Key |-> IF k \in s.owned THEN s.trigger[k] ELSE None],
                     queue |-> [k \in Key |-> IF k \in s.owned THEN s.queue[k] ELSE None]]],
        NoTriggers)

\* Altered: a pause of a tripped definition replaces the breaker's trip.
PauseDroppingTrip ==
    /\ "pause" \in Operator /\ rows.active # None
    /\ ~ManualTrip(rows)
    /\ rows' = [Suspended(rows) EXCEPT
                   !.trip = [manual |-> TRUE, breaker |-> FALSE, version |-> rows.active]]
    /\ UNCHANGED <<plan, handed, now>>

\* Command::Pause: beside a breaker's trip, or on its own.
Pause ==
    /\ "pause" \in Operator /\ rows.active # None
    /\ ~ManualTrip(rows)
    /\ rows' = [Suspended(rows) EXCEPT
                   !.trip = IF rows.trip # None THEN [rows.trip EXCEPT !.manual = TRUE]
                            ELSE [manual |-> TRUE, breaker |-> FALSE, version |-> rows.active]]
    /\ UNCHANGED <<plan, handed, now>>

Resumed(s) ==
    LET a == Arm([s EXCEPT !.trip = IF s.trip.breaker THEN [s.trip EXCEPT !.manual = FALSE]
                                    ELSE None],
                 s.paused.trigger)
    IN  [a EXCEPT !.queue = [k \in Key |-> IF s.paused.queue[k] # None THEN s.paused.queue[k]
                                           ELSE a.queue[k]],
                  !.paused = None]

\* Command::Resume: the pause alone is lifted; what it suspended is restored.
Resume ==
    /\ ManualTrip(rows)
    /\ rows.paused # None /\ rows.paused.epoch = rows.epoch
    /\ rows' = DrainQueues(Resumed(rows), now)
    /\ UNCHANGED <<plan, handed, now>>

\* Command::Stop.
Stop ==
    /\ "stop" \in Operator /\ ~rows.stopped
    /\ rows' = [rows EXCEPT !.stopped = TRUE]
    /\ UNCHANGED <<plan, handed, now>>

\* Clearing the stop drains one batch of deferred definitions; this one may be
\* past it (`late').
ClearStop(late) ==
    /\ rows.stopped
    /\ late => rows.drain
    /\ LET s == [rows EXCEPT !.stopped = FALSE]
       IN  rows' = IF late THEN s ELSE DrainMarked(s, now)
    /\ UNCHANGED <<plan, handed, now>>

\* acknowledge: a notice that was handed on.
Acknowledge(n) ==
    /\ n \in rows.notice
    /\ rows' = [rows EXCEPT !.notice = @ \ {n}]
    /\ handed' = handed \cup {n}
    /\ UNCHANGED <<plan, now>>

Tick ==
    /\ now < MaxTime
    /\ now' = now + 1
    /\ UNCHANGED <<rows, plan, handed>>

-----------------------------------------------------------------------------
Init ==
    /\ rows = [active |-> None, epoch |-> 0, faults |-> 0, trip |-> None,
               owned |-> {}, trigger |-> NoTriggers, queue |-> NoTriggers,
               paused |-> None, drain |-> FALSE, stopped |-> FALSE,
               run |-> << >>, notice |-> {}]
    /\ plan = [w \in Worker |-> None]
    /\ handed = {}
    /\ now = 0

Step(w) ==
    \/ \E k \in Key : ReadDue(w, k)
    \/ DecideSkip(w)
    \/ \E how \in {"admit", "refuse"} : DecideRun(w, how)
    \/ DecideRetry(w)
    \/ Abandon(w)
    \/ CommitFiring(w)
    \/ \E v \in Version : ReadEpoch(w, v)
    \/ Activate(w)

Next ==
    \/ \E w \in Worker : Step(w)
    \/ \E h \in Host, v \in Version : StartRun(h, v)
    \/ \E i \in DOMAIN rows.run :
          \/ Cancel(i)
          \/ \E outcome \in {"Completed", "Faulted", "Cancelled"} : Finish(i, outcome)
    \/ Pause
    \/ Resume
    \/ Stop
    \/ \E late \in BOOLEAN : ClearStop(late)
    \/ \E n \in rows.notice : Acknowledge(n)
    \/ Tick

Spec == Init /\ [][Next]_vars

-----------------------------------------------------------------------------
(* Invariants.                                                             *)

\* Every row of the definition has its type, and the definition lists exactly
\* the triggers that are stored (arm, store_trigger).
TypeOK ==
    /\ rows.active \in Version \cup {None}
    /\ rows.epoch \in 0..MaxEpoch
    /\ rows.owned = Armed(rows)
    /\ \A k \in Key :
          /\ rows.trigger[k] \in Trigger \cup {None}
          /\ rows.queue[k] # None => rows.queue[k].version \in Version
    /\ \A i \in DOMAIN rows.run :
          /\ rows.run[i].version \in Version
          /\ rows.run[i].rearm \in Trigger \cup {None}
    /\ \A n \in rows.notice \cup handed : n.epoch \in 1..rows.epoch

\* A buffered slot belongs to an armed trigger of the current epoch and of the
\* active version, and nothing bars its run: the drain in a run's terminal
\* commit never fails on it, which would keep the run from ending
\* (drain_queues' "queue without trigger", the refusal in `admitted').
QueueIsArmed ==
    \A k \in Queues(rows) :
        /\ k \in rows.owned
        /\ rows.trigger[k] # None
        /\ rows.trigger[k].epoch = rows.epoch
        /\ rows.queue[k].version = rows.active
        /\ ~Barred(rows, rows.queue[k].version)

\* No buffered slot is forgotten: while one waits, a run of its trigger is
\* live, or the definition is at its ceiling, or a deferred drain is recorded
\* (terminate, resume and clearing a stop all drain).
NoForgottenSlot ==
    \A k \in Queues(rows) :
        \/ rows.stopped \/ rows.drain
        \/ TriggerLive(rows, k) # {}
        \/ ~Capacity(rows)

\* A tripped definition has no schedule left to fire: no trigger, no buffered
\* slot, and under a breaker's trip nothing that a resume could bring back.
TripDisarms ==
    rows.trip # None =>
        /\ Armed(rows) = {} /\ Queues(rows) = {}
        /\ BreakerTrip(rows) /\ rows.paused # None =>
              \A k \in Key : rows.paused.trigger[k] = None /\ rows.paused.queue[k] = None

\* A manual pause always has what it suspended, of the current epoch, and
\* nothing else does: a resume never finds it missing or stale.
PauseIsResumable ==
    /\ rows.paused # None <=> ManualTrip(rows)
    /\ rows.paused # None => rows.paused.epoch = rows.epoch

\* The breaker trips exactly at its threshold, once an epoch, and every trip
\* is reported: its notice is pending until a host handed it on, through
\* pauses and resumes.
TripIsReported ==
    /\ ~BreakerTrip(rows) => rows.faults < Threshold
    /\ BreakerTrip(rows) =>
          \E n \in rows.notice \cup handed : n.epoch = rows.epoch
    /\ \A m, n \in rows.notice \cup handed : m.epoch = n.epoch => m = n

\* Trips, pauses, activations and ends in any order leave a schedule that goes
\* on, or that a resume or an activation starts again; its buffered slots can
\* run, and every trip is reported (breaker, suspend, resume, activate, arm).
ScheduleIsSound ==
    TypeOK /\ QueueIsArmed /\ TripDisarms /\ PauseIsResumable /\ TripIsReported

\* An `after' schedule goes on: while its trigger is armed but not due, a run
\* that will re-arm it is live, or its slot is buffered.
AfterGoesOn ==
    LET t == rows.trigger["after"]
    IN  t # None /\ t.at = None =>
          \/ \E i \in Live(rows) : rows.run[i].rearm = t
          \/ rows.queue["after"] # None /\ rows.queue["after"].rearm

-----------------------------------------------------------------------------
(* What a step may never do.                                               *)

\* The runs a step starts.
Started == {i \in DOMAIN rows'.run : rows'.run[i].live /\ i \notin DOMAIN rows.run}
StartedByTrigger == {i \in Started : rows'.run[i].key # None}

\* A schedule never takes a definition past its ceiling, whatever drains,
\* replacements and hosts' own starts share the commit.
CeilingHolds ==
    [][StartedByTrigger # {} =>
          Cardinality(Live(rows') \ (Started \ StartedByTrigger)) <= Ceiling]_vars

\* Unless its policy allows it, a trigger's run starts only where no other run
\* of the trigger, of an earlier epoch included, is live after the commit.
NoOverlap ==
    [][\A i \in StartedByTrigger :
          Overlap[rows'.run[i].version] # "Allow" =>
              TriggerLive(rows', rows'.run[i].key) = {i}]_vars

\* A buffered slot goes before any later slot of its trigger, after a stop
\* whose clearing did not reach it too (drain_marked).
BufferedFirst ==
    [][\A i \in StartedByTrigger :
          LET q == rows.queue[rows'.run[i].key]
          IN  q # None => q.id \in DOMAIN rows'.run]_vars

\* Within an epoch an armed trigger is moved only by a firing that read it as
\* it stands, or by the end of the run it waits for; and only runs admitted in
\* the epoch count toward its breaker.  Firings, runs and refusals of an
\* earlier epoch, however late, touch neither.
EpochsAreIsolated ==
    [][rows'.epoch = rows.epoch =>
          LET ended == {i \in DOMAIN rows'.run : ~rows'.run[i].live /\
                           (i \in DOMAIN rows.run => rows.run[i].live)}
              commits == {w \in Worker : plan[w] # None /\ plan'[w] = None}
          IN  /\ rows'.faults > rows.faults =>
                    \E i \in ended : rows'.run[i].epoch = rows.epoch
              /\ \A k \in Armed(rows) \cap Armed(rows') :
                    rows'.trigger[k] # rows.trigger[k] =>
                       \/ \E i \in ended : rows'.run[i].rearm = rows.trigger[k]
                       \/ \E w \in commits : /\ plan[w].step = "fire"
                                             /\ plan[w].expected = rows.trigger[k]]_vars

\* Under the emergency stop no run starts or is recorded as refused, and no
\* trigger fires: a trigger only becomes due again.
StopIsFinal ==
    [][rows.stopped /\ rows'.stopped =>
          /\ DOMAIN rows'.run = DOMAIN rows.run
          /\ rows'.epoch = rows.epoch /\ rows'.trip = rows.trip =>
                /\ rows'.queue = rows.queue
                /\ \A k \in Key : rows'.trigger[k] = rows.trigger[k]
                                    \/ rows.trigger[k].at = None]_vars

\* A firing acts on the trigger it read, of its own epoch, overlaps no run its
\* policy excludes, goes after buffered slots and not at all under a stop (fire,
\* drain_marked, terminate).
FiringsAreSound == EpochsAreIsolated /\ NoOverlap /\ BufferedFirst /\ StopIsFinal

=============================================================================
