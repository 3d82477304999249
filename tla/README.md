# A TLA+ verification of ouro

ouro is an embeddable durable runtime: workflows are documents, a host embeds
three crates (`ows`, the interpreter; `durable`, the store; `runtime`, the
driver and the scheduler), and runs survive restarts in a memory, SQLite or
Postgres store. This directory models the protocol state of that system in
TLA+, checks it with TLC on small instances, and proves what TLAPS can prove for
all instances. Paths below are relative to the repository.

## The system

| Part | State | Operations | Interacts through |
|---|---|---|---|
| Run rows (`crates/durable/src/engine.rs`) | state, fence, lease, generation, wake time, interruptions, hold, parent | admit, start, claim, renew, release, finish, start_child, cancel, hold, stop | fenced transactions; due index polled by workers |
| Schedule (`engine.rs`, `crates/runtime/src/schedule.rs`) | triggers, buffered slots, active version, epoch, breaker count, trip, pause, notices | fire, activate, drain, trip, pause, resume, stop | read, decide, compare-and-set commit |
| Mailboxes (`engine.rs`, `crates/ows/src/run.rs`) | copies, counters, waits, listeners, subscriptions, identity and `delivered` indexes | deliver, publish, Respond, register, subscribe, describe, take, expire, sweep, notices | wake times; the listening interpreter |
| Call journal (`engine.rs`, `ows/src/run.rs`) | records per position | save_record, load_records | intents and answers around host calls |
| Budget (`engine.rs`) | spent count per tree | spend | tree root's end |
| Control plane (`durable/src/control.rs`) | request journal | Cancel, Hold, Stop, Pause, Resume, Respond | one commit with the change |
| Transactions (`durable/src/backend.rs`, `memory.rs`) | versions, reads, ranges, writes | get, scan, put, commit, retry | conflict detection |
| Driver (`runtime/src/execution.rs`) | claimed runs, heartbeats, slots and permits | drive, renew, settle a hold, recover, shut down | due index, leases |
| Admission (`execution.rs`, `registry.rs`) | catalog versions, host ceilings | start, `run: workflow`, `start_child`, a handler's child | read, then one transaction that looks again |
| Registry (`runtime/src/registry.rs`) | installed functions, generation, cache of checks | install, check, bind, save, activate | read by every admission and drive |
| Event ingress (`runtime/src/schedule.rs`) | `on` triggers, tombstones, collected events | publish, offer, fire | the schedule's compare-and-set |
| Notices (`schedule.rs`) | pending notices; backoffs in each worker's memory | notify, acknowledge | event sink, publication |
| Filters and strategies (`ows/src/events.rs`) | expectations, filled filters, consumed items | matches, offer, routes | a listen's records; `on` schedules |
| Interpreter (`ows/src/run.rs`, `model.rs`) | cursor, deadlines, in-memory journal | tasks, forks, listens, retries, jumps | records |
| Secrets (`ows/src/secrets.rs`) | values of a start, markers in records | resolve, redact, restore | every save and load |
| Replay and dry run (`runtime/src/testing.rs`) | recorded results; private store, virtual clock | replay, replay_definition, dry_run | the interpreter's host |
| Worker rows, totals, listings (`engine.rs`, `runtime/src/control.rs`) | worker rows, hourly buckets, index rows | beat, sweep, tally, pages | operators' queries |

What is hard here: several processes share a store with clocks that differ; a
process can lose a run and come back with an old fence; commits carry times
that were read earlier; events race the commit that suspends a run; buffered
slots, stops, trips and pauses change each other's preconditions; a run can be
lost and executed again between any two operations. `PROJECT.json` lists each
of these at its line with the properties that would notice it going wrong.
Below the store, a caller can be cancelled at any await while its statement
goes on; above it, an execution is repeated from its records, so that whatever
is not recorded (a backoff, a consumer's progress, a dropped branch, a secret)
is computed again from a world that changed meanwhile.

## Modules

Each operation of the store is one serializable transaction
(`backend.rs: update`), so it is one action, the calls it makes included.

**Runs** models the run rows. Variables: `run` (a row per run id), `stopped`,
`granted` (history of fences), `now` (real time) and `reading` (the time each
process last read; the transaction uses that reading, however old). A clock
shows a value in `now..now+Skew`, so two clocks differ by at most the
configured `Policy::skew_ms`; that contract is in `docs/durable-invariants.md`
and `docs/api.md`. An owner acts while its lease has more than the skew left
(`authority`), another process may claim when the lease is over (`claimable`).
The parts of an operation that belong to other modules are parameters: which
buffered slots a drain admits (`ready`) or refuses (`refused`), and whether a
notice wakes the parent (`woken`). A process is coarser than the code's owner,
which is a fresh id per claim; an admission joined or refused after its drain is
a `Fire` that replaces nothing.

**Triggers** models one definition's schedule. `rows` are the store's rows and
every transaction is an operator from rows to rows (`Fire`, `Terminate`,
`DrainQueues`, `Breaker`, `Activated`, ...). `plan` holds what a worker read and
decided but has not committed: a firing is ReadDue, then a decision, then
CommitFiring, and an activation is ReadEpoch, then Activate. A run is live or
ended; runs that hosts or parents start are `Host`. A bounded batch of markers
after a stop (`MAX_PAGE`) is a nondeterministic choice (`late`). Of a trigger's
fields only those that later decisions read are kept (`skipped`, `previous`
are not); two stored triggers that differ only in them have different `at`, so
the compare-and-set keeps its meaning.

**Mailbox** models run mailboxes and the interpreter that listens. `row` is the
run's row with its copies and event records, `index` the `delivered` index,
`exec` the place of each branch of the run's program in its sequence of store
operations, lost by a crash, `offered` the history of deliveries without a
target. The program is a fork of listens (`Listen`, with routes, number of
events and deadline) and, for a run in `Parent`, of an awaited child. A branch
does register, subscribe, describe, take, ..., unsubscribe and save, each in
its own transaction; `Claim` starts it again from its records, after a
suspension or a crash. `Takes` counts the events a listen takes, filtered ones
included. One clock is enough here, ownership being in Runs; the second save
of a taken event (`next_event`) changes nothing and is left out; a payload
conflict is refused and changes nothing.

### The store and its transactions

**AtomicStore** says what `update` promises: a call that succeeds happened at
one instant. **MemoryTx** models the memory store's versions, observed rows and
ranges, private writes, validation and the bounded retries of
`TransactionalStore`, every get, scan, put and commit being a step.
`Serializable` is the refinement `MemoryTx => AtomicStore` (`Atomic ==
INSTANCE AtomicStore WITH ...`): the instant of a call is its commit. It is why
an operation is one action everywhere else.

**SqliteSession** and **PostgresSession** model what the two adapters add around
a database that is external: who holds the connection, what a caller that is
cancelled, fails or times out leaves behind, and when a session may be reused.
A statement and a round trip are steps; the caller may be gone by the time it
ends. On a Postgres session requests queue: the rollback after a statement's
deadline stands behind that statement, and if it is answered within its own
deadline the session goes back to the pool, which is when something could be left
on it. BEGIN, COMMIT and ROLLBACK past their deadlines, a broken connection and a
dropped caller discard the session. A `put` of the model stands for any statement
of an operation; what reads return is MemoryTx's subject.

### Executing a run

**Interpreter** is one run of the DSL over its journal. Every invocation in
progress has a frame, so that branches and iterations interleave; a crash or a
suspension loses the frames and the run is executed again from its first task.
Values are left out, an outcome is how a task ended and where it flows. The
jump budget's decision, the winner of a fork and deadlines are records.

**CallJournal** is the inside of a call: intent, dispatch, answer, the retry
decision, the attempt's deadline, with workers that lose their lease and go on.
`Setups` chooses deliveries, whether the host has a marker for an unknown
outcome, and how functions answer.

**Budget** is the counter a tree spends, **Listen** one listen over
**Strategies** (filters, correlation, `until`; no state of its own), **Redaction**
the markers that stand for secrets in records. Redaction alone has texts as
sequences of characters, since the encoding itself is what can go wrong.

**Flows** puts the validator's check of jumps (`successors`, `can_leave`,
`closed_cycles`) beside the walk the interpreter makes, for every list of a
given length over a set of tasks. Conditions are free choices.

### The runtime

**Driver** is the worker's loop, the drive of a claimed run, its heartbeat and
what holds, stops, cancels and shutdowns make of them; every store operation is
a step. A run makes its calls in the branches of a fork, waits once and ends.
Time is left out: a lease lapses and a run comes due at any moment. `Budget`
bounds how often each kind of event happens; the proofs hold for any budget.
**Workers** is the row a heartbeat writes, with beats that commit late.

**Admission** is every way a run starts, from the first read to the commit that
looks again; child ids are what they hash. **Registry** is the function set of a
runtime, replaced by the host while workers walk the definitions a run can
reach. **Control** is the operator's requests and their repetition, **Listing**
the pages, **Totals** the sums per definition and hour.

**Ingress** is publication to `on` triggers: tombstone lookup, triggers read,
offers one by one, each a read, a decision and a compare-and-set commit.
**Notices** is the report of breaker trips by workers whose backoffs are only in
memory.

**Replay** executes a run live, then its definition or an edited candidate over
what was recorded; one interpreter serves both, most actions take the execution
as a parameter. **DryRun** is the isolated driver: one loop, one virtual clock,
a private store, the mock rule and the runs that the root starts. A handler may
deliver to its own run and to the live runs below it (`CallRuns::below`; a run
started with `await: false` is out of scope), in every dispatch under one
identity. The mock's answer is reported before it is judged: an error ends the
run, and after an interrupted answer the call is asked and reported again when
the run is driven again. `MockedOnce` is therefore about what was answered.

### Composition

The modules share the store's contract and not variables: Runs is what Driver,
Control and Admission assume of fences and holds; Mailbox and Listen meet in the
event record under a position; CallJournal's records are what Replay reads and
Redaction encodes; Triggers and Ingress meet in the firing transaction, which
both model whole. Listen and Ingress both use Strategies, and `SameMeaning`
compares the two uses.

### Conventions

An **MC** module gives constants for TLC. Modules of one subject are checked in
one MC module, whose variable `part` says which component, and which of its sets
of constants, a behaviour is about; the other components' variables stay as they
are. MCRuns and MCTriggers are about one module; MCStore joins MemoryTx,
SqliteSession, PostgresSession, Listing, Workers and Totals; MCExecution Budget,
CallJournal and Interpreter; MCDriver three sets of constants of Driver; MCApi
Admission and Control; MCEvents Mailbox, Ingress, Listen and Notices;
MCDefinitions Flows, Registry, DryRun, Replay and Redaction. A property of such
a run is the conjunction of what its component promises, each part of it defined
and commented in the component's module.

**RunsProofs**, **MemoryTxProofs**, **MailboxProofs**, **DriverProofs**,
**TriggersProofs** and **CallJournalProofs** hold the proofs about the modules
they extend, DriverProofs also those about Notices, which it takes as an instance;
**SessionProofs** extends PostgresSession and takes SqliteSession as an instance;
**TreeProofs**, about what a tree of runs owes to those outside it, extends
Control and takes Budget and Admission as instances.

Operators that stand for a plausible defect (named for it, such as
`AuthorityWithoutSkew` or `EndShallow`, and commented as altered) are defined
before the operator they deform and are used by nothing: they exist to see that
each property notices such a defect.

## Model checking

| Run | Asks | Bounds |
|---|---|---|
| `lease` | Is ownership exclusive, fenced and never lost to the due index, with skewed clocks, takeovers, interruptions and late commits? | 1 run, 2 processes, lease 3, skew 1, 3 generations, 3 interruptions, 6 instants |
| `tree` | Do cancel, hold and stop treat trees as one? | 3 runs, 1 process, 1 generation |
| `queue` | Are buffered slots, capacity, trips, pauses and stops kept consistent, and does a stale plan ever act on a newer epoch? | 1 version with `after` and `every`, threshold 2, ceiling 2, 1 worker, 1 host run, a pause and a stop, 2 epochs, 2 instants; 2 versions with different timers and policies raced by 2 workers |
| `paused` (violated) | Does an `after` schedule go on under pauses? | `after` only, 1 worker, 1 epoch |
| `store` | Do optimistic transactions implement calls at one instant (refinement)? Are connections handed over clean, transactions whole, retries safe? Are lists, worker rows and totals true? | 3 calls over 3 keys, points and ranges, 2 attempts; 3 callers per session, cancelled at every await; 2 listed runs; 2 workers' rows; totals on both sides of an hour |
| `execution` | Are calls sent at most once where they must, caught knowingly, replayed alike? Does a tree keep its budget? Is a fork's winner and every decision the same after a crash? | 2 workers, 2 attempts with and without deadlines, 2 faults; a tree of 2 runs; loops alone, in a try and in 2 branches; forks, iterations, timeouts, extensions with crashes |
| `resend` (violated) | Is an at-most-once call sent once under attempt deadlines? | the calls of `execution` with deadlines |
| `driver` | Is a call dispatched once, an end reported once, a hold kept, and does the run end? | 2 workers, 1 run of 1 call, any 2 of 7 kinds of events; the same with a call that never answers; a fork of 2 calls, 1 event |
| `retract` (violated) | Is a call in flight never retracted by a hold? | the fork of `driver` |
| `api` | Does everyone who is given a run have asked for it, with the lineage's limits? Has a repeated request one effect and one report? | 2 processes, 2 generations, 3 sets of definitions and starts; 2 callers, 2 request ids, trees of 2 and answers |
| `events` | Are events neither lost, taken twice nor out of order; is a join woken; has a redelivered event one recipient? Is no event collected twice, a replaced trigger written, a listen restored otherwise, a trip's notice lost? | mailboxes: a typed and a wildcard listen with 2 events, a parent with its child, 2 runs with 1 event; 2 publishers, 3 schedules, 3 events of which one forged; 9 strategies; 2 workers with 2 sets of notices |
| `definitions` | Is a list of tasks rejected only for loops that nothing leaves? Is a check true of the functions called? Is a rehearsal what the run would do? Is a record restored as saved, without a trace of the secret? | every list of 3 tasks over the task forms; 1 worker, 2 registries, 2 texts that a dry run checks under the catalog's names; dry runs of 2 tasks, or of 3 with a sleeper or a mocked call first, one delivery a call; replays of 2 branches, also of runs that have not ended; texts of 3 characters |

The runs expected to be violated are in the list of disagreements below; their
bounds are the smallest that show the disagreement.

The properties and the code behind each are commented where they are defined.
Why the bounds suffice for the cases that matter: three generations allow an
owner to be lost twice and come back; a lease of 3 with skew 1 makes the
owner's and the claimer's views of its end differ; three runs make a tree of
depth three and a tree with two children; two epochs and one worker's stale
plan reach every order of activation and commit; a threshold of 2 separates a
fault that counts from one that trips; two listens of one run and two events
give every pair of take, expiry and redelivery; a listen of two events passes
from one position to the next both within an execution and across a restart;
two events of any kind give every pair of disturbances of a drive, and a fork
needs only the hold. The instants bound behaviours (`MaxTime`), not the
protocol: with none left only steps that need no time remain.

In the other modules: one crash separates what was recorded from what was not,
and a second separates a restored execution from a first one; two workers or
publishers give every pair of read and commit; a page, pool, batch or slot of
one is full with the first user; windows and lifetimes are one or two instants,
so that both sides of every boundary occur. Where a run names a bound on
faults, the fault may come at any step.

### Fairness

Liveness is checked in `driver` only (`WorkEnds`: a run whose calls answer ends
through every disturbance, and a cancelled one is left although its call never
answers). Weakly fair are the worker's loop, each drive, heartbeat and stop (each
is a task of its own with a timer, polled until it ends), the lapse of a lease
whose drive is gone and the coming due of a run (time passes), and the release
of a hold and of the emergency stop (by assumption: while an operator holds a run
it is to stay). No environment action (a crash, a cancel, a late answer) is fair,
and the forked run has no fairness: it is there for safety.

For the other components what must eventually happen is stated as the safety
condition that makes it possible: a run with something to do is due
(`DueIsClaimable`, `NoLostWakeup`, `JoinIsWoken`), a slot that can start is not
left buffered (`NoForgottenSlot`), a schedule has a due time or a live run
(`AfterGoesOn`). These runs may stop when their bounds are used up, so deadlock
is not checked in them, except in `lease`, `tree`, `queue` and `paused`, where
time and operators always have a step.

### Where code and documentation disagree

Three disagreements are shown by a run:

1. `paused` (`AfterGoesOn`): an `after` timer whose run ends during a pause is
   restored by `resume` without a due time and without a live run, and never
   fires again. `terminate` re-arms only the `trigger` row, and a pause has
   moved it to the `paused` row.
2. `resend` (`SentAtMostOnce`): an attempt that its deadline cut off before its
   call's intent was saved sends the call when it is replayed, although a later
   attempt has sent it: the first attempt does not look for the records of
   others.
3. `retract` (`NotRetracted`): a hold refuses the next step of one branch of a
   fork, the fork returns that fault at once, and the call in flight in another
   branch, which the hold was to wait for, is dropped. `HoldKeepsCalls` is what
   does hold: that is the only way in which a hold drops a call.

Others were noticed while modelling and are not checked by a run. They are noted
here for whoever reads the code next:

- Postgres: the comment at `postgres.rs:79-83` says that a passed deadline
  discards the session. A statement's deadline does not: `transact` rolls back and
  the answered ROLLBACK returns the session to the pool. `PostgresIsClean` shows
  that the session is clean then, too.
- Mailboxes: a run suspended at the second event of a listen is passed over by
  `deliver` without a target, since `take_event` closes a type's registration
  with each event and `listen` registers once per execution. `Respond` to a
  wildcard listen clears a copy's `delivered` flag and leaves its index row.
- Calls and forks: an attempt that its deadline failed during an at-most-once
  call completes when replayed, after its catch acted; a competing fork drops
  the branch that acts on `on_exceeded`, and a later refusal waits for it.
- Driver: a hold released before the drive finishes is counted as an
  interruption.
- Admission: a handler dispatched again after the host lowered its depth is
  refused the child it already started; an `await: false` child is admitted after
  its run was held; a failed catalog read is answered as an error a workflow may
  catch.
- Totals of runs that end together are summed with a bound of their own, which
  drops names that the hour's row already has.
- Strategies and ingress: an `until` strategy has correlation expectations of its
  own, and with `read: envelope` sees other items in a listen than in an `on`
  schedule; an event reaches at most `BATCH` triggers; wildcard triggers are
  asked before typed ones.
- Notices: one whose publication fails on some schedule's filter ends the worker
  at every tick; one pushed off the page loses its backoff.
- Replay: an emit that failed or has no answer is replayed as one that succeeded
  (so only ended runs are replayed where runs emit); a candidate's
  call without a recorded result raises an error the workflow may catch; an
  unrecorded jump can be refused before the recorded first refusal.
- Secrets: a secret whose text occurs in another's marker path is replaced
  inside the marker; when the last secret was withdrawn nothing is restored; of
  two secrets with one value only one path is kept.
- Dry runs execute `start_child` and `child_outcome` although the mock rule marks
  them, and their loop is bounded by `max_tasks`.
- The validator takes a fork branch's `then: end` for a way out of a loop, and
  does not count an extension's.

Where a run checks a property that one of these touches, its constants leave the
disagreement out and only that; everything else is checked with its code in
place.

## Proofs

Every theorem is for any value of its module's constants; the assumptions are
the modules' `ASSUME`s, or for SqliteSession, PostgresSession, Budget, Control,
Admission and Notices the named formula (`SqliteConstants`, `PostgresConstants`,
`BudgetConstants`, `ControlConstants`, `AdmissionConstants`, `NoticesAssumption`)
that MCStore, MCExecution, MCApi and MCEvents evaluate for their constants.

| Module | Theorems | From |
|---|---|---|
| RunsProofs | `Invariance`, `Typing`, `Ownership` (`OwnedWhileRunning`, `FencesDistinct`), `Trees` (`NoOrphans`), `InterruptionLimit` (`GivesUp`), `TakeoverSafety` (`NoTakeoverWhileActing`), `DueIndex` (`DueIsClaimable`); of every step `LostOwnership`, `OutcomeIsFinal`, `EmergencyStop` (`StoppedIsFrozen`), `Holding` (`HoldIsKept`) | `NoRunAssumption`, `PolicyAssumption` (a lease longer than the skew, a positive limit), `NoFenceAssumption` |
| DriverProofs | `Invariance`, `Typing`, `OneDrive` (`OneDriveAtATime`); of every step `HoldsKeepCalls` (`HoldKeepsCalls`); of Notices `HandedOn` (`GoneIsHanded`), `TripReports` (`ReportedOnce`), `Memory` (`TypeOK`, `MemoryBounded`), `Backoffs` (`RetriedAfterBackoff`): what `NoticesAreSound` says | `DriverAssumption` (the owner of no run is no worker, budgets are numbers); `NoticesAssumption`, and for `Backoffs` that all notices fit a page |
| MailboxProofs | `Counters` (`CountersAgree`), `Wakeups` (`NoLostWakeup`), `Handling` (`HandledOnce`), `Suspensions` (`SuspendedIsOpen`), `Joins` (`JoinIsWoken`); of every step `Listening` (`ListensAreKept`) | `ProgramAssumption`; `Joins` also `JoinIsOwn` (no listen of the program routes the child's end) |
| TriggersProofs | `Invariance`, `SlotsAreArmed` (`QueueIsArmed`), `SlotsAreKept` (`NoForgottenSlot`), `Soundness` (`ScheduleIsSound`); of every step `Ceilings` (`CeilingHolds`), `Firings` (`FiringsAreSound`) | `ScheduleAssumption`, `NoneAssumption` (no trigger, version or time is `None`) |
| CallJournalProofs | `Invariance`, `NeverTwice` (`NeverSentTwice`), `Knowing` (`HandlersKnow`), `Truth` (`JournalIsTrue`) | `SetupAssumption` (the setups are lists of one call or more with their options), `BoundAssumption` (one attempt or more, times are numbers, `Nobody` is no worker) |
| MemoryTxProofs | `Serializability` (`Serializable`: MemoryTx implements AtomicStore) | `MemoryAssumption` |
| SessionProofs | `SqliteSafety` (`SqliteIsClean`), `PostgresSafety` (`PostgresIsClean`) | `SqliteConstants`, `PostgresConstants` |
| TreeProofs | of Control `Invariance`, `Effects` (`EffectOnce`), `Agreement` (`OneReply`), `Responses` (`OneAnswer`), `Reporting` (`ReportedOnce`), `Signalling` (`CancelIsSignalled`) and `ControlSafety` (`ControlIsSound`, all five); of Budget `TreeInvariance`, `Ceilings` (`WithinBudget`), `Refusals` (`OneFirstRefusal`), `Inspections` (`InspectIsTrue`): what `BudgetIsKept` says of a tree's budget; of Admission `EntryInvariance`, `CallersAreTold` (`StartIsTold`), `ChildrenAreJoined` (`JoinsOwnChild`), `NestingIsCounted` (`DepthCounts`), `BudgetsNarrow` (`BudgetNarrows`), `HostDataIsVouched` (`HostIsVouched`), `RefusalsDoNothing` (`RefusedDidNothing`) | `ControlConstants` (commands are about runs, `None` is no run and no entry), `BudgetConstants` (finitely many runs, `None` is no number, key or decision); `AdmissionConstants` (tasks and starts name definitions, ceilings are numbers), for `BudgetsNarrow` that `None` is no link, and for `RefusalsDoNothing` that no task is a handler's |

**Runs.** The invariants are not inductive one by one: that a takeover is safe
needs that readings are never ahead of `now + Skew` (`ReadingsInSkew`); that
fences are distinct needs that no granted generation exceeds the row's; that a
live child has a live parent needs that absent rows are blank and that a cascade
reaches the whole live subtree. The argument has two levels. First, each action
changes each row in one of a few ways (`RowStep`) and its tree in one of few
(`TreeStep`): one lemma per action. Then what is said of a single row is proved
once per kind of row step, and `NoOrphans`, the only part about two rows, once
for a tree step. `HoldIsKept` follows from the same two kinds of step: a row that
stays held changes only by losing its owner, and a child of a held parent that is
not held was already there.

**Driver.** That one drive at a time has a call in flight is not inductive,
because a step sees its own drive and its run's row and no other drive. `Inv`
relates every drive to the row: a live drive's generation is at most the row's,
two live drives of a run differ in it (`GenerationsDiffer`), and while no lease
lapsed under its owner a live drive is the last that claimed the run and has its
lease until the run ends (`LiveIsCurrent`). With both, two drives with a call in
flight are one. That a clean stop leaves no lease needs the converse: while no
renewal failed and no worker died, a lease has a live drive that is on its way to
finish the run or to give it back (`LeasedIsDriven`). A drive that goes on, one
that ends, a claim, a lost lease and a step of nobody's drive are one lemma each;
the actions are instances of these. `HoldKeepsCalls` is proved by looking at
which steps may drop a call in flight and why.

**Notices.** Whoever is past a stage of the hand-off has passed it with the notice
it holds, the first of its page, and pages list committed notices only: so what an
acknowledgement removes was published and accepted (`Handed`). Of two workers that
acknowledge one notice only one finds the row, and a removed notice is never
pending again (`RemovedByOne`), so a trip is reported once. What a worker remembers
is of the notices of the page it last read, a set that the rest of its page stays
in (`RemembersPage`). That the page lists the pending notices in the order of
their keys, each once, needs that every rank is some notice's (`RankTaken`). A
notice that leaves the page is forgotten while it is pending, so `Backoffs` is
only for backlogs that fit a page.

**Mailbox.** A suspending run decides by counters and registrations whether
something it wants is pending (`pending_wanted`), not by its copies. So that no
wake-up is lost needs, beside the counters being exact, that a listener's listen
is subscribed and stands at its next position, and that a pending notice of a
type it takes is awaited (`ListenersAreOpen`); that the interpreter's place agrees
with the row (`BranchesAgree`); and that a suspended row with a copy a listener
could take is due (`Woken`), which every delivery, answer, notice and expiry has to
keep. Push, Consume and Close, of which the store's operations are made, have
their lemmas about counters and earliest expiries.

What is handled once has an invariant of its own (`OnceInv`). That an identity is
accepted once needs the `delivered` index to say no more than the live rows hold
(`IndexOnce`): a delivery without a target may then trust it, an earlier recipient
that ended included. That a copy is consumed once and at one position needs every
record of a listen to be behind its next position (`KeysBehind`), the marks on the
copies to be the records (`OneRecord`), and a join on its way to its event to have
none yet (`BranchOnce`). With each step goes what it may not do (`Orderly`): take
past an earlier copy, or drop a subscription. That an unsubscribe comes only after
the last event or the deadline is again what `BranchOnce` says of a branch about
to leave its listen.

That a suspended run can be woken at all is `OpenInv`. A branch that parked has
its listener and its wait in the row, and a suspended run has both for every
branch that is not over (`OpenRow`): the end of an execution may close only what
is over, and a restart must find the rest as it was. A child that ended left the
parent a copy that never expires, and the copy stays until the join takes it
(`HeardRow`); with `Wakeups` the parent is then due. `Joins` needs `JoinIsOwn`
because the code lets a listen name the `done:` event of a run, and such a listen
may take the copy before the join.

**Triggers.** `Inv` says of the rows what the three listed invariants need and
none of them says: a slot is buffered only under the `queue` policy, for an armed
trigger and the active version (`Sched`, which also speaks of what a pause
suspended); an epoch has a notice exactly while its breaker is tripped
(`Reported`); no slot could go unless its drain is deferred (`Waits`). Of a
worker's plan it says only what stays true while others commit: its trigger is
one that was stored, its next one is of the same epoch (`PlanOK`); it need not be
the stored one any more. What the store's operations do is said by relations that compose: a
drain (`Drains`) may promote, refuse and trip in one commit, a firing (`Fires`)
drains, replaces, admits or buffers, an end re-arms and drains. Every action is
then one of five kinds of step (`Kinds`), and the ceiling, the overlap rule, the
order of slots, the stop and the isolation of epochs are proved once for each
kind. That a tripped or promoting drain cannot break them is the hard part: a
promotion needs no live run of its trigger and a free place, both in the state
the earlier promotions of the same commit left. A firing that replaces ends
several runs, each with a drain of its own in the code; only the `queue` policy
buffers slots, so these drains find nothing, and `Replaced` has one for all.

**CallJournal.** No property of a call is inductive by itself, because what an
execution does next depends on its copy of the journal and on where it stands.
`Inv` therefore relates four things. The journal is in order (`JournalInOrder`):
without deadlines, attempts and tasks come one after the other, an attempt is
retried only when a task of it failed, and a catch that does not name the unknown
outcome has decided nothing about an attempt with a pending at-most-once call.
Each worker's place fits its copy (`PlaceOK`, `PlaceInOrder`), its copy is behind
the journal (`Advances`), and the owner's is the journal itself where it still
writes (`Current`): this is why a worker that lost its lease may go on without
harm. What was sent has an intent in the journal (`SentIsTrue`), and an
at-most-once call has at most one worker between its intent and its answer
(`OneSender`): whoever finds another's intent does not send. Finally, while no
fault happened there is one execution, and a call in doubt is the one it stands at
or ends the run with (`Undisturbed`). Each action is shown to be one of five kinds
of step (`Kind`): it leaves calls alone, saves an intent, saves an answer, sends,
or hears. Each part of `Inv` is then proved once for each kind.

With deadlines the order is lost, because a deadline drops a save whose commit may
still happen; `NeverSentTwice` and the replay part of `JournalIsTrue` do not hold
there (the run `resend` shows the first) and are stated without deadlines.
The theorem covers deadlines for what remains: results are never skipped, totals
are exact, envelopes are one, and `HandlersKnow` holds while nothing fails.

**MemoryTx.** A commit validates by version, long after the call read. The
invariant speaks of every table that may be there by then: if what an open call
observed holds in such a table, its log is what it would have seen and done alone
from that table. A committed call is then the one step of AtomicStore, every
other step a stutter. The hard part is a limited range: rows hidden by the call's
own writes make the scan read further than its result shows.

**Sqlite, Postgres.** What is not inductive is who may still touch a connection:
the invariants say, for each phase of a caller, what its connection looks like,
and, of a connection given up with a COMMIT on its way, that its caller was told
nothing definite. On Postgres a caller that rolls back may have an abandoned
statement before its ROLLBACK: no answer is left on the connection until the last
request of the queue is done (`HoldersAreServed`), and once it is, nothing else
is left either (`Spent`), which is what lets the session go back.

**Control.** What a caller was told must stay true after the row it was about has
changed. The steps only ever add to what is stored (`Grows`): a row stays ended, a
fired token fired, a closed wait closed, entries and answers as they were. `Inv`
says of every answer, given or on its way, that a reply is the journal's and a
refusal of an event final (`Given`, `Hopeless`); of every entry that its run ended
or was answered as it says (`EntryHolds`); of a caller past the signal that the
tokens of its cancelled tree fired (`FiredFor`), which needs that a run ends with
its descendants (`NoOrphan`); and that of the callers that hold one request at most
one has its report still to make (`ReportsOnce`).

**Budget.** That a tree never spends more than its limit is not inductive: a
decision recorded before a crash is taken again without a unit, and an end of the
root forgets the count. `Inv` relates the row to the set of units granted while
the root lives (`RowCounts`), the records to what was granted (`RecordsTell`),
every refusal to its run's first (`RefusalsAgree`), and each branch's place to
the units it took (`PlacesPaid`): without this a branch that replays could be at
a place it never paid for. What an inspection tells of a run that ended is the
count noted with its end (`EndsNoted`).

**Admission.** A start decides on what it read and commits later, so what is said
must outlast everything others do in between. `EntryInv` says it of the part of a
row that no action changes (`Lasting`): a row is a root's, or the child of one
attempt of one task of a run that is there, with that run's depth and budget
(`IsChild`), and its id names the attempt (`IdsDiffer`). A process about to admit
holds such a row, one that drives has its run's lineage (`Driving`). A row found
under a child's id is then that attempt's own child (`ChildRow`), which is why no
dispatch meets a mismatch. `RefusalsDoNothing` leaves handlers out: a handler's
dispatch checks the depth before it reads the row (see "Where code and
documentation disagree"). Each action is shown to keep the invariant by a lemma of
its own; one of a process (`OneMoves`) and one of a row (`Admits`) carry the rest.

Induction over data is not available to these proofs. Where it is needed (a scan,
an earliest expiry) it is replaced by the least element of a set of numbers
(`LeastNat`), and sizes of sets by the library's theorems on finite sets.

Only model-checked:

- liveness (`WorkEnds`), and anything with `ENABLED`;
- Triggers: the race of two workers over two versions (`RacesAreSound`; its
  parts about stale firings and reports are instances of `Firings` and
  `Soundness`), and `AfterGoesOn`, which a pause breaks (`paused`);
- Admission: that no owned child outlives its parent and that a handler's scope
  is its lineage (`NoOrphan`, `ScopeIsLineage`), which speak of trees built by
  recursion over the links;
- the other components' promises (Interpreter, Ingress, Listen, Registry, Replay,
  DryRun, Redaction, Flows, Listing, Workers, Totals);
- what recursive definitions compute (Flows' walks, Redaction's texts).

## Not modelled

- Parsing and validating documents (`model.rs`), beyond the check of jumps: the
  result is a data structure that the modules take as a constant.
- jq expressions, JSON schemas, transforms and regular expressions: external
  libraries, modelled by the decisions they lead to.
- The isolation of SQLite and Postgres (external), and schema migration, which
  runs once before the store is used.
- Observers, metrics and telemetry: they report the modelled steps and change
  nothing. Control and DryRun model the reports that carry a promise.
- `cron`: its next instant is a calendar computation; it behaves as `every`.
- Definition summaries and the wording of errors in the control plane;
  `recover_once`; `Runtime::start_child` under an embedding host's own fence.
- A listen inside a competing fork, the host's `max_listen`, children of children
  in Mailbox; in Driver, the version a worker's application admits.
- `conformance.rs`, the tests and the examples: they have no protocol of their
  own. The repository's Quint contract (`spec/`) states that it does not check
  signed clock skew; `NoTakeoverWhileActing` covers it here.

## Plan

What is left is proof, in this order:

1. The loops of Interpreter (`OneHandler`, `BudgetHolds`).
2. Ingress, whose promises speak of what publishers read and offered earlier.
