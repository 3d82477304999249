------------------------------- MODULE Driver -------------------------------
(***************************************************************************)
(* The worker (crates/runtime/src/execution.rs: worker, drive_mode,        *)
(* execute, settle_held, yield_held) over the store's fenced operations.   *)
(* A worker polls for due runs and drives each: it claims the run, executes *)
(* it while a heartbeat renews the lease, and finishes or gives it back.    *)
(* Every store operation is a step of its own, so that operators, other     *)
(* workers and the lease's end come between any two.  A run makes its calls *)
(* concurrently, as the branches of a fork, waits once and ends.  Time is   *)
(* left out: a lease lapses and a run comes due at any moment.              *)
(***************************************************************************)
EXTENDS Naturals, FiniteSets, FiniteSetsExt

CONSTANTS
    Worker, Run,
    Call,               \* the calls of a run, one in each branch of a fork
    Mute,               \* those whose handler never answers
    Slots,              \* max_concurrency
    Permits,            \* max_function_concurrency
    MaxInterruptions,   \* MAX_INTERRUPTIONS
    Budget,             \* how often each kind of event may happen
    MaxEvents           \* and how many events in all

NoWorker == "none"

\* The kinds of events that a budget bounds.
Kinds == {"hold", "stop", "crash", "lapse", "fault", "cancel", "shutdown"}

ASSUME DriverAssumption == NoWorker \notin Worker /\ Budget \in [Kinds -> Nat]

VARIABLES
    row,                \* the stored runs
    stopped,            \* the emergency stop
    wk,                 \* the worker loops
    drive,              \* their drives, by worker and run
    left,               \* what is left of Budget
    reports             \* history: the ends of runs that drives reported, <<run, generation, status>>

vars == <<row, stopped, wk, drive, left, reports>>

Terminal == {"Completed", "Failed", "Cancelled"}

NoDrive == [st |-> "none", gen |-> 0, pc |-> [c \in Call |-> "idle"], out |-> "none",
            why |-> "none"]

Init ==
    /\ row = [r \in Run |->
                [state |-> "Ready", gen |-> 0, owner |-> NoWorker, lease |-> FALSE,
                 due |-> TRUE, held |-> FALSE, intr |-> 0, timer |-> "none",
                 rec |-> [c \in Call |-> "none"]]]
    /\ stopped = FALSE
    /\ wk = [w \in Worker |-> [st |-> "up", due |-> {}, failed |-> FALSE]]
    /\ drive = [w \in Worker |-> [r \in Run |-> NoDrive]]
    /\ left = Budget
    /\ reports = {}

-----------------------------------------------------------------------------
(* The store, as Runs models it. *)

Ended(r) == row[r].state \in Terminal

\* One more event of a kind, within the bounds.
Happened == MapThenSumSet(LAMBDA k : Budget[k] - left[k], DOMAIN left)
Spent(what) ==
    /\ left[what] > 0 /\ Happened < MaxEvents
    /\ left' = [left EXCEPT ![what] = @ - 1]

Claimable(r) ==
    /\ ~row[r].held
    /\ \/ row[r].state \in {"Ready", "Waiting"} /\ row[r].due
       \/ row[r].state = "Running" /\ ~row[r].lease

Authority(w, r) ==
    /\ row[r].state = "Running" /\ row[r].owner = w
    /\ row[r].gen = drive[w][r].gen /\ row[r].lease

Checked(w, r) == ~stopped /\ Authority(w, r) /\ ~row[r].held

\* Why a fenced operation is refused.
Refusal(w, r) ==
    CASE stopped -> "stopped"
      [] ~stopped /\ ~Authority(w, r) -> "lost"
      [] OTHER -> "held"

Unowned(s) == [s EXCEPT !.owner = NoWorker, !.lease = FALSE]
Released(r) == [row EXCEPT ![r] = [Unowned(@) EXCEPT !.state = "Ready", !.due = TRUE]]

-----------------------------------------------------------------------------
(* The worker loop. *)

Drives(w) == {r \in Run : drive[w][r].st # "none"}
Stopping(w) == wk[w].st = "draining"
Put(w, r, d) == drive' = [drive EXCEPT ![w][r] = d]
At(w, r, st) == drive[w][r].st = st
Move(w, r, st) == Put(w, r, [drive[w][r] EXCEPT !.st = st])

\* The drive ended; its error ends the worker.
Leave(w, r, failed) ==
    /\ Put(w, r, NoDrive)
    /\ wk' = IF failed THEN [wk EXCEPT ![w].st = "draining", ![w].failed = TRUE] ELSE wk

\* Altered: a poll does not list runs whose lease is over.
PollReady(w) ==
    /\ wk[w].st = "up" /\ wk[w].due = {} /\ ~stopped
    /\ wk' = [wk EXCEPT ![w].due = {r \in Run : Claimable(r) /\ row[r].state # "Running"}]
    /\ wk'[w].due # {}
    /\ UNCHANGED <<row, stopped, drive, left, reports>>

\* One tick's read of the due runs; what it found may be stale when it is used.
Poll(w) ==
    /\ wk[w].st = "up" /\ wk[w].due = {} /\ ~stopped
    /\ wk' = [wk EXCEPT ![w].due = {r \in Run : Claimable(r)}]
    /\ wk'[w].due # {}
    /\ UNCHANGED <<row, stopped, drive, left, reports>>

\* The due runs are driven, up to the worker's slots and each once.
Spawn(w) ==
    /\ wk[w].st = "up" /\ wk[w].due # {}
    /\ \E new \in SUBSET (wk[w].due \ Drives(w)) :
         /\ Cardinality(new) + Cardinality(Drives(w)) <= Slots
         /\ \/ new = wk[w].due \ Drives(w)
            \/ Cardinality(new) + Cardinality(Drives(w)) = Slots
         /\ drive' = [drive EXCEPT ![w] =
                        [r \in Run |-> IF r \in new THEN [NoDrive EXCEPT !.st = "queued"] ELSE @[r]]]
    /\ wk' = [wk EXCEPT ![w].due = {}]
    /\ UNCHANGED <<row, stopped, left, reports>>

\* The host stops the worker; its drives see the token at their next await.
Shutdown(w) ==
    /\ wk[w].st = "up" /\ Spent("shutdown")
    /\ wk' = [wk EXCEPT ![w].st = "draining", ![w].due = {}]
    /\ UNCHANGED <<row, stopped, drive, reports>>

\* Every future has been joined.
Drained(w) ==
    /\ Stopping(w) /\ Drives(w) = {}
    /\ wk' = [wk EXCEPT ![w].st = IF wk[w].failed THEN "failed" ELSE "down", ![w].due = {}]
    /\ UNCHANGED <<row, stopped, drive, left, reports>>

\* The process dies with what it drives.
Crash(w) ==
    /\ wk[w].st # "failed" /\ Spent("crash")
    /\ wk' = [wk EXCEPT ![w] = [st |-> "failed", due |-> {}, failed |-> TRUE]]
    /\ drive' = [drive EXCEPT ![w] = [r \in Run |-> NoDrive]]
    /\ UNCHANGED <<row, stopped, reports>>

Restart(w) ==
    /\ wk[w].st \in {"down", "failed"}
    /\ wk' = [wk EXCEPT ![w] = [st |-> "up", due |-> {}, failed |-> FALSE]]
    /\ UNCHANGED <<row, stopped, drive, left, reports>>

-----------------------------------------------------------------------------
(* A drive, up to its execution. *)

\* drive_mode: a stop before the permit is taken claims nothing.
Abandon(w, r) ==
    /\ At(w, r, "queued") /\ Stopping(w)
    /\ Leave(w, r, FALSE)
    /\ UNCHANGED <<row, stopped, left, reports>>

Claimed(s, w) ==
    [s EXCEPT !.state = "Running", !.owner = w, !.lease = TRUE, !.gen = s.gen + 1]

\* Altered: a claim does not look at the lease.
ClaimAgain(w, r) ==
    /\ At(w, r, "queued")
    /\ IF ~stopped /\ (Claimable(r) \/ (row[r].state = "Running" /\ ~row[r].held))
       THEN /\ row' = [row EXCEPT ![r] = Claimed(@, w)]
            /\ Put(w, r, [drive[w][r] EXCEPT !.st = "load", !.gen = row[r].gen + 1])
            /\ UNCHANGED wk
       ELSE Leave(w, r, FALSE) /\ UNCHANGED row
    /\ UNCHANGED <<stopped, left, reports>>

\* claim_as: the run may have been taken, held or ended since it was due.
Claim(w, r) ==
    /\ At(w, r, "queued")
    /\ IF ~stopped /\ Claimable(r)
       THEN /\ row' = [row EXCEPT ![r] = Claimed(@, w)]
            /\ Put(w, r, [drive[w][r] EXCEPT !.st = "load", !.gen = row[r].gen + 1])
            /\ UNCHANGED wk
       ELSE Leave(w, r, FALSE) /\ UNCHANGED row
    /\ UNCHANGED <<stopped, left, reports>>

\* The execution's outcome: `why` is what refused its step, if one was refused.
Over(w, r, out, why) ==
    Put(w, r, [drive[w][r] EXCEPT !.st = "ended", !.out = out, !.why = why,
                                  !.pc = [c \in Call |-> "idle"]])

\* Preloaded::read: the records are read once; a failed read is the run's outcome.
Load(w, r) ==
    /\ At(w, r, "load")
    /\ IF Checked(w, r) THEN Move(w, r, "check") ELSE Over(w, r, "interrupted", Refusal(w, r))
    /\ UNCHANGED <<row, stopped, wk, left, reports>>

(* execute: what the definition calls is still registered.  A function that  *)
(* is gone faults the run, one that is bound otherwise interrupts it; both   *)
(* finish at once, and there a refusal is the drive's error.                 *)
Check(w, r) ==
    /\ At(w, r, "check")
    /\ \/ Move(w, r, "run") /\ UNCHANGED left
       \/ /\ Spent("fault")
          /\ \E out \in {"failed", "interrupted"} :
               Put(w, r, [drive[w][r] EXCEPT !.st = "unfit", !.out = out, !.why = "own"])
    /\ UNCHANGED <<row, stopped, wk, reports>>

-----------------------------------------------------------------------------
(* The execution, polled while the drive is in `run` or settles a hold. *)

Executes(w, r) == drive[w][r].st \in {"run", "settle"}
Pc(w, r, c, pc) == Put(w, r, [drive[w][r] EXCEPT !.pc[c] = pc])
Dispatched(w) == {x \in Run \X Call : drive[w][x[1]].pc[x[2]] \in {"sent", "answered"}}

\* The intent is saved, again when an earlier execution left it unanswered.
Intent(w, r, c) ==
    /\ Executes(w, r) /\ drive[w][r].pc[c] = "idle" /\ row[r].rec[c] # "done"
    /\ IF Checked(w, r)
       THEN Pc(w, r, c, "open") /\ row' = [row EXCEPT ![r].rec[c] = "pending"]
       ELSE Over(w, r, "interrupted", Refusal(w, r)) /\ UNCHANGED row
    /\ UNCHANGED <<stopped, wk, left, reports>>

\* invoke_function: a permit of the worker's, and the lease checked once more.
Dispatch(w, r, c) ==
    /\ Executes(w, r) /\ drive[w][r].pc[c] = "open"
    /\ Cardinality(Dispatched(w)) < Permits
    /\ IF Checked(w, r) THEN Pc(w, r, c, "sent") ELSE Over(w, r, "interrupted", Refusal(w, r))
    /\ UNCHANGED <<row, stopped, wk, left, reports>>

Answer(w, r, c) ==
    /\ Executes(w, r) /\ drive[w][r].pc[c] = "sent" /\ c \notin Mute
    /\ Pc(w, r, c, "answered")
    /\ UNCHANGED <<row, stopped, wk, left, reports>>

\* An answer is saved under a hold too.
Save(w, r, c) ==
    /\ Executes(w, r) /\ drive[w][r].pc[c] = "answered"
    /\ IF ~stopped /\ Authority(w, r)
       THEN Pc(w, r, c, "done") /\ row' = [row EXCEPT ![r].rec[c] = "done"]
       ELSE Over(w, r, "interrupted", Refusal(w, r)) /\ UNCHANGED row
    /\ UNCHANGED <<stopped, wk, left, reports>>

\* Every branch is done: a durable wait, then the end.
Return(w, r) ==
    /\ Executes(w, r)
    /\ \A c \in Call : row[r].rec[c] = "done" /\ drive[w][r].pc[c] \in {"idle", "done"}
    /\ CASE row[r].timer = "set" -> Over(w, r, "waiting", "own") /\ UNCHANGED row
         [] row[r].timer = "none" /\ Checked(w, r) ->
              Over(w, r, "waiting", "own") /\ row' = [row EXCEPT ![r].timer = "set"]
         [] row[r].timer = "over" /\ Checked(w, r) -> Over(w, r, "completed", "own") /\ UNCHANGED row
         [] OTHER -> Over(w, r, "interrupted", Refusal(w, r)) /\ UNCHANGED row
    /\ UNCHANGED <<stopped, wk, left, reports>>

\* signal_cancelled: the token of a run that ended stops its execution here.
Signal(w, r) ==
    /\ Executes(w, r) /\ row[r].state = "Cancelled"
    /\ Over(w, r, "interrupted", "lost")
    /\ UNCHANGED <<row, stopped, wk, left, reports>>

\* The interpreter is dropped where it is.
Drop(w, r, st, why) ==
    Put(w, r, [drive[w][r] EXCEPT !.st = st, !.why = why, !.pc = [c \in Call |-> "idle"]])

\* The heartbeat: a held run's lease is renewed too.
Heartbeat(w, r) ==
    /\ At(w, r, "run")
    /\ CASE stopped -> Drop(w, r, "giveback", "stopped")
         [] ~stopped /\ ~Authority(w, r) -> Drop(w, r, "lost", "lost")
         [] OTHER -> row[r].held /\ Move(w, r, "settle")
    /\ UNCHANGED <<row, stopped, wk, left, reports>>

\* A renewal fails although the lease is good.
HeartbeatFails(w, r) ==
    /\ At(w, r, "run") /\ Spent("fault")
    /\ Drop(w, r, "lost", "fault")
    /\ UNCHANGED <<row, stopped, wk, reports>>

\* The worker's stop drops the run and gives it back.
Stop(w, r) ==
    /\ Stopping(w)
    /\ \/ At(w, r, "run") /\ Drop(w, r, "giveback", "worker")
       \/ At(w, r, "settle") /\ Drop(w, r, "yield", "worker")
    /\ UNCHANGED <<row, stopped, wk, left, reports>>

Open(w, r) == {c \in Call : drive[w][r].pc[c] \in {"open", "sent", "answered"}}

\* Altered: a hold does not wait for calls in flight.
SettleAtOnce(w, r) ==
    /\ At(w, r, "settle")
    /\ Drop(w, r, "yield", "held")
    /\ UNCHANGED <<row, stopped, wk, left, reports>>

\* settle_held: until every call this execution sent has its answer saved.
Settle(w, r) ==
    /\ At(w, r, "settle")
    /\ Open(w, r) = {} \/ stopped \/ ~Authority(w, r)
    /\ Drop(w, r, "yield", "held")
    /\ UNCHANGED <<row, stopped, wk, left, reports>>

-----------------------------------------------------------------------------
(* How a drive ends. *)

Report(w, r, status) ==
    reports' = IF status \in Terminal \ {"Cancelled"} THEN reports \cup {<<r, drive[w][r].gen, status>>}
                                                       ELSE reports

\* A terminal status that this drive did not commit.
Foreign(w, r) ==
    IF row[r].state = "Cancelled" THEN Report(w, r, "Cancelled") ELSE Report(w, r, "Interrupted")

\* release, whose refusal is the drive's error.
GiveBack(w, r) ==
    /\ At(w, r, "giveback")
    /\ IF Authority(w, r)
       THEN row' = Released(r) /\ Leave(w, r, FALSE)
       ELSE UNCHANGED row /\ Leave(w, r, TRUE)
    /\ Report(w, r, "Interrupted")
    /\ UNCHANGED <<stopped, left>>

\* yield_held: a lease that is gone is no loss.
Yield(w, r) ==
    /\ At(w, r, "yield")
    /\ row' = IF Authority(w, r) THEN Released(r) ELSE row
    /\ IF Ended(r) THEN Foreign(w, r) ELSE Report(w, r, "Interrupted")
    /\ Leave(w, r, FALSE)
    /\ UNCHANGED <<stopped, left>>

\* The lease was lost: what ended the run, if anything did.
Lost(w, r) ==
    /\ At(w, r, "lost")
    /\ IF Ended(r) THEN Foreign(w, r) ELSE Report(w, r, "Interrupted")
    /\ Leave(w, r, FALSE)
    /\ UNCHANGED <<row, stopped, left>>

\* Before finishing: a cancel may have ended the run, and the stop may be set.
LookEnded(w, r) ==
    /\ At(w, r, "ended")
    /\ IF Ended(r)
       THEN Foreign(w, r) /\ Leave(w, r, FALSE)
       ELSE Move(w, r, "looked") /\ UNCHANGED <<wk, reports>>
    /\ UNCHANGED <<row, stopped, left>>

LookStopped(w, r) ==
    /\ At(w, r, "looked")
    /\ Move(w, r, IF stopped THEN "giveback" ELSE "finish")
    /\ UNCHANGED <<row, stopped, wk, left, reports>>

\* The row that the store's finish leaves.
FinishedRow(s, out) ==
    CASE out = "completed" -> [Unowned(s) EXCEPT !.state = "Completed", !.held = FALSE]
      [] out = "failed" -> [Unowned(s) EXCEPT !.state = "Failed", !.held = FALSE]
      [] out = "waiting" -> [Unowned(s) EXCEPT !.state = "Waiting", !.intr = 0,
                                               !.due = s.timer = "over"]
      [] out = "interrupted" /\ s.intr + 1 >= MaxInterruptions ->
           [Unowned(s) EXCEPT !.state = "Failed", !.intr = @ + 1]
      [] OTHER -> [Unowned(s) EXCEPT !.state = "Ready", !.intr = @ + 1, !.due = FALSE]

Status(s) == IF s.state = "Ready" THEN "Interrupted" ELSE s.state

\* finish: a hold or the stop since then gives the run back.
Finish(w, r) ==
    /\ At(w, r, "finish")
    /\ IF Checked(w, r)
       THEN /\ row' = [row EXCEPT ![r] = FinishedRow(@, drive[w][r].out)]
            /\ Leave(w, r, FALSE)
            /\ Report(w, r, Status(FinishedRow(row[r], drive[w][r].out)))
       ELSE /\ CASE Refusal(w, r) = "held" -> Move(w, r, "yield") /\ UNCHANGED <<wk, reports>>
                 [] Refusal(w, r) = "stopped" -> Move(w, r, "giveback") /\ UNCHANGED <<wk, reports>>
                 [] OTHER -> Leave(w, r, TRUE) /\ Report(w, r, "Interrupted")
            /\ UNCHANGED row
    /\ UNCHANGED <<stopped, left>>

\* The finish of a run that this host cannot execute: any refusal is an error.
FinishUnfit(w, r) ==
    /\ At(w, r, "unfit")
    /\ row' = IF Checked(w, r) THEN [row EXCEPT ![r] = FinishedRow(@, drive[w][r].out)] ELSE row
    /\ Leave(w, r, ~Checked(w, r))
    /\ Report(w, r, IF Checked(w, r) THEN Status(FinishedRow(row[r], drive[w][r].out)) ELSE "Interrupted")
    /\ UNCHANGED <<stopped, left>>

-----------------------------------------------------------------------------
(* Operators and time. *)

Hold(r) ==
    /\ ~Ended(r) /\ ~row[r].held /\ Spent("hold")
    /\ row' = [row EXCEPT ![r].held = TRUE]
    /\ UNCHANGED <<stopped, wk, drive, reports>>

Unhold(r) ==
    /\ row[r].held
    /\ row' = [row EXCEPT ![r].held = FALSE]
    /\ UNCHANGED <<stopped, wk, drive, left, reports>>

Cancel(r) ==
    /\ ~Ended(r) /\ Spent("cancel")
    /\ row' = [row EXCEPT ![r] = [Unowned(@) EXCEPT !.state = "Cancelled", !.held = FALSE]]
    /\ UNCHANGED <<stopped, wk, drive, reports>>

EmergencyStop ==
    /\ ~stopped /\ Spent("stop")
    /\ stopped' = TRUE
    /\ UNCHANGED <<row, wk, drive, reports>>

ClearStop ==
    /\ stopped
    /\ stopped' = FALSE
    /\ UNCHANGED <<row, wk, drive, left, reports>>

\* A lease ends: its owner is gone, or too slow to renew it.
Orphan(r) == row[r].owner # NoWorker /\ drive[row[r].owner][r].gen # row[r].gen

Lapse(r) ==
    /\ row[r].lease
    /\ IF Orphan(r) THEN UNCHANGED left ELSE Spent("lapse")
    /\ row' = [row EXCEPT ![r].lease = FALSE]
    /\ UNCHANGED <<stopped, wk, drive, reports>>

\* A timer or a back-off is over.
Due(r) ==
    /\ row[r].state \in {"Ready", "Waiting"} /\ ~row[r].due
    /\ row' = [row EXCEPT ![r].due = TRUE,
                          ![r].timer = IF row[r].state = "Waiting" THEN "over" ELSE @]
    /\ UNCHANGED <<stopped, wk, drive, left, reports>>

Execution(w, r) ==
    \/ \E c \in Call : Intent(w, r, c) \/ Dispatch(w, r, c) \/ Answer(w, r, c) \/ Save(w, r, c)
    \/ Return(w, r)

Driving(w, r) ==
    \/ Abandon(w, r) \/ Claim(w, r) \/ Load(w, r) \/ Check(w, r) \/ Execution(w, r)
    \/ Heartbeat(w, r) \/ Stop(w, r) \/ Settle(w, r)
    \/ GiveBack(w, r) \/ Yield(w, r) \/ Lost(w, r)
    \/ LookEnded(w, r) \/ LookStopped(w, r) \/ Finish(w, r) \/ FinishUnfit(w, r)

Loop(w) == Poll(w) \/ Spawn(w) \/ Drained(w) \/ Restart(w)

Next ==
    \/ \E w \in Worker : Loop(w) \/ Shutdown(w) \/ Crash(w)
    \/ \E w \in Worker, r \in Run : Driving(w, r) \/ HeartbeatFails(w, r) \/ Signal(w, r)
    \/ \E r \in Run : Hold(r) \/ Unhold(r) \/ Cancel(r) \/ Lapse(r) \/ Due(r)
    \/ EmergencyStop \/ ClearStop

(* The executor polls every drive and its heartbeat, a poll follows a poll,  *)
(* the host restarts a worker that ended, leases end and timers come due,    *)
(* and an operator ends a hold or a stop.  No handler need answer: the calls *)
(* in Mute never do.                                                         *)
Fairness ==
    /\ \A w \in Worker : WF_vars(Loop(w))
    /\ \A w \in Worker, r \in Run :
         WF_vars(Driving(w, r)) /\ WF_vars(Heartbeat(w, r)) /\ WF_vars(Stop(w, r))
    /\ \A r \in Run : WF_vars(Unhold(r)) /\ WF_vars(Lapse(r) /\ UNCHANGED left) /\ WF_vars(Due(r))
    /\ WF_vars(ClearStop)

Spec == Init /\ [][Next]_vars /\ Fairness

-----------------------------------------------------------------------------
(* Properties. *)

Outcomes == {"none", "interrupted", "failed", "waiting", "completed"}
Reasons == {"none", "own", "stopped", "lost", "held", "fault", "worker"}
Steps == {"none", "queued", "load", "check", "run", "settle", "unfit", "giveback", "yield", "lost",
          "ended", "looked", "finish"}

RowType ==
    [state : {"Ready", "Waiting", "Running"} \cup Terminal, gen : Nat,
     owner : Worker \cup {NoWorker}, lease : BOOLEAN, due : BOOLEAN, held : BOOLEAN, intr : Nat,
     timer : {"none", "set", "over"}, rec : [Call -> {"none", "pending", "done"}]]
DriveType ==
    [st : Steps, gen : Nat, pc : [Call -> {"idle", "open", "sent", "answered", "done"}],
     out : Outcomes, why : Reasons]

TypeOK ==
    /\ row \in [Run -> RowType]
    /\ stopped \in BOOLEAN
    /\ wk \in [Worker -> [st : {"up", "draining", "down", "failed"}, due : SUBSET Run, failed : BOOLEAN]]
    /\ drive \in [Worker -> [Run -> DriveType]]
    /\ left \in [Kinds -> Nat] /\ \A k \in Kinds : left[k] <= Budget[k]
    /\ reports \subseteq Run \X Nat \X {"Completed", "Failed"}

(* Two workers have one call in flight only after a lease was lost: neither  *)
(* a stale list of due runs nor a restart makes a run execute twice.         *)
NoDoubleDispatch ==
    \A r \in Run, c \in Call :
        left.lapse = Budget.lapse =>
          Cardinality({w \in Worker : drive[w][r].pc[c] \in {"sent", "answered"}}) <= 1

(* A run's end is reported by the drive that committed it, and by no other:  *)
(* one that finds the run ended, or lost it, reports an interruption.        *)
EndIsReportedOnce ==
    \A x \in reports : x[3] \in {"Completed", "Failed"} =>
        /\ row[x[1]].state = x[3]
        /\ \A y \in reports : (y[1] = x[1] /\ y[3] = x[3]) => y = x

(* A worker that stopped cleanly has left no run leased: each is finished or *)
(* due at once, unless a renewal had failed before.                          *)
CleanStopReleases ==
    \A w \in Worker, r \in Run :
        (wk[w].st = "down" /\ row[r].owner = w /\ row[r].lease)
            => left.fault < Budget.fault \/ left.crash < Budget.crash

\* One drive at a time has a run, to its report and to its worker's end.
OneDriveAtATime == NoDoubleDispatch /\ EndIsReportedOnce /\ CleanStopReleases

\* A worker that goes on drops a call in flight, its run's renewals being good.
Drops(w, r, c) ==
    /\ drive[w][r].pc[c] = "sent" /\ drive'[w][r].pc[c] \notin {"sent", "answered"}
    /\ wk[w].st = "up" /\ wk'[w].st = "up" /\ left.fault = left'.fault

(* The settling of a hold does not retract a call: while the worker goes on  *)
(* a call in flight is dropped only when the lease is lost, the emergency    *)
(* stop is set, or the execution itself ended because a step of another      *)
(* branch was refused under the hold (execute, settle_held).                 *)
HoldKeepsCalls ==
    [][\A w \in Worker, r \in Run, c \in Call :
         Drops(w, r, c) => \/ stopped \/ ~Authority(w, r)
                           \/ row[r].held /\ drive'[w][r].st = "ended"]_vars

(* docs/control.md: a held run's worker keeps its lease until every call it  *)
(* dispatched has answered; a call already dispatched is not retracted.      *)
NotRetracted ==
    [][\A w \in Worker, r \in Run, c \in Call :
         Drops(w, r, c) => stopped \/ ~Authority(w, r)]_vars

(* A cancelled run is not executed for ever, whether or not its handlers     *)
(* answer.                                                                   *)
CancelStops ==
    \A r \in Run : row[r].state = "Cancelled" ~> \A w \in Worker : drive[w][r].st = "none"
=============================================================================
