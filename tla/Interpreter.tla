----------------------------- MODULE Interpreter -----------------------------
(***************************************************************************)
(* One run of the DSL interpreter (crates/ows/src/run.rs: execute, task,   *)
(* steps, layer, list, kind, fork, concurrent, jump, exceeded) over its    *)
(* journal.  A task is a record (see the MC module); its invocation is the *)
(* path of <<stage, index, visit>> from the workflow's list to it.  Every  *)
(* invocation in progress has a frame, so that branches interleave; what   *)
(* is saved survives a crash or a suspension, and the run is replayed from *)
(* its beginning.  Values are left out: a task's outcome is how it ended   *)
(* and where it flows.                                                     *)
(***************************************************************************)
EXTENDS Naturals, Sequences, FiniteSets, FiniteSetsExt, TLC

CONSTANTS
    Programs,       \* workflows: the root task, on_exceeded, max jumps
    MaxTasks,       \* limits.max_tasks
    HandlerTasks,   \* HANDLER_TASKS, the tasks an on_exceeded handler may run
    MaxNow,         \* bound on the clock
    MaxCrashes      \* bound on crashes

VARIABLES
    program,
    rec,            \* saved tasks: path -> [started, res, flow]; due is ghost
    winner,         \* saved winners: path of a fork -> branch
    budget,         \* saved jumps: path -> [granted, first]
    timer,          \* saved timers: path -> deadline
    fin,            \* the finished record's status, or "none"
    up,             \* an execution is in progress
    frame,          \* its invocations in progress
    ran,            \* its tasks_run counter
    entered,        \* tasks its on_exceeded handler entered
    watch,          \* its exceeded channel
    cancel,
    wakeAt,         \* when the suspended run is due
    now,
    crashes,
    acted,          \* history: paths whose refusal acted on on_exceeded
    exposed         \* history: <<fork, branch>> results a fork returned

journal == <<rec, winner, budget, timer, fin>>
history == <<acted, exposed>>
vars == <<program, rec, winner, budget, timer, fin, up, frame, ran, entered, watch,
          cancel, wakeAt, now, crashes, acted, exposed>>

Never == MaxNow + 1
Earlier(a, b) == IF a < b THEN a ELSE b
Untold == [res |-> "none", wake |-> Never]
With(f, k, v) == [q \in DOMAIN f \cup {k} |-> IF q = k THEN v ELSE f[q]]

Granted == {r \in DOMAIN budget : budget[r].granted}
Refused == DOMAIN budget \ Granted

Frame(task) ==
    [task |-> task, st |-> "enter", stage |-> "none", i |-> 0, vis |-> <<>>,
     flow |-> "none", res |-> "none", wake |-> Never, got |-> <<>>]

Below(r) == {q \in DOMAIN frame : Len(q) > Len(r) /\ SubSeq(q, 1, Len(r)) = r}

\* frame with f at r, and only the invocations `kids` below it.
Framed(r, f, kids) ==
    [q \in ((DOMAIN frame \ Below(r)) \cup {r} \cup DOMAIN kids) |->
        CASE q = r -> f [] q \in DOMAIN kids -> kids[q] [] OTHER -> frame[q]]

Only(r, f) == Framed(r, f, <<>>)

Init ==
    /\ program \in Programs
    /\ rec = <<>> /\ winner = <<>> /\ budget = <<>> /\ timer = <<>>
    /\ fin = "none"
    /\ up = FALSE
    /\ frame = <<>>
    /\ ran = 0 /\ entered = 0
    /\ watch = Untold
    /\ cancel = FALSE
    /\ wakeAt = 0
    /\ now = 0
    /\ crashes = 0
    /\ acted = {} /\ exposed = {}

-----------------------------------------------------------------------------
(* Lists. *)

\* A flow is a directive, or the name of a task of the same list.
Goto(flow) == flow \notin {"none", "continue", "exit", "end"}

List(f) ==
    CASE f.stage = "before" -> f.task.before
      [] f.stage = "after" -> f.task.after
      [] f.stage = "catch" -> f.task.catch
      [] OTHER -> f.task.kids

Named(list, name) == CHOOSE i \in DOMAIN list : list[i].name = name

Visits(f, i) == IF i \in DOMAIN f.vis THEN f.vis[i] ELSE 0

\* The invocation of task i of r's current list; a visit has its own path.
Visit(r, f, i) ==
    LET v == Visits(f, i)
    IN  Framed(r, [f EXCEPT !.st = "list", !.i = i, !.vis = With(f.vis, i, v + 1)],
               (Append(r, <<f.stage, i, v>>)) :> Frame(List(f)[i]))

Stage(r, f, stage) == Visit(r, [f EXCEPT !.stage = stage, !.vis = <<>>], 1)

\* The task's body ended: its flow is its own directive, or `then`.
Leave(r, f, res, flow) ==
    LET to == IF flow # "none" THEN flow ELSE f.task.then
        due == IF r \in DOMAIN rec THEN rec[r].due ELSE Never
    IN  CASE res = "ok" ->
               Only(r, [f EXCEPT !.res = "ok", !.flow = to,
                                 !.st = IF Goto(to) THEN "jump" ELSE "commit"])
          [] res \in {"error", "fatal"} -> Only(r, [f EXCEPT !.res = res, !.st = "commit"])
          [] res = "wait" /\ due <= now -> Only(r, [f EXCEPT !.res = "error", !.st = "commit"])
          [] res = "wait" /\ due > now ->
               Only(r, [f EXCEPT !.res = "wait", !.wake = Earlier(f.wake, due), !.st = "out"])
          [] OTHER -> Only(r, [f EXCEPT !.res = res, !.st = "out"])

AfterBody(r, f, flow) ==
    IF f.task.after = <<>> THEN Leave(r, f, "ok", flow)
                           ELSE Stage(r, [f EXCEPT !.flow = flow], "after")

Spawn(r, f) ==
    LET n == IF f.task.kind = "each" THEN f.task.times ELSE Len(f.task.kids)
        body(i) == IF f.task.kind = "each" THEN f.task.kids[1] ELSE f.task.kids[i]
    IN  Framed(r, [f EXCEPT !.st = "branches", !.stage = "kind", !.got = <<>>],
               [q \in {Append(r, <<"kind", i, 0>>) : i \in 1..n} |-> Frame(body(q[Len(q)][2]))])

\* kind: how the body of each kind of task begins.
Body(r, f) ==
    CASE f.task.kind \in {"leaf", "wait"} -> Only(r, [f EXCEPT !.st = f.task.kind])
      [] f.task.kind \in {"do", "try", "for"} -> Stage(r, f, "kind")
      [] f.task.kind \in {"fork", "compete", "each"} -> Spawn(r, f)

(* A list ended by its last task, by `then: exit` or by `then: end` (Next,   *)
(* ended, layer).  `exit` in a before list skips the task and its after      *)
(* list.  A `for` runs its list again, under other paths.                    *)
ListEnd(r, f, how) ==
    LET flow == IF how = "end" THEN "end" ELSE "none"
    IN  CASE f.stage = "before" /\ how = "done" -> Body(r, f)
          [] f.stage = "before" /\ how # "done" -> Leave(r, f, "ok", flow)
          [] f.stage = "after" -> Leave(r, f, "ok", IF how = "end" THEN "end" ELSE f.flow)
          [] f.stage = "kind" /\ f.task.kind = "for" /\ how # "end"
                /\ Visits(f, 1) < f.task.times -> Visit(r, f, 1)
          [] OTHER -> AfterBody(r, f, flow)

-----------------------------------------------------------------------------
(* Steps of one execution; each changes the frame it names. *)

In(r, st) == up /\ r \in DOMAIN frame /\ frame[r].st = st

\* Whether the task runs in an on_exceeded handler.
Handles(r) == \E n \in DOMAIN r : r[n][1] = "handler"

(* task: a saved result is restored; otherwise the start is saved once.  A   *)
(* handler's tasks are counted, restored ones too.  `if` may skip the task,  *)
(* and then its own `then` does not apply.                                   *)
Enter(r) ==
    LET f == frame[r]
        saved == r \in DOMAIN rec /\ rec[r].res # "none"
        many == Handles(r) /\ entered >= HandlerTasks
        out(res, flow) == Only(r, [f EXCEPT !.st = "out", !.res = res, !.flow = flow])
        go == {IF f.task.before # <<>> THEN Stage(r, f, "before") ELSE Body(r, f)}
        skip == {Only(r, [f EXCEPT !.st = "commit", !.res = "ok", !.flow = "continue"])}
        due == IF f.task.timeout > 0 THEN now + f.task.timeout ELSE Never
    IN  /\ In(r, "enter")
        /\ entered' = IF Handles(r) /\ ~cancel THEN entered + 1 ELSE entered
        /\ CASE cancel -> frame' = out("cancelled", "none") /\ UNCHANGED <<rec, ran>>
             [] ~cancel /\ many -> frame' = out("fatal", "none") /\ UNCHANGED <<rec, ran>>
             [] ~cancel /\ ~many /\ saved ->
                  frame' = out(rec[r].res, rec[r].flow) /\ UNCHANGED <<rec, ran>>
             [] ~cancel /\ ~many /\ ~saved /\ r \notin DOMAIN rec /\ ran >= MaxTasks ->
                  frame' = out("fatal", "none") /\ ran' = ran + 1 /\ UNCHANGED rec
             [] OTHER ->
                  /\ rec' = IF r \in DOMAIN rec THEN rec
                            ELSE With(rec, r, [started |-> now, res |-> "none",
                                               flow |-> "none", due |-> due])
                  /\ ran' = IF r \in DOMAIN rec THEN ran ELSE ran + 1
                  /\ frame' \in go \cup IF f.task.when THEN skip ELSE {}
        /\ UNCHANGED <<program, winner, budget, timer, fin, up, watch, cancel, wakeAt,
                       now, crashes, history>>

quiet == <<program, winner, budget, timer, rec, fin, up, ran, entered, watch, cancel, wakeAt,
           now, crashes>>

\* A call, a switch, an expression, a raised error: one of its outcomes.
Leaf(r) ==
    LET f == frame[r]
    IN  /\ In(r, "leaf")
        /\ \/ "error" \in f.task.outcomes /\ frame' = Leave(r, f, "error", "none")
           \/ \E flow \in f.task.outcomes \ {"error"} :
                frame' = AfterBody(r, f, flow)
        /\ UNCHANGED <<quiet, history>>

\* sleep: the deadline is saved once; until then the task waits.
Wait(r) ==
    LET f == frame[r]
        deadline == IF r \in DOMAIN timer THEN timer[r] ELSE Earlier(now + f.task.for, MaxNow)
    IN  /\ In(r, "wait")
        /\ timer' = With(timer, r, deadline)
        /\ frame' = IF deadline > now THEN Leave(r, [f EXCEPT !.wake = deadline], "wait", "none")
                                      ELSE AfterBody(r, f, "none")
        /\ UNCHANGED <<program, winner, budget, rec, fin, up, ran, entered, watch, cancel, wakeAt,
                       now, crashes, history>>

\* list: follow the flow of the task that ended; a try turns to its catch.
Follow(r) ==
    LET f == frame[r]
        kid == Append(r, <<f.stage, f.i, Visits(f, f.i) - 1>>)
        k == frame[kid]
        g == [f EXCEPT !.wake = k.wake]
    IN  /\ In(r, "list")
        /\ k.st = "out"
        /\ frame' =
             CASE k.res = "ok" /\ k.flow \in {"none", "continue"} ->
                    IF f.i < Len(List(f)) THEN Visit(r, f, f.i + 1) ELSE ListEnd(r, f, "done")
               [] k.res = "ok" /\ k.flow \in {"exit", "end"} -> ListEnd(r, f, k.flow)
               [] k.res = "ok" /\ Goto(k.flow) -> Visit(r, f, Named(List(f), k.flow))
               [] k.res = "error" /\ f.task.kind = "try" /\ f.stage = "kind" ->
                    IF f.task.catch # <<>> THEN Stage(r, f, "catch")
                                           ELSE AfterBody(r, f, "none")
               [] OTHER -> Leave(r, g, k.res, "none")
        /\ UNCHANGED <<quiet, history>>

Kid(r, i) == Append(r, <<"kind", i, 0>>)
Branches(r) == {q[Len(q)][2] : q \in {p \in Below(r) : Len(p) = Len(r) + 1}}
Got(f, res) == {i \in DOMAIN f.got : f.got[i].res = res}

\* A fork whose branches wait is due when the first of them is.
Wakes(f) == Min({f.got[i].wake : i \in Got(f, "wait")})

\* The next branch to end is taken up.
Take(r, i) ==
    LET k == frame[Kid(r, i)]
    IN  [frame[r] EXCEPT !.got = With(@, i, [res |-> k.res, flow |-> k.flow, wake |-> k.wake])]

\* fork, joining: the first fault ends it; waits are collected.
Join(r, i) ==
    LET f == Take(r, i)
        all == DOMAIN f.got = Branches(r)
        res == f.got[i].res
    IN  /\ frame[r].task.kind = "fork"
        /\ frame' = CASE res \notin {"ok", "wait"} -> Leave(r, f, res, "none")
                      [] res \in {"ok", "wait"} /\ ~all -> With(frame, r, f)
                      [] OTHER -> IF Got(f, "wait") = {} THEN AfterBody(r, f, "none")
                                  ELSE Leave(r, [f EXCEPT !.wake = Wakes(f)], "wait", "none")
        /\ UNCHANGED exposed

\* concurrent: every iteration ends; the first fault in item order, else waits.
Each(r, i) ==
    LET f == Take(r, i)
        all == DOMAIN f.got = Branches(r)
        faults == {j \in DOMAIN f.got : f.got[j].res \notin {"ok", "wait"}}
        ends == \E j \in Got(f, "ok") : f.got[j].flow = "end"
    IN  /\ frame[r].task.kind = "each"
        /\ frame' = CASE ~all -> With(frame, r, f)
                      [] all /\ faults # {} -> Leave(r, f, f.got[Min(faults)].res, "none")
                      [] all /\ faults = {} /\ Got(f, "wait") # {} ->
                           Leave(r, [f EXCEPT !.wake = Wakes(f)], "wait", "none")
                      [] OTHER -> AfterBody(r, f, IF ends THEN "end" ELSE "none")
        /\ UNCHANGED exposed

\* fork, competing: the first branch to complete wins, and the others are dropped.
Compete(r, i) ==
    LET f == Take(r, i)
        all == DOMAIN f.got = Branches(r)
        res == f.got[i].res
    IN  /\ frame[r].task.kind = "compete"
        /\ frame' = CASE res = "ok" -> Only(r, [f EXCEPT !.st = "won", !.i = i])
                      [] res \in {"wait", "error"} /\ ~all -> With(frame, r, f)
                      [] res \in {"wait", "error"} /\ all ->
                           IF Got(f, "wait") # {}
                           THEN Leave(r, [f EXCEPT !.wake = Wakes(f)], "wait", "none")
                           ELSE Leave(r, f, "error", "none")
                      [] OTHER -> Leave(r, f, res, "none")
        /\ UNCHANGED exposed

Branch(r) ==
    /\ In(r, "branches")
    /\ r \notin DOMAIN winner
    /\ \E i \in Branches(r) \ DOMAIN frame[r].got :
         /\ frame[Kid(r, i)].st = "out"
         /\ Join(r, i) \/ Each(r, i) \/ Compete(r, i)
    /\ UNCHANGED <<quiet, acted>>

\* Altered: the winner is used without being recorded.
WinUnsaved(r) ==
    /\ In(r, "won")
    /\ frame' = AfterBody(r, frame[r], "none")
    /\ exposed' = exposed \cup {<<r, frame[r].i>>}
    /\ UNCHANGED <<quiet, acted>>

\* The winner is saved before its result is used.
Win(r) ==
    /\ In(r, "won")
    /\ winner' = With(winner, r, frame[r].i)
    /\ frame' = AfterBody(r, frame[r], "none")
    /\ exposed' = exposed \cup {<<r, frame[r].i>>}
    /\ UNCHANGED <<program, budget, timer, rec, fin, up, ran, entered, watch, cancel, wakeAt, now,
                   crashes, acted>>

\* A saved winner is the fork's result; no branch runs.
WinAgain(r) ==
    /\ In(r, "branches")
    /\ r \in DOMAIN winner
    /\ frame' = AfterBody(r, frame[r], "none")
    /\ exposed' = exposed \cup {<<r, winner[r]>>}
    /\ UNCHANGED <<quiet, acted>>

(* A task timeout drops the body where it is.  A body that ends without      *)
(* waiting may still complete first.                                         *)
Timeout(r) ==
    LET f == frame[r]
    IN  /\ up /\ r \in DOMAIN rec /\ r \in DOMAIN frame
        /\ f.st \in {"list", "branches", "leaf", "won"}
        /\ rec[r].due <= now
        /\ frame' = Only(r, [f EXCEPT !.res = "error", !.st = "commit"])
        /\ UNCHANGED <<quiet, history>>

-----------------------------------------------------------------------------
(* Jumps. *)

First == {budget[r].first : r \in Refused}

\* on_exceeded for a refused jump.
Exceed(r, f, first) ==
    CASE program.exceeded = "raise" -> Only(r, [f EXCEPT !.res = "error", !.st = "commit"])
      [] program.exceeded # "raise" /\ first # r -> Only(r, [f EXCEPT !.st = "follow"])
      [] program.exceeded = "end" /\ first = r ->
           Only(r, [f EXCEPT !.res = "exceeded", !.st = "acts"])
      [] OTHER -> Framed(r, [f EXCEPT !.st = "handling"],
                         (Append(r, <<"handler", 1, 0>>)) :> Frame(program.handler))

\* The journal's decision: a unit of the budget, or a refusal that names the first.
Spend(r, first) ==
    IF Cardinality(Granted) < program.max
    THEN [granted |-> TRUE, first |-> <<>>]
    ELSE [granted |-> FALSE, first |-> first]

\* jump: decided once per path, and saved with the decision.
Jump(r) ==
    LET f == frame[r]
        first == IF First = {} THEN r ELSE CHOOSE q \in First : TRUE
        b == IF r \in DOMAIN budget THEN budget[r] ELSE Spend(r, first)
    IN  /\ In(r, "jump")
        /\ IF Handles(r)
           THEN frame' = Only(r, [f EXCEPT !.res = "fatal", !.st = "commit"]) /\ UNCHANGED <<budget, acted>>
           ELSE /\ budget' = With(budget, r, b)
                /\ frame' = IF b.granted THEN Only(r, [f EXCEPT !.st = "commit"])
                                         ELSE Exceed(r, f, b.first)
                /\ acted' = IF ~b.granted /\ b.first = r /\ program.exceeded # "raise"
                            THEN acted \cup {r} ELSE acted
        /\ UNCHANGED <<program, winner, timer, rec, fin, up, ran, entered, watch, cancel, wakeAt, now,
                       crashes, exposed>>

\* act_on_exceeded: the handler ended; its error is the run's last word.
Handled(r) ==
    LET k == frame[Append(r, <<"handler", 1, 0>>)]
        res == CASE k.res = "ok" -> "exceeded" [] k.res = "error" -> "fatal" [] OTHER -> k.res
    IN  /\ In(r, "handling")
        /\ k.st = "out"
        /\ frame' = Only(r, [frame[r] EXCEPT !.st = "acts", !.res = res, !.wake = k.wake])
        /\ UNCHANGED <<quiet, history>>

\* exceeded: how the first refusal ended is told to the branches that follow it.
Acts(r) ==
    /\ In(r, "acts")
    /\ watch' = [res |-> frame[r].res, wake |-> frame[r].wake]
    /\ frame' = [frame EXCEPT ![r].st = IF frame[r].res = "fatal" THEN "commit" ELSE "out"]
    /\ UNCHANGED <<program, winner, budget, timer, rec, fin, up, ran, entered, cancel, wakeAt,
                   now, crashes, history>>

\* A later refusal waits for the first one's end.
FollowFirst(r) ==
    LET f == frame[r]
    IN  /\ In(r, "follow")
        /\ cancel \/ watch # Untold
        /\ frame' = IF cancel THEN Only(r, [f EXCEPT !.res = "cancelled", !.st = "out"])
                    ELSE Only(r, [f EXCEPT !.res = watch.res, !.wake = watch.wake,
                                           !.st = IF watch.res = "fatal" THEN "commit" ELSE "out"])
        /\ UNCHANGED <<quiet, history>>

\* The task's outcome is saved before it is used.
Commit(r) ==
    LET f == frame[r]
    IN  /\ In(r, "commit")
        /\ rec' = [rec EXCEPT ![r].res = f.res, ![r].flow = f.flow]
        /\ frame' = [frame EXCEPT ![r].st = "out"]
        /\ UNCHANGED <<program, winner, budget, timer, fin, up, ran, entered, watch, cancel, wakeAt,
                       now, crashes, history>>

-----------------------------------------------------------------------------
(* Executions. *)

Root == <<>>

\* The workflow's timeout, counted from admission.
Late == program.limit > 0 /\ program.limit <= now

(* execute: the records are loaded and the workflow starts from its          *)
(* beginning.  The definition, the input and the host's limits are constants *)
(* here, so the checks that they have not changed hold.                      *)
Start ==
    /\ ~up /\ fin = "none" /\ wakeAt <= now
    /\ up' = TRUE
    /\ ran' = Cardinality(DOMAIN rec) /\ entered' = 0
    /\ watch' = Untold
    /\ frame' = IF Late /\ ~cancel THEN Root :> [Frame(program.root) EXCEPT !.st = "out", !.res = "fatal"]
                ELSE Stage(Root, Frame(program.root), "kind")
    /\ UNCHANGED <<program, rec, winner, budget, timer, fin, cancel, wakeAt, now, crashes,
                   history>>

Ends(res) ==
    CASE res \in {"ok", "exceeded"} -> "completed"
      [] res \in {"error", "fatal"} -> "faulted"
      [] res = "cancelled" -> "cancelled"

(* The workflow's list ended: a terminal status is saved, and a wait is      *)
(* until the earliest deadline, the workflow's own included.                 *)
Finish ==
    LET f == frame[Root]
        limit == program.limit
    IN  /\ up
        /\ f.st \in {"out", "commit"}
        /\ IF f.res = "wait"
           THEN /\ wakeAt' = IF limit > 0 THEN Earlier(f.wake, limit) ELSE f.wake
                /\ UNCHANGED fin
           ELSE fin' = Ends(f.res) /\ UNCHANGED wakeAt
        /\ up' = FALSE
        /\ frame' = <<>>
        /\ UNCHANGED <<program, rec, winner, budget, timer, ran, entered, watch, cancel, now, crashes,
                       history>>

\* The workflow's timeout is fatal.
Overdue ==
    /\ up /\ Late
    /\ frame[Root].st = "list"
    /\ frame' = Only(Root, [frame[Root] EXCEPT !.res = "fatal", !.st = "out"])
    /\ UNCHANGED <<quiet, history>>

Crash ==
    /\ up
    /\ crashes < MaxCrashes
    /\ crashes' = crashes + 1
    /\ up' = FALSE
    /\ frame' = <<>>
    /\ wakeAt' = now
    /\ UNCHANGED <<program, journal, ran, entered, watch, cancel, now, history>>

Cancel ==
    /\ ~cancel /\ fin = "none" /\ program.cancels
    /\ cancel' = TRUE
    /\ wakeAt' = now
    /\ UNCHANGED <<program, journal, up, frame, ran, entered, watch, now, crashes, history>>

Tick ==
    /\ now < MaxNow
    /\ now' = now + 1
    /\ UNCHANGED <<program, journal, up, frame, ran, entered, watch, cancel, wakeAt, crashes, history>>

Step ==
    \/ \E r \in DOMAIN frame \ {Root} :
         \/ Enter(r) \/ Leaf(r) \/ Wait(r) \/ Win(r) \/ WinAgain(r)
         \/ Branch(r) \/ Jump(r) \/ Handled(r) \/ Acts(r) \/ FollowFirst(r) \/ Commit(r)
    \/ \E r \in DOMAIN frame : Follow(r)
    \/ Finish

Next == Step \/ Start \/ Overdue \/ Crash \/ Cancel \/ Tick
        \/ \E r \in DOMAIN frame : Timeout(r)

Spec == Init /\ [][Next]_vars

-----------------------------------------------------------------------------
(* Properties. *)

(* One refusal of a run acts on on_exceeded, over all its executions: the    *)
(* branches refused at the same moment, and every replay, leave it to the    *)
(* same jump (exceeded, Record::Exceeded).                                   *)
OneHandler == Cardinality(acted) <= 1

(* A competing fork returns one branch's result, however often it is         *)
(* replayed and whichever branch is first to end then.                       *)
OneWinner == \A a, b \in exposed : a[1] = b[1] => a = b

(* Crashes neither reset the budget nor spend a unit twice: the jumps that   *)
(* all executions took together are within it.                               *)
BudgetHolds ==
    /\ Cardinality(Granted) <= program.max
    /\ \A r \in DOMAIN rec :
         (rec[r].res = "ok" /\ Goto(rec[r].flow)) => r \in Granted

(* The task limit is the run's, not an execution's: a restart does not give  *)
(* a loop more tasks.                                                        *)
TasksHold == Cardinality(DOMAIN rec) <= MaxTasks

(* A suspended run is woken no later than the first of the timers it waits   *)
(* for: every unfinished `wait` that is not in a dropped branch, and every   *)
(* timeout of a task in progress.                                            *)
Asleep == ~up /\ fin = "none" /\ wakeAt > now
Settled(r) == \E n \in 0..Len(r) : LET q == SubSeq(r, 1, n)
                                   IN  q \in DOMAIN winner \/ (q \in DOMAIN rec /\ rec[q].res # "none")
NoOversleep ==
    Asleep => /\ \A r \in DOMAIN timer : ~Settled(r) => wakeAt <= timer[r]
              /\ \A r \in DOMAIN rec : ~Settled(r) => wakeAt <= rec[r].due

=============================================================================
