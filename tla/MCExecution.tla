---------------------------- MODULE MCExecution ----------------------------
(***************************************************************************)
(* What executes a run, in one model: the step budget of a tree (Budget),  *)
(* the calls of one run and their journal (CallJournal) and the tasks of a *)
(* workflow (Interpreter), the last with two sets of workflows.  `part'    *)
(* says which of them this behaviour is about; the others stay in their    *)
(* initial state.                                                          *)
(***************************************************************************)
EXTENDS CallJournal, TLC

CONSTANT Parts

VARIABLES
    part,
    run, records, budget, grants, counted, crashes,
    program, rec, winner, jumps, timer, done, up, frame, tasksRun, entered, watch,
    cancel, wakeAt, clock, deaths, acted, exposed

budgetVars == <<run, records, budget, grants, counted, crashes>>
taskVars == <<program, rec, winner, jumps, timer, done, up, frame, tasksRun, entered, watch,
              cancel, wakeAt, clock, deaths, acted, exposed>>
executionVars == <<part, vars, budgetVars, taskVars>>

-----------------------------------------------------------------------------
(* A root with a fork of two loops and a child with one and a tighter limit. *)

Tree == INSTANCE Budget WITH
    Run <- {"root", "child"}, Root <- "root", Crashes <- 2, None <- Nobody,
    Branches <- "root" :> {"a", "b"} @@ "child" :> {"a"},
    Limit <- "root" :> 3 @@ "child" :> 2

ASSUME Tree!BudgetConstants

-----------------------------------------------------------------------------
(* Calls: one or two tasks, two attempts, two workers; deliveries are mixed, *)
(* with and without markers and deadlines.                                   *)

plain == [kinds |-> <<"amo", "alo">>, marker |-> FALSE, names |-> FALSE,
          bounded |-> FALSE, rebinds |-> FALSE, attempts |-> 2, faults |-> 2]

Unbounded ==
    {plain,
     [plain EXCEPT !.marker = TRUE],
     [plain EXCEPT !.names = TRUE, !.faults = 1],
     [plain EXCEPT !.rebinds = TRUE],
     [plain EXCEPT !.kinds = <<"alo">>],
     [plain EXCEPT !.kinds = <<"alo", "amo">>, !.faults = 1],
     [plain EXCEPT !.kinds = <<"emit", "alo">>]}

Deadlines ==
    {[plain EXCEPT !.bounded = TRUE, !.marker = m, !.names = m, !.faults = 1] : m \in BOOLEAN}

AllSetups == Unbounded \cup Deadlines

Symmetry == Permutations(Worker)

-----------------------------------------------------------------------------
(* Workflows that loop, branch, race, wait, time out and end early.          *)

task == [name |-> "", when |-> FALSE, kind |-> "leaf", kids |-> <<>>, before |-> <<>>, after |-> <<>>,
         catch |-> <<>>, then |-> "none", timeout |-> 0, times |-> 0, for |-> 0, outcomes |-> {"none"}]

leaf(outcomes) == [task EXCEPT !.outcomes = outcomes]
wait(d) == [task EXCEPT !.kind = "wait", !.for = d]
node(kind, kids) == [task EXCEPT !.kind = kind, !.kids = kids]
jump(name) == [task EXCEPT !.then = name]

workflow(kids) ==
    [root |-> node("do", kids), limit |-> 0, max |-> 1, exceeded |-> "end",
     handler |-> leaf({"none", "error"}), cancels |-> FALSE]

\* A list that jumps back to its first task for ever.
loop == node("do", <<[task EXCEPT !.name = "top"], jump("top")>>)

spin == node("do", <<[jump("top") EXCEPT !.name = "top"]>>)

LoopPrograms ==
    {[workflow(<<loop>>) EXCEPT !.exceeded = e, !.cancels = TRUE] : e \in {"raise", "end", "task"}}
    \cup {[workflow(<<node("try", <<loop>>), leaf({"none"})>>) EXCEPT !.exceeded = "raise"]}
    \cup {[workflow(<<node("fork", <<spin, spin>>)>>) EXCEPT !.exceeded = e] : e \in {"end", "task"}}
    \cup {[workflow(<<spin>>) EXCEPT !.exceeded = "task",
                                     !.handler = node("do", <<leaf({"none"}), leaf({"none"})>>)]}
    \cup {[workflow(<<node("fork", <<spin, spin>>)>>)
            EXCEPT !.exceeded = "task", !.handler = wait(1)]}

ShapePrograms ==
    {workflow(<<node("compete", <<leaf({"none", "error"}), wait(1), leaf({"none", "error"})>>),
                leaf({"none"})>>),
     workflow(<<node("fork", <<wait(1), wait(2)>>)>>),
     workflow(<<[node("each", <<wait(1)>>) EXCEPT !.times = 2], leaf({"none"})>>),
     workflow(<<[node("each", <<leaf({"none", "end", "error"})>>) EXCEPT !.times = 2], leaf({"none"})>>),
     workflow(<<[node("for", <<leaf({"none", "exit", "end"}), leaf({"none"})>>) EXCEPT !.times = 2]>>),
     [workflow(<<wait(2), leaf({"none"})>>) EXCEPT !.limit = 1],
     workflow(<<node("try", <<[node("do", <<wait(2)>>) EXCEPT !.timeout = 1]>>), [leaf({"none"}) EXCEPT !.when = TRUE]>>),
     workflow(<<[node("try", <<leaf({"error"})>>) EXCEPT !.catch = <<leaf({"none", "error"})>>],
                [leaf({"none", "error"}) EXCEPT !.before = <<leaf({"none", "exit", "end"})>>,
                                                !.after = <<leaf({"none", "end"})>>]>>)}

Loops == INSTANCE Interpreter WITH
    Programs <- LoopPrograms, MaxTasks <- 9, HandlerTasks <- 2, MaxNow <- 1, MaxCrashes <- 1,
    budget <- jumps, fin <- done, ran <- tasksRun, now <- clock, crashes <- deaths

Shapes == INSTANCE Interpreter WITH
    Programs <- ShapePrograms, MaxTasks <- 4, HandlerTasks <- 2, MaxNow <- 2, MaxCrashes <- 2,
    budget <- jumps, fin <- done, ran <- tasksRun, now <- clock, crashes <- deaths

-----------------------------------------------------------------------------

ExecutionInit ==
    /\ part \in Parts
    /\ Init /\ (part # "calls" => setup = CHOOSE s \in Setups : TRUE)
    /\ Tree!Init
    /\ IF part = "loops" THEN Loops!Init
       ELSE Shapes!Init /\ (part # "shapes" => program = CHOOSE p \in ShapePrograms : TRUE)

CallsStep == part = "calls" /\ Next /\ UNCHANGED <<part, budgetVars, taskVars>>
BudgetStep == part = "budget" /\ Tree!Next /\ UNCHANGED <<part, vars, taskVars>>
LoopsStep == part = "loops" /\ Loops!Next /\ UNCHANGED <<part, vars, budgetVars>>
ShapesStep == part = "shapes" /\ Shapes!Next /\ UNCHANGED <<part, vars, budgetVars>>

ExecutionSpec ==
    ExecutionInit /\ [][CallsStep \/ BudgetStep \/ LoopsStep \/ ShapesStep]_executionVars

-----------------------------------------------------------------------------

\* A tree takes no more jumps than its limits, whatever crashes and is executed
\* again; every refusal of a run names the first, whose on_exceeded alone acts;
\* inspect shows the tree's count, of now or of the run's end (spend_jump, jump,
\* exceeded, inspect).
BudgetIsKept ==
    /\ part = "budget" => Tree!TypeOK /\ Tree!WithinBudget /\ Tree!OneFirstRefusal /\ Tree!InspectIsTrue
    /\ part = "loops" => Loops!OneHandler /\ Loops!BudgetHolds

\* A competing fork returns one branch's result however often it is replayed,
\* a restart gives no loop more tasks, and a suspended run is woken no later
\* than the first timer it waits for (concurrent, execute, task).
ReplayKeepsShape ==
    part = "shapes" => Shapes!OneWinner /\ Shapes!TasksHold /\ Shapes!NoOversleep
=============================================================================
