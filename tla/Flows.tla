------------------------------- MODULE Flows -------------------------------
(***************************************************************************)
(* The validator's check of a task list's jumps (crates/ows/src/model.rs:  *)
(* Validator::list, successors, can_leave, closed_cycles) beside the way   *)
(* the interpreter walks that list (crates/ows/src/run.rs: list, steps,    *)
(* layer, kind, attempt, fork).                                            *)
(*                                                                         *)
(* A flow is [to, n]: "none" where a document writes no directive,         *)
(* "continue", "exit", "end", or "goto" with the task's position.  A task  *)
(* has a kind, its `then`, whether it has an `if`, and what its kind adds: *)
(* a switch's guarded cases and its default, the nested list of a do, for, *)
(* fork, try or reusable function, a catch's list, filter and `then`.      *)
(* Nested lists are one task of kind set, raise or call, with a `then`.    *)
(* Conditions are free: a case, an `if` or a filter may go either way, and *)
(* a call fails or does not.  Kind "set" also stands for emit, wait, run   *)
(* and a call of the host; a listen's `foreach` is as a for.               *)
(***************************************************************************)
EXTENDS Integers, Sequences, FiniteSets, Relation

CONSTANTS
    Length,     \* of the list
    Tasks,      \* the tasks to build lists from
    Extensions  \* the workflow's extension: [flow, nested, when]

VARIABLES
    tasks, ext,
    at          \* the task to run, or how the list finished

vars == <<tasks, ext, at>>

Places == 1..Length
Out == 0        \* left the list: past its end, exit, end, or a raise
Failed == -1    \* a call failed and nothing caught it
Stray == -2     \* a jump to no task

Flow(to) == [to |-> to, n |-> 0]
Goto(n) == [to |-> "goto", n |-> n]
None == Flow("none")
Continue == Flow("continue")
Exit == Flow("exit")
End == Flow("end")
Raised == Flow("raised")

Or(f, g) == IF f = None THEN g ELSE f

Leaf(kind, then) == [kind |-> kind, then |-> then]

Task(kind, then, if) ==
    [kind |-> kind, then |-> then, if |-> if, cases |-> {}, default |-> None,
     inner |-> <<>>, handler |-> <<>>, catch |-> None, filter |-> FALSE]

NoExtension == [flow |-> "none", nested |-> FALSE, when |-> FALSE]

-----------------------------------------------------------------------------
(* The validator. *)

(* flow: a goto names a task of the same list. *)
FlowOk(f) == f.to = "goto" => f.n \in Places

(* task: every directive of the task. *)
TaskOk(t) ==
    /\ FlowOk(t.then)
    /\ \A f \in t.cases : FlowOk(f)
    /\ FlowOk(t.default)
    /\ FlowOk(t.catch)

(* `to`: where a directive leads from place i. *)
To(f, i) ==
    CASE f.to = "continue" /\ i < Length -> i + 1
      [] f.to = "goto" /\ f.n \in Places -> f.n
      [] OTHER -> Out

(* successors: every place a task may lead to. *)
Successors(ts, i) ==
    LET t == ts[i]
        own == To(Or(t.then, Continue), i)
        chosen ==
            CASE t.kind = "raise" -> {Out}
              [] t.kind = "switch" ->
                    {To(f, i) : f \in t.cases} \cup {IF t.default = None THEN own ELSE To(t.default, i)}
              [] t.kind = "try" -> {own, IF t.catch = None THEN own ELSE To(t.catch, i)}
              [] OTHER -> {own}
    IN chosen \cup IF t.if THEN {To(Continue, i)} ELSE {}

(* can_leave of the tasks of a nested list. *)
ListLeaves(list) == \E k \in DOMAIN list : list[k].kind = "raise" \/ list[k].then = End

(* Altered: a catch's list is forgotten. *)
CanLeaveWithoutHandler(t) ==
    CASE t.kind \in {"raise", "function"} -> TRUE
      [] t.kind \in {"do", "for", "fork"} -> ListLeaves(t.inner)
      [] t.kind = "switch" -> End \in t.cases \cup {t.default}
      [] t.kind = "try" -> ListLeaves(t.inner) \/ t.catch = End
      [] OTHER -> FALSE

(* can_leave: something inside raises or ends the workflow, or a reusable
   function is called, which is not followed. *)
CanLeave(t) ==
    CASE t.kind \in {"raise", "function"} -> TRUE
      [] t.kind \in {"do", "for", "fork"} -> ListLeaves(t.inner)
      [] t.kind = "switch" -> End \in t.cases \cup {t.default}
      [] t.kind = "try" -> ListLeaves(t.inner) \/ t.catch = End \/ ListLeaves(t.handler)
      [] OTHER -> FALSE

(* Altered: any two edges are a way out, wherever they lead. *)
ClosedCyclesAnyBranch(ts) ==
    LET edge == [p \in Places \X Places |-> p[2] \in Successors(ts, p[1])]
        reach == TransitiveClosure(edge, Places)
        component(i) == {j \in Places : j = i \/ (reach[i, j] /\ reach[j, i])}
        leaves(c) == \E j \in c : CanLeave(ts[j]) \/ Cardinality(Successors(ts, j)) > 1
    IN {c \in {component(i) : i \in {k \in Places : reach[k, k]}} : ~leaves(c)}

(* closed_cycles: the components with an edge back and no way out. *)
ClosedCycles(ts) ==
    LET edge == [p \in Places \X Places |-> p[2] \in Successors(ts, p[1])]
        reach == TransitiveClosure(edge, Places)
        component(i) == {j \in Places : j = i \/ (reach[i, j] /\ reach[j, i])}
        leaves(c) == \E j \in c :
            CanLeave(ts[j]) \/ (Cardinality(Successors(ts, j)) > 1 /\ ~(Successors(ts, j) \subseteq c))
    IN {c \in {component(i) : i \in {k \in Places : reach[k, k]}} : ~leaves(c)}

(* list: `exits`, whether some task of an extension can leave. The
   extension's list is one task with the directive, or with a nested list
   that has it. *)
ExtensionExits(e) == e.flow = "raised" \/ (e.nested /\ e.flow = "end")

(* list: what is found wrong with the jumps of a list. *)
Traps(ts, e) == IF ExtensionExits(e) THEN {} ELSE ClosedCycles(ts)

Accepted(ts, e) == (\A i \in Places : TaskOk(ts[i])) /\ Traps(ts, e) = {}

-----------------------------------------------------------------------------
(* The interpreter. *)

(* list: how the one-task list ends; a directive past `end` only ends it. *)
ListEnds(list) ==
    IF list = <<>> THEN {None}
    ELSE CASE list[1].kind = "raise" -> {Raised}
           [] list[1].kind = "call" -> {Raised, IF list[1].then = End THEN End ELSE None}
           [] OTHER -> {IF list[1].then = End THEN End ELSE None}

(* attempt: an error of the body is caught unless the filter passes it on;
   then the catch's list decides, or its `then`. A call's error that is
   passed on is a failure (Fail). *)
Attempt(t) ==
    LET caught == {IF f = None THEN t.catch ELSE f : f \in ListEnds(t.handler)}
        passed == IF t.filter /\ t.inner[1].kind = "raise" THEN {Raised} ELSE {}
    IN (ListEnds(t.inner) \ {Raised})
       \cup IF Raised \in ListEnds(t.inner) THEN caught \cup passed ELSE {}

(* kind: the directives a task may choose. A fork and a reusable function
   drop the directive of what runs inside them. *)
Kind(t) ==
    CASE t.kind = "raise" -> {Raised}
      [] t.kind = "switch" -> t.cases \cup {t.default}
      [] t.kind = "do" -> ListEnds(t.inner)
      [] t.kind = "for" -> {None} \cup ListEnds(t.inner)
      [] t.kind \in {"fork", "function"} -> {IF f = Raised THEN Raised ELSE None : f \in ListEnds(t.inner)}
      [] t.kind = "try" -> Attempt(t)
      [] OTHER -> {None}

(* layer: the extension's `before` list, which applies to every task, runs
   first; `exit` there skips the task. *)
Layer(t, e) ==
    LET applied ==
            CASE e.flow = "none" -> Kind(t)
              [] e.flow = "exit" -> IF e.nested THEN Kind(t) ELSE {None}
              [] e.flow = "end" -> {End}
              [] e.flow = "raised" -> {Raised}
    IN applied \cup IF e.when THEN Kind(t) ELSE {}

(* steps: a skipped task continues; else what the kind chose, or `then`. *)
Directives(t, e) ==
    {Or(f, Or(t.then, Continue)) : f \in Layer(t, e)} \cup IF t.if THEN {Continue} ELSE {}

(* list: the next task. *)
Step(f, i) ==
    CASE f.to = "continue" -> IF i < Length THEN i + 1 ELSE Out
      [] f.to = "goto" -> IF f.n \in Places THEN f.n ELSE Stray
      [] OTHER -> Out

Init ==
    /\ tasks \in [Places -> Tasks]
    /\ ext \in Extensions
    /\ at = 1

Run ==
    /\ at \in Places
    /\ \E f \in Directives(tasks[at], ext) : at' = Step(f, at)
    /\ UNCHANGED <<tasks, ext>>

(* A task's call, or an expression, fails. *)
Fail ==
    /\ at \in Places
    /\ at' = Failed
    /\ UNCHANGED <<tasks, ext>>

Next == Run \/ Fail

Spec == Init /\ [][Next]_vars

-----------------------------------------------------------------------------
(* Properties. *)

(* The places a list's walk can come to from i, by any conditions. *)
Walk(i) ==
    LET from(S) == S \cup UNION {{Step(f, j) : f \in Directives(tasks[j], ext)} : j \in S \cap Places}
        reach[k \in 0..Length + 1] == IF k = 0 THEN {i} ELSE from(reach[k - 1])
    IN reach[Length + 1]

(* The validator rejects only what can never end: once the walk is in a
   cycle it reported, nothing but a failure leaves it, whatever the `if`s,
   cases, catches and extensions decide (Validator::list). *)
StaysTrapped == \A c \in Traps(tasks, ext) : at \in c => at' \in c \cup {Failed}

(* In an accepted list the end can be reached from every task the walk
   comes to, without a failed call: no combination of jumps, skipped tasks
   and caught errors is a trap (closed_cycles: a list whose end no path
   reaches is rejected). *)
AcceptedCanEnd ==
    Accepted(tasks, ext) /\ at \in Places => Walk(at) \cap {Out, Stray} # {}

(* An accepted list never jumps to a task that is not in it, from a case, a
   catch or a task (Validator::flow). *)
AcceptedNeverStrays ==
    Accepted(tasks, ext) => at # Stray

=============================================================================
