--------------------------- MODULE MCDefinitions ---------------------------
(***************************************************************************)
(* What a definition's author and host rely on besides its runs, in one    *)
(* model: the check of its jumps (Flows), the check of its functions       *)
(* against the host's registry (Registry), dry runs (DryRun), replays      *)
(* (Replay, with two sets of workflows) and the secrets in its records     *)
(* (Redaction).  `part' says which of them this behaviour is about; the    *)
(* variables of the others are None.                                       *)
(***************************************************************************)
EXTENDS Flows, SequencesExt, TLC

CONSTANTS Null, main, callee, fn1, fn2, s1, s2

VARIABLES
    part,
    installed, past, checks, catalog, runs, worker,
    row, clock, loop, admitted, mocked, reached, stop, result,
    setup, edit, x, evidence, used, dispatched, swept, others,
    vault, changes, input, stored, process, history, replayed

registryVars == <<installed, past, checks, catalog, runs, worker>>
dryRunVars == <<row, clock, loop, admitted, mocked, reached, stop, result>>
replayVars == <<setup, edit, x, evidence, used, dispatched, swept, others>>
redactionVars == <<vault, changes, input, stored, process, history, replayed>>
definitionVars == <<part, vars, registryVars, dryRunVars, replayVars, redactionVars>>

-----------------------------------------------------------------------------
(* Lists of three tasks, alone and in a workflow with an extension that ends *)
(* it.                                                                       *)

Beyond == Goto(Length + 1)      \* names no task

PlainTasks == {Task("set", to, FALSE) : to \in {None, Exit, Beyond} \cup {Goto(n) : n \in Places}}
            \cup {Task("set", to, TRUE) : to \in {End} \cup {Goto(n) : n \in Places}}
            \cup {Task("raise", None, if) : if \in BOOLEAN}

Switches == {[Task("switch", None, FALSE) EXCEPT !.cases = {to}] : to \in {Beyond} \cup {Goto(n) : n \in Places}}
            \cup {[Task("switch", None, FALSE) EXCEPT !.cases = {Goto(2)}, !.default = Goto(1)]}

NestingTask(kind, leaf) == [Task(kind, Goto(1), FALSE) EXCEPT !.inner = <<leaf>>]
Nests == {NestingTask("do", Leaf("set", End)), NestingTask("do", Leaf("set", Exit)),
          NestingTask("for", Leaf("raise", None)), NestingTask("fork", Leaf("set", None)),
          NestingTask("fork", Leaf("raise", None)), NestingTask("function", Leaf("raise", None))}

Trying(handler, catch) ==
    [NestingTask("try", Leaf("call", None)) EXCEPT !.handler = handler, !.catch = catch]
Tries == {Trying(<<>>, to) : to \in {None, Goto(2), Beyond, Exit}}
            \cup {Trying(<<leaf>>, None) : leaf \in {Leaf("raise", None), Leaf("set", End)}}
            \cup {[NestingTask("try", Leaf("raise", None)) EXCEPT !.filter = TRUE]}

AllTasks == PlainTasks \cup Switches \cup Nests \cup Tries
Leaving == {NoExtension, [flow |-> "end", nested |-> TRUE, when |-> TRUE]}

-----------------------------------------------------------------------------
(* A registry: main calls fn1 and runs callee; its two texts call fn2, and   *)
(* fn1 with a literal argument before running main again (a recursion).      *)

Site(fn, with) == [fn |-> fn, with |-> with]
Kid(name, sem) == <<name, sem, "t">>
Document(sites, kids, sem) == [sites |-> sites, kids |-> kids, sem |-> sem, ns |-> "t", parses |-> TRUE]

AllTexts == {"parent", "plain", "again"}
Documents ==
    [t \in AllTexts |->
        CASE t = "parent" -> Document(<<Site(fn1, Null)>>, <<Kid(callee, "latest")>>, "1")
          [] t = "plain" -> Document(<<Site(fn2, Null)>>, <<>>, "1")
          [] t = "again" -> Document(<<Site("start_child", Null), Site(fn1, s1)>>, <<Kid(main, "1")>>, "2")]

Functions == INSTANCE Registry WITH
    None <- Null, Names <- {main, callee}, Fns <- {fn1, fn2}, Shapes <- {s1, s2}, Texts <- AllTexts,
    Doc <- Documents, Workers <- {"w"}, Runs <- {"r"}, MaxGen <- 1,
    Registries <- {[y \in {fn1} |-> s1], [y \in {fn1, fn2} |-> s2]},
    MaxVersions <- [n \in {main, callee} |-> IF n = main THEN 1 ELSE 2],
    Savable <- {<<main, "parent">>, <<callee, "plain">>, <<callee, "again">>},
    Foreign <- {<<callee, "plain">>, <<callee, "again">>}, Builtins <- {"start_child", "child_outcome"}

-----------------------------------------------------------------------------
(* Dry runs of a root and its children: "asker" is mocked and listens,       *)
(* "sleeper" listens, "nest" owns a sleeper that its call may wake.          *)

Call(fn) == [op |-> "call", f |-> fn]
Sub(op, kind) == [op |-> op, kind |-> kind]
Hears(timeout) == [op |-> "listen", timeout |-> timeout]
Publish == [op |-> "emit"]

Catalog ==
  [asker |-> <<Call("mock"), Hears(FALSE)>>,
   sleeper |-> <<Hears(FALSE)>>,
   nest |-> <<Sub("start", "sleeper"), Publish, Call("real")>>]

DryTasks ==
  {Call("mock"), Call("real"), Publish, Hears(FALSE), Hears(TRUE), Sub("free", "asker")}
    \union {Sub("run", kind) : kind \in {"asker", "nest"}}
    \union {Sub("start", kind) : kind \in {"sleeper", "nest"}}

\* Every root of up to two tasks, and of three with a sleeper or a mocked call
\* first.
DryRoots ==
  [1..1 -> DryTasks] \union [1..2 -> DryTasks]
    \union {<<t>> \o p : t \in {Sub("start", "sleeper"), Call("mock")}, p \in [1..2 -> DryTasks]}

Dry == INSTANCE DryRun WITH
    Programs <- DryRoots, Definition <- Catalog, Marked <- {"mock"},
    MaxTasks <- 6, MaxConcurrency <- 2, MaxFaults <- 1, Far <- 99, None <- Null

-----------------------------------------------------------------------------
(* Replays of workflows of two short branches, under their own definition    *)
(* and under changed ones.                                                   *)

Catches == {"none", "errors", "unknown"}
Emitting == {<<<<"amo", "emit">>, <<"call", "jump">>, c, "raise">> : c \in Catches}
Waiting == {<<<<"listen", "call">>, <<"child", "amo">>, c, "raise">> : c \in Catches}
Budgeted == {<<<<"jump", "jump">>, <<"call", "jump">>, "errors", o>> : o \in {"raise", "end"}}

Recorded == INSTANCE Replay WITH
    None <- Null, Setups <- Emitting \union Waiting, Edits <- {<<"same">>, <<1, 1>>, <<2, 1>>, <<1, 2>>},
    EmitOutcomes <- {"ok"}, EndedOnly <- TRUE, Limit <- 1, Others <- 1

\* Also of runs that have not ended, whose calls may have no answer yet.
Decisions == INSTANCE Replay WITH
    None <- Null, Setups <- Budgeted \union Waiting, Edits <- {<<"same">>},
    EmitOutcomes <- {"ok"}, EndedOnly <- FALSE, Limit <- 2, Others <- 1

-----------------------------------------------------------------------------
(* Secrets that overlap; the marker's delimiter is "M".                      *)

Secrets == INSTANCE Redaction WITH
    Mark <- "M", Name <- <<"p", "q">>, Path <- [n \in {"p", "q"} |-> <<n>>],
    Secret <- {<<"a">>, <<"a", "b">>, <<"b", "a">>, <<"M", "a">>},
    Text <- BoundedSeq({"M", "a", "b"}, 3), Input <- {<<>>, <<"a", "M">>},
    Kept <- {"q"}, MaxChanges <- 1, None <- Null

ASSUME Recorded!ReplayAssumption /\ Decisions!ReplayAssumption /\ Secrets!MarkAssumption

-----------------------------------------------------------------------------

FlowsOff == tasks = Null /\ ext = Null /\ at = Null
RegistryOff ==
    /\ installed = Null /\ past = Null /\ checks = Null
    /\ catalog = Null /\ runs = Null /\ worker = Null
DryRunOff ==
    /\ row = Null /\ clock = Null /\ loop = Null /\ admitted = Null
    /\ mocked = Null /\ reached = Null /\ stop = Null /\ result = Null
ReplayOff ==
    /\ setup = Null /\ edit = Null /\ x = Null /\ evidence = Null
    /\ used = Null /\ dispatched = Null /\ swept = Null /\ others = Null
RedactionOff ==
    /\ vault = Null /\ changes = Null /\ input = Null /\ stored = Null
    /\ process = Null /\ history = Null /\ replayed = Null

DefinitionsInit ==
    /\ part \in {"flows", "registry", "dryrun", "recorded", "decisions", "secrets"}
    /\ IF part = "flows" THEN Init ELSE FlowsOff
    /\ IF part = "registry" THEN Functions!Init ELSE RegistryOff
    /\ IF part = "dryrun" THEN Dry!Init ELSE DryRunOff
    /\ CASE part = "recorded" -> Recorded!Init
         [] part = "decisions" -> Decisions!Init
         [] OTHER -> ReplayOff
    /\ IF part = "secrets" THEN Secrets!Init ELSE RedactionOff

FlowsStep ==
    part = "flows" /\ Next /\ UNCHANGED <<part, registryVars, dryRunVars, replayVars, redactionVars>>
RegistryStep ==
    part = "registry" /\ Functions!Next /\ UNCHANGED <<part, vars, dryRunVars, replayVars, redactionVars>>
DryRunStep ==
    part = "dryrun" /\ Dry!Next /\ UNCHANGED <<part, vars, registryVars, replayVars, redactionVars>>
ReplayStep ==
    /\ \/ part = "recorded" /\ Recorded!Next
       \/ part = "decisions" /\ Decisions!Next
    /\ UNCHANGED <<part, vars, registryVars, dryRunVars, redactionVars>>
RedactionStep ==
    part = "secrets" /\ Secrets!Next /\ UNCHANGED <<part, vars, registryVars, dryRunVars, replayVars>>

DefinitionsSpec ==
    DefinitionsInit /\ [][FlowsStep \/ RegistryStep \/ DryRunStep \/ ReplayStep \/ RedactionStep]_definitionVars

-----------------------------------------------------------------------------

\* In a list the validator accepts the end can be reached from every task the
\* walk comes to, and no walk leaves for a task that is not there
\* (Validator::list, closed_cycles, flow).
AcceptedIsSafe == part = "flows" => AcceptedCanEnd /\ AcceptedNeverStrays

\* The validator rejects only what can never end: nothing but a failure leaves
\* a cycle it reported (Validator::list).
RejectedIsTrapped == [][part = "flows" => StaysTrapped]_definitionVars

\* A cached check is of the registry of its own generation, what a check
\* reports missing is missing and what it passes is complete, recursion through
\* children included, and a driven run calls only what it was bound to
\* (resolve, check, checked, bind).
RegistryIsTrue ==
    part = "registry" =>
        /\ Functions!CacheIsTrue /\ Functions!MissingIsReal /\ Functions!CheckIsComplete
        /\ Functions!PathIsSimple /\ Functions!CallsAsBound

\* A dry run dispatches nothing it marks, reports every run once, asks and
\* reports no mocked call again that was answered, and leaves nothing that
\* could go on; a replay answers with what
\* was recorded, ends as the run ended and takes its decisions again, and no
\* changed candidate passes for it (dry_run, replay).
RehearsalIsTrue ==
    /\ part = "dryrun" =>
          /\ Dry!MarkedNeverDispatched /\ Dry!ReportIsComplete /\ Dry!MockedOnce
          /\ Dry!OwnedEndWithRoot /\ Dry!WaitingIsQuiet
    /\ part = "recorded" =>
          Recorded!AnswersRecorded /\ Recorded!SameEnd /\ Recorded!ChangedIsRefused
    /\ part = "decisions" =>
          Decisions!AnswersRecorded /\ Decisions!SameEnd /\ Decisions!DecisionsRestored

\* No secret an execution knew is left in its records, an execution restored
\* with the same secrets sees its answer as it was given, and one whose secret
\* is gone is not continued with something else (redact, restore).
RedactionIsExact ==
    part = "secrets" => Secrets!RestoredAsSaved /\ Secrets!Hidden /\ Secrets!LostIsRefused
=============================================================================
