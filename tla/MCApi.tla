------------------------------- MODULE MCApi -------------------------------
(***************************************************************************)
(* What callers of the runtime meet, in one model: starts of runs and of   *)
(* children (Admission, with three sets of constants) and control requests *)
(* (Control, with two).  `part' says which of them this behaviour is       *)
(* about; the other component stays in its initial state.                  *)
(***************************************************************************)
EXTENDS Control, TLC

CONSTANTS Big, a, b, r1, h, m1, m2, p1, c1, u, v, q1, q2

VARIABLES part, runs, catalog, ills, limits, proc

admissionVars == <<runs, catalog, ills, limits, proc>>
apiVars == <<part, admissionVars, vars>>

-----------------------------------------------------------------------------
(* Starts: of one root, by two processes.                                    *)

Of(kind, of, name, owned, inherit) ==
    [kind |-> kind, of |-> of, name |-> name, owned |-> owned, inherit |-> inherit, key |-> "k"]
Ceiling(d, j) == [depth |-> d, jumps |-> j]
Start(name, version, host) == <<r1, name, version, host>>

Names == {a, b}
BudgetOfB == [n \in Names |-> IF n = b THEN 1 ELSE None]
Fixed == {Ceiling(2, 2)}
Hosts == {None, h, Big}
OneStart == {Start(a, None, h)}

\* The attempts of a call of the reserved function, by two processes that take
\* the run over from each other.
Retries == INSTANCE Admission WITH
    Roots <- {r1}, MaxVersion <- 1, Task <- [t \in {"reserved"} |-> Of("reserved", {a}, b, TRUE, FALSE)],
    Attempts <- {1, 2}, Procs <- {m1, m2}, MaxGen <- 2, Declared <- BudgetOfB, Limits <- Fixed,
    Ills <- {"invalid"}, MaxIlls <- 1, Starts <- OneStart, Tripping <- {}, Holdable <- {r1}, Endable <- Names

\* Two processes start one id with other definitions, versions or host data.
Rivals == INSTANCE Admission WITH
    Roots <- {r1}, MaxVersion <- 2, Task <- [t \in {"handler"} |-> Of("host", {a}, b, TRUE, FALSE)],
    Attempts <- {}, Procs <- {m1, m2}, MaxGen <- 0, Declared <- [n \in Names |-> None], Limits <- Fixed,
    Ills <- {"missing", "unavailable"}, MaxIlls <- 1, Tripping <- {a}, Holdable <- {}, Endable <- {},
    Starts <- {Start(a, None, h), Start(a, None, None), Start(a, 2, h), Start(b, None, h),
               Start(a, None, Big)}

\* a recurses through an owned and an independent child, on a process that is
\* redeployed with other ceilings.
Nesting == INSTANCE Admission WITH
    Roots <- {r1}, Names <- {a}, MaxVersion <- 1,
    Task <- [t \in {"own", "free"} |->
                IF t = "own" THEN Of("run", {a}, a, TRUE, TRUE) ELSE Of("run", {a}, a, FALSE, FALSE)],
    Attempts <- {1}, Procs <- {m1}, MaxGen <- 1, Declared <- [n \in {a} |-> None],
    Limits <- {Ceiling(2, 1), Ceiling(2, 2)}, Ills <- {}, MaxIlls <- 1, Starts <- OneStart,
    Tripping <- {}, Holdable <- {}, Endable <- {}

-----------------------------------------------------------------------------
(* Control requests, of two callers: to a parent and its child (the          *)
(* constants of the cfg), and answers to one run.                            *)

Lineage == p1 :> None @@ c1 :> p1
Holding == {[op |-> "Hold", run |-> p1], [op |-> "Hold", run |-> c1],
            [op |-> "Release", run |-> p1], [op |-> "Cancel", run |-> p1]}
           \cup {[op |-> "Stop", enabled |-> x] : x \in BOOLEAN}

\* One identity with two payloads, and an event that does not match the wait.
Answering ==
    {[op |-> "Respond", run |-> p1, event |-> [id |-> "e", data |-> d], matches |-> TRUE]
        : d \in {"x", "y"}}
    \cup {[op |-> "Respond", run |-> p1, event |-> [id |-> "f", data |-> "x"], matches |-> FALSE]}

Answers == INSTANCE Control WITH
    Run <- {p1}, Parent <- p1 :> None, Offered <- Answering, Actor <- {"actor", "other"}, Asks <- 2

Symmetry == Permutations({u, v}) \cup Permutations({q1, q2})

ASSUME ControlConstants /\ Answers!ControlConstants
ASSUME Retries!AdmissionConstants /\ Rivals!AdmissionConstants /\ Nesting!AdmissionConstants

-----------------------------------------------------------------------------

ApiInit ==
    /\ part \in {"attempts", "rivals", "nesting", "requests", "answers"}
    /\ IF part = "nesting" THEN Nesting!Init ELSE Retries!Init
    /\ IF part = "answers" THEN Answers!Init ELSE Init

AdmissionStep ==
    /\ \/ part = "attempts" /\ Retries!Next
       \/ part = "rivals" /\ Rivals!Next
       \/ part = "nesting" /\ Nesting!Next
    /\ UNCHANGED <<part, vars>>

ControlStep ==
    /\ \/ part = "requests" /\ Next
       \/ part = "answers" /\ Answers!Next
    /\ UNCHANGED <<part, admissionVars>>

ApiSpec ==
    ApiInit /\ [][AdmissionStep \/ ControlStep]_apiVars

-----------------------------------------------------------------------------

\* A caller or a task is given the run it asked for or is refused without one,
\* whatever other processes start, activate or end meanwhile; a child counts
\* its depth, has no wider budget and no host data of its own, does not outlive
\* its parent and is in its handler's scope (start, start_child, CallRuns).
AdmissionIsSound ==
    /\ part = "attempts" =>
          Retries!JoinsOwnChild /\ Retries!RefusedDidNothing /\ Retries!NoOrphan
    /\ part = "rivals" => Rivals!StartIsTold
    /\ part = "nesting" => /\ Nesting!DepthCounts /\ Nesting!BudgetNarrows
                           /\ Nesting!HostIsVouched /\ Nesting!ScopeIsLineage
=============================================================================
