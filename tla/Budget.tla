------------------------------- MODULE Budget -------------------------------
(***************************************************************************)
(* The jump budget of a run tree: RunStore::spend, its end in terminate,   *)
(* and what inspect shows of it (durable/src/engine.rs), with the branches *)
(* that spend it (the jumps of ows/src/run.rs).                            *)
(*                                                                         *)
(* A root and the children it starts spend one counter, each under keys of *)
(* its own run and each against its own limit.  A branch is a loop that    *)
(* jumps back until it is refused, the worst a program can do.  What       *)
(* interleaves is the branches, the runs, crashes after which a run is     *)
(* executed again from its records, ends, cancels and the sweep.           *)
(***************************************************************************)
EXTENDS Integers, FiniteSets, FiniteSetsExt

CONSTANTS
    Run, Root,  \* the tree: every other run is a child of Root
    Branches,   \* the branches of each run's fork
    Limit,      \* each run's max_jumps, tightened by its definition
    Crashes,    \* how many executions die
    None

\* None is neither a number, a key nor a decision.
BudgetConstants ==
    /\ IsFiniteSet(Run) /\ Root \in Run
    /\ Limit \in [Run -> Nat] /\ Crashes \in Nat
    /\ None \notin Nat
    /\ \A r \in Run : LET keys == Branches[r] \X Nat IN
          None \notin keys \cup [granted : BOOLEAN, spent : Nat, first : keys \cup {None}]

VARIABLES
    run,        \* state, budget_ended, the first refusal, the branches' positions
    records,    \* the decision at each key of a run
    budget,     \* the tree's row, 0 when there is none
    grants,     \* every unit granted: <<run, key>>
    counted,    \* the grants at each run's end
    crashes
vars == <<run, records, budget, grants, counted, crashes>>

MaxJumps == Max({Limit[r] : r \in Run})
Keys(r) == Branches[r] \X (1 .. MaxJumps + 1)
Restarted(r) == [b \in Branches[r] |-> 1]

Init ==
    /\ run = [r \in Run |->
          [state |-> IF r = Root THEN "ready" ELSE "absent", ended |-> None,
           first |-> None, at |-> Restarted(r)]]
    /\ records = [r \in Run |-> [k \in Keys(r) |-> None]]
    /\ budget = 0 /\ grants = {} /\ crashes = 0
    /\ counted = [r \in Run |-> 0]

Live(r) == run[r].state \in {"ready", "running"}

-----------------------------------------------------------------------------
\* A worker claims the run and executes it from its start over its records.
Claim(r) ==
    /\ run[r].state = "ready"
    /\ run' = [run EXCEPT ![r].state = "running", ![r].at = Restarted(r)]
    /\ UNCHANGED <<records, budget, grants, counted, crashes>>

\* The execution dies; another worker may claim the run.
Crash(r) ==
    /\ run[r].state = "running" /\ crashes < Crashes
    /\ run' = [run EXCEPT ![r].state = "ready"]
    /\ crashes' = crashes + 1
    /\ UNCHANGED <<records, budget, grants, counted>>

StartChild(r) ==
    /\ run[r].state = "absent" /\ run[Root].state = "running"
    /\ run' = [run EXCEPT ![r].state = "ready"]
    /\ UNCHANGED <<records, budget, grants, counted, crashes>>

\* Altered: a limit is compared with the run's own units.
DecisionOfRun(r, k) ==
    LET granted == Cardinality({x \in Keys(r) :
                        records[r][x] # None /\ records[r][x].granted}) < Limit[r] IN
    [granted |-> granted, spent |-> budget + (IF granted THEN 1 ELSE 0),
     first |-> IF granted THEN None
               ELSE IF run[r].first = None THEN k ELSE run[r].first]

\* The decision of a unit not decided yet: granted while fewer than the
\* run's limit are spent, and a refusal names the run's first.
Decision(r, k) ==
    LET granted == budget < Limit[r] IN
    [granted |-> granted, spent |-> budget + (IF granted THEN 1 ELSE 0),
     first |-> IF granted THEN None
               ELSE IF run[r].first = None THEN k ELSE run[r].first]
\* A decided unit is restored, whoever asks and however often.
Decided(r, k) == records[r][k] # None

\* The branch follows the decision: back to its loop's start, or out of it.
Moved(r, b, d) ==
    [run[r].at EXCEPT ![b] = IF d.granted THEN @ + 1 ELSE 0]

\* spend: one transaction of the run's record, its first refusal and the row.
Spend(r, b) ==
    LET k == <<b, run[r].at[b]>>
        d == Decision(r, k)
    IN  /\ run[r].state = "running" /\ run[r].at[b] \in 1..MaxJumps + 1
        /\ ~Decided(r, k)
        /\ records' = [records EXCEPT ![r][k] = d]
        /\ run' = [run EXCEPT ![r].at = Moved(r, b, d),
                              ![r].first = IF d.granted THEN @ ELSE d.first]
        /\ budget' = d.spent
        /\ grants' = IF d.granted THEN grants \cup {<<r, k>>} ELSE grants
        /\ UNCHANGED <<counted, crashes>>
Restore(r, b) ==
    LET k == <<b, run[r].at[b]>> IN
    /\ run[r].state = "running" /\ run[r].at[b] \in 1..MaxJumps + 1
    /\ Decided(r, k)
    /\ run' = [run EXCEPT ![r].at = Moved(r, b, records[r][k])]
    /\ UNCHANGED <<records, budget, grants, counted, crashes>>

\* terminate: the runs that end note what the tree has spent, and the row
\* ends with its root.
Row(r) == IF r = Root THEN 0 ELSE budget
Ends(r) == IF r = Root THEN {s \in Run : Live(s)} ELSE {r}
Terminate(r) ==
    /\ run' = [s \in Run |-> IF s \in Ends(r)
                  THEN [run[s] EXCEPT !.state = "ended", !.ended = budget]
                  ELSE run[s]]
    /\ counted' = [s \in Run |-> IF s \in Ends(r) THEN Cardinality(grants)
                                 ELSE counted[s]]
    /\ budget' = Row(r)

\* A run ends when its branches are out of their loops, or is cancelled.
Finish(r) ==
    /\ run[r].state = "running"
    /\ \A b \in Branches[r] : run[r].at[b] = 0
    /\ Terminate(r)
    /\ UNCHANGED <<records, grants, crashes>>
Cancel(r) ==
    /\ Live(r)
    /\ Terminate(r)
    /\ UNCHANGED <<records, grants, crashes>>

\* sweep: an ended run's records go, the tree may still be live.
Forget(r) ==
    /\ run[r].state = "ended" /\ \E k \in Keys(r) : records[r][k] # None
    /\ records' = [records EXCEPT ![r] = [k \in Keys(r) |-> None]]
    /\ run' = [run EXCEPT ![r].first = None]
    /\ UNCHANGED <<budget, grants, counted, crashes>>

Next ==
    \E r \in Run :
        \/ Claim(r) \/ Crash(r) \/ StartChild(r)
        \/ \E b \in Branches[r] : Spend(r, b) \/ Restore(r, b)
        \/ Finish(r) \/ Cancel(r) \/ Forget(r)

Spec == Init /\ [][Next]_vars

-----------------------------------------------------------------------------
TypeOK ==
    /\ \A r \in Run :
          /\ run[r].state \in {"absent", "ready", "running", "ended"}
          /\ run[r].at \in [Branches[r] -> 0 .. MaxJumps + 1]
    /\ budget \in 0..MaxJumps /\ crashes \in 0..Crashes

\* The tree never takes more units than the largest limit of its runs, and
\* none is granted beyond its own run's limit, whatever crashes and is
\* executed again (the count and the decision are one commit).
WithinBudget ==
    /\ Cardinality(grants) <= MaxJumps
    /\ \A r \in Run, k \in UNION {Keys(s) : s \in Run} :
          k \in Keys(r) /\ records[r][k] # None
          => /\ records[r][k].granted => records[r][k].spent <= Limit[r]
             /\ records[r][k].granted = (<<r, k>> \in grants)

\* Every refusal of a run names one key, the first that was refused, so the
\* branches and every later execution agree on who answers for it.
OneFirstRefusal ==
    \A r \in Run : \A k \in Keys(r) :
        records[r][k] # None /\ ~records[r][k].granted
        => LET f == records[r][k].first IN
           /\ f = run[r].first
           /\ records[r][f] # None /\ ~records[r][f].granted
           /\ records[r][f].first = f

\* What inspect shows is the tree's count: of now for a live run, of its end
\* for an ended one, after the root ended and the records are swept too.
InspectedSpent(r) == IF run[r].ended # None THEN run[r].ended ELSE budget
InspectIsTrue ==
    \A r \in Run : run[r].state # "absent"
        => InspectedSpent(r) =
              (IF Live(r) THEN Cardinality(grants) ELSE counted[r])

=============================================================================
