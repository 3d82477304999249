----------------------------- MODULE MCTriggers -----------------------------
(***************************************************************************)
(* Triggers for TLC: one version with buffered slots under an operator, and *)
(* two workers that race over two versions.  `part' says which of the two  *)
(* this behaviour is about; the other stays in its initial state.          *)
(***************************************************************************)
EXTENDS Triggers, TLC

CONSTANTS Parts, v1, v2, Racer

VARIABLES part, raceRows, racePlan, raceHanded, raceNow

raceVars == <<raceRows, racePlan, raceHanded, raceNow>>
triggerVars == <<part, vars, raceVars>>

\* `after' and `every' slots, buffered.
QueueArms == [v \in Version |-> {"after", "every"}]
QueueOverlap == [v \in Version |-> "Queue"]
QueueCatchup == [v \in Version |-> "Latest"]
QueueDigest == [v \in Version |-> 1]

\* An `after' schedule alone.
AfterArms == [v \in Version |-> {"after"}]

\* v1 replaces an `after' run; v2 skips, drops missed slots and has a one-shot.
\* They differ in content, so a trip of one does not bar the other.
Race == INSTANCE Triggers WITH
    Version <- {v1, v2}, Digest <- (v1 :> 1) @@ (v2 :> 2),
    Arms <- (v1 :> {"after"}) @@ (v2 :> {"every", "at"}),
    Overlap <- (v1 :> "Replace") @@ (v2 :> "Skip"),
    CatchupOf <- (v1 :> "Latest") @@ (v2 :> "None"),
    Worker <- Racer, Host <- {}, Operator <- {"stop"}, MaxTime <- 2,
    rows <- raceRows, plan <- racePlan, handed <- raceHanded, now <- raceNow

Symmetry == Permutations(Racer)

TriggerInit == part \in Parts /\ Init /\ Race!Init
QueueStep == part = "queue" /\ Next /\ UNCHANGED <<part, raceVars>>
RaceStep == part = "race" /\ Race!Next /\ UNCHANGED <<part, vars>>

TriggerSpec == TriggerInit /\ [][QueueStep \/ RaceStep]_triggerVars

-----------------------------------------------------------------------------

\* Two workers that fire and activate versions under each other: firings act on
\* the trigger they read and overlap no run their policy excludes, every trip is
\* reported, and the `after' timer goes on, which only a pause may stop (fire,
\* activate_armed, breaker).
RacesAreSound ==
    /\ [](Race!AfterGoesOn /\ Race!TripIsReported)
    /\ Race!EpochsAreIsolated /\ Race!NoOverlap
=============================================================================
