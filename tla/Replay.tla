------------------------------- MODULE Replay -------------------------------
(***************************************************************************)
(* Replay of a recorded run: replay and replay_definition of               *)
(* runtime/src/testing.rs, and what Mode::Replay changes in the            *)
(* interpreter's host (runtime/src/execution.rs: invoke_function,          *)
(* replayed, emit, Children::start, Events::take, ReplayJournal).          *)
(*                                                                         *)
(* The run is a concurrent `for` of two branches, each a list of steps     *)
(* inside a `try`: calls delivered at least once ("call") or at most once  *)
(* ("amo"), emits, listens, awaited children and jumps. It runs live,      *)
(* sharing its budget with the rest of its tree; at some moment its        *)
(* records are read and the definition, or a candidate edited from it, is  *)
(* executed again over them in a store of its own. The same interpreter    *)
(* runs both, so most actions take the execution as a parameter. Crashes   *)
(* and retries of the live run are CallJournal's.                          *)
(***************************************************************************)
EXTENDS Naturals, Sequences, FiniteSets

CONSTANTS None,
          Setups,       \* <<steps of branch 1, steps of branch 2, catch, exceeded>>
          Edits,        \* of the candidate: <<"same">>, <<"adds">>, or a key whose arguments change
          EmitOutcomes, \* "ok", "failed"
          EndedOnly,    \* whether only ended runs are replayed
          Limit,        \* max_jumps of the tree
          Others        \* bound: jumps of the tree's other runs

Branch == {1, 2}
Key == Branch \X (1..3)
Exec == {"live", "replay"}

ReplayAssumption ==
    /\ Limit \in Nat /\ Others \in Nat /\ EndedOnly \in BOOLEAN
    /\ \A s \in Setups : s[3] \in {"none", "errors", "unknown"} /\ s[4] \in {"raise", "end"}

(* Of an execution: where each branch is (at, st), the call records (None or
   "pending", "ok", "failed", "notexec"), the events taken, the budget
   decisions, the first refusal, the tree's count and the run's status.
   evidence is what replay read of the live run; used, dispatched and swept
   are its used results, the live run's outside effects and retention. *)
VARIABLES setup, edit, x, evidence, used, dispatched, swept, others

vars == <<setup, edit, x, evidence, used, dispatched, swept, others>>

Fresh ==
    [at |-> [b \in Branch |-> 1], st |-> [b \in Branch |-> "run"],
     calls |-> [k \in Key |-> None], events |-> {}, budget |-> [k \in Key |-> None],
     first |-> None, spent |-> 0, status |-> None]

Init ==
    /\ setup \in Setups /\ edit \in Edits
    /\ x = [m \in Exec |-> Fresh]
    /\ evidence = None /\ used = {} /\ dispatched = {} /\ swept = FALSE /\ others = 0

-----------------------------------------------------------------------------
(* The interpreter. *)

Steps(m, b) ==
    IF m = "replay" /\ edit = <<"adds">> /\ b = 1 THEN Append(setup[b], "call") ELSE setup[b]

Here(m, b) == <<b, x[m].at[b]>>
Kind(m, b) == Steps(m, b)[x[m].at[b]]
At(m, b, kinds) ==
    /\ x[m].status = None /\ x[m].st[b] = "run" /\ x[m].at[b] <= Len(Steps(m, b))
    /\ Kind(m, b) \in kinds

(* The branch after an answer: it goes on, its `catch` takes over or it
   faults. An unknown at-most-once outcome needs a catch that names it. *)
Settled(e, b, class) ==
    IF class = "ok" THEN [e EXCEPT !.at[b] = @ + 1]
    ELSE [e EXCEPT !.st[b] = IF \/ class = "error" /\ setup[3] # "none"
                                \/ class = "unknown" /\ setup[3] = "unknown"
                             THEN "caught" ELSE "fault"]

Class(kind, answer) ==
    CASE answer = "ok" -> "ok"
      [] answer = "pending" /\ kind = "amo" -> "unknown"
      [] answer \in {"failed", "notexec"} \/ (answer = "pending" /\ kind # "amo") -> "error"

(* The answer is saved before it is used. *)
Answered(e, m, b, answer) ==
    Settled([e EXCEPT !.calls[Here(m, b)] = answer], b, Class(Kind(m, b), answer))

BranchEnded(m, b) == x[m].st[b] # "run" \/ x[m].at[b] > Len(Steps(m, b))

(* concurrent: every branch runs to its end; the first fault in order wins,
   else the run waits, else it completes with every branch's result. A
   branch refused after the first refusal ends as that one does. *)
Outcome(m) ==
    LET e == x[m]
        how(b) == IF e.st[b] = "run" THEN "done" ELSE e.st[b]
    IN IF \E b \in Branch : how(b) = "exceeded" THEN <<"exceeded", e.first>>
       ELSE IF \E b \in Branch : how(b) = "fault"
       THEN LET b == IF how(1) = "fault" THEN 1 ELSE 2 IN <<"faulted", <<b, e.at[b]>>>>
       ELSE IF \E b \in Branch : how(b) = "wait" THEN <<"waiting">>
       ELSE <<"completed", <<how(1), e.at[1]>>, <<how(2), e.at[2]>>>>

(* Everything but a follower is at its end, and the followers' leader too. *)
Ready(m) ==
    \A b \in Branch :
        /\ BranchEnded(m, b)
        /\ x[m].st[b] = "follow" => \E c \in Branch : x[m].st[c] = "exceeded"

Recorded == {k \in Key : evidence.calls[k] # None}

(* A completed replay used every recorded result. *)
Concluded(m) ==
    IF m = "replay" /\ Outcome(m)[1] \in {"completed", "exceeded"} /\ used # Recorded
    THEN <<"unused">> ELSE Outcome(m)

(* The live run suspends while it waits, here by not ending. *)
End(m) ==
    /\ x[m].status = None /\ Ready(m) /\ (m = "replay" => evidence # None)
    /\ m = "live" => Outcome(m) # <<"waiting">>
    /\ x' = [x EXCEPT ![m].status = Concluded(m)]
    /\ UNCHANGED <<setup, edit, evidence, used, dispatched, swept, others>>

-----------------------------------------------------------------------------
(* Steps of the live run. *)

(* The intent is saved, then the call is dispatched. *)
Dispatch(b) ==
    /\ At("live", b, {"call", "amo", "emit"}) /\ x["live"].calls[Here("live", b)] = None
    /\ x' = [x EXCEPT !["live"].calls[Here("live", b)] = "pending"]
    /\ dispatched' = dispatched \union {Here("live", b)}
    /\ UNCHANGED <<setup, edit, evidence, used, swept, others>>

(* The answer, or none to tell ("pending"). *)
Answer(b) ==
    /\ At("live", b, {"call", "amo", "emit"}) /\ x["live"].calls[Here("live", b)] = "pending"
    /\ \E a \in IF Kind("live", b) = "emit" THEN EmitOutcomes
                ELSE {"ok", "failed", "notexec", "pending"} :
         x' = [x EXCEPT !["live"] = Answered(@, "live", b, a)]
    /\ UNCHANGED <<setup, edit, evidence, used, dispatched, swept, others>>

(* A published event or the child's end arrives; a child is admitted. *)
Take(b) ==
    /\ At("live", b, {"listen", "child"})
    /\ x' = [x EXCEPT !["live"] = Settled([@ EXCEPT !.events = @ \union {Here("live", b)}], b, "ok")]
    /\ dispatched' = IF Kind("live", b) = "child" THEN dispatched \union {Here("live", b)} ELSE dispatched
    /\ UNCHANGED <<setup, edit, evidence, used, swept, others>>

(* Other runs of the tree spend its budget. *)
Spend ==
    /\ others < Others /\ x["live"].spent < Limit /\ x["live"].status = None
    /\ others' = others + 1
    /\ x' = [x EXCEPT !["live"].spent = @ + 1]
    /\ UNCHANGED <<setup, edit, evidence, used, dispatched, swept>>

-----------------------------------------------------------------------------
(* Jumps. *)

(* RunStore::spend: a decision is made once; a refusal names the first. *)
Decided(e, k, limit) ==
    IF e.budget[k] # None THEN e
    ELSE LET granted == e.spent < limit IN
         [e EXCEPT !.budget[k] = granted,
                   !.spent = IF granted THEN @ + 1 ELSE @,
                   !.first = IF granted \/ @ # None THEN @ ELSE k]

Unlimited == Limit + Cardinality(Key) + 1

(* ReplayJournal::spend: recorded decisions are made again as they were, the
   recorded first refusal before any other. *)
Decide(m, k) ==
    LET e == x[m] IN
    IF m = "live" \/ evidence.budget[k] = None THEN Decided(e, k, Limit)
    ELSE IF evidence.budget[k] THEN Decided(e, k, Unlimited)
    ELSE Decided(IF evidence.first \in {None, k} THEN e ELSE Decided(e, evidence.first, 0), k, 0)

(* A refused jump raises, or ends the run if it is the first refused. *)
Jump(m, b) ==
    /\ At(m, b, {"jump"}) /\ (m = "replay" => evidence # None)
    /\ LET k == Here(m, b)
           e == Decide(m, k)
       IN x' = [x EXCEPT ![m] =
              IF e.budget[k] THEN Settled(e, b, "ok")
              ELSE IF setup[4] = "raise" THEN Settled(e, b, "error")
              ELSE [e EXCEPT !.st[b] = IF e.first = k THEN "exceeded" ELSE "follow"]]
    /\ UNCHANGED <<setup, edit, evidence, used, dispatched, swept, others>>

-----------------------------------------------------------------------------
(* Replay. *)

(* replay_inner reads the run's records, which must not have been swept. *)
ReadEvidence ==
    /\ evidence = None
    /\ EndedOnly => x["live"].status # None
    /\ x["live"].status # None \/ \E k \in Key : x["live"].calls[k] # None
    /\ IF swept
       THEN /\ x' = [x EXCEPT !["replay"].status = <<"unavailable">>]
            /\ UNCHANGED evidence
       ELSE /\ evidence' = x["live"]
            /\ UNCHANGED x
    /\ x["replay"].status = None
    /\ UNCHANGED <<setup, edit, used, dispatched, swept, others>>

(* Retention forgets an ended run's records. *)
Sweep ==
    /\ x["live"].status # None /\ ~swept /\ evidence = None
    /\ swept' = TRUE
    /\ UNCHANGED <<setup, edit, x, evidence, used, dispatched, others>>

(* replayed: function, arguments, logical identity and delivery are those
   recorded. An edited call differs in its arguments. *)
Bound(k) == evidence.calls[k] # None /\ edit # k

(* A call is answered as it was recorded, one without an answer as unknown;
   a missing or different one was not executed. *)
ReplayCall(b) ==
    LET k == Here("replay", b) IN
    /\ At("replay", b, {"call", "amo"}) /\ evidence # None
    /\ used' = IF Bound(k) THEN used \union {k} ELSE used
    /\ x' = [x EXCEPT !["replay"] =
           Answered(@, "replay", b, IF Bound(k) THEN evidence.calls[k] ELSE "notexec")]
    /\ UNCHANGED <<setup, edit, evidence, dispatched, swept, others>>

(* An emit recorded with the same event succeeds. *)
ReplayEmit(b) ==
    LET k == Here("replay", b) IN
    /\ At("replay", b, {"emit"}) /\ evidence # None
    /\ used' = IF Bound(k) THEN used \union {k} ELSE used
    /\ x' = [x EXCEPT !["replay"] = Answered(@, "replay", b, IF Bound(k) THEN "ok" ELSE "notexec")]
    /\ UNCHANGED <<setup, edit, evidence, dispatched, swept, others>>

(* Events::take gives the recorded envelope, Children::start admits nothing;
   without a record the branch waits. *)
ReplayTake(b) ==
    LET k == Here("replay", b) IN
    /\ At("replay", b, {"listen", "child"}) /\ evidence # None
    /\ x' = [x EXCEPT !["replay"] =
           IF k \in evidence.events
           THEN Settled([@ EXCEPT !.events = @ \union {k}], b, "ok")
           ELSE [@ EXCEPT !.st[b] = "wait"]]
    /\ UNCHANGED <<setup, edit, evidence, used, dispatched, swept, others>>

Replays ==
    \/ \E b \in Branch : ReplayCall(b) \/ ReplayEmit(b) \/ ReplayTake(b) \/ Jump("replay", b)
    \/ End("replay")

Next ==
    \/ \E b \in Branch : Dispatch(b) \/ Answer(b) \/ Take(b) \/ Jump("live", b)
    \/ End("live") \/ Spend
    \/ ReadEvidence \/ Sweep \/ Replays

Spec == Init /\ [][Next]_vars

-----------------------------------------------------------------------------
(* Properties. *)

(* Every answer a replayed step acts on is the recorded one: an error as an
   error, a refusal as a refusal, no answer as no answer. *)
AnswersRecorded == \A k \in used : x["replay"].calls[k] = evidence.calls[k]

Finished == x["replay"].status # None /\ evidence # None

(* An ended run replayed under its own definition ends as it did, whatever
   order its branches are replayed in and whatever its tree had spent. *)
SameEnd ==
    Finished /\ edit = <<"same">> /\ evidence.status # None
        => x["replay"].status = evidence.status

(* Replay makes every recorded budget decision again, and the same jump acts
   on the first refusal. *)
DecisionsRestored ==
    evidence # None =>
        /\ \A k \in Key : None \notin {x["replay"].budget[k], evidence.budget[k]}
                              => x["replay"].budget[k] = evidence.budget[k]
        /\ evidence.first # None /\ x["replay"].first # None => x["replay"].first = evidence.first

(* A candidate that changes a recorded call does not pass for a replay: it
   never completes, though the workflow may catch the refusal. *)
ChangedIsRefused ==
    Finished /\ edit \in Key /\ evidence.calls[edit] # None
        => x["replay"].status[1] \notin {"completed", "exceeded"}

=============================================================================
