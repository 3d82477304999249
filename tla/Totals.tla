------------------------------- MODULE Totals -------------------------------
(***************************************************************************)
(* Annotation totals: the numbers a run's call answers carry are summed on *)
(* its row (save_record, accumulate of ows/src/durable.rs), added to its   *)
(* definition's bucket of the hour it ends in (tally, add_bucket), and     *)
(* read back over a window (RunStore::totals, durable/src/engine.rs).      *)
(*                                                                         *)
(* The runs are of one definition and every sum is bounded: a name not yet *)
(* present is admitted only while there is room for it.  What interleaves  *)
(* is answers, ends and cascades, over several hours.                      *)
(***************************************************************************)
EXTENDS Integers, Sequences, SequencesExt, FiniteSets, FiniteSetsExt, TLC

CONSTANTS
    Run, Parent,    \* the runs and the owner of each, or None
    Name,           \* annotation names, numbered in their order
    MaxNames,       \* MAX_ANNOTATIONS
    Width,          \* TOTALS_BUCKET_MS
    MaxBuckets,     \* MAX_TOTALS_BUCKETS
    Answers,        \* how many annotated answers a run gets
    Times,          \* the instants, some before the epoch
    None

TotalsConstants ==
    /\ Name \subseteq Nat /\ Times \subseteq Int
    /\ MaxNames \in Nat \ {0} /\ Width \in Nat \ {0} /\ MaxBuckets \in Nat \ {0}
    /\ Parent \in [Run -> Run \cup {None}]

VARIABLES
    now,
    run,        \* ended (or None), the row's totals, and the answers it got
    bucket      \* start -> the runs and the totals, of the hours that have any
vars == <<now, run, bucket>>

Nothing == [n \in {} |-> 0]

\* accumulate: name by name, in their order.
Admitted(totals, n) == n \in DOMAIN totals \/ Cardinality(DOMAIN totals) < MaxNames
Accumulate(totals, numbers) ==
    FoldLeft(LAMBDA t, n : IF ~Admitted(t, n) THEN t
                           ELSE IF n \in DOMAIN t THEN [t EXCEPT ![n] = @ + numbers[n]]
                           ELSE t @@ (n :> numbers[n]),
             totals, SetToSortSeq(DOMAIN numbers, <))

BucketStart(t) == t - (t % Width)

Init ==
    /\ now = Min(Times)
    /\ run = [r \in Run |-> [ended |-> None, totals |-> Nothing, answers |-> <<>>]]
    /\ bucket = [b \in {} |-> [runs |-> 0, totals |-> Nothing]]

-----------------------------------------------------------------------------
\* save_record: an answer with its numbers, in one commit with the row's sum.
Answer(r, numbers) ==
    /\ run[r].ended = None /\ Len(run[r].answers) < Answers
    /\ run' = [run EXCEPT ![r].totals = Accumulate(@, numbers),
                          ![r].answers = Append(@, numbers)]
    /\ UNCHANGED <<now, bucket>>

\* The live runs that end with r, in the order of the cascade.
Children(r) == {c \in Run : Parent[c] = r /\ run[c].ended = None}
Cascade(r) == <<r>> \o SetToSortSeq(Children(r), <)

\* tally: a run without totals is not counted.
Tallied(r) == SelectSeq(Cascade(r), LAMBDA s : run[s].totals # Nothing)
Tally(r) ==
    FoldLeft(LAMBDA t, s : Accumulate(t, run[s].totals), Nothing, Tallied(r))

\* add_bucket, in the terminal commit.
Added(runs, totals) ==
    LET b == BucketStart(now)
        old == IF b \in DOMAIN bucket THEN bucket[b]
               ELSE [runs |-> 0, totals |-> Nothing]
    IN  (b :> [runs |-> old.runs + runs, totals |-> Accumulate(old.totals, totals)])
        @@ bucket

End(r) ==
    /\ run[r].ended = None
    /\ run' = [s \in Run |-> IF s = r \/ s \in Children(r)
                             THEN [run[s] EXCEPT !.ended = now] ELSE run[s]]
    /\ bucket' = IF Tallied(r) = <<>> THEN bucket
                 ELSE Added(Len(Tallied(r)), Tally(r))
    /\ UNCHANGED now

Tick ==
    /\ now < Max(Times)
    /\ now' = Min({t \in Times : t > now})
    /\ UNCHANGED <<run, bucket>>

Next ==
    \/ Tick
    \/ \E r \in Run : End(r) \/ \E S \in SUBSET Name \ {{}} :
                                   Answer(r, [n \in S |-> 1])
Spec == Init /\ [][Next]_vars

-----------------------------------------------------------------------------
(* RunStore::totals.                                                       *)

From(since) == BucketStart(since)
Until(since, before) == Max({BucketStart(before - 1) + Width, From(since)})
Fits(since, before) == (Until(since, before) - From(since)) \div Width <= MaxBuckets
Read(since, before) ==
    LET found == SetToSortSeq({b \in DOMAIN bucket :
                                  From(since) <= b /\ b < Until(since, before)}, <)
    IN  [runs |-> FoldLeft(LAMBDA n, b : n + bucket[b].runs, 0, found),
         totals |-> FoldLeft(LAMBDA t, b : Accumulate(t, bucket[b].totals),
                             Nothing, found)]

\* The runs with totals that ended in [from, until), and what they sum to.
EndedIn(from, until) ==
    {r \in Run : run[r].ended # None /\ from <= run[r].ended /\ run[r].ended < until
                 /\ run[r].totals # Nothing}
Sum(R, n) ==
    MapThenSumSet(LAMBDA r : IF n \in DOMAIN run[r].totals THEN run[r].totals[n] ELSE 0, R)
Answered(r, n) ==
    FoldLeft(LAMBDA x, a : IF n \in DOMAIN a THEN x + a[n] ELSE x, 0, run[r].answers)

Windows == {w \in Times \X Times : w[1] <= w[2]}

\* Every window counts each run that ended in it once, whether it finished,
\* was cancelled or ended with its parent, and whatever side of the epoch and
\* of an hour's boundary it ended on.
RunsCountOnce ==
    \A w \in Windows : Fits(w[1], w[2])
        => Read(w[1], w[2]).runs =
              Cardinality(EndedIn(From(w[1]), Until(w[1], w[2])))

\* The window is rounded out to whole hours, never in: it holds every run that
\* ended in it.
WindowIsWhole ==
    \A w \in Windows, r \in Run :
        run[r].ended # None /\ w[1] <= run[r].ended /\ run[r].ended < w[2]
        => From(w[1]) <= run[r].ended /\ run[r].ended < Until(w[1], w[2])

\* Present names keep summing: a name of a run's totals has the sum of its
\* answers, and a name of an hour the sum of the runs that ended in it.
PresentIsExact ==
    /\ \A r \in Run : \A n \in DOMAIN run[r].totals :
          run[r].totals[n] = Answered(r, n)
    /\ \A b \in DOMAIN bucket : \A n \in DOMAIN bucket[b].totals :
          bucket[b].totals[n] = Sum(EndedIn(b, b + Width), n)

\* While there is room for every name, a window's totals are those of the runs
\* that ended in it: no hour is read twice or left out.
WindowIsExact ==
    \A w \in Windows : Fits(w[1], w[2])
        => LET ended == EndedIn(From(w[1]), Until(w[1], w[2]))
               read == Read(w[1], w[2]).totals
           IN  \A n \in Name :
                   (IF n \in DOMAIN read THEN read[n] ELSE 0) = Sum(ended, n)
=============================================================================
