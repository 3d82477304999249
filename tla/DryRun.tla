------------------------------- MODULE DryRun -------------------------------
(***************************************************************************)
(* A dry run: a definition and every run it starts, in a private store and *)
(* on a virtual clock, driven by one loop.                                 *)
(*                                                                         *)
(* A run is a sequence of tasks; a task that is not caught ends its run.   *)
(* Calls are at-least-once: one that was interrupted is called again.      *)
(* Waits are cut to nothing, so a wait is no more than a task. The store's *)
(* transactions are those of Runs and Mailbox, one at a time here, since   *)
(* nothing but the loop writes to the private store.                       *)
(***************************************************************************)
EXTENDS Integers, Sequences, FiniteSets, SequencesExt, TLC

CONSTANTS Programs,       \* the programs the root may have: sequences of tasks
          Definition,           \* the host's catalog: the program of each definition
          Marked,         \* the functions the mock rule marks
          MaxTasks,       \* Limits::max_tasks, which also bounds the loop
          MaxConcurrency, \* how many due runs one pass reads
          MaxFaults,      \* how often a run may be interrupted (MAX_INTERRUPTIONS - 1)
          Far,            \* the wake time of a run that waits for an event
          None

VARIABLES row,      \* the private store: the runs by id
          clock,    \* the virtual clock
          loop,     \* the driver: passes made, due runs left, run driven
          admitted, \* the ids of the runs in the order of their admission
          mocked,   \* the calls the mock was asked and the events emitted
          reached,  \* history: the functions whose handlers were called
          stop,     \* whether the host's token is cancelled
          result    \* how the dry run ended, or None

vars == <<row, clock, loop, admitted, mocked, reached, stop, result>>

Root == <<>>
Ids == DOMAIN row

\* A run; of its mailbox the identities it accepted, each the call that sent
\* it, and how many copies its listens took.
NewRow(program, owned) ==
  [program |-> program, owned |-> owned, pos |-> 1, wake |-> clock,
   outcome |-> None, heard |-> {}, taken |-> 0, faults |-> 0]

Init ==
  /\ clock = 0
  /\ \E p \in Programs : row = Root :> [NewRow(p, FALSE) EXCEPT !.wake = 0]
  /\ loop = [passes |-> 0, due |-> <<>>, cur |-> None, top |-> TRUE]
  /\ admitted = <<Root>>
  /\ mocked = <<>>
  /\ reached = {}
  /\ stop = FALSE
  /\ result = None

-----------------------------------------------------------------------------
\* The loop.

LiveIds == {i \in Ids : row[i].outcome = None}

Due == {i \in LiveIds : row[i].wake <= clock}

Earliest == LET wakes == {row[i].wake : i \in LiveIds}
            IN CHOOSE w \in wakes : \A v \in wakes : w <= v

AtTop == result = None /\ loop.top

Conclude(r) ==
  /\ result' = r
  /\ UNCHANGED <<row, clock, loop, admitted, mocked, reached, stop>>

\* The recovery limit of the loop.
Exhausted == AtTop /\ loop.passes = MaxTasks /\ Conclude("exceeded")

Stopped == AtTop /\ loop.passes < MaxTasks /\ stop /\ Conclude("stopped")

Ended ==
  /\ AtTop /\ loop.passes < MaxTasks /\ ~stop
  /\ row[Root].outcome # None
  /\ Conclude(row[Root].outcome)

Looking == AtTop /\ loop.passes < MaxTasks /\ ~stop /\ row[Root].outcome = None

Waits == Looking /\ Due = {} /\ Earliest >= Far /\ Conclude("waiting")

\* Nothing is due: the clock jumps to the next wake time.
Advance ==
  /\ Looking /\ Due = {} /\ Earliest < Far
  /\ clock' = Earliest
  /\ loop' = [loop EXCEPT !.passes = @ + 1]
  /\ UNCHANGED <<row, admitted, mocked, reached, stop, result>>

\* One pass over the due runs, in any order the index has for equal times.
Poll ==
  /\ Looking /\ Due # {}
  /\ \E due \in SetToSeqs(Due) :
       /\ \A i, j \in 1..Len(due) : i < j => row[due[i]].wake <= row[due[j]].wake
       /\ loop' = [loop EXCEPT !.top = FALSE,
                     !.due = IF Len(due) > MaxConcurrency
                             THEN SubSeq(due, 1, MaxConcurrency) ELSE due]
  /\ UNCHANGED <<row, clock, admitted, mocked, reached, stop, result>>

PassOver ==
  /\ result = None /\ ~loop.top /\ loop.cur = None /\ loop.due = <<>>
  /\ loop' = [loop EXCEPT !.top = TRUE, !.passes = @ + 1]
  /\ UNCHANGED <<row, clock, admitted, mocked, reached, stop, result>>

\* The next due run is claimed, unless the token is cancelled or an earlier
\* drive of this pass ended it.
Drive ==
  /\ result = None /\ ~loop.top /\ loop.cur = None /\ loop.due # <<>>
  /\ LET i == Head(loop.due)
         claimed == ~stop /\ i \in Due
     IN loop' = [loop EXCEPT !.due = Tail(@), !.cur = IF claimed THEN i ELSE None]
  /\ UNCHANGED <<row, clock, admitted, mocked, reached, stop, result>>

-----------------------------------------------------------------------------
\* The run that is driven.

Driving == result = None /\ loop.cur # None

Me == loop.cur
Mine == row[Me]
AtTask(op) == Driving /\ ~stop /\ Mine.pos <= Len(Mine.program)
                /\ Mine.program[Mine.pos].op = op
Task == Mine.program[Mine.pos]

Parent(i) == SubSeq(i, 1, Len(i) - 1)

\* The runs a run owns, at every level.
OwnedBelow(rows, i) ==
  {j \in DOMAIN rows : /\ Len(j) > Len(i) /\ SubSeq(j, 1, Len(i)) = i
                       /\ \A k \in (Len(i) + 1)..Len(j) : rows[SubSeq(j, 1, k)].owned}

OwnedChildren(rows, i) == {j \in OwnedBelow(rows, i) : Len(j) = Len(i) + 1}

\* A parent that joins a child is woken by its end.
Joins(rows, i) ==
  /\ i # Root /\ rows[i].owned
  /\ LET p == rows[Parent(i)]
     IN p.outcome = None /\ p.pos = i[Len(i)] /\ p.program[p.pos].op = "run"

\* Altered: only the run's own children are cancelled.
EndShallow(rows, i, outcome) ==
  [j \in Ids |->
     IF j = i THEN [rows[j] EXCEPT !.outcome = outcome]
     ELSE IF j \in OwnedChildren(rows, i) /\ rows[j].outcome = None
          THEN [rows[j] EXCEPT !.outcome = "cancelled"]
     ELSE IF Joins(rows, i) /\ j = Parent(i) THEN [rows[j] EXCEPT !.wake = clock]
     ELSE rows[j]]

\* A terminal commit cancels the live runs the run owns and wakes a parent
\* that waits for it.
End(rows, i, outcome) ==
  [j \in Ids |->
     IF j = i THEN [rows[j] EXCEPT !.outcome = outcome]
     ELSE IF j \in OwnedBelow(rows, i) /\ rows[j].outcome = None
          THEN [rows[j] EXCEPT !.outcome = "cancelled"]
     ELSE IF Joins(rows, i) /\ j = Parent(i) THEN [rows[j] EXCEPT !.wake = clock]
     ELSE rows[j]]

Release == loop' = [loop EXCEPT !.cur = None]

\* The run is suspended until an event wakes it.
Suspend(i) == [row EXCEPT ![i].wake = Far, ![i].faults = 0]

Passed == [row EXCEPT ![Me].pos = @ + 1]

\* What becomes of the driven run by its call's answer. One that is no answer
\* interrupts it: it is tried later, or given up.
Answered(rows, answer) ==
  \/ /\ answer = "ok"
     /\ row' = [rows EXCEPT ![Me].pos = @ + 1] /\ UNCHANGED loop
  \/ /\ answer = "error" \/ (answer = "interrupted" /\ Mine.faults = MaxFaults)
     /\ row' = End(rows, Me, "faulted") /\ Release
  \/ /\ answer = "interrupted" /\ Mine.faults < MaxFaults
     /\ row' = [rows EXCEPT ![Me].faults = @ + 1, ![Me].wake = clock + 1] /\ Release

Answers == {"ok", "error", "interrupted"}

Reports(answer) == mocked' = Append(mocked, [call |-> <<Me, Mine.pos>>, answer |-> answer])

\* The mock is asked for the answer to a marked function; what it says is
\* reported before it is judged.
Mocked ==
  /\ AtTask("call") /\ Task.f \in Marked
  /\ \E answer \in Answers : Reports(answer) /\ Answered(row, answer)
  /\ UNCHANGED <<clock, admitted, reached, stop, result>>

Wakes(r) == r.pos <= Len(r.program) /\ r.program[r.pos].op = "listen"

\* The live runs a call may deliver to: its own and those below it.
Below == {i \in {Me} \union OwnedBelow(row, Me) : row[i].outcome = None}

\* A mailbox keeps one copy of an identity, which is the call's in every
\* dispatch of it.
Delivered(targets) ==
  [i \in Ids |->
     IF i \in targets /\ <<Me, Mine.pos>> \notin row[i].heard
     THEN [row[i] EXCEPT !.heard = @ \union {<<Me, Mine.pos>>},
                         !.wake = IF Wakes(row[i]) /\ @ > clock THEN clock ELSE @]
     ELSE row[i]]

\* Another function is called, with access to the private store. What its
\* handler delivered stays delivered, whatever it answers.
Dispatch ==
  /\ AtTask("call") /\ Task.f \notin Marked
  /\ reached' = reached \union {Task.f}
  /\ \E answer \in Answers, targets \in {{}} \union {{i} : i \in Below} :
       Answered(Delivered(targets), answer)
  /\ UNCHANGED <<clock, admitted, mocked, stop, result>>

\* An emitted event is reported and goes nowhere.
Emit ==
  /\ AtTask("emit")
  /\ Reports("ok")
  /\ row' = Passed
  /\ UNCHANGED <<clock, loop, admitted, reached, stop, result>>

ChildId == Append(Me, Mine.pos)

Admit(rows, owned) == (ChildId :> NewRow(Definition[Task.kind], owned)) @@ rows

\* run: workflow with await: false.
StartFree ==
  /\ AtTask("free")
  /\ row' = Admit(Passed, FALSE)
  /\ admitted' = Append(admitted, ChildId)
  /\ UNCHANGED <<clock, loop, mocked, reached, stop, result>>

\* The reserved function start_child, which no mock rule is asked about.
StartChild ==
  /\ AtTask("start")
  /\ row' = Admit(Passed, TRUE)
  /\ admitted' = Append(admitted, ChildId)
  /\ reached' = reached \union {"start_child"}
  /\ UNCHANGED <<clock, loop, mocked, stop, result>>

\* run: workflow: the child is admitted and joined, which suspends at once.
RunChild ==
  /\ AtTask("run") /\ ChildId \notin Ids
  /\ row' = Admit(Suspend(Me), TRUE)
  /\ admitted' = Append(admitted, ChildId)
  /\ Release
  /\ UNCHANGED <<clock, mocked, reached, stop, result>>

\* The joined child has ended, or the run was driven before it did.
JoinChild ==
  /\ AtTask("run") /\ ChildId \in Ids
  /\ \/ /\ row[ChildId].outcome = None
        /\ row' = Suspend(Me) /\ Release
     \/ /\ row[ChildId].outcome = "completed"
        /\ row' = Passed /\ UNCHANGED loop
     \/ /\ row[ChildId].outcome \in {"faulted", "cancelled"}
        /\ row' = End(row, Me, "faulted") /\ Release
  /\ UNCHANGED <<clock, admitted, mocked, reached, stop, result>>

Pending(r) == Cardinality(r.heard) - r.taken

\* A listen takes what is in the mailbox; without an event one with a timeout
\* times out at once and another suspends.
Listen ==
  /\ AtTask("listen")
  /\ \/ /\ Pending(Mine) > 0
        /\ row' = [Passed EXCEPT ![Me].taken = @ + 1] /\ UNCHANGED loop
     \/ /\ Pending(Mine) = 0 /\ Task.timeout
        /\ row' = End(row, Me, "faulted") /\ Release
     \/ /\ Pending(Mine) = 0 /\ ~Task.timeout
        /\ row' = Suspend(Me) /\ Release
  /\ UNCHANGED <<clock, admitted, mocked, reached, stop, result>>

Finish ==
  /\ Driving /\ ~stop /\ Mine.pos > Len(Mine.program)
  /\ row' = End(row, Me, "completed")
  /\ Release
  /\ UNCHANGED <<clock, admitted, mocked, reached, stop, result>>

\* The token is cancelled while a run is driven: its lease is given back.
GiveBack ==
  /\ Driving /\ stop
  /\ row' = [row EXCEPT ![Me].wake = clock]
  /\ Release
  /\ UNCHANGED <<clock, admitted, mocked, reached, stop, result>>

Stop ==
  /\ result = None /\ ~stop /\ stop' = TRUE
  /\ UNCHANGED <<row, clock, loop, admitted, mocked, reached, result>>

Step ==
  \/ Exhausted \/ Stopped \/ Ended \/ Waits \/ Advance \/ Poll \/ PassOver \/ Drive
  \/ Mocked \/ Dispatch \/ Emit \/ StartFree \/ StartChild
  \/ RunChild \/ JoinChild \/ Listen \/ Finish \/ GiveBack

Next == Step \/ Stop

Spec == Init /\ [][Next]_vars

-----------------------------------------------------------------------------
\* Properties.

\* No call the mock rule marks is dispatched, in the root or in any run it
\* starts.
MarkedNeverDispatched == reached \intersect Marked = {}

\* The report lists every run of the private store once, the root first and a
\* run after the run that started it.
ReportIsComplete ==
  /\ ToSet(admitted) = Ids /\ Len(admitted) = Cardinality(Ids)
  /\ \A k \in 2..Len(admitted) :
       \E j \in 1..(k - 1) : admitted[j] = Parent(admitted[k])

\* A mocked call that was answered and an emitted event are not asked and not
\* reported again, although their run may be suspended, interrupted and driven
\* again after them: only an interrupted answer lets the same call follow it.
MockedOnce ==
  \A j, k \in 1..Len(mocked) :
    j < k /\ mocked[j].call = mocked[k].call => mocked[j].answer = "interrupted"

\* When the root has ended, no run it owns at any level is left live.
OwnedEndWithRoot ==
  row[Root].outcome # None => \A i \in OwnedBelow(row, Root) : row[i].outcome # None

\* A dry run that reports waiting left nothing that could go on: every live
\* run listens with an empty mailbox or joins a live child.
WaitingIsQuiet ==
  result = "waiting" =>
    \A i \in LiveIds :
      LET r == row[i]
      IN /\ r.pos <= Len(r.program)
         /\ \/ r.program[r.pos].op = "listen" /\ Pending(r) = 0
            \/ /\ r.program[r.pos].op = "run"
               /\ Append(i, r.pos) \in LiveIds

=============================================================================
