----------------------------- MODULE RunsProofs -----------------------------
(***************************************************************************)
(* Proofs about Runs, for any set of runs and of processes and any lease,  *)
(* skew bound and interruption limit.                                      *)
(*                                                                         *)
(* Every action changes each row in one of a few ways: RowStep lists them. *)
(* The lemmas named after the actions show that each action is a RowStep   *)
(* of every row; what holds of a row is then proved once per kind of       *)
(* RowStep.  Only NoOrphans relates two rows.                              *)
(***************************************************************************)
EXTENDS Runs, TLAPS

-----------------------------------------------------------------------------
(* The kinds of change of one row.                                         *)

Kept(r) == run'[r] = run[r] /\ granted'[r] = granted[r]

Enters(r) ==
    /\ Absent(r) /\ ~(stopped /\ stopped')
    /\ granted'[r] = granted[r]
    /\ \E t \in Nat : \/ run'[r] = Admitted(t)
                      \/ run'[r] = EndedRow(Admitted(t), "Failed")

Claims(r) ==
    /\ ~stopped
    /\ \E p \in Process, t \in Nat :
        /\ \/ Claimable(r, t) /\ run'[r] = Claimed(run[r], p, t)
           \/ Absent(r) /\ run'[r] = Claimed(Admitted(t), p, t)
           \/ /\ Absent(r)
              /\ \E q \in Run :
                    /\ ~run[q].held
                    /\ run'[r] = [Claimed(Admitted(t), p, t) EXCEPT !.parent = q]
        /\ granted'[r] = granted[r] \cup
                {[owner |-> p, generation |-> run[r].generation + 1]}

Woken(r) ==
    /\ Live(r) /\ granted'[r] = granted[r]
    /\ \E t \in Int : run'[r] = [run[r] EXCEPT !.wake = t]

Renewed(r) ==
    /\ run[r].state = "Running" /\ granted'[r] = granted[r]
    /\ \E t \in Nat : run'[r] = [run[r] EXCEPT !.lease = t]

Released(r) ==
    /\ run[r].state = "Running" /\ granted'[r] = granted[r]
    /\ \E t \in Nat :
          run'[r] = [run[r] EXCEPT !.state = "Ready", !.fence = NoFence,
                                   !.lease = NoLease, !.wake = t]

Suspended(r) ==
    /\ run[r].state = "Running" /\ ~run[r].held /\ ~stopped
    /\ granted'[r] = granted[r]
    /\ \E t \in Int, n \in Nat, s \in {"Ready", "Waiting"} :
          /\ n < MaxInterruptions
          /\ run'[r] = [run[r] EXCEPT !.state = s, !.interruptions = n,
                           !.wake = t, !.fence = NoFence, !.lease = NoLease]

Ends(r) ==
    /\ Live(r) /\ granted'[r] = granted[r]
    /\ \/ run'[r] = EndedRow(run[r], "Cancelled")
       \/ /\ ~stopped /\ ~run[r].held
          /\ \E n \in Nat, s \in Terminal :
                run'[r] = EndedRow([run[r] EXCEPT !.interruptions = n], s)

Holds(r) ==
    /\ Live(r) /\ granted'[r] = granted[r]
    /\ \E h \in BOOLEAN : run'[r] = [run[r] EXCEPT !.held = h]

RowStep(r) ==
    \/ Kept(r) \/ Enters(r) \/ Claims(r) \/ Woken(r) \/ Renewed(r)
    \/ Released(r) \/ Suspended(r) \/ Ends(r) \/ Holds(r)

RowSteps ==
    /\ run' = [x \in Run |-> run'[x]]
    /\ granted' = [x \in Run |-> granted'[x]]
    /\ \A r \in Run : RowStep(r)

-----------------------------------------------------------------------------
(* Actions.                                                                *)

\* Buffered slots are drained into ids of runs (drain_queues).
LEMMA SlotsAreRuns == \A slots \in Slots : slots \in SUBSET Run
BY DEF Slots

\* A run's live subtree consists of runs, holds the run, and holds the live
\* children of its members.
LEMMA Subtree ==
    ASSUME NEW r \in Run
    PROVE  /\ LiveSubtree(r) \subseteq Run
           /\ r \in LiveSubtree(r)
           /\ \A c \in Run : run[c].parent \in LiveSubtree(r) /\ Live(c)
                                => c \in LiveSubtree(r)
<1>1. LiveSubtree(r) \subseteq Run
  BY DEF LiveSubtree
<1>2. r \in LiveSubtree(r)
  BY DEF LiveSubtree
<1>3. ASSUME NEW c \in Run, run[c].parent \in LiveSubtree(r), Live(c)
      PROVE  c \in LiveSubtree(r)
  <2> SUFFICES ASSUME NEW S \in SUBSET Run, r \in S,
                      \A d \in Run : run[d].parent \in S /\ Live(d) => d \in S
               PROVE  c \in S
    BY DEF LiveSubtree
  <2>1. run[c].parent \in S
    BY <1>3 DEF LiveSubtree
  <2> QED BY <2>1, <1>3
<1> QED BY <1>1, <1>2, <1>3

\* Every member of a live subtree but its root is a live run.
LEMMA SubtreeLive ==
    ASSUME NEW r \in Run, Live(r), NoRun \notin Run
    PROVE  \A x \in LiveSubtree(r) : Live(x)
<1> DEFINE S == {x \in Run : Live(x)}
<1> SUFFICES ASSUME NEW x \in LiveSubtree(r) PROVE x \in S
  OBVIOUS
<1>1. S \in SUBSET Run /\ r \in S
  OBVIOUS
<1>2. \A c \in Run : (run[c].parent \in S /\ Live(c)) => c \in S
  OBVIOUS
<1> HIDE DEF S
<1> QED BY <1>1, <1>2 DEF LiveSubtree

\* In every action below a process passes a reading, which is a natural
\* number, and an owner's fence is the row's.
LEMMA AdmitRows ==
    ASSUME TypeOK, NEW p \in Process, NEW r \in Run,
           NEW ready \in SUBSET Run, NEW refused \in SUBSET Run,
           Admit(p, r, ready, refused)
    PROVE  RowSteps
<1>1. reading[p] \in Nat
  BY DEF TypeOK
<1>2. ASSUME NEW x \in Run PROVE RowStep(x)
  <2>1. CASE x = r \/ x \in ready \cup refused
    <3>1. Enters(x)
      BY <1>1, <2>1 DEF Admit, Drains, Promoted, Enters, TypeOK
    <3> QED BY <3>1 DEF RowStep
  <2>2. CASE x # r /\ x \notin ready \cup refused
    <3>1. Kept(x)
      BY <2>2 DEF Admit, Promoted, Kept, TypeOK
    <3> QED BY <3>1 DEF RowStep
  <2> QED BY <2>1, <2>2
<1> QED BY <1>2 DEF RowSteps, Admit, Promoted, TypeOK

LEMMA StartRows ==
    ASSUME TypeOK, NEW p \in Process, NEW r \in Run, run[r] = NoRow,
           NEW ready \in SUBSET Run, NEW refused \in SUBSET Run,
           Start(p, r, ready, refused)
    PROVE  RowSteps
<1>1. reading[p] \in Nat
  BY DEF TypeOK
<1>2. ASSUME NEW x \in Run PROVE RowStep(x)
  <2>1. CASE x = r
    <3>1. Claims(x)
      BY <1>1, <2>1 DEF Start, Promoted, Claims, Grant, TypeOK
    <3> QED BY <3>1 DEF RowStep
  <2>2. CASE x # r /\ x \in ready \cup refused
    <3>1. Enters(x)
      BY <1>1, <2>2 DEF Start, Drains, Promoted, Enters, Grant, TypeOK
    <3> QED BY <3>1 DEF RowStep
  <2>3. CASE x # r /\ x \notin ready \cup refused
    <3>1. Kept(x)
      BY <2>3 DEF Start, Promoted, Kept, Grant, TypeOK
    <3> QED BY <3>1 DEF RowStep
  <2> QED BY <2>1, <2>2, <2>3
<1> QED BY <1>2 DEF RowSteps, Start, Promoted, Grant, TypeOK

LEMMA StartChildRows ==
    ASSUME TypeOK, NEW p \in Process, NEW r \in Run, NEW f, NEW c \in Run,
           NEW ready \in SUBSET Run, NEW refused \in SUBSET Run,
           StartChild(p, r, f, c, ready, refused)
    PROVE  RowSteps
<1>1. reading[p] \in Nat
  BY DEF TypeOK
<1>2. ASSUME NEW x \in Run PROVE RowStep(x)
  <2>1. CASE x = c
    <3>1. Claims(x)
      BY <1>1, <2>1 DEF StartChild, Checked, Promoted, Claims, Grant, TypeOK
    <3> QED BY <3>1 DEF RowStep
  <2>2. CASE x # c /\ x \in ready \cup refused
    <3>1. Enters(x)
      BY <1>1, <2>2 DEF StartChild, Drains, Promoted, Enters, Grant, TypeOK
    <3> QED BY <3>1 DEF RowStep
  <2>3. CASE x # c /\ x \notin ready \cup refused
    <3>1. Kept(x)
      BY <2>3 DEF StartChild, Promoted, Kept, Grant, TypeOK
    <3> QED BY <3>1 DEF RowStep
  <2> QED BY <2>1, <2>2, <2>3
<1> QED BY <1>2 DEF RowSteps, StartChild, Promoted, Grant, TypeOK

LEMMA JoinChildRows ==
    ASSUME TypeOK, NEW p \in Process, NEW r \in Run, NEW f, NEW c \in Run,
           NEW woken \in BOOLEAN, NEW ready \in SUBSET Run, NEW refused \in SUBSET Run,
           JoinChild(p, r, f, c, woken, ready, refused)
    PROVE  RowSteps
<1>1. reading[p] \in Nat /\ run[c].parent = r
  BY DEF TypeOK, JoinChild
<1>2. ASSUME NEW x \in Run PROVE RowStep(x)
  <2>1. CASE x \in ready \cup refused
    <3>1. Enters(x)
      BY <1>1, <2>1 DEF JoinChild, Checked, Drains, Promoted, Notified, Enters, TypeOK
    <3> QED BY <3>1 DEF RowStep
  <2>2. CASE x \notin ready \cup refused /\ x = r /\ woken
    <3>1. Live(x) /\ run[x].state \notin Terminal
      BY <2>2 DEF JoinChild, Checked, Authority, Live, Absent, Ended, Terminal
    <3>2. Woken(x)
      BY <1>1, <2>2, <3>1 DEF JoinChild, Promoted, Notified, Woken, TypeOK
    <3> QED BY <3>2 DEF RowStep
  <2>3. CASE x \notin ready \cup refused /\ ~(x = r /\ woken)
    <3>1. Kept(x)
      BY <1>1, <2>3 DEF JoinChild, Promoted, Notified, Kept, TypeOK
    <3> QED BY <3>1 DEF RowStep
  <2> QED BY <2>1, <2>2, <2>3
<1> QED BY <1>2 DEF RowSteps, JoinChild, Promoted, TypeOK

LEMMA FireRows ==
    ASSUME TypeOK, NoRun \notin Run, NEW p \in Process,
           NEW replaced \in SUBSET Run,
           NEW ready \in SUBSET Run, NEW refused \in SUBSET Run,
           Fire(p, replaced, ready, refused)
    PROVE  RowSteps
<1> DEFINE cancelled == UNION {LiveSubtree(x) : x \in replaced}
<1>1. reading[p] \in Nat
  BY DEF TypeOK
<1>2. \A x \in cancelled : Live(x)
  BY SubtreeLive DEF Fire
<1>3. run' = Promoted([x \in Run |-> IF x \in cancelled
                                     THEN EndedRow(run[x], "Cancelled")
                                     ELSE run[x]], ready, refused, reading[p])
  BY DEF Fire
<1> HIDE DEF cancelled
<1>4. ASSUME NEW x \in Run PROVE RowStep(x)
  <2>1. CASE x \in ready \cup refused
    <3>1. Enters(x)
      BY <1>1, <1>3, <2>1 DEF Fire, Drains, Promoted, Enters
    <3> QED BY <3>1 DEF RowStep
  <2>2. CASE x \notin ready \cup refused /\ x \in cancelled
    <3>1. Ends(x)
      BY <1>2, <1>3, <2>2 DEF Fire, Promoted, Ends
    <3> QED BY <3>1 DEF RowStep
  <2>3. CASE x \notin ready \cup refused /\ x \notin cancelled
    <3>1. Kept(x)
      BY <1>3, <2>3 DEF Fire, Promoted, Kept
    <3> QED BY <3>1 DEF RowStep
  <2> QED BY <2>1, <2>2, <2>3
<1> QED BY <1>3, <1>4 DEF RowSteps, Fire, Promoted, TypeOK

LEMMA ClaimRows ==
    ASSUME TypeOK, NEW p \in Process, NEW r \in Run, Claim(p, r)
    PROVE  RowSteps
<1>1. reading[p] \in Nat
  BY DEF TypeOK
<1>2. Claims(r)
  BY <1>1 DEF Claim, Claims, Grant, TypeOK
<1>3. \A x \in Run : x # r => Kept(x)
  BY DEF Claim, Kept, Grant, TypeOK
<1> QED BY <1>2, <1>3 DEF RowSteps, RowStep, Claim, Grant, TypeOK

LEMMA RenewRows ==
    ASSUME TypeOK, NEW p \in Process, NEW r \in Run, NEW f, Renew(p, r, f)
    PROVE  RowSteps
<1>1. reading[p] + LeaseMs \in Nat
  BY PolicyAssumption DEF TypeOK
<1>2. Renewed(r)
  BY <1>1 DEF Renew, Authority, Renewed, TypeOK
<1>3. \A x \in Run : x # r => Kept(x)
  BY DEF Renew, Kept, TypeOK
<1> QED BY <1>2, <1>3 DEF RowSteps, RowStep, Renew, TypeOK

LEMMA ReleaseRows ==
    ASSUME TypeOK, NEW p \in Process, NEW r \in Run, NEW f, Release(p, r, f)
    PROVE  RowSteps
<1>1. reading[p] \in Nat
  BY DEF TypeOK
<1>2. Released(r)
  BY <1>1 DEF Release, Authority, Released, TypeOK
<1>3. \A x \in Run : x # r => Kept(x)
  BY DEF Release, Kept, TypeOK
<1> QED BY <1>2, <1>3 DEF RowSteps, RowStep, Release, TypeOK

LEMMA FinishWaitingRows ==
    ASSUME TypeOK, NEW p \in Process, NEW r \in Run, NEW f,
           NEW at \in Int, NEW woken \in BOOLEAN,
           NoOrphans, OwnedWhileRunning, run[r].parent # r,
           FinishWaiting(p, r, f, at, woken)
    PROVE  RowSteps
<1>1. reading[p] \in Nat
  BY DEF TypeOK
<1>2. Suspended(r)
  <2>1. run'[r] = [run[r] EXCEPT !.state = "Waiting", !.interruptions = 0,
                      !.wake = at, !.fence = NoFence, !.lease = NoLease]
    BY DEF FinishWaiting, Notified, TypeOK
  <2>2. run[r].state = "Running" /\ ~run[r].held /\ ~stopped /\ granted'[r] = granted[r]
    BY DEF FinishWaiting, Checked, Authority
  <2>3. 0 \in Nat /\ 0 < MaxInterruptions
    BY PolicyAssumption
  <2> QED BY <2>1, <2>2, <2>3 DEF Suspended
<1>3. ASSUME NEW x \in Run, x # r PROVE RowStep(x)
  <2>1. CASE x = run[r].parent /\ woken /\ run[x].state \notin Terminal
    <3>1. Live(r) /\ x # NoRun
      BY NoRunAssumption DEF FinishWaiting, Checked, Authority, Live, Absent, Ended, Terminal
    <3>2. Live(x)
      BY <2>1, <3>1 DEF NoOrphans
    <3>3. Woken(x)
      BY <1>1, <1>3, <2>1, <3>2 DEF FinishWaiting, Notified, Woken, TypeOK
    <3> QED BY <3>3 DEF RowStep
  <2>2. CASE ~(x = run[r].parent /\ woken /\ run[x].state \notin Terminal)
    <3>1. Kept(x)
      BY <1>3, <2>2 DEF FinishWaiting, Notified, Kept, TypeOK
    <3> QED BY <3>1 DEF RowStep
  <2> QED BY <2>1, <2>2
<1> QED BY <1>2, <1>3 DEF RowSteps, RowStep, FinishWaiting, Notified, TypeOK

LEMMA BackoffType == ASSUME NEW n \in Nat PROVE Backoff(n) \in Int
<1>1. \A k \in Int : 2^k \in Int
  BY SMT
<1>2. Min(n - 1, 20) \in Int
  BY DEF Min
<1>3. 2^Min(n - 1, 20) \in Int
  BY <1>1, <1>2
<1> DEFINE e == 2^Min(n - 1, 20)
<1> HIDE DEF e
<1>4. Min(BackoffMs * e, BackoffCap) \in Int
  BY <1>3, PolicyAssumption DEF Min, e
<1> QED BY <1>4 DEF Backoff, e

LEMMA FinishInterruptedRows ==
    ASSUME TypeOK, NEW p \in Process, NEW r \in Run, NEW f,
           FinishInterrupted(p, r, f)
    PROVE  RowSteps
<1> DEFINE n == run[r].interruptions + 1
<1>1. n \in Nat /\ reading[p] \in Nat
  BY DEF TypeOK, StoredRun
<1>2. reading[p] + Backoff(n) \in Int
  BY <1>1, BackoffType
<1>3. Suspended(r)
  <2>1. run'[r] = [run[r] EXCEPT !.state = "Ready", !.interruptions = n,
                      !.wake = reading[p] + Backoff(n), !.fence = NoFence,
                      !.lease = NoLease]
    BY DEF FinishInterrupted, TypeOK
  <2>2. run[r].state = "Running" /\ ~run[r].held /\ ~stopped /\ granted'[r] = granted[r]
    BY DEF FinishInterrupted, Checked, Authority
  <2>3. n < MaxInterruptions
    BY DEF FinishInterrupted
  <2> HIDE DEF n
  <2> QED BY <1>1, <1>2, <2>1, <2>2, <2>3 DEF Suspended
<1>4. \A x \in Run : x # r => Kept(x)
  BY DEF FinishInterrupted, Kept, TypeOK
<1> QED BY <1>3, <1>4 DEF RowSteps, RowStep, FinishInterrupted, TypeOK

\* The commit of `terminate': `ended' is the row the run ends with.
LEMMA TerminateRows ==
    ASSUME TypeOK, NoOrphans, NEW r \in Run, Live(r), NEW woken \in BOOLEAN,
           NEW t \in Nat, NEW ready \in SUBSET Run, NEW refused \in SUBSET Run,
           NEW status \in Terminal, NEW n \in Nat,
           Drains(ready, refused),
           granted' = granted, stopped' = stopped,
           NEW rows,
           \/ rows = run /\ status = "Cancelled"
           \/ rows = [run EXCEPT ![r].interruptions = n] /\ ~stopped /\ ~run[r].held,
           run' = Promoted(Notified(Terminated(rows, r, status), r, woken, t),
                           ready, refused, t)
    PROVE  RowSteps
<1>1. \A x \in LiveSubtree(r) : Live(x)
  BY SubtreeLive, NoRunAssumption
<1>2. \A x \in Run : x # r => rows[x] = run[x]
  BY DEF TypeOK
<1>a. \A x \in Run : EndedRow(run[x], "Cancelled").state = "Cancelled"
  BY DEF EndedRow, TypeOK, StoredRun
<1>b. EndedRow(rows[r], status).state = status
  BY DEF EndedRow, TypeOK, StoredRun
<1>3. ASSUME NEW x \in Run PROVE RowStep(x)
  <2>1. CASE x \in ready \cup refused
    <3>1. Enters(x)
      BY <2>1 DEF Drains, Promoted, Enters
    <3> QED BY <3>1 DEF RowStep
  <2>2. CASE x \notin ready \cup refused /\ x = r
    <3>1. run'[r] = EndedRow(rows[r], status)
      BY <1>b, <2>2 DEF Promoted, Notified, Terminated
    <3>2. Ends(r)
      BY <3>1 DEF Ends, TypeOK
    <3> QED BY <2>2, <3>2 DEF RowStep
  <2>3. CASE x \notin ready \cup refused /\ x # r /\ x \in LiveSubtree(r)
    <3>1. run'[x] = EndedRow(run[x], "Cancelled")
      BY <1>2, <1>a, <2>3 DEF Promoted, Notified, Terminated, Terminal
    <3>2. Ends(x)
      BY <1>1, <2>3, <3>1 DEF Ends
    <3> QED BY <3>2 DEF RowStep
  <2>4. CASE x \notin ready \cup refused /\ x # r /\ x \notin LiveSubtree(r)
    <3>1. CASE x = run[r].parent /\ woken /\ run[x].state \notin Terminal
      <4>1. Live(x)
        BY <3>1, NoRunAssumption DEF NoOrphans
      <4>2. run'[x] = [run[x] EXCEPT !.wake = t]
        BY <1>2, <2>4, <3>1 DEF Promoted, Notified, Terminated
      <4>3. Woken(x)
        BY <4>1, <4>2 DEF Woken
      <4> QED BY <4>3 DEF RowStep
    <3>2. CASE ~(x = run[r].parent /\ woken /\ run[x].state \notin Terminal)
      <4>1. Kept(x)
        BY <1>2, <2>4, <3>2 DEF Promoted, Notified, Terminated, Kept
      <4> QED BY <4>1 DEF RowStep
    <3> QED BY <3>1, <3>2
  <2> QED BY <2>1, <2>2, <2>3, <2>4
<1> QED BY <1>3 DEF RowSteps, Promoted, TypeOK

LEMMA FinishRows ==
    ASSUME TypeOK, NoOrphans, NEW p \in Process, NEW r \in Run, NEW f,
           NEW woken \in BOOLEAN, NEW ready \in SUBSET Run,
           NEW refused \in SUBSET Run, NEW status \in Terminal,
           Finish(p, r, f, status, woken, ready, refused)
               \/ GiveUp(p, r, f, woken, ready, refused)
    PROVE  RowSteps
<1>1. reading[p] \in Nat
  BY DEF TypeOK
<1>2. Checked(r, f, reading[p])
  BY DEF Finish, GiveUp
<1>3. Live(r) /\ ~stopped /\ ~run[r].held
  BY <1>2 DEF Checked, Authority, Live, Absent, Ended, Terminal
<1>4. PICK s \in Terminal, n \in Nat : FinishTerminal(p, r, s, n, woken, ready, refused)
  <2>1. run[r].interruptions + 1 \in Nat
    BY DEF TypeOK, StoredRun
  <2> QED BY <2>1 DEF Finish, GiveUp, Terminal
<1> QED BY <1>1, <1>3, <1>4, TerminateRows DEF FinishTerminal

LEMMA CancelRows ==
    ASSUME TypeOK, NoOrphans, NEW p \in Process, NEW r \in Run,
           NEW woken \in BOOLEAN, NEW ready \in SUBSET Run,
           NEW refused \in SUBSET Run,
           Cancel(p, r, woken, ready, refused)
    PROVE  RowSteps
<1>1. reading[p] \in Nat /\ "Cancelled" \in Terminal /\ 0 \in Nat
  BY DEF TypeOK, Terminal
<1> QED BY <1>1, TerminateRows DEF Cancel

LEMMA SetHoldRows ==
    ASSUME TypeOK, NEW r \in Run, NEW hold \in BOOLEAN, SetHold(r, hold)
    PROVE  RowSteps
<1>1. \A x \in LiveSubtree(r) : Live(x)
  BY SubtreeLive, NoRunAssumption DEF SetHold
<1>2. ASSUME NEW x \in Run PROVE RowStep(x)
  <2>1. CASE x \in LiveSubtree(r)
    BY <1>1, <2>1 DEF SetHold, Holds, RowStep
  <2>2. CASE x \notin LiveSubtree(r)
    BY <2>2 DEF SetHold, Kept, RowStep
  <2> QED BY <2>1, <2>2
<1> QED BY <1>2 DEF RowSteps, SetHold, TypeOK

LEMMA ClearStopRows ==
    ASSUME TypeOK, NEW p \in Process, NEW ready \in SUBSET Run,
           NEW refused \in SUBSET Run, ClearStop(p, ready, refused)
    PROVE  RowSteps
<1>1. reading[p] \in Nat
  BY DEF TypeOK
<1>2. ASSUME NEW x \in Run PROVE RowStep(x)
  <2>1. CASE x \in ready \cup refused
    BY <1>1, <2>1 DEF ClearStop, Promoted, Enters, RowStep
  <2>2. CASE x \notin ready \cup refused
    BY <2>2 DEF ClearStop, Promoted, Kept, RowStep
  <2> QED BY <2>1, <2>2
<1> QED BY <1>2 DEF RowSteps, ClearStop, Promoted, TypeOK

LEMMA DeliverRows ==
    ASSUME TypeOK, NEW p \in Process, NEW r \in Run, Deliver(p, r)
    PROVE  RowSteps
<1>1. Min(run[r].wake, reading[p]) \in Int
  BY DEF TypeOK, StoredRun, Min
<1>2. Woken(r)
  BY <1>1 DEF Deliver, Woken, TypeOK
<1>3. \A x \in Run : x # r => Kept(x)
  BY DEF Deliver, Kept, TypeOK
<1> QED BY <1>2, <1>3 DEF RowSteps, RowStep, Deliver, TypeOK

-----------------------------------------------------------------------------
(* Trees.                                                                  *)

LiveAfter(x) == run'[x].state \notin Terminal \cup {"absent"}

\* What an action may do to the tree: a live child of a run that ends does
\* not stay live, and a run that enters as a child enters under a live run.
TreeStep ==
    /\ \A c \in Run : /\ Live(c) /\ run[c].parent # NoRun
                      /\ ~LiveAfter(run[c].parent)
                      => ~LiveAfter(c)
    /\ \A c \in Run : Absent(c) /\ run'[c].parent # NoRun
          => run'[c].parent # c /\ run'[c].parent \in Run /\ LiveAfter(run'[c].parent)

\* What a row step does to the state and the parent of a row.
LEMMA RowStepState ==
    ASSUME TypeOK, OwnedWhileRunning, NEW r \in Run, RowStep(r)
    PROVE  /\ Live(r) => run'[r].parent = run[r].parent
           /\ Ended(r) => run'[r] = run[r]
           /\ Absent(r) => run[r] = NoRow
<1> USE DEF Live, Absent, Ended, Terminal
<1>0. run[r] \in StoredRun
  BY DEF TypeOK
<1>1. CASE Kept(r)
  BY <1>1 DEF Kept, OwnedWhileRunning
<1>2. CASE Enters(r)
  BY <1>2 DEF Enters, OwnedWhileRunning
<1>3. CASE Claims(r)
  BY <1>0, <1>3 DEF Claims, Claimable, Claimed, OwnedWhileRunning, StoredRun
<1>4. CASE Woken(r)
  BY <1>0, <1>4 DEF Woken, StoredRun
<1>5. CASE Renewed(r)
  BY <1>0, <1>5 DEF Renewed, StoredRun
<1>6. CASE Released(r)
  BY <1>0, <1>6 DEF Released, StoredRun
<1>7. CASE Suspended(r)
  BY <1>0, <1>7 DEF Suspended, StoredRun
<1>8. CASE Ends(r)
  BY <1>0, <1>8 DEF Ends, EndedRow, StoredRun
<1>9. CASE Holds(r)
  BY <1>0, <1>9 DEF Holds, StoredRun
<1> QED BY <1>1, <1>2, <1>3, <1>4, <1>5, <1>6, <1>7, <1>8, <1>9 DEF RowStep

LEMMA TreeStepKeepsNoOrphans ==
    ASSUME TypeOK, OwnedWhileRunning, NoOrphans, RowSteps, TreeStep
    PROVE  NoOrphans'
<1> SUFFICES ASSUME NEW c \in Run, LiveAfter(c), run'[c].parent # NoRun
             PROVE  LiveAfter(run'[c].parent) /\ run'[c].parent # c
  BY DEF NoOrphans, LiveAfter, Live, Absent, Ended
<1>1. RowStep(c)
  BY DEF RowSteps
<1>2. CASE Live(c)
  <2>1. run'[c].parent = run[c].parent
    BY <1>1, <1>2, RowStepState
  <2> QED BY <1>2, <2>1 DEF NoOrphans, TreeStep
<1>3. CASE Absent(c)
  BY <1>3 DEF TreeStep
<1>4. CASE Ended(c)
  BY <1>1, <1>4, RowStepState DEF LiveAfter, Ended
<1> QED BY <1>2, <1>3, <1>4 DEF Live

\* A step that ends no run, and gives no new row a parent.
LEMMA NothingEnds ==
    ASSUME TypeOK, NoOrphans,
           \A r \in Run : Live(r) => LiveAfter(r),
           \A c \in Run : Absent(c) => run'[c].parent = NoRun
    PROVE  TreeStep
  BY DEF TreeStep, NoOrphans, TypeOK, StoredRun

LEMMA ChangeOfOneRow ==
    ASSUME TypeOK, NoOrphans, OwnedWhileRunning, NEW r \in Run, Live(r),
           LiveAfter(r), \A x \in Run : x # r => run'[x] = run[x]
    PROVE  TreeStep
<1>1. \A x \in Run : Live(x) => LiveAfter(x)
  BY DEF Live, LiveAfter, Absent, Ended
<1>2. \A c \in Run : Absent(c) => run'[c].parent = NoRun
  BY DEF OwnedWhileRunning, NoRow, Live
<1> QED BY <1>1, <1>2, NothingEnds

\* The steps of one process on one run that end nothing.
LEMMA OneRowTree ==
    ASSUME TypeOK, NoOrphans, OwnedWhileRunning, NEW p \in Process,
           NEW r \in Run, NEW f,
           Claim(p, r) \/ Renew(p, r, f) \/ Release(p, r, f)
               \/ FinishInterrupted(p, r, f) \/ Deliver(p, r)
    PROVE  TreeStep
<1> USE DEF Live, LiveAfter, Absent, Ended, Terminal, TypeOK, StoredRun
<1>1. CASE Claim(p, r)
  BY <1>1, ChangeOfOneRow DEF Claim, Claimable, Claimed
<1>2. CASE Renew(p, r, f)
  BY <1>2, ChangeOfOneRow DEF Renew, Authority
<1>3. CASE Release(p, r, f)
  BY <1>3, ChangeOfOneRow DEF Release, Authority
<1>4. CASE FinishInterrupted(p, r, f)
  BY <1>4, ChangeOfOneRow DEF FinishInterrupted, Checked, Authority
<1>5. CASE Deliver(p, r)
  BY <1>5, ChangeOfOneRow DEF Deliver
<1> QED BY <1>1, <1>2, <1>3, <1>4, <1>5

LEMMA FinishWaitingTree ==
    ASSUME TypeOK, NoOrphans, OwnedWhileRunning, NEW p \in Process,
           NEW r \in Run, NEW f, NEW at, NEW woken \in BOOLEAN,
           FinishWaiting(p, r, f, at, woken)
    PROVE  TreeStep
<1>1. \A x \in Run : Live(x) => LiveAfter(x)
  BY DEF FinishWaiting, Notified, Live, LiveAfter, Absent, Ended, Terminal, TypeOK, StoredRun
<1>2. \A c \in Run : Absent(c) => run'[c].parent = NoRun
  BY DEF FinishWaiting, Checked, Authority, Notified, OwnedWhileRunning, NoRow, Absent, TypeOK, StoredRun
<1> QED BY <1>1, <1>2, NothingEnds

\* A drain adds rows without a parent and touches no row that is stored.
LEMMA PromotedTree ==
    ASSUME TypeOK, NoOrphans, OwnedWhileRunning, NEW t,
           NEW ready \in SUBSET Run, NEW refused \in SUBSET Run,
           ready \cup refused \subseteq {x \in Run : Absent(x)},
           NEW rows, \A x \in Run : Live(x) => rows[x] = run[x],
           \A x \in Run : Absent(x) => rows[x].parent = NoRun,
           run' = Promoted(rows, ready, refused, t)
    PROVE  TreeStep
<1>1. \A x \in Run : Live(x) => LiveAfter(x)
  BY DEF Promoted, Live, LiveAfter, Absent, Ended
<1>2. \A c \in Run : Absent(c) => run'[c].parent = NoRun
  BY DEF Promoted, Admitted, EndedRow, NoRow
<1> QED BY <1>1, <1>2, NothingEnds

\* A new row has no parent.
LEMMA NewRows ==
    ASSUME NEW t, NEW p
    PROVE  /\ NoRow.parent = NoRun
           /\ Admitted(t).parent = NoRun
           /\ EndedRow(Admitted(t), "Failed").parent = NoRun
           /\ Claimed(Admitted(t), p, t).parent = NoRun
  BY DEF NoRow, Admitted, EndedRow, Claimed

LEMMA AdmissionTree ==
    ASSUME TypeOK, NoOrphans, OwnedWhileRunning, NEW p \in Process,
           NEW r \in Run, NEW ready \in SUBSET Run, NEW refused \in SUBSET Run,
           Admit(p, r, ready, refused) \/ Start(p, r, ready, refused)
    PROVE  TreeStep
<1> DEFINE rows == Promoted(run, ready, refused, reading[p])
<1>1. /\ Absent(r) /\ ready \cup refused \subseteq {x \in Run : Absent(x)}
      /\ \A x \in Run : x # r => run'[x] = rows[x]
      /\ run'[r] = Admitted(reading[p])
            \/ run'[r] = Claimed(Admitted(reading[p]), p, reading[p])
  BY DEF Admit, Start, Drains, Promoted
<1>2. \A x \in Run : Live(x) => LiveAfter(x)
  BY <1>1 DEF Promoted, Live, LiveAfter, Absent, Ended
<1>3. \A c \in Run : Absent(c) => run'[c].parent = NoRun
  BY <1>1, NewRows DEF Promoted, OwnedWhileRunning
<1> QED BY <1>2, <1>3, NothingEnds

LEMMA JoinChildTree ==
    ASSUME TypeOK, NoOrphans, OwnedWhileRunning, NEW p \in Process,
           NEW r \in Run, NEW f, NEW c \in Run, NEW woken \in BOOLEAN,
           NEW ready \in SUBSET Run, NEW refused \in SUBSET Run,
           JoinChild(p, r, f, c, woken, ready, refused)
    PROVE  TreeStep
<1>1. /\ Live(r) /\ run[c].parent = r
      /\ ready \cup refused \subseteq {x \in Run : Absent(x)}
      /\ run' = Promoted(Notified(run, c, woken, reading[p]), ready, refused, reading[p])
  BY DEF JoinChild, Checked, Authority, Drains, Live, Absent, Ended, Terminal
<1>2. \A x \in Run : Live(x) => LiveAfter(x)
  BY <1>1 DEF Promoted, Notified, Live, LiveAfter, Absent, Ended, Terminal, TypeOK, StoredRun
<1>3. \A x \in Run : Absent(x) => run'[x].parent = NoRun
  BY <1>1, NewRows DEF Promoted, Notified, OwnedWhileRunning, Live
<1> QED BY <1>2, <1>3, NothingEnds

LEMMA StartChildTree ==
    ASSUME TypeOK, NoOrphans, OwnedWhileRunning, NEW p \in Process,
           NEW r \in Run, NEW f, NEW c \in Run,
           NEW ready \in SUBSET Run, NEW refused \in SUBSET Run,
           StartChild(p, r, f, c, ready, refused)
    PROVE  TreeStep
<1>1. /\ Absent(c) /\ c # r /\ ready \cup refused \subseteq {x \in Run : Absent(x)}
      /\ \A x \in Run : x # c => run'[x] = Promoted(run, ready, refused, reading[p])[x]
      /\ run'[c].parent = r
  BY DEF StartChild, Drains, Promoted, Claimed, Admitted, NoRow
<1>2. \A x \in Run : Live(x) => LiveAfter(x)
  BY <1>1 DEF Promoted, Live, LiveAfter, Absent, Ended
<1>3. Live(r)
  BY DEF StartChild, Checked, Authority, Live, Absent, Ended, Terminal
<1>4. \A x \in Run : Absent(x) /\ x # c => run'[x].parent = NoRun
  BY <1>1, NewRows DEF Promoted, OwnedWhileRunning
<1>5. \A x \in Run : Live(x) /\ run[x].parent # NoRun => LiveAfter(run[x].parent)
  BY <1>2 DEF NoOrphans, TypeOK, StoredRun
<1> QED BY <1>1, <1>2, <1>3, <1>4, <1>5 DEF TreeStep

LEMMA TerminateTree ==
    ASSUME TypeOK, NoOrphans, OwnedWhileRunning, NEW r \in Run, Live(r),
           NEW woken \in BOOLEAN, NEW t, NEW ready \in SUBSET Run,
           NEW refused \in SUBSET Run, NEW status \in Terminal,
           Drains(ready, refused),
           NEW rows \in [Run -> StoredRun], \A x \in Run : x # r => rows[x] = run[x],
           run' = Promoted(Notified(Terminated(rows, r, status), r, woken, t),
                           ready, refused, t)
    PROVE  TreeStep
<1> DEFINE S == LiveSubtree(r)
<1>1. S \subseteq Run /\ r \in S /\ \A x \in S : Live(x)
  BY Subtree, SubtreeLive, NoRunAssumption
<1>2. \A c \in Run : run[c].parent \in S /\ Live(c) => c \in S
  BY Subtree
<1>3. \A x \in ready \cup refused : Absent(x)
  BY DEF Drains
<1> HIDE DEF S
<1>4. \A x \in Run : Terminated(rows, r, status)[x] =
          IF x = r THEN EndedRow(rows[x], status)
          ELSE IF x \in S THEN EndedRow(rows[x], "Cancelled") ELSE rows[x]
  BY DEF Terminated, S
<1>5. \A x \in S : ~LiveAfter(x)
  <2>1. \A x \in S : Terminated(rows, r, status)[x].state \in Terminal
    BY <1>1, <1>4 DEF EndedRow, StoredRun, Terminal
  <2>2. \A x \in S : run'[x] = Terminated(rows, r, status)[x]
    BY <1>1, <1>3, <2>1 DEF Promoted, Notified, Live
  <2> QED BY <2>1, <2>2 DEF LiveAfter
<1>6. \A x \in Run : Live(x) /\ x \notin S => LiveAfter(x)
  BY <1>1, <1>3, <1>4 DEF Promoted, Notified, Live, LiveAfter, Absent, Ended, StoredRun, TypeOK
<1>7. \A c \in Run : Absent(c) => run'[c].parent = NoRun
  <2> SUFFICES ASSUME NEW c \in Run, Absent(c) PROVE run'[c].parent = NoRun
    OBVIOUS
  <2>1. c # r /\ c \notin S /\ run[c] = NoRow
    BY <1>1 DEF Live, OwnedWhileRunning
  <2>2. Notified(Terminated(rows, r, status), r, woken, t)[c].parent = NoRun
    BY <1>4, <2>1 DEF Notified, NoRow
  <2> QED BY <2>2 DEF Promoted, Admitted, EndedRow, NoRow
<1> QED BY <1>2, <1>5, <1>6, <1>7 DEF TreeStep, NoOrphans, TypeOK, StoredRun

LEMMA EndingTree ==
    ASSUME TypeOK, NoOrphans, OwnedWhileRunning, NEW p \in Process,
           NEW r \in Run, NEW f, NEW status \in Terminal, NEW woken \in BOOLEAN,
           NEW ready \in SUBSET Run, NEW refused \in SUBSET Run,
           \/ Finish(p, r, f, status, woken, ready, refused)
           \/ GiveUp(p, r, f, woken, ready, refused)
           \/ Cancel(p, r, woken, ready, refused)
    PROVE  TreeStep
<1>1. CASE Cancel(p, r, woken, ready, refused)
  <2>1. "Cancelled" \in Terminal /\ Live(r) /\ run \in [Run -> StoredRun]
    BY <1>1 DEF Cancel, Terminal, TypeOK
  <2> QED BY <1>1, <2>1, TerminateTree DEF Cancel
<1>2. CASE Finish(p, r, f, status, woken, ready, refused)
           \/ GiveUp(p, r, f, woken, ready, refused)
  <2>1. Live(r)
    BY <1>2 DEF Finish, GiveUp, Checked, Authority, Live, Absent, Ended, Terminal
  <2>2. PICK s \in Terminal, n \in Nat : FinishTerminal(p, r, s, n, woken, ready, refused)
    BY <1>2 DEF Finish, GiveUp, Terminal, TypeOK, StoredRun
  <2> DEFINE rows == [run EXCEPT ![r].interruptions = n]
  <2>3. rows \in [Run -> StoredRun] /\ \A x \in Run : x # r => rows[x] = run[x]
    BY DEF TypeOK, StoredRun
  <2> QED BY <2>1, <2>2, <2>3, TerminateTree DEF FinishTerminal
<1> QED BY <1>1, <1>2

LEMMA FireTree ==
    ASSUME TypeOK, NoOrphans, OwnedWhileRunning, NEW p \in Process,
           NEW replaced \in SUBSET Run,
           NEW ready \in SUBSET Run, NEW refused \in SUBSET Run,
           Fire(p, replaced, ready, refused)
    PROVE  TreeStep
<1> DEFINE S == UNION {LiveSubtree(x) : x \in replaced}
           rows == [x \in Run |-> IF x \in S THEN EndedRow(run[x], "Cancelled")
                                  ELSE run[x]]
<1>1. S \subseteq Run /\ \A x \in S : Live(x)
  BY Subtree, SubtreeLive, NoRunAssumption DEF Fire
<1>2. \A c \in Run : run[c].parent \in S /\ Live(c) => c \in S
  BY Subtree
<1>3. run' = Promoted(rows, ready, refused, reading[p])
  BY DEF Fire
<1>4. \A x \in ready \cup refused : Absent(x)
  BY DEF Fire, Drains
<1> HIDE DEF S
<1>5. \A x \in S : ~LiveAfter(x)
  BY <1>1, <1>3, <1>4 DEF Promoted, EndedRow, Live, LiveAfter, Terminal, TypeOK, StoredRun
<1>6. \A x \in Run : Live(x) /\ x \notin S => LiveAfter(x)
  BY <1>3, <1>4 DEF Promoted, Live, LiveAfter, Absent, Ended
<1>7. \A c \in Run : Absent(c) => run'[c].parent = NoRun
  BY <1>1, <1>3, NewRows DEF Promoted, Live, OwnedWhileRunning
<1> QED BY <1>2, <1>5, <1>6, <1>7 DEF TreeStep, NoOrphans, TypeOK, StoredRun

LEMMA SetHoldTree ==
    ASSUME TypeOK, NoOrphans, OwnedWhileRunning, NEW r \in Run,
           NEW hold \in BOOLEAN, SetHold(r, hold)
    PROVE  TreeStep
<1>1. \A x \in LiveSubtree(r) : Live(x)
  BY SubtreeLive, NoRunAssumption DEF SetHold
<1>2. \A x \in Run : Live(x) => LiveAfter(x)
  BY DEF SetHold, Live, LiveAfter, Absent, Ended, TypeOK, StoredRun
<1>3. \A c \in Run : Absent(c) => run'[c].parent = NoRun
  BY <1>1 DEF SetHold, Live, OwnedWhileRunning, NoRow
<1> QED BY <1>2, <1>3, NothingEnds

-----------------------------------------------------------------------------
(* The inductive invariant.                                                *)

Inv ==
    /\ TypeOK /\ OwnedWhileRunning /\ FencesDistinct /\ GivesUp
    /\ ReadingsInSkew /\ NoOrphans

\* Every step changes the rows as RowStep and the trees as TreeStep say.
LEMMA NextSteps ==
    ASSUME Inv, [Next]_vars
    PROVE  RowSteps /\ TreeStep
<1> USE DEF Inv
<1>1. ASSUME run' = run, granted' = granted PROVE RowSteps /\ TreeStep
  <2>1. RowSteps
    BY <1>1 DEF RowSteps, RowStep, Kept, TypeOK
  <2>2. TreeStep
    <3>1. \A x \in Run : Live(x) => LiveAfter(x)
      BY <1>1 DEF Live, LiveAfter, Absent, Ended
    <3>2. \A c \in Run : Absent(c) => run'[c].parent = NoRun
      BY <1>1, NewRows DEF OwnedWhileRunning
    <3> QED BY <3>1, <3>2, NothingEnds
  <2> QED BY <2>1, <2>2
<1>2. CASE UNCHANGED vars \/ Tick \/ Stop \/ (\E p \in Process : \E t \in Clock : ReadClock(p, t))
  BY <1>1, <1>2 DEF vars, Tick, Stop, ReadClock
<1>3. CASE \E p \in Process, ready, refused \in SUBSET Run :
              \/ ClearStop(p, ready, refused)
              \/ \E replaced \in SUBSET Run : Fire(p, replaced, ready, refused)
  <2>1. ASSUME NEW p \in Process, NEW ready \in SUBSET Run, NEW refused \in SUBSET Run,
               ClearStop(p, ready, refused)
        PROVE  RowSteps /\ TreeStep
    <3>1. \A x \in Run : Absent(x) => run[x].parent = NoRun
      BY NewRows DEF OwnedWhileRunning
    <3> QED BY <2>1, <3>1, ClearStopRows, PromotedTree DEF ClearStop
  <2>2. ASSUME NEW p \in Process, NEW ready \in SUBSET Run, NEW refused \in SUBSET Run,
               NEW replaced \in SUBSET Run, Fire(p, replaced, ready, refused)
        PROVE  RowSteps /\ TreeStep
    BY <2>2, FireRows, FireTree, NoRunAssumption
  <2> QED BY <1>3, <2>1, <2>2
<1>4. ASSUME NEW p \in Process, NEW r \in Run, Owner(p, r) PROVE RowSteps /\ TreeStep
  <2>1. PICK f \in granted[r] :
          \/ Renew(p, r, f) \/ Release(p, r, f) \/ FinishInterrupted(p, r, f)
          \/ \E at \in 0..(MaxTime + 1), woken \in BOOLEAN : FinishWaiting(p, r, f, at, woken)
          \/ \E woken \in BOOLEAN, ready, refused \in SUBSET Run :
                GiveUp(p, r, f, woken, ready, refused)
          \/ \E woken \in BOOLEAN, ready, refused \in SUBSET Run, status \in Terminal :
                Finish(p, r, f, status, woken, ready, refused)
          \/ \E c \in Run, ready, refused \in SUBSET Run :
                StartChild(p, r, f, c, ready, refused)
          \/ \E c \in Run, ready, refused \in SUBSET Run, woken \in BOOLEAN :
                JoinChild(p, r, f, c, woken, ready, refused)
    BY <1>4, SlotsAreRuns DEF Owner
  <2>2. CASE Renew(p, r, f) \/ Release(p, r, f) \/ FinishInterrupted(p, r, f)
    BY <2>2, RenewRows, ReleaseRows, FinishInterruptedRows, OneRowTree
  <2>3. CASE \E at \in 0..(MaxTime + 1), woken \in BOOLEAN : FinishWaiting(p, r, f, at, woken)
    <3>1. PICK at \in Int, woken \in BOOLEAN : FinishWaiting(p, r, f, at, woken)
      BY <2>3
    <3>2. run[r].parent # r
      BY <3>1, NoRunAssumption DEF NoOrphans, FinishWaiting, Checked, Authority, Live, Absent, Ended, Terminal
    <3> QED BY <3>1, <3>2, FinishWaitingRows, FinishWaitingTree
  <2>4. CASE \E woken \in BOOLEAN, ready, refused \in SUBSET Run :
                GiveUp(p, r, f, woken, ready, refused)
    <3>1. "Failed" \in Terminal
      BY DEF Terminal
    <3> QED BY <2>4, <3>1, FinishRows, EndingTree
  <2>5. CASE \E woken \in BOOLEAN, ready, refused \in SUBSET Run, status \in Terminal :
                Finish(p, r, f, status, woken, ready, refused)
    BY <2>5, FinishRows, EndingTree
  <2>6. CASE \E c \in Run, ready, refused \in SUBSET Run :
                StartChild(p, r, f, c, ready, refused)
    BY <2>6, StartChildRows, StartChildTree
  <2>7. CASE \E c \in Run, ready, refused \in SUBSET Run, woken \in BOOLEAN :
                JoinChild(p, r, f, c, woken, ready, refused)
    BY <2>7, JoinChildRows, JoinChildTree
  <2> QED BY <2>1, <2>2, <2>3, <2>4, <2>5, <2>6, <2>7
<1>5. ASSUME NEW p \in Process, NEW r \in Run, Anybody(p, r) PROVE RowSteps /\ TreeStep
  <2>1. CASE Claim(p, r) \/ Deliver(p, r)
    BY <2>1, ClaimRows, DeliverRows, OneRowTree
  <2>2. CASE \E hold \in BOOLEAN : SetHold(r, hold)
    BY <2>2, SetHoldRows, SetHoldTree
  <2>3. CASE \E ready, refused \in SUBSET Run : Admit(p, r, ready, refused)
    BY <2>3, AdmitRows, AdmissionTree
  <2>4. CASE \E ready, refused \in SUBSET Run : Start(p, r, ready, refused)
    <3>1. run[r] = NoRow
      BY <2>4 DEF Start, OwnedWhileRunning
    <3> QED BY <2>4, <3>1, StartRows, AdmissionTree
  <2>5. CASE \E ready, refused \in SUBSET Run :
                \E woken \in BOOLEAN : Cancel(p, r, woken, ready, refused)
    <3>1. "Cancelled" \in Terminal
      BY DEF Terminal
    <3> QED BY <2>5, <3>1, CancelRows, EndingTree
  <2> QED BY <1>5, SlotsAreRuns, <2>1, <2>2, <2>3, <2>4, <2>5 DEF Anybody
<1> QED BY SlotsAreRuns, <1>2, <1>3, <1>4, <1>5 DEF Next

\* One row's part of the invariant.
GoodRow(r) ==
    /\ run[r] \in StoredRun /\ granted[r] \in SUBSET Fence
    /\ run[r].state = "Running" <=> run[r].fence # NoFence
    /\ run[r].state = "Running" <=> run[r].lease # NoLease
    /\ run[r].fence # NoFence => run[r].fence.generation = run[r].generation
    /\ run[r].held => Live(r)
    /\ Absent(r) => run[r] = NoRow
    /\ \A f \in granted[r] : f.generation \in 1..run[r].generation
    /\ \A f, g \in granted[r] : f.generation = g.generation => f = g
    /\ run[r].fence # NoFence => run[r].fence \in granted[r]
    /\ Live(r) => run[r].interruptions < MaxInterruptions

LEMMA GoodRows ==
    (/\ run = [x \in Run |-> run[x]] /\ granted = [x \in Run |-> granted[x]]
     /\ \A r \in Run : GoodRow(r))
    <=> (/\ run \in [Run -> StoredRun] /\ granted \in [Run -> SUBSET Fence]
         /\ OwnedWhileRunning /\ FencesDistinct /\ GivesUp)
  BY DEF GoodRow, OwnedWhileRunning, FencesDistinct, GivesUp

\* The rows the operators make.
LEMMA NoRowType == NoRow \in StoredRun
  BY DEF NoRow, StoredRun, RunState, NoLease

LEMMA AdmittedType ==
    ASSUME NEW t \in Nat
    PROVE  /\ Admitted(t) \in StoredRun
           /\ Admitted(t).state = "Ready" /\ Admitted(t).fence = NoFence
           /\ Admitted(t).generation = 0 /\ Admitted(t).lease = NoLease
           /\ Admitted(t).interruptions = 0 /\ Admitted(t).held = FALSE
<1>1. t \in Int /\ "Ready" \in RunState
  BY DEF RunState
<1> QED BY <1>1, NoRowType DEF Admitted, NoRow, StoredRun

LEMMA EndedRowType ==
    ASSUME NEW row \in StoredRun, NEW s \in Terminal
    PROVE  /\ EndedRow(row, s) \in StoredRun
           /\ EndedRow(row, s).state = s /\ EndedRow(row, s).fence = NoFence
           /\ EndedRow(row, s).lease = NoLease /\ EndedRow(row, s).held = FALSE
           /\ EndedRow(row, s).generation = row.generation
  BY DEF EndedRow, StoredRun, RunState

LEMMA ClaimedType ==
    ASSUME NEW row \in StoredRun, NEW p \in Process, NEW t \in Nat,
           row.state = "Running" => row.lease \in Nat
    PROVE  /\ Claimed(row, p, t) \in StoredRun
           /\ Claimed(row, p, t).state = "Running"
           /\ Claimed(row, p, t).fence = [owner |-> p, generation |-> row.generation + 1]
           /\ Claimed(row, p, t).generation = row.generation + 1
           /\ Claimed(row, p, t).lease = t + LeaseMs
           /\ Claimed(row, p, t).interruptions = row.interruptions
<1>1. t + LeaseMs \in Nat /\ row.generation + 1 \in Nat /\ "Running" \in RunState
  BY PolicyAssumption DEF StoredRun, RunState
<1>2. [owner |-> p, generation |-> row.generation + 1] \in Fence
  BY <1>1 DEF Fence
<1>3. (IF row.state = "Running" THEN row.lease ELSE row.wake) \in Int
  BY DEF StoredRun
<1> QED BY <1>1, <1>2, <1>3 DEF Claimed, StoredRun

\* Every kind of row step keeps a row good.
LEMMA RowStepKeepsGood ==
    ASSUME NEW r \in Run, GoodRow(r), RowStep(r)
    PROVE  GoodRow(r)'
<1> USE DEF Live, Absent, Ended, Terminal
<1>0. 0 < MaxInterruptions /\ MaxInterruptions \in Nat /\ LeaseMs \in Nat
      /\ NoLease \notin Nat /\ NoFence \notin Fence
  BY PolicyAssumption, NoFenceAssumption DEF NoLease
<1>1. CASE Kept(r)
  BY <1>1 DEF Kept, GoodRow
<1>2. CASE Enters(r)
  <2>1. run[r] = NoRow /\ granted[r] = {}
    BY <1>2 DEF Enters, GoodRow, NoRow, Fence
  <2>2. PICK t \in Nat : run'[r] = Admitted(t) \/ run'[r] = EndedRow(Admitted(t), "Failed")
    BY <1>2 DEF Enters
  <2>3. run'[r] \in StoredRun
    BY <2>2, AdmittedType, EndedRowType
  <2>4. /\ run'[r].state \in {"Ready", "Failed"} /\ run'[r].fence = NoFence
        /\ run'[r].lease = NoLease /\ run'[r].held = FALSE
        /\ run'[r].state = "Ready" => run'[r].interruptions = 0
    <3>1. CASE run'[r] = Admitted(t)
      BY <3>1, AdmittedType
    <3>2. CASE run'[r] = EndedRow(Admitted(t), "Failed")
      <4>1. Admitted(t) \in StoredRun /\ "Failed" \in Terminal
        BY AdmittedType
      <4> QED BY <3>2, <4>1 DEF EndedRow, StoredRun
    <3> QED BY <2>2, <3>1, <3>2
  <2>5. granted'[r] = {}
    BY <1>2, <2>1 DEF Enters
  <2> QED BY <1>0, <2>3, <2>4, <2>5 DEF GoodRow
<1>3. CASE Claims(r)
  <2>1. PICK p \in Process, t \in Nat :
          /\ \/ Claimable(r, t) /\ run'[r] = Claimed(run[r], p, t)
             \/ Absent(r) /\ run'[r] = Claimed(Admitted(t), p, t)
             \/ /\ Absent(r)
                /\ \E q \in Run : run'[r] = [Claimed(Admitted(t), p, t) EXCEPT !.parent = q]
          /\ granted'[r] = granted[r] \cup
                {[owner |-> p, generation |-> run[r].generation + 1]}
    BY <1>3 DEF Claims
  <2> DEFINE g == run[r].generation + 1
             new == [owner |-> p, generation |-> g]
  <2>2. run[r].generation \in Nat /\ g \in Nat /\ new \in Fence /\ new.generation = g
    BY DEF GoodRow, StoredRun, Fence
  <2>3. /\ run'[r] \in StoredRun
        /\ run'[r].state = "Running" /\ run'[r].fence = new
        /\ run'[r].generation = g /\ run'[r].lease = t + LeaseMs
        /\ run'[r].interruptions < MaxInterruptions
    <3>1. CASE Claimable(r, t) /\ run'[r] = Claimed(run[r], p, t)
      <4>1. run[r] \in StoredRun /\ run[r].interruptions < MaxInterruptions
        BY <3>1 DEF Claimable, GoodRow
      <4>2. run[r].state = "Running" => run[r].lease \in Nat
        BY DEF GoodRow, StoredRun
      <4> QED BY <3>1, <4>1, <4>2, ClaimedType
    <3>2. CASE ~Claimable(r, t) \/ run'[r] # Claimed(run[r], p, t)
      <4>1. run[r] = NoRow /\ g = 1
        BY <2>1, <3>2 DEF GoodRow, NoRow
      <4> DEFINE row == Claimed(Admitted(t), p, t)
      <4>2. /\ row \in StoredRun /\ row.state = "Running" /\ row.fence = new
            /\ row.generation = g /\ row.lease = t + LeaseMs
            /\ row.interruptions = 0
        <5>1. /\ Admitted(t) \in StoredRun /\ Admitted(t).state = "Ready"
              /\ Admitted(t).generation = 0 /\ Admitted(t).interruptions = 0
          BY AdmittedType
        <5>2. g = Admitted(t).generation + 1
          BY <4>1, <5>1
        <5> QED BY <5>1, <5>2, ClaimedType
      <4>3. run'[r] = row \/ \E q \in Run : run'[r] = [row EXCEPT !.parent = q]
        BY <2>1, <3>2
      <4> HIDE DEF row, g, new
      <4> QED BY <1>0, <4>2, <4>3 DEF StoredRun
    <3> QED BY <3>1, <3>2
  <2>4. t + LeaseMs # NoLease /\ new # NoFence
    BY <1>0, <2>2 DEF NoLease
  <2>5. /\ \A f \in granted[r] : f \in Fence /\ f.generation \in 1..run[r].generation
        /\ granted'[r] = granted[r] \cup {new}
    BY <2>1 DEF GoodRow
  <2> HIDE DEF g, new
  <2>6. \A f \in granted'[r] : f \in Fence /\ f.generation \in 1..g
    BY <2>2, <2>5 DEF g, Fence
  <2>7. \A f, h \in granted'[r] : f.generation = h.generation => f = h
    BY <2>2, <2>5 DEF g, GoodRow, Fence
  <2> QED BY <2>2, <2>3, <2>4, <2>5, <2>6, <2>7 DEF GoodRow
<1>4. CASE Woken(r)
  BY <1>4 DEF Woken, GoodRow, StoredRun, NoRow
<1>5. CASE Renewed(r)
  BY <1>0, <1>5 DEF Renewed, GoodRow, StoredRun
<1>6. CASE Released(r)
  <2>1. PICK t \in Nat :
          run'[r] = [run[r] EXCEPT !.state = "Ready", !.fence = NoFence,
                                   !.lease = NoLease, !.wake = t]
    BY <1>6 DEF Released
  <2>2. /\ run'[r] \in StoredRun /\ run'[r].state = "Ready"
        /\ run'[r].fence = NoFence /\ run'[r].lease = NoLease
        /\ run'[r].generation = run[r].generation
        /\ run'[r].interruptions = run[r].interruptions
    <3>1. run[r] \in StoredRun /\ "Ready" \in RunState /\ t \in Int
      BY DEF GoodRow, RunState
    <3> QED BY <2>1, <3>1 DEF StoredRun
  <2> QED BY <1>0, <1>6, <2>2 DEF Released, GoodRow
<1>7. CASE Suspended(r)
  BY <1>0, <1>7 DEF Suspended, GoodRow, StoredRun, RunState
<1>8. CASE Ends(r)
  <2>1. PICK row \in StoredRun, s \in Terminal :
          run'[r] = EndedRow(row, s) /\ row.generation = run[r].generation
    <3>1. run[r] \in StoredRun /\ "Cancelled" \in Terminal
      BY DEF GoodRow
    <3>2. ASSUME NEW n \in Nat
          PROVE  /\ [run[r] EXCEPT !.interruptions = n] \in StoredRun
                 /\ [run[r] EXCEPT !.interruptions = n].generation = run[r].generation
      BY <3>1 DEF StoredRun
    <3> QED BY <1>8, <3>1, <3>2 DEF Ends
  <2>2. /\ run'[r] \in StoredRun /\ run'[r].state \in Terminal
        /\ run'[r].fence = NoFence /\ run'[r].lease = NoLease
        /\ run'[r].held = FALSE /\ run'[r].generation = run[r].generation
    <3>1. run'[r] \in StoredRun
      BY <2>1, EndedRowType
    <3> QED BY <2>1, <3>1 DEF EndedRow, StoredRun
  <2> QED BY <1>0, <1>8, <2>2 DEF Ends, GoodRow
<1>9. CASE Holds(r)
  BY <1>9 DEF Holds, GoodRow, StoredRun
<1> QED BY <1>1, <1>2, <1>3, <1>4, <1>5, <1>6, <1>7, <1>8, <1>9 DEF RowStep

\* The clocks' part of the invariant.
LEMMA ClocksStep ==
    ASSUME TypeOK, ReadingsInSkew, [Next]_vars
    PROVE  /\ now' \in Nat /\ reading' \in [Process -> Nat]
           /\ stopped' \in BOOLEAN /\ ReadingsInSkew'
<1>0. Skew \in Nat
  BY PolicyAssumption
<1>1. CASE Tick
  BY <1>0, <1>1 DEF Tick, TypeOK, ReadingsInSkew
<1>2. CASE \E p \in Process : \E t \in Clock : ReadClock(p, t)
  BY <1>0, <1>2 DEF ReadClock, Clock, TypeOK, ReadingsInSkew
<1>3. CASE stopped' \in BOOLEAN /\ UNCHANGED <<now, reading>>
  BY <1>3 DEF TypeOK, ReadingsInSkew
<1>4. CASE UNCHANGED vars
  BY <1>3, <1>4 DEF vars, TypeOK
<1>5. CASE Stop
  BY <1>3, <1>5 DEF Stop
<1>6. CASE \E p \in Process, ready, refused \in SUBSET Run :
              \/ ClearStop(p, ready, refused)
              \/ \E replaced \in SUBSET Run : Fire(p, replaced, ready, refused)
  BY <1>3, <1>6 DEF ClearStop, Fire, TypeOK
<1>7. ASSUME NEW p \in Process, NEW r \in Run, Owner(p, r)
      PROVE  UNCHANGED <<stopped, now, reading>>
  BY <1>7 DEF Owner, Renew, Release, FinishWaiting, FinishInterrupted, GiveUp,
              Finish, FinishTerminal, StartChild, JoinChild
<1>8. ASSUME NEW p \in Process, NEW r \in Run, Anybody(p, r)
      PROVE  UNCHANGED <<stopped, now, reading>>
  BY <1>8 DEF Anybody, Claim, Deliver, SetHold, Admit, Start, Cancel
<1> QED BY SlotsAreRuns, <1>1, <1>2, <1>3, <1>4, <1>5, <1>6, <1>7, <1>8 DEF Next, TypeOK

LEMMA InvInit == Init => Inv
<1> SUFFICES ASSUME Init PROVE Inv
  OBVIOUS
<1>1. \A p \in Process : reading[p] = 0
  BY DEF Init
<1>2. TypeOK /\ ReadingsInSkew
  <2>1. reading \in [Process -> Nat] /\ run \in [Run -> StoredRun]
    BY NoRowType DEF Init
  <2>2. now = 0 /\ stopped = FALSE /\ granted = [r \in Run |-> {}]
    BY DEF Init
  <2>3. TypeOK
    BY <2>1, <2>2 DEF TypeOK
  <2> QED BY <1>1, <2>2, <2>3, PolicyAssumption DEF ReadingsInSkew
<1>3. OwnedWhileRunning /\ FencesDistinct /\ GivesUp /\ NoOrphans
  BY DEF Init, NoRow, OwnedWhileRunning, FencesDistinct, GivesUp, NoOrphans, Live, Absent, Ended
<1> QED BY <1>2, <1>3 DEF Inv

LEMMA InvStep == Inv /\ [Next]_vars => Inv'
<1> SUFFICES ASSUME Inv, [Next]_vars PROVE Inv'
  OBVIOUS
<1>1. RowSteps /\ TreeStep
  BY NextSteps
<1>2. \A r \in Run : GoodRow(r)
  BY GoodRows DEF Inv, TypeOK
<1>3. \A r \in Run : GoodRow(r)'
  BY <1>1, <1>2, RowStepKeepsGood DEF RowSteps
<1>4. /\ run' \in [Run -> StoredRun] /\ granted' \in [Run -> SUBSET Fence]
      /\ OwnedWhileRunning' /\ FencesDistinct' /\ GivesUp'
  <2>1. run' = [x \in Run |-> run'[x]] /\ granted' = [x \in Run |-> granted'[x]]
    BY <1>1 DEF RowSteps
  <2>2. \A r \in Run : run'[r] \in StoredRun /\ granted'[r] \in SUBSET Fence
    BY <1>3 DEF GoodRow
  <2> QED BY <1>3, <2>1, <2>2 DEF GoodRow, OwnedWhileRunning, FencesDistinct, GivesUp
<1>5. NoOrphans'
  BY <1>1, TreeStepKeepsNoOrphans DEF Inv
<1>6. /\ now' \in Nat /\ reading' \in [Process -> Nat]
      /\ stopped' \in BOOLEAN /\ ReadingsInSkew'
  BY ClocksStep DEF Inv
<1> QED BY <1>4, <1>5, <1>6 DEF Inv, TypeOK

\* Spec keeps the inductive invariant.
THEOREM Invariance == Spec => []Inv
  BY InvInit, InvStep, PTL DEF Spec

-----------------------------------------------------------------------------
(* What the invariant gives.                                               *)

\* Every row, clock reading and fence always has its type.
THEOREM Typing == Spec => []TypeOK
  BY Invariance, PTL DEF Inv

\* A run has an owner, a lease and the state Running together or not at all,
\* and no generation is ever given to two owners.
THEOREM Ownership == Spec => [](OwnedWhileRunning /\ FencesDistinct)
  BY Invariance, PTL DEF Inv

\* A live child always has a live parent.
THEOREM Trees == Spec => []NoOrphans
  BY Invariance, PTL DEF Inv

\* A live run always has interruptions left.
THEOREM InterruptionLimit == Spec => []GivesUp
  BY Invariance, PTL DEF Inv

\* With clocks that differ by at most the configured bound, a run is never
\* taken from an owner that could still find itself in charge.
THEOREM TakeoverSafety == Spec => []NoTakeoverWhileActing
<1>1. Inv => NoTakeoverWhileActing
  <2> SUFFICES ASSUME Inv, NEW r \in Run, NEW f \in granted[r], NEW t \in Clock,
                      Authority(r, f, t), NEW p \in Process
               PROVE  ~Claimable(r, reading[p])
    BY DEF NoTakeoverWhileActing
  <2>1. t \in Int /\ now <= t /\ now \in Nat /\ Skew \in Nat /\ reading[p] \in Nat
    BY PolicyAssumption DEF Clock, Inv, TypeOK
  <2>2. run[r].state = "Running" /\ run[r].lease > t + Skew
    BY DEF Authority
  <2>3. run[r].lease \in Int
    BY DEF Inv, TypeOK, StoredRun, NoLease
  <2>4. reading[p] <= now + Skew
    BY DEF Inv, ReadingsInSkew
  <2> QED BY <2>1, <2>2, <2>3, <2>4 DEF Claimable
<1> QED BY <1>1, Invariance, PTL

\* A poll of the due indexes and a claim always agree.
THEOREM DueIndex == Spec => []DueIsClaimable
<1>1. Inv => DueIsClaimable
  <2> SUFFICES ASSUME Inv, NEW r \in Run
               PROVE  /\ \A t \in 0..(now + Skew) :
                            Claimable(r, t) <=> \E due \in DueAt(r) : due <= t
                      /\ Live(r) /\ ~run[r].held => DueAt(r) # {}
    BY DEF DueIsClaimable
  <2>1. /\ run[r].state \in RunState
        /\ run[r].state = "Running" <=> run[r].lease # NoLease
    BY DEF Inv, TypeOK, StoredRun, OwnedWhileRunning
  <2>2. CASE ~Live(r) \/ run[r].held
    <3>1. DueAt(r) = {}
      BY <2>2 DEF DueAt
    <3> QED BY <2>2, <3>1 DEF Claimable, Live, Absent, Ended, Terminal
  <2>3. CASE Live(r) /\ ~run[r].held /\ run[r].state = "Running"
    <3>1. DueAt(r) = {run[r].lease}
      BY <2>1, <2>3 DEF DueAt
    <3> QED BY <2>3, <3>1 DEF Claimable
  <2>4. CASE Live(r) /\ ~run[r].held /\ run[r].state # "Running"
    <3>1. DueAt(r) = {run[r].wake}
      BY <2>4 DEF DueAt
    <3> QED BY <2>1, <2>4, <3>1 DEF Claimable, RunState, Live, Absent, Ended
  <2> QED BY <2>2, <2>3, <2>4
<1> QED BY <1>1, Invariance, PTL

\* A fence once lost is never the row's fence again.
THEOREM LostOwnership == Spec => LostOwnershipIsFinal
<1>1. ASSUME Inv, [Next]_vars, NEW r \in Run, NEW f \in granted[r], run[r].fence # f
      PROVE  run'[r].fence # f
  <2>1. RowStep(r)
    BY <1>1, NextSteps DEF RowSteps
  <2>2. /\ run[r] \in StoredRun /\ f \in Fence /\ f # NoFence
        /\ f.generation \in Nat /\ f.generation <= run[r].generation
    BY <1>1, NoFenceAssumption DEF Inv, TypeOK, FencesDistinct, Fence, StoredRun
  <2>3. CASE Claims(r)
    <3>1. PICK p \in Process :
            [owner |-> p, generation |-> run[r].generation + 1] \in granted'[r]
      BY <2>3 DEF Claims
    <3>2. /\ run'[r].generation \in Nat
          /\ run[r].generation + 1 \in 1..run'[r].generation
      BY <1>1, <3>1, InvStep DEF Inv, TypeOK, StoredRun, FencesDistinct
    <3>3. run'[r].fence # NoFence => run'[r].fence.generation = run'[r].generation
      BY <1>1, InvStep DEF Inv, OwnedWhileRunning
    <3> QED BY <2>2, <3>2, <3>3 DEF StoredRun
  <2>4. CASE Kept(r) \/ Woken(r) \/ Renewed(r) \/ Holds(r)
    BY <1>1, <2>2, <2>4 DEF Kept, Woken, Renewed, Holds, StoredRun
  <2>5. CASE Enters(r) \/ Released(r) \/ Suspended(r) \/ Ends(r)
    BY <2>2, <2>5 DEF Enters, Admitted, NoRow, EndedRow, Released, Suspended, Ends, StoredRun
  <2> QED BY <2>1, <2>3, <2>4, <2>5 DEF RowStep
<1>2. Inv /\ [Next]_vars
        => [\A r \in Run : \A f \in granted[r] : run[r].fence # f => run'[r].fence # f]_vars
  BY <1>1
<1> QED BY <1>2, Invariance, PTL DEF Spec, LostOwnershipIsFinal

\* An ended run's row never changes again.
THEOREM OutcomeIsFinal == Spec => EndedIsFinal
<1>1. Inv /\ [Next]_vars => [\A r \in Run : Ended(r) => run'[r] = run[r]]_vars
  BY NextSteps, RowStepState DEF Inv, RowSteps
<1> QED BY <1>1, Invariance, PTL DEF Spec, EndedIsFinal

\* Under the emergency stop no run starts, is claimed or is finished by its
\* owner.
THEOREM EmergencyStop == Spec => StoppedIsFrozen
<1>1. ASSUME Inv, [Next]_vars, stopped, stopped', NEW r \in Run
      PROVE  /\ run'[r].generation = run[r].generation
             /\ \/ run'[r].state = run[r].state
                \/ run[r].state = "Running" /\ run'[r].state = "Ready"
                \/ Live(r) /\ run'[r].state = "Cancelled"
  <2>1. RowStep(r) /\ run[r] \in StoredRun
    BY <1>1, NextSteps DEF RowSteps, Inv, TypeOK
  <2>2. CASE Kept(r) \/ Woken(r) \/ Renewed(r) \/ Holds(r) \/ Released(r)
    BY <2>1, <2>2 DEF Kept, Woken, Renewed, Holds, Released, StoredRun
  <2>3. CASE Ends(r)
    BY <1>1, <2>1, <2>3 DEF Ends, EndedRow, StoredRun
  <2>4. ~Enters(r) /\ ~Claims(r) /\ ~Suspended(r)
    BY <1>1 DEF Enters, Claims, Suspended
  <2> QED BY <2>1, <2>2, <2>3, <2>4 DEF RowStep
<1>2. Inv /\ [Next]_vars
        => [stopped /\ stopped' => \A r \in Run :
              /\ run'[r].generation = run[r].generation
              /\ \/ run'[r].state = run[r].state
                 \/ run[r].state = "Running" /\ run'[r].state = "Ready"
                 \/ Live(r) /\ run'[r].state = "Cancelled"]_vars
  BY <1>1
<1> QED BY <1>2, Invariance, PTL DEF Spec, StoppedIsFrozen

-----------------------------------------------------------------------------
(* Holds.                                                                  *)

\* No run becomes held.
NoNewHold == \A x \in Run : run'[x].held => run[x].held

\* Ending, notifying and draining set no hold.
LEMMA RowsWithoutNewHold ==
    ASSUME NEW rows \in [Run -> StoredRun], NEW t, NEW r \in Run, NEW status,
           NEW woken \in BOOLEAN, NEW ready, NEW refused
    PROVE  \A x \in Run :
              /\ Terminated(rows, r, status)[x].held => rows[x].held
              /\ Notified(rows, r, woken, t)[x].held => rows[x].held
              /\ Promoted(rows, ready, refused, t)[x].held => rows[x].held
  BY DEF Terminated, EndedRow, Notified, Promoted, Admitted, NoRow, StoredRun

\* The end of a run, with its notice and its drain, sets no hold.
LEMMA EndWithoutNewHold ==
    ASSUME NEW rows \in [Run -> StoredRun], NEW t \in Nat, NEW r \in Run,
           NEW status \in Terminal, NEW woken \in BOOLEAN, NEW ready, NEW refused
    PROVE  \A x \in Run :
              Promoted(Notified(Terminated(rows, r, status), r, woken, t),
                       ready, refused, t)[x].held => rows[x].held
<1> DEFINE ended == Terminated(rows, r, status)
           told == Notified(ended, r, woken, t)
<1>1. ended \in [Run -> StoredRun]
  <2>1. "Cancelled" \in Terminal
    BY DEF Terminal
  <2> QED BY <2>1, EndedRowType DEF Terminated
<1> HIDE DEF ended
<1>2. told \in [Run -> StoredRun]
  BY <1>1 DEF Notified, StoredRun
<1>3. \A x \in Run : /\ ended[x].held => rows[x].held
                     /\ told[x].held => ended[x].held
  BY <1>1, RowsWithoutNewHold DEF ended
<1> HIDE DEF told
<1>4. \A x \in Run : Promoted(told, ready, refused, t)[x].held => told[x].held
  BY <1>2, RowsWithoutNewHold
<1> QED BY <1>3, <1>4 DEF told, ended

\* Only an operator's hold makes a run held.
LEMMA OnlySetHoldHolds ==
    ASSUME TypeOK, [Next]_vars
    PROVE  NoNewHold \/ \E r \in Run, hold \in BOOLEAN : SetHold(r, hold)
<1> USE DEF NoNewHold
<1>0. run \in [Run -> StoredRun] /\ \A p \in Process : reading[p] \in Nat
  BY DEF TypeOK
<1>1. CASE UNCHANGED run
  BY <1>1
<1>2. CASE Tick \/ Stop \/ UNCHANGED vars \/ (\E p \in Process : \E t \in Clock : ReadClock(p, t))
  BY <1>1, <1>2 DEF Tick, Stop, vars, ReadClock
<1>3. ASSUME NEW p \in Process, NEW ready, NEW refused, ClearStop(p, ready, refused)
      PROVE  NoNewHold
  BY <1>0, <1>3 DEF ClearStop, Promoted, Admitted, EndedRow, NoRow
<1>4. ASSUME NEW p \in Process, NEW replaced, NEW ready, NEW refused,
             Fire(p, replaced, ready, refused)
      PROVE  NoNewHold
  <2> DEFINE rows == [x \in Run |-> IF x \in UNION {LiveSubtree(y) : y \in replaced}
                                    THEN EndedRow(run[x], "Cancelled") ELSE run[x]]
  <2>1. rows \in [Run -> StoredRun]
    <3>1. "Cancelled" \in Terminal
      BY DEF Terminal
    <3> QED BY <1>0, <3>1, EndedRowType
  <2>2. \A x \in Run : rows[x].held => run[x].held
    BY <1>0 DEF EndedRow, StoredRun
  <2>3. run' = Promoted(rows, ready, refused, reading[p])
    BY <1>4 DEF Fire
  <2> HIDE DEF rows
  <2>4. \A x \in Run : run'[x].held => rows[x].held
    BY <2>3 DEF Promoted, Admitted, EndedRow, NoRow
  <2> QED BY <2>2, <2>4
<1>5. ASSUME NEW p \in Process, NEW r \in Run, NEW f,
             Renew(p, r, f) \/ Release(p, r, f) \/ FinishInterrupted(p, r, f)
      PROVE  NoNewHold
  <2>1. CASE Renew(p, r, f)
    BY <1>0, <2>1 DEF Renew, StoredRun
  <2>2. CASE Release(p, r, f)
    BY <1>0, <2>2 DEF Release, StoredRun
  <2>3. CASE FinishInterrupted(p, r, f)
    BY <1>0, <2>3 DEF FinishInterrupted, StoredRun
  <2> QED BY <1>5, <2>1, <2>2, <2>3
<1>6. ASSUME NEW p \in Process, NEW r \in Run, Claim(p, r) \/ Deliver(p, r)
      PROVE  NoNewHold
  <2>1. CASE Claim(p, r)
    <3>1. Claimed(run[r], p, reading[p]).held = run[r].held
      BY <1>0 DEF Claimed, StoredRun
    <3>2. run' = [run EXCEPT ![r] = Claimed(run[r], p, reading[p])]
      BY <2>1 DEF Claim
    <3> QED BY <1>0, <3>1, <3>2
  <2>2. CASE Deliver(p, r)
    BY <1>0, <2>2 DEF Deliver, StoredRun
  <2> QED BY <1>6, <2>1, <2>2
<1>7. ASSUME NEW p \in Process, NEW r \in Run, NEW f, NEW at, NEW woken \in BOOLEAN,
             FinishWaiting(p, r, f, at, woken)
      PROVE  NoNewHold
  BY <1>0, <1>7 DEF FinishWaiting, Notified, StoredRun
<1>8. ASSUME NEW p \in Process, NEW r \in Run, NEW f, NEW status \in Terminal,
             NEW woken \in BOOLEAN, NEW ready, NEW refused,
             \/ GiveUp(p, r, f, woken, ready, refused)
             \/ Finish(p, r, f, status, woken, ready, refused)
             \/ Cancel(p, r, woken, ready, refused)
      PROVE  NoNewHold
  <2>1. "Failed" \in Terminal /\ "Cancelled" \in Terminal
    BY DEF Terminal
  <2>2. CASE Cancel(p, r, woken, ready, refused)
    BY <1>0, <2>1, <2>2, EndWithoutNewHold DEF Cancel
  <2>3. ASSUME NEW s \in Terminal, NEW n \in Nat,
               FinishTerminal(p, r, s, n, woken, ready, refused)
        PROVE  NoNewHold
    <3> DEFINE rows == [run EXCEPT ![r].interruptions = n]
    <3>1. rows \in [Run -> StoredRun] /\ \A x \in Run : rows[x].held = run[x].held
      BY <1>0 DEF StoredRun
    <3>2. run' = Promoted(Notified(Terminated(rows, r, s), r, woken, reading[p]),
                          ready, refused, reading[p])
      BY <2>3 DEF FinishTerminal
    <3> HIDE DEF rows
    <3> QED BY <1>0, <3>1, <3>2, EndWithoutNewHold
  <2>4. run[r].interruptions + 1 \in Nat
    BY <1>0 DEF StoredRun
  <2> QED BY <1>8, <2>1, <2>2, <2>3, <2>4 DEF GiveUp, Finish
<1>9. ASSUME NEW p \in Process, NEW r \in Run, NEW f, NEW c \in Run,
             NEW woken \in BOOLEAN, NEW ready, NEW refused,
             JoinChild(p, r, f, c, woken, ready, refused)
      PROVE  NoNewHold
  BY <1>0, <1>9 DEF JoinChild, Promoted, Admitted, EndedRow, NoRow, Notified, StoredRun
<1>10. ASSUME NEW p \in Process, NEW r \in Run, NEW f, NEW c \in Run,
              NEW ready, NEW refused,
              \/ StartChild(p, r, f, c, ready, refused)
              \/ Admit(p, r, ready, refused) \/ Start(p, r, ready, refused)
       PROVE  NoNewHold
  <2> DEFINE rows == Promoted(run, ready, refused, reading[p])
             new == Claimed(Admitted(reading[p]), p, reading[p])
  <2>1. /\ Admitted(reading[p]).held = FALSE
        /\ new.held = FALSE /\ [new EXCEPT !.parent = r].held = FALSE
    BY DEF Claimed, Admitted, NoRow
  <2>2. rows = [x \in Run |-> rows[x]] /\ \A x \in Run : rows[x].held => run[x].held
    BY DEF Promoted, Admitted, EndedRow, NoRow
  <2>3. \/ run' = [rows EXCEPT ![r] = Admitted(reading[p])]
        \/ run' = [rows EXCEPT ![r] = new]
        \/ run' = [rows EXCEPT ![c] = [new EXCEPT !.parent = r]]
    BY <1>10 DEF StartChild, Admit, Start
  <2> HIDE DEF rows, new
  <2> QED BY <2>1, <2>2, <2>3
<1>11. ASSUME NEW p \in Process, NEW r \in Run, Owner(p, r) PROVE NoNewHold
  <2>1. PICK f \in granted[r] :
          \/ Renew(p, r, f) \/ Release(p, r, f) \/ FinishInterrupted(p, r, f)
          \/ \E at \in 0..(MaxTime + 1), woken \in BOOLEAN : FinishWaiting(p, r, f, at, woken)
          \/ \E woken \in BOOLEAN, ready \in Slots, refused \in Slots, status \in Terminal :
                \/ GiveUp(p, r, f, woken, ready, refused)
                \/ Finish(p, r, f, status, woken, ready, refused)
          \/ \E c \in Run, ready \in Slots, refused \in Slots :
                StartChild(p, r, f, c, ready, refused)
          \/ \E c \in Run, ready \in Slots, refused \in Slots, woken \in BOOLEAN :
                JoinChild(p, r, f, c, woken, ready, refused)
    BY <1>11 DEF Owner, Terminal
  <2> QED BY <2>1, <1>5, <1>7, <1>8, <1>9, <1>10
<1>12. ASSUME NEW p \in Process, NEW r \in Run, Anybody(p, r)
       PROVE  NoNewHold \/ \E hold \in BOOLEAN : SetHold(r, hold)
  <2>1. "Failed" \in Terminal
    BY DEF Terminal
  <2> QED BY <1>6, <1>8, <1>10, <1>12, <2>1 DEF Anybody
<1> QED BY <1>2, <1>3, <1>4, <1>11, <1>12 DEF Next

\* A row gets a parent only when it enters, under a run that is not held.
LEMMA NewParent ==
    ASSUME Inv, [Next]_vars, NEW c \in Run, run'[c].parent # NoRun
    PROVE  \/ run[c].parent = run'[c].parent /\ ~Absent(c)
           \/ Absent(c) /\ run'[c].parent \in Run /\ ~run[run'[c].parent].held
<1>1. RowStep(c) /\ run[c] \in StoredRun
  BY NextSteps DEF Inv, TypeOK, RowSteps
<1>2. CASE ~Absent(c)
  BY <1>1, <1>2, RowStepState DEF Inv, Live
<1>3. CASE Absent(c)
  <2>1. Kept(c) \/ Enters(c) \/ Claims(c)
    BY <1>1, <1>3 DEF RowStep, Woken, Renewed, Released, Suspended, Ends, Holds, Live, Absent
  <2>2. ~Kept(c)
    BY <1>3, NewRows DEF Kept, Inv, OwnedWhileRunning
  <2>3. ~Enters(c)
    BY NewRows DEF Enters
  <2>4. PICK p \in Process, t \in Nat, q \in Run :
           ~run[q].held /\ run'[c] = [Claimed(Admitted(t), p, t) EXCEPT !.parent = q]
    BY <1>3, <2>1, <2>2, <2>3, NewRows DEF Claims, Claimable, Absent
  <2>5. run'[c].parent = q
    BY <2>4 DEF Claimed, Admitted, NoRow
  <2> QED BY <1>3, <2>4, <2>5
<1> QED BY <1>2, <1>3

\* A held run stays where it is, and no child enters under it.
LEMMA HeldStaysPut ==
    ASSUME Inv, [Next]_vars, NEW r \in Run, run[r].held, run'[r].held
    PROVE  /\ run'[r].generation = run[r].generation
           /\ run'[r].interruptions = run[r].interruptions
           /\ \/ run'[r].state = run[r].state
              \/ run[r].state = "Running" /\ run'[r].state = "Ready"
           /\ \A c \in Run : run'[c].parent = r => run[c].parent = r
<1>1. run[r] \in StoredRun /\ RowStep(r) /\ ~Absent(r)
  BY NextSteps DEF Inv, TypeOK, RowSteps, OwnedWhileRunning, Live
<1>2. ~Enters(r) /\ ~Claims(r) /\ ~Suspended(r) /\ ~Ends(r)
  BY <1>1 DEF Enters, Claims, Claimable, Suspended, Ends, EndedRow, StoredRun
<1>3. /\ run'[r].generation = run[r].generation
      /\ run'[r].interruptions = run[r].interruptions
      /\ \/ run'[r].state = run[r].state
         \/ run[r].state = "Running" /\ run'[r].state = "Ready"
  <2>1. CASE Kept(r) \/ Woken(r) \/ Holds(r)
    BY <1>1, <2>1 DEF Kept, Woken, Holds, StoredRun
  <2>2. CASE Renewed(r)
    BY <1>1, <2>2 DEF Renewed, StoredRun
  <2>3. CASE Released(r)
    BY <1>1, <2>3 DEF Released, StoredRun
  <2> QED BY <1>1, <1>2, <2>1, <2>2, <2>3 DEF RowStep
<1>4. ASSUME NEW c \in Run, run'[c].parent = r PROVE run[c].parent = r
  <2>1. run'[c].parent # NoRun
    BY <1>4, NoRunAssumption
  <2> QED BY <1>4, <2>1, NewParent
<1> QED BY <1>3, <1>4

\* A live child of a held run that is not held itself was so before.
LEMMA HoldCoversTree ==
    ASSUME Inv, [Next]_vars, NEW c \in Run, run'[c].parent # NoRun,
           run'[c].state \notin Terminal, run'[run'[c].parent].held, ~run'[c].held
    PROVE  run[run'[c].parent].held /\ Live(c)
<1> DEFINE p == run'[c].parent
<1>1. RowStep(c) /\ TypeOK /\ TypeOK'
  BY NextSteps, InvStep DEF RowSteps, Inv
<1>2. p \in Run
  BY <1>1 DEF TypeOK, StoredRun
<1>3. Ended(c) => run'[c] = run[c]
  BY <1>1, RowStepState DEF Inv
<1>4. CASE NoNewHold
  <2>1. run[p].held
    BY <1>2, <1>4 DEF NoNewHold
  <2>2. ~Absent(c)
    BY <2>1, NewParent
  <2> QED BY <1>3, <2>1, <2>2 DEF Live, Ended
<1>5. ASSUME NEW r \in Run, NEW hold \in BOOLEAN, SetHold(r, hold)
      PROVE  run[p].held /\ Live(c)
  <2>1. /\ Live(r)
        /\ \A x \in LiveSubtree(r) : run'[x] = [run[x] EXCEPT !.held = hold]
        /\ \A x \in Run : x \notin LiveSubtree(r) => run'[x] = run[x]
    BY <1>5, Subtree DEF SetHold
  <2>0. ASSUME NEW row \in StoredRun
        PROVE  /\ [row EXCEPT !.held = hold].parent = row.parent
               /\ [row EXCEPT !.held = hold].state = row.state
               /\ [row EXCEPT !.held = hold].held = hold
    BY DEF StoredRun
  <2>2. run[c].parent = p /\ run[c].state = run'[c].state
    BY <1>1, <2>0, <2>1 DEF TypeOK
  <2>3. Live(c)
    BY <2>2, NewParent DEF Live, Ended, Absent, Inv, OwnedWhileRunning, NoRow
  <2>4. p \in LiveSubtree(r) => c \in LiveSubtree(r)
    BY <2>2, <2>3, Subtree
  <2>5. \A x \in LiveSubtree(r) : run'[x].held = hold
    <3> SUFFICES ASSUME NEW x \in LiveSubtree(r) PROVE run'[x].held = hold
      OBVIOUS
    <3>1. run[x] \in StoredRun
      BY <1>1, Subtree DEF TypeOK
    <3>2. run'[x] = [run[x] EXCEPT !.held = hold]
      BY <2>1
    <3> QED BY <2>0, <3>1, <3>2
  <2> QED BY <1>2, <2>1, <2>3, <2>4, <2>5
<1> QED BY <1>1, <1>4, <1>5, OnlySetHoldHolds

\* A hold reaches the whole tree and keeps it where it is.
THEOREM Holding == Spec => HoldIsKept
<1>1. Inv /\ [Next]_vars => [\A r \in Run : run[r].held /\ run'[r].held =>
          /\ run'[r].generation = run[r].generation
          /\ run'[r].interruptions = run[r].interruptions
          /\ \/ run'[r].state = run[r].state
             \/ run[r].state = "Running" /\ run'[r].state = "Ready"
          /\ \A c \in Run : run'[c].parent = r => run[c].parent = r]_vars
  BY HeldStaysPut
<1>2. Inv /\ [Next]_vars => [\A c \in Run :
          LET p == run'[c].parent
          IN  /\ p # NoRun
              /\ run'[c].state \notin Terminal
              /\ run'[p].held /\ ~run'[c].held
              => run[p].held /\ Live(c)]_vars
  BY HoldCoversTree
<1> QED BY <1>1, <1>2, Invariance, PTL DEF Spec, HoldIsKept, HeldIsFrozen, HoldReachesTree

=============================================================================
