---------------------------- MODULE DriverProofs ----------------------------
(***************************************************************************)
(* Proofs about Driver, for any workers, runs, calls and budgets of events. *)
(* That one drive at a time has a call in flight is not inductive: a step   *)
(* knows only its own generation.  The invariant relates every drive to the *)
(* row of its run: generations of live drives differ and none is ahead of   *)
(* the row's, so the one that the row names is one drive; and unless a lease *)
(* lapsed under its owner, no other drive is live.                          *)
(***************************************************************************)
EXTENDS Driver, Sequences, FiniteSetTheorems, WellFoundedInduction, TLAPS

\* A drive that claimed its run.
Live(w, r) == drive[w][r].st \notin {"none", "queued"}
Leased(w, r) == row[r].owner = w /\ row[r].lease
\* No event of this kind has happened.
Intact(k) == left[k] = Budget[k]

\* Whatever ends a run, or gives it back, ends its lease.
LeasesAreOfRunning == \A r \in Run : row[r].lease => row[r].state = "Running"

\* A drive claimed no later than the row says, and has calls only while it executes.
DrivesAreSound ==
    \A w \in Worker, r \in Run :
        /\ drive[w][r].gen <= row[r].gen
        /\ ~Live(w, r) => drive[w][r].gen = 0
        /\ \A c \in Call : drive[w][r].pc[c] # "idle" => drive[w][r].st \in {"run", "settle"}

\* No two drives hold one claim of a run.
GenerationsDiffer ==
    \A r \in Run, v, w \in Worker :
        Live(v, r) /\ Live(w, r) /\ drive[v][r].gen = drive[w][r].gen => v = w

(* While no lease lapsed under its owner, a drive that is live is the last   *)
(* that claimed the run, and has its lease until the run ends.               *)
LiveIsCurrent ==
    Intact("lapse") =>
        \A w \in Worker, r \in Run :
            Live(w, r) => /\ drive[w][r].gen = row[r].gen
                          /\ row[r].state \in Terminal \/ Leased(w, r)

(* While no renewal failed and no worker died, a lease has its drive, which  *)
(* is on the way to finish the run or give it back.                          *)
LeasedIsDriven ==
    Intact("fault") /\ Intact("crash") =>
        \A w \in Worker, r \in Run :
            Leased(w, r) => /\ Live(w, r) /\ drive[w][r].gen = row[r].gen
                            /\ drive[w][r].st \notin {"lost", "unfit"}

\* A worker ends after its drives.
StoppedIsIdle ==
    \A w \in Worker, r \in Run : wk[w].st \in {"down", "failed"} => drive[w][r].st = "none"

\* The one end reported of a run is the one that its row has.
EndsAreCommitted ==
    /\ \A x \in reports : row[x[1]].state = x[3]
    /\ \A x, y \in reports : x[1] = y[1] => x = y

Inv ==
    /\ TypeOK
    /\ LeasesAreOfRunning
    /\ DrivesAreSound
    /\ GenerationsDiffer
    /\ LiveIsCurrent
    /\ LeasedIsDriven
    /\ StoppedIsIdle
    /\ EndsAreCommitted

-----------------------------------------------------------------------------
(* What the operators on rows and drives return. *)

\* A worker that does not drive a run is in a typed state.
LEMMA NoDriveType == NoDrive \in DriveType
BY DEF NoDrive, DriveType, Steps, Outcomes, Reasons

\* No run is claimed at first.
LEMMA InvInit == Init => Inv
<1> SUFFICES ASSUME Init PROVE Inv
    OBVIOUS
<1>1. TypeOK
  <2>1. row \in [Run -> RowType]
    BY DEF Init, RowType, Terminal
  <2>2. drive \in [Worker -> [Run -> DriveType]]
    BY NoDriveType DEF Init
  <2>3. left \in [Kinds -> Nat] /\ \A k \in Kinds : left[k] <= Budget[k]
    BY DriverAssumption DEF Init
  <2> QED
    BY <2>1, <2>2, <2>3 DEF Init, TypeOK
<1>2. \A w \in Worker, r \in Run :
          /\ drive[w][r] = NoDrive /\ ~Live(w, r)
          /\ row[r].gen = 0 /\ ~row[r].lease
  BY DEF Init, Live, NoDrive
<1>3. LeasesAreOfRunning
  BY DEF Init, LeasesAreOfRunning
<1>4. DrivesAreSound
  BY <1>2 DEF DrivesAreSound, NoDrive
<1>5. GenerationsDiffer /\ LiveIsCurrent
  BY <1>2 DEF GenerationsDiffer, LiveIsCurrent
<1>6. LeasedIsDriven
  BY <1>2 DEF LeasedIsDriven, Leased
<1>7. StoppedIsIdle
  BY DEF Init, StoppedIsIdle
<1>8. EndsAreCommitted
  BY DEF Init, EndsAreCommitted
<1> QED
  BY <1>1, <1>3, <1>4, <1>5, <1>6, <1>7, <1>8 DEF Inv

\* Giving up a run's lease leaves its state and its generation.
LEMMA UnownedFacts ==
    ASSUME NEW s \in RowType
    PROVE  /\ Unowned(s) \in RowType
           /\ Unowned(s).owner = NoWorker /\ Unowned(s).lease = FALSE
           /\ Unowned(s).state = s.state /\ Unowned(s).gen = s.gen
BY DEF Unowned, RowType

\* finish leaves a run without an owner, in a state that its outcome decides.
LEMMA FinishedRowFacts ==
    ASSUME NEW s \in RowType, NEW out
    PROVE  /\ FinishedRow(s, out) \in RowType
           /\ FinishedRow(s, out).owner = NoWorker /\ FinishedRow(s, out).lease = FALSE
           /\ FinishedRow(s, out).gen = s.gen
           /\ FinishedRow(s, out).state \in {"Completed", "Failed", "Waiting", "Ready"}
<1> DEFINE Good(f) ==
        /\ f \in RowType
        /\ f.owner = NoWorker /\ f.lease = FALSE
        /\ f.gen = s.gen
        /\ f.state \in {"Completed", "Failed", "Waiting", "Ready"}
<1>1. PICK u : u = Unowned(s)
  OBVIOUS
<1>2. u \in RowType /\ u.owner = NoWorker /\ u.lease = FALSE /\ u.gen = s.gen
  BY <1>1, UnownedFacts
<1>3. PICK n \in Nat : n = u.intr + 1
  BY <1>2 DEF RowType
<1>4. Good([u EXCEPT !.state = "Completed", !.held = FALSE])
  BY <1>2 DEF RowType, Terminal
<1>5. Good([u EXCEPT !.state = "Failed", !.held = FALSE])
  BY <1>2 DEF RowType, Terminal
<1>6. ASSUME NEW m \in Nat PROVE Good([u EXCEPT !.state = "Waiting", !.intr = m, !.due = TRUE])
  BY <1>2 DEF RowType, Terminal
<1>7. ASSUME NEW m \in Nat PROVE Good([u EXCEPT !.state = "Waiting", !.intr = m, !.due = FALSE])
  BY <1>2 DEF RowType, Terminal
<1>8. Good([u EXCEPT !.state = "Failed", !.intr = n])
  BY <1>2 DEF RowType, Terminal
<1>9. Good([u EXCEPT !.state = "Ready", !.intr = n, !.due = FALSE])
  BY <1>2 DEF RowType, Terminal
<1>10. /\ Good([u EXCEPT !.state = "Waiting", !.intr = 0, !.due = TRUE])
       /\ Good([u EXCEPT !.state = "Waiting", !.intr = 0, !.due = FALSE])
  <2> HIDE DEF Good
  <2> QED
    BY <1>6, <1>7
<1> HIDE DEF Good
<1>11. Good(FinishedRow(s, out))
  <2>1. CASE s.timer = "over"
    BY <1>1, <1>3, <1>4, <1>5, <1>8, <1>9, <1>10, <2>1 DEF FinishedRow
  <2>2. CASE s.timer # "over"
    BY <1>1, <1>3, <1>4, <1>5, <1>8, <1>9, <1>10, <2>2 DEF FinishedRow
  <2> QED
    BY <2>1, <2>2
<1> QED
  BY <1>11 DEF Good

\* A step of a drive leaves the other drives alone.
LEMMA PutFacts ==
    ASSUME drive \in [Worker -> [Run -> DriveType]], NEW w \in Worker, NEW r \in Run,
           NEW d \in DriveType, Put(w, r, d)
    PROVE  /\ drive' \in [Worker -> [Run -> DriveType]]
           /\ drive'[w][r] = d
           /\ \A x \in Worker, y \in Run : x # w \/ y # r => drive'[x][y] = drive[x][y]
BY DEF Put

\* One event more leaves the counts typed and lower.
LEMMA SpentFacts ==
    ASSUME TypeOK, NEW k \in Kinds, Spent(k)
    PROVE  /\ left' \in [Kinds -> Nat]
           /\ \A j \in Kinds : left'[j] <= left[j]
           /\ left'[k] < left[k]
BY DEF Spent, TypeOK

\* What decides ownership of a run.
SameCore(s, t) == s.state = t.state /\ s.gen = t.gen /\ s.owner = t.owner /\ s.lease = t.lease

\* Budgets are spent, never restored.
NotRestored == left' \in [Kinds -> Nat] /\ \A k \in Kinds : left'[k] <= left[k]

\* An event that has not happened had not happened before.
LEMMA StaysIntact ==
    ASSUME TypeOK, NotRestored, NEW k \in Kinds, Intact(k)'
    PROVE  Intact(k)
<1>1. left'[k] = Budget[k] /\ left'[k] <= left[k] /\ left[k] <= Budget[k]
  BY DEF Intact, TypeOK, NotRestored
<1>2. left[k] \in Nat /\ left'[k] \in Nat /\ Budget[k] \in Nat
  BY DriverAssumption DEF TypeOK, NotRestored
<1> QED
  BY <1>1, <1>2 DEF Intact

-----------------------------------------------------------------------------
(* A drive that goes on keeps the invariant. *)

\* It keeps its generation, and its run's row keeps what decides ownership.
LEMMA GoesOn ==
    ASSUME Inv, NEW w \in Worker, NEW r \in Run, NEW d \in DriveType,
           Live(w, r), d.st \notin {"none", "queued"}, d.gen = drive[w][r].gen,
           \A c \in Call : d.pc[c] # "idle" => d.st \in {"run", "settle"},
           Put(w, r, d),
           row' \in [Run -> RowType], \A y \in Run : SameCore(row'[y], row[y]),
           NotRestored,
           d.st \in {"lost", "unfit"} => ~(Intact("fault")' /\ Intact("crash") /\ Leased(w, r)),
           UNCHANGED <<stopped, wk, reports>>
    PROVE  Inv'
<1>1. /\ drive' \in [Worker -> [Run -> DriveType]]
      /\ drive'[w][r] = d
      /\ \A x \in Worker, y \in Run : x # w \/ y # r => drive'[x][y] = drive[x][y]
  BY PutFacts DEF Inv, TypeOK
<1>2. TypeOK'
  <2>1. \A k \in Kinds : left'[k] <= Budget[k]
    BY DriverAssumption DEF Inv, TypeOK, NotRestored
  <2> QED
    BY <1>1, <2>1 DEF Inv, TypeOK, NotRestored
<1>3. /\ Live(w, r)'
      /\ \A x \in Worker, y \in Run : x # w \/ y # r => (Live(x, y)' <=> Live(x, y))
      /\ \A x \in Worker, y \in Run : Live(x, y)' => Live(x, y)
      /\ \A x \in Worker, y \in Run : drive'[x][y].gen = drive[x][y].gen
  BY <1>1 DEF Live
<1>4. \A x \in Worker, y \in Run : Leased(x, y)' <=> Leased(x, y)
  BY DEF Leased, SameCore
<1>5. \A y \in Run : row'[y].state = row[y].state /\ row'[y].gen = row[y].gen /\ row'[y].lease = row[y].lease
  BY DEF SameCore
<1>6. LeasesAreOfRunning'
  BY <1>5 DEF Inv, LeasesAreOfRunning
<1>7. DrivesAreSound'
  <2> SUFFICES ASSUME NEW x \in Worker, NEW y \in Run
               PROVE  /\ drive'[x][y].gen <= row'[y].gen
                      /\ ~Live(x, y)' => drive'[x][y].gen = 0
                      /\ \A c \in Call : drive'[x][y].pc[c] # "idle" => drive'[x][y].st \in {"run", "settle"}
    BY DEF DrivesAreSound, Live
  <2>1. CASE x = w /\ y = r
    BY <1>1, <1>3, <1>5, <2>1 DEF Inv, DrivesAreSound
  <2>2. CASE x # w \/ y # r
    BY <1>1, <1>3, <1>5, <2>2 DEF Inv, DrivesAreSound
  <2> QED
    BY <2>1, <2>2
<1>8. GenerationsDiffer'
  BY <1>3 DEF Inv, GenerationsDiffer
<1>9. LiveIsCurrent'
  <2> SUFFICES ASSUME Intact("lapse")' PROVE LiveIsCurrent'
    BY DEF LiveIsCurrent
  <2>1. Intact("lapse")
    BY StaysIntact DEF Inv, Kinds
  <2> QED
    BY <2>1, <1>3, <1>4, <1>5 DEF Inv, LiveIsCurrent
<1>10. LeasedIsDriven'
  <2> SUFFICES ASSUME Intact("fault")', Intact("crash")', NEW x \in Worker, NEW y \in Run, Leased(x, y)'
               PROVE  /\ Live(x, y)' /\ drive'[x][y].gen = row'[y].gen
                      /\ drive'[x][y].st \notin {"lost", "unfit"}
    BY DEF LeasedIsDriven
  <2>1. Intact("fault") /\ Intact("crash")
    BY StaysIntact DEF Inv, Kinds
  <2>2. Leased(x, y)
    BY <1>4
  <2>3. Live(x, y) /\ drive[x][y].gen = row[y].gen /\ drive[x][y].st \notin {"lost", "unfit"}
    BY <2>1, <2>2 DEF Inv, LeasedIsDriven
  <2>4. CASE x = w /\ y = r
    BY <2>1, <2>2, <2>3, <2>4, <1>1, <1>3, <1>5
  <2>5. CASE x # w \/ y # r
    BY <2>3, <2>5, <1>1, <1>3, <1>5
  <2> QED
    BY <2>4, <2>5
<1>11. StoppedIsIdle'
  <2>1. drive[w][r].st # "none"
    BY DEF Live
  <2>2. wk[w].st \notin {"down", "failed"}
    BY <2>1 DEF Inv, StoppedIsIdle
  <2> QED
    BY <1>1, <2>2 DEF Inv, StoppedIsIdle
<1>12. EndsAreCommitted'
  <2>1. \A x \in reports : x[1] \in Run
    BY DEF Inv, TypeOK
  <2> QED
    BY <1>5, <2>1 DEF Inv, EndsAreCommitted
<1> QED
  BY <1>2, <1>6, <1>7, <1>8, <1>9, <1>10, <1>11, <1>12 DEF Inv

-----------------------------------------------------------------------------
(* The end of a drive: it leaves its run as it is, or gives up a lease that  *)
(* is its own.                                                               *)

\* The run is left as it is; a lease that the drive had is lost, or was left
\* by a fault.
LeavesRow(w, r) ==
    /\ row' = row /\ reports' = reports
    /\ ~(Intact("fault") /\ Intact("crash") /\ Leased(w, r))

\* The drive unowns its run, and reports an end that it commits.
GivesUpLease(w, r) ==
    /\ Live(w, r) /\ Authority(w, r)
    /\ row' \in [Run -> RowType] /\ \A y \in Run \ {r} : row'[y] = row[y]
    /\ row'[r].gen = row[r].gen /\ row'[r].owner = NoWorker /\ row'[r].lease = FALSE
    /\ \/ reports' = reports
       \/ /\ row'[r].state \in {"Completed", "Failed"}
          /\ reports' = reports \cup {<<r, drive[w][r].gen, row'[r].state>>}

\* A drive's end takes it from its worker, which its error drains.
LEMMA LeaveFacts ==
    ASSUME Inv, NEW w \in Worker, NEW r \in Run, NEW f \in BOOLEAN, Leave(w, r, f)
    PROVE  /\ Put(w, r, NoDrive)
           /\ wk' \in [Worker -> [st : {"up", "draining", "down", "failed"}, due : SUBSET Run, failed : BOOLEAN]]
           /\ \A x \in Worker : wk'[x].st = wk[x].st \/ wk'[x].st = "draining"
<1>1. CASE f = TRUE
  BY <1>1 DEF Leave, Inv, TypeOK
<1>2. CASE f = FALSE
  BY <1>2 DEF Leave, Inv, TypeOK
<1> QED
  BY <1>1, <1>2

\* A drive may end when it leaves no lease behind, or gives the lease up.
LEMMA Ends ==
    ASSUME Inv, NEW w \in Worker, NEW r \in Run, NEW f \in BOOLEAN,
           drive[w][r].st # "none", Leave(w, r, f),
           LeavesRow(w, r) \/ GivesUpLease(w, r),
           UNCHANGED <<stopped, left>>
    PROVE  Inv'
<1>1. /\ drive' \in [Worker -> [Run -> DriveType]]
      /\ drive'[w][r] = NoDrive
      /\ \A x \in Worker, y \in Run : x # w \/ y # r => drive'[x][y] = drive[x][y]
  BY PutFacts, LeaveFacts, NoDriveType DEF Inv, TypeOK
<1>2. /\ ~Live(w, r)'
      /\ \A x \in Worker, y \in Run : Live(x, y)' => Live(x, y) /\ (x # w \/ y # r) /\ drive'[x][y] = drive[x][y]
  BY <1>1 DEF Live, NoDrive
<1>3. /\ row' \in [Run -> RowType]
      /\ \A y \in Run \ {r} : row'[y] = row[y]
      /\ row'[r].gen = row[r].gen
      /\ row'[r] = row[r] \/ (row'[r].owner = NoWorker /\ row'[r].lease = FALSE)
  BY DEF LeavesRow, GivesUpLease, Inv, TypeOK
<1>4. \A y \in Run : row'[y].gen = row[y].gen
  BY <1>3
<1>5. \A x \in Worker, y \in Run : Leased(x, y)' => Leased(x, y)
  BY <1>3 DEF Leased
<1>6. \A k \in Kinds : Intact(k)' <=> Intact(k)
  BY DEF Intact
<1>7. \A x \in reports : x \in Run \X Nat \X {"Completed", "Failed"} /\ x[1] \in Run
  BY DEF Inv, TypeOK
<1>8. drive[w][r].gen \in Nat
  BY DEF Inv, TypeOK, DriveType
<1>9. TypeOK'
  <2>1. reports' \subseteq Run \X Nat \X {"Completed", "Failed"}
    BY <1>7, <1>8 DEF LeavesRow, GivesUpLease
  <2> QED
    BY <1>1, <1>3, <2>1, LeaveFacts DEF Inv, TypeOK
<1>10. LeasesAreOfRunning'
  BY <1>3 DEF Inv, LeasesAreOfRunning
<1>11. DrivesAreSound'
  <2> SUFFICES ASSUME NEW x \in Worker, NEW y \in Run
               PROVE  /\ drive'[x][y].gen <= row'[y].gen
                      /\ ~Live(x, y)' => drive'[x][y].gen = 0
                      /\ \A c \in Call : drive'[x][y].pc[c] # "idle" => drive'[x][y].st \in {"run", "settle"}
    BY DEF DrivesAreSound, Live
  <2>1. CASE x = w /\ y = r
    <3>1. row'[r].gen \in Nat
      BY <1>3 DEF RowType
    <3> QED
      BY <1>1, <2>1, <3>1 DEF NoDrive
  <2>2. CASE x # w \/ y # r
    BY <1>1, <1>4, <2>2 DEF Inv, DrivesAreSound, Live
  <2> QED
    BY <2>1, <2>2
<1>12. GenerationsDiffer'
  BY <1>2 DEF Inv, GenerationsDiffer
<1>13. LiveIsCurrent'
  <2> SUFFICES ASSUME Intact("lapse")', NEW x \in Worker, NEW y \in Run, Live(x, y)'
               PROVE  /\ drive'[x][y].gen = row'[y].gen
                      /\ row'[y].state \in Terminal \/ Leased(x, y)'
    BY DEF LiveIsCurrent
  <2>1. Live(x, y) /\ (x # w \/ y # r) /\ drive'[x][y] = drive[x][y]
    BY <1>2
  <2>2. drive[x][y].gen = row[y].gen /\ (row[y].state \in Terminal \/ Leased(x, y))
    BY <1>6, <2>1 DEF Inv, LiveIsCurrent, Kinds
  <2>3. CASE y # r \/ LeavesRow(w, r)
    BY <1>3, <2>1, <2>2, <2>3 DEF Leased, LeavesRow
  <2>4. CASE y = r /\ GivesUpLease(w, r)
    <3>1. drive[w][r].gen = row[r].gen /\ Live(w, r)
      BY <2>4 DEF GivesUpLease, Authority
    <3>2. x = w
      BY <2>1, <2>2, <2>4, <3>1 DEF Inv, GenerationsDiffer
    <3> QED
      BY <2>1, <2>4, <3>2
  <2> QED
    BY <2>3, <2>4
<1>14. LeasedIsDriven'
  <2> SUFFICES ASSUME Intact("fault")', Intact("crash")', NEW x \in Worker, NEW y \in Run, Leased(x, y)'
               PROVE  /\ Live(x, y)' /\ drive'[x][y].gen = row'[y].gen
                      /\ drive'[x][y].st \notin {"lost", "unfit"}
    BY DEF LeasedIsDriven
  <2>1. Intact("fault") /\ Intact("crash")
    BY <1>6 DEF Kinds
  <2>2. Leased(x, y)
    BY <1>5
  <2>3. Live(x, y) /\ drive[x][y].gen = row[y].gen /\ drive[x][y].st \notin {"lost", "unfit"}
    BY <2>1, <2>2 DEF Inv, LeasedIsDriven
  <2>4. x # w \/ y # r
    <3> SUFFICES ASSUME x = w, y = r PROVE FALSE
      OBVIOUS
    <3>1. ~LeavesRow(w, r)
      BY <2>1, <2>2 DEF LeavesRow
    <3>2. GivesUpLease(w, r)
      BY <3>1
    <3> QED
      BY <3>2 DEF GivesUpLease, Leased
  <2> QED
    BY <1>1, <1>4, <2>3, <2>4 DEF Live
<1>15. StoppedIsIdle'
  <2> SUFFICES ASSUME NEW x \in Worker, NEW y \in Run, wk'[x].st \in {"down", "failed"}
               PROVE  drive'[x][y].st = "none"
    BY DEF StoppedIsIdle
  <2>1. wk[x].st = wk'[x].st
    BY LeaveFacts
  <2>2. drive[x][y].st = "none"
    BY <2>1 DEF Inv, StoppedIsIdle
  <2> QED
    BY <1>1, <2>2 DEF NoDrive
<1>16. EndsAreCommitted'
  <2>1. CASE LeavesRow(w, r)
    BY <2>1 DEF LeavesRow, Inv, EndsAreCommitted
  <2>2. CASE GivesUpLease(w, r)
    <3>1. \A x \in reports : x[1] # r
      BY <1>7, <2>2 DEF GivesUpLease, Authority, Inv, EndsAreCommitted
    <3>2. \A x \in reports : row'[x[1]].state = x[3]
      BY <1>3, <1>7, <3>1 DEF Inv, EndsAreCommitted
    <3>3. CASE reports' = reports
      BY <3>2, <3>3 DEF Inv, EndsAreCommitted
    <3>4. CASE reports' = reports \cup {<<r, drive[w][r].gen, row'[r].state>>}
      BY <3>1, <3>2, <3>4 DEF Inv, EndsAreCommitted
    <3> QED
      BY <2>2, <3>3, <3>4 DEF GivesUpLease
  <2> QED
    BY <2>1, <2>2
<1> QED
  BY <1>9, <1>10, <1>11, <1>12, <1>13, <1>14, <1>15, <1>16 DEF Inv

-----------------------------------------------------------------------------
(* The ways in which a drive goes on. *)

\* A step that is no event restores none.
LEMMA Unspent == ASSUME TypeOK, left' = left PROVE NotRestored
BY DEF TypeOK, NotRestored

\* Nor does one that is.
LEMMA SpentIsNotRestored == ASSUME TypeOK, NEW k \in Kinds, Spent(k) PROVE NotRestored
BY SpentFacts DEF NotRestored

\* Rows left alone keep what decides ownership.
LEMMA RowsSame == ASSUME TypeOK, row' = row
                  PROVE  row' \in [Run -> RowType] /\ \A y \in Run : SameCore(row'[y], row[y])
BY DEF TypeOK, SameCore

\* A drive's next stage, up to the settling of a hold.
LEMMA Moving ==
    ASSUME Inv, NEW w \in Worker, NEW r \in Run, Live(w, r),
           NEW st \in Steps \ {"none", "queued", "lost", "unfit"},
           drive[w][r].st = "run" => st \in {"run", "settle"}, drive[w][r].st # "settle",
           Move(w, r, st), UNCHANGED <<row, stopped, wk, reports>>, NotRestored
    PROVE  Inv'
<1>1. PICK d : d = [drive[w][r] EXCEPT !.st = st]
  OBVIOUS
<1>2. drive[w][r] \in DriveType
  BY DEF Inv, TypeOK
<1>3. d \in DriveType /\ d.st = st /\ d.gen = drive[w][r].gen /\ d.pc = drive[w][r].pc
  BY <1>1, <1>2 DEF DriveType
<1>4. \A c \in Call : d.pc[c] # "idle" => d.st \in {"run", "settle"}
  BY <1>3 DEF Inv, DrivesAreSound
<1>5. Put(w, r, d)
  BY <1>1 DEF Move
<1> QED
  BY <1>3, <1>4, <1>5, GoesOn, RowsSame DEF Inv

\* The outcome of an execution: the drive is still the one that has the run.
LEMMA Overs ==
    ASSUME Inv, NEW w \in Worker, NEW r \in Run, Live(w, r),
           NEW out \in Outcomes, NEW why \in Reasons, Over(w, r, out, why),
           row' \in [Run -> RowType], \A y \in Run : SameCore(row'[y], row[y]),
           UNCHANGED <<stopped, wk, reports, left>>
    PROVE  Inv'
<1>1. PICK d : d = [drive[w][r] EXCEPT !.st = "ended", !.out = out, !.why = why,
                                      !.pc = [c \in Call |-> "idle"]]
  OBVIOUS
<1>2. drive[w][r] \in DriveType
  BY DEF Inv, TypeOK
<1>3. /\ d \in DriveType /\ d.st = "ended" /\ d.gen = drive[w][r].gen
      /\ d.pc = [c \in Call |-> "idle"]
  BY <1>1, <1>2 DEF DriveType, Steps
<1>4. \A c \in Call : d.pc[c] # "idle" => d.st \in {"run", "settle"}
  BY <1>3
<1>5. Put(w, r, d)
  BY <1>1 DEF Over
<1>6. TypeOK /\ NotRestored
  BY Unspent DEF Inv
<1> QED
  BY <1>3, <1>4, <1>5, <1>6, GoesOn

\* An interpreter that is dropped: its drive still has to give the run back.
LEMMA Dropping ==
    ASSUME Inv, NEW w \in Worker, NEW r \in Run, Live(w, r),
           NEW st \in Steps \ {"none", "queued"}, NEW why \in Reasons, Drop(w, r, st, why),
           st \in {"lost", "unfit"} => ~(Intact("fault")' /\ Intact("crash") /\ Leased(w, r)),
           NotRestored, UNCHANGED <<row, stopped, wk, reports>>
    PROVE  Inv'
<1>1. PICK d : d = [drive[w][r] EXCEPT !.st = st, !.why = why, !.pc = [c \in Call |-> "idle"]]
  OBVIOUS
<1>2. drive[w][r] \in DriveType
  BY DEF Inv, TypeOK
<1>3. /\ d \in DriveType /\ d.st = st /\ d.gen = drive[w][r].gen
      /\ d.pc = [c \in Call |-> "idle"]
  BY <1>1, <1>2 DEF DriveType
<1>4. \A c \in Call : d.pc[c] # "idle" => d.st \in {"run", "settle"}
  BY <1>3
<1>5. Put(w, r, d)
  BY <1>1 DEF Drop
<1>6. TypeOK
  BY DEF Inv
<1> QED
  BY <1>3, <1>4, <1>5, <1>6, GoesOn, RowsSame

\* One step of a call.
LEMMA Stepping ==
    ASSUME Inv, NEW w \in Worker, NEW r \in Run, Executes(w, r), NEW c \in Call,
           NEW pc \in {"idle", "open", "sent", "answered", "done"}, Pc(w, r, c, pc),
           row' \in [Run -> RowType], \A y \in Run : SameCore(row'[y], row[y]),
           UNCHANGED <<stopped, wk, reports, left>>
    PROVE  Inv'
<1>1. PICK d : d = [drive[w][r] EXCEPT !.pc[c] = pc]
  OBVIOUS
<1>2. drive[w][r] \in DriveType
  BY DEF Inv, TypeOK
<1>3. d \in DriveType /\ d.st = drive[w][r].st /\ d.gen = drive[w][r].gen
  BY <1>1, <1>2 DEF DriveType
<1>4. d.st \in {"run", "settle"} /\ Live(w, r)
  BY <1>3 DEF Executes, Live
<1>5. Put(w, r, d)
  BY <1>1 DEF Pc
<1>6. TypeOK /\ NotRestored
  BY Unspent DEF Inv
<1> QED
  BY <1>3, <1>4, <1>5, <1>6, GoesOn

\* Every refusal of the store has a reason.
LEMMA RefusalType == ASSUME NEW w, NEW r PROVE Refusal(w, r) \in Reasons
BY DEF Refusal, Reasons

\* The journal does not decide ownership.
LEMMA RecordKeepsCore ==
    ASSUME TypeOK, NEW r \in Run, NEW c \in Call, NEW x \in {"none", "pending", "done"},
           row' = [row EXCEPT ![r].rec[c] = x]
    PROVE  row' \in [Run -> RowType] /\ \A y \in Run : SameCore(row'[y], row[y])
<1>1. PICK s : s = [row[r] EXCEPT !.rec[c] = x]
  OBVIOUS
<1>2. row[r] \in RowType
  BY DEF TypeOK
<1>3. s \in RowType /\ SameCore(s, row[r])
  BY <1>1, <1>2 DEF RowType, SameCore
<1>4. row' = [row EXCEPT ![r] = s]
  BY <1>1
<1> QED
  BY <1>3, <1>4 DEF TypeOK, SameCore

-----------------------------------------------------------------------------
(* The steps of an execution. *)

\* Preloaded::read.
LEMMA LoadStep ==
    ASSUME Inv, NEW w \in Worker, NEW r \in Run, Load(w, r)
    PROVE  Inv'
<1>1. Live(w, r) /\ drive[w][r].st = "load"
  BY DEF Load, At, Live
<1>2. TypeOK /\ NotRestored
  BY Unspent DEF Inv, Load
<1>3. CASE Checked(w, r)
  <2>1. Move(w, r, "check") /\ UNCHANGED <<row, stopped, wk, reports>>
    BY <1>3 DEF Load
  <2> QED
    BY <1>1, <1>2, <2>1, Moving DEF Steps
<1>4. CASE ~Checked(w, r)
  <2>1. Over(w, r, "interrupted", Refusal(w, r)) /\ UNCHANGED <<row, stopped, wk, reports, left>>
    BY <1>4 DEF Load
  <2> QED
    BY <1>1, <1>2, <2>1, Overs, RowsSame, RefusalType DEF Outcomes
<1> QED
  BY <1>3, <1>4

\* The check that this host can execute the definition.
LEMMA CheckStep ==
    ASSUME Inv, NEW w \in Worker, NEW r \in Run, Check(w, r)
    PROVE  Inv'
<1>1. Live(w, r) /\ drive[w][r].st = "check"
  BY DEF Check, At, Live
<1>2. TypeOK
  BY DEF Inv
<1>3. UNCHANGED <<row, stopped, wk, reports>>
  BY DEF Check
<1>4. CASE Move(w, r, "run") /\ UNCHANGED left
  BY <1>1, <1>2, <1>3, <1>4, Moving, Unspent DEF Steps
<1>5. ASSUME Spent("fault"), NEW out \in {"failed", "interrupted"},
             Put(w, r, [drive[w][r] EXCEPT !.st = "unfit", !.out = out, !.why = "own"])
      PROVE  Inv'
  <2>1. PICK d : d = [drive[w][r] EXCEPT !.st = "unfit", !.out = out, !.why = "own"]
    OBVIOUS
  <2>2. drive[w][r] \in DriveType
    BY <1>2 DEF TypeOK
  <2>3. d \in DriveType /\ d.st = "unfit" /\ d.gen = drive[w][r].gen /\ d.pc = drive[w][r].pc
    BY <2>1, <2>2 DEF DriveType, Steps, Outcomes, Reasons
  <2>4. \A c \in Call : d.pc[c] # "idle" => d.st \in {"run", "settle"}
    BY <1>1, <2>3 DEF Inv, DrivesAreSound
  <2>5. ~Intact("fault")'
    <3>1. left'["fault"] < left["fault"] /\ left["fault"] <= Budget["fault"]
      BY <1>2, <1>5, SpentFacts DEF Kinds, TypeOK
    <3>2. left'["fault"] \in Nat /\ left["fault"] \in Nat /\ Budget["fault"] \in Nat
      BY <1>2, <1>5, SpentFacts, DriverAssumption DEF Kinds, TypeOK
    <3> QED
      BY <3>1, <3>2 DEF Intact
  <2>6. NotRestored
    BY <1>2, <1>5, SpentIsNotRestored DEF Kinds
  <2>7. Put(w, r, d)
    BY <1>5, <2>1
  <2> QED
    BY <1>1, <1>2, <1>3, <2>3, <2>4, <2>5, <2>6, <2>7, GoesOn, RowsSame
<1> QED
  BY <1>4, <1>5 DEF Check

\* The intents, calls and answers of an execution, and its end.
LEMMA ExecutionStep ==
    ASSUME Inv, NEW w \in Worker, NEW r \in Run, Execution(w, r)
    PROVE  Inv'
<1>1. TypeOK
  BY DEF Inv
<1>2. ASSUME NEW c \in Call, Intent(w, r, c) PROVE Inv'
  <2>1. Executes(w, r) /\ Live(w, r) /\ UNCHANGED <<stopped, wk, left, reports>>
    BY <1>2 DEF Intent, Executes, Live
  <2>2. CASE Checked(w, r)
    <3>1. Pc(w, r, c, "open") /\ row' = [row EXCEPT ![r].rec[c] = "pending"]
      BY <1>2, <2>2 DEF Intent
    <3> QED
      BY <1>1, <2>1, <3>1, Stepping, RecordKeepsCore
  <2>3. CASE ~Checked(w, r)
    BY <1>1, <1>2, <2>1, <2>3, Overs, RowsSame, RefusalType DEF Intent, Outcomes
  <2> QED
    BY <2>2, <2>3
<1>3. ASSUME NEW c \in Call, Dispatch(w, r, c) PROVE Inv'
  <2>1. Executes(w, r) /\ Live(w, r) /\ UNCHANGED <<row, stopped, wk, left, reports>>
    BY <1>3 DEF Dispatch, Executes, Live
  <2>2. Pc(w, r, c, "sent") \/ Over(w, r, "interrupted", Refusal(w, r))
    BY <1>3 DEF Dispatch
  <2> QED
    BY <1>1, <2>1, <2>2, Stepping, Overs, RowsSame, RefusalType DEF Outcomes
<1>4. ASSUME NEW c \in Call, Answer(w, r, c) PROVE Inv'
  <2>1. Executes(w, r) /\ UNCHANGED <<row, stopped, wk, left, reports>> /\ Pc(w, r, c, "answered")
    BY <1>4 DEF Answer
  <2> QED
    BY <1>1, <2>1, Stepping, RowsSame
<1>5. ASSUME NEW c \in Call, Save(w, r, c) PROVE Inv'
  <2>1. Executes(w, r) /\ Live(w, r) /\ UNCHANGED <<stopped, wk, left, reports>>
    BY <1>5 DEF Save, Executes, Live
  <2>2. CASE ~stopped /\ Authority(w, r)
    <3>1. Pc(w, r, c, "done") /\ row' = [row EXCEPT ![r].rec[c] = "done"]
      BY <1>5, <2>2 DEF Save
    <3> QED
      BY <1>1, <2>1, <3>1, Stepping, RecordKeepsCore
  <2>3. CASE ~(~stopped /\ Authority(w, r))
    BY <1>1, <1>5, <2>1, <2>3, Overs, RowsSame, RefusalType DEF Save, Outcomes
  <2> QED
    BY <2>2, <2>3
<1>6. CASE Return(w, r)
  <2>1. Executes(w, r) /\ Live(w, r) /\ UNCHANGED <<stopped, wk, left, reports>>
    BY <1>6 DEF Return, Executes, Live
  <2>2. \E out \in Outcomes, why \in Reasons : Over(w, r, out, why)
    BY <1>6, RefusalType DEF Return, Outcomes, Reasons
  <2>3. row' = row \/ row' = [row EXCEPT ![r].timer = "set"]
    BY <1>6 DEF Return
  <2>4. row' \in [Run -> RowType] /\ \A y \in Run : SameCore(row'[y], row[y])
    <3>1. CASE row' = row
      BY <1>1, <3>1, RowsSame
    <3>2. CASE row' = [row EXCEPT ![r].timer = "set"]
      <4>1. PICK s : s = [row[r] EXCEPT !.timer = "set"]
        OBVIOUS
      <4>2. row[r] \in RowType
        BY <1>1 DEF TypeOK
      <4>3. s \in RowType /\ SameCore(s, row[r])
        BY <4>1, <4>2 DEF RowType, SameCore
      <4>4. row' = [row EXCEPT ![r] = s]
        BY <3>2, <4>1
      <4> QED
        BY <1>1, <4>3, <4>4 DEF TypeOK, SameCore
    <3> QED
      BY <2>3, <3>1, <3>2
  <2> QED
    BY <2>1, <2>2, <2>4, Overs
<1> QED
  BY <1>2, <1>3, <1>4, <1>5, <1>6 DEF Execution

\* The cancel token stops an execution, whose drive goes on to its end.
LEMMA SignalStep ==
    ASSUME Inv, NEW w \in Worker, NEW r \in Run, Signal(w, r)
    PROVE  Inv'
<1>1. TypeOK /\ Live(w, r)
  BY DEF Inv, Signal, Executes, Live
<1>2. Over(w, r, "interrupted", "lost") /\ UNCHANGED <<row, stopped, wk, left, reports>>
  BY DEF Signal
<1> QED
  BY <1>1, <1>2, Overs, RowsSame DEF Outcomes, Reasons

-----------------------------------------------------------------------------
(* The steps that watch an execution, and those that settle a hold. *)

\* While no renewal failed and no worker died, the drive that a run is leased
\* to has authority.
LEMMA LeasedHasAuthority ==
    ASSUME Inv, NEW w \in Worker, NEW r \in Run, ~Authority(w, r)
    PROVE  ~(Intact("fault") /\ Intact("crash") /\ Leased(w, r))
BY DEF Inv, Leased, LeasedIsDriven, LeasesAreOfRunning, Authority

\* The heartbeat, the worker's stop and the settling of a hold.
LEMMA WatchStep ==
    ASSUME Inv, NEW w \in Worker, NEW r \in Run, Heartbeat(w, r) \/ Stop(w, r) \/ Settle(w, r)
    PROVE  Inv'
<1>1. TypeOK
  BY DEF Inv
<1>2. Live(w, r) /\ UNCHANGED <<row, stopped, wk, left, reports>> /\ NotRestored
  BY <1>1, Unspent DEF Heartbeat, Stop, Settle, At, Live
<1>3. Intact("fault")' <=> Intact("fault")
  BY <1>2 DEF Intact
<1>4. CASE Heartbeat(w, r)
  <2>1. drive[w][r].st = "run"
    BY <1>4 DEF Heartbeat, At
  <2>2. \/ Drop(w, r, "giveback", "stopped")
        \/ ~Authority(w, r) /\ Drop(w, r, "lost", "lost")
        \/ Move(w, r, "settle")
    BY <1>4 DEF Heartbeat
  <2>3. CASE Drop(w, r, "giveback", "stopped")
    BY <1>2, <2>3, Dropping DEF Steps, Reasons
  <2>4. CASE ~Authority(w, r) /\ Drop(w, r, "lost", "lost")
    BY <1>2, <1>3, <2>4, LeasedHasAuthority, Dropping DEF Steps, Reasons
  <2>5. CASE Move(w, r, "settle")
    BY <1>2, <2>1, <2>5, Moving DEF Steps
  <2> QED
    BY <2>2, <2>3, <2>4, <2>5
<1>5. CASE Stop(w, r)
  BY <1>2, <1>5, Dropping DEF Stop, Steps, Reasons
<1>6. CASE Settle(w, r)
  BY <1>2, <1>6, Dropping DEF Settle, Steps, Reasons
<1> QED
  BY <1>4, <1>5, <1>6

\* An event that happens has happened.
LEMMA SpentIsNotIntact ==
    ASSUME TypeOK, NEW k \in Kinds, Spent(k)
    PROVE  ~Intact(k)'
<1>1. left'[k] < left[k] /\ left[k] <= Budget[k]
  BY SpentFacts DEF TypeOK
<1>2. left'[k] \in Nat /\ left[k] \in Nat /\ Budget[k] \in Nat
  BY SpentFacts, DriverAssumption DEF TypeOK
<1> QED
  BY <1>1, <1>2 DEF Intact

\* A failed renewal gives the run up; its lease may outlive the drive.
LEMMA HeartbeatFailsStep ==
    ASSUME Inv, NEW w \in Worker, NEW r \in Run, HeartbeatFails(w, r)
    PROVE  Inv'
<1>1. TypeOK /\ Live(w, r) /\ Spent("fault")
  BY DEF Inv, HeartbeatFails, At, Live
<1>2. Drop(w, r, "lost", "fault") /\ UNCHANGED <<row, stopped, wk, reports>>
  BY DEF HeartbeatFails
<1>3. ~Intact("fault")' /\ NotRestored
  BY <1>1, SpentIsNotIntact, SpentIsNotRestored DEF Kinds
<1> QED
  BY <1>1, <1>2, <1>3, Dropping DEF Steps, Reasons

-----------------------------------------------------------------------------
(* The ends of drives. *)

\* release leaves a run Ready and without an owner.
LEMMA ReleasedFacts ==
    ASSUME TypeOK, NEW r \in Run
    PROVE  /\ Released(r) \in [Run -> RowType]
           /\ \A y \in Run \ {r} : Released(r)[y] = row[y]
           /\ Released(r)[r].gen = row[r].gen
           /\ Released(r)[r].owner = NoWorker /\ Released(r)[r].lease = FALSE
<1>1. row[r] \in RowType
  BY DEF TypeOK
<1>2. PICK u : u = Unowned(row[r])
  OBVIOUS
<1>3. u \in RowType /\ u.owner = NoWorker /\ u.lease = FALSE /\ u.gen = row[r].gen
  BY <1>1, <1>2, UnownedFacts
<1>4. PICK s : s = [u EXCEPT !.state = "Ready", !.due = TRUE]
  OBVIOUS
<1>5. s \in RowType /\ s.owner = NoWorker /\ s.lease = FALSE /\ s.gen = row[r].gen
  BY <1>3, <1>4 DEF RowType
<1>6. Released(r) = [row EXCEPT ![r] = s]
  BY <1>2, <1>4 DEF Released
<1> QED
  BY <1>5, <1>6 DEF TypeOK

\* The drive that has authority may release its run.
LEMMA Releasing ==
    ASSUME Inv, NEW w \in Worker, NEW r \in Run, Live(w, r), Authority(w, r),
           row' = Released(r), reports' = reports
    PROVE  GivesUpLease(w, r)
BY ReleasedFacts DEF GivesUpLease, Inv

\* An interruption is no end of the run.
LEMMA Quiet ==
    ASSUME NEW w, NEW r, NEW status \in {"Interrupted", "Cancelled"}, Report(w, r, status)
    PROVE  reports' = reports
BY DEF Report, Terminal

\* Nor is an end that another committed.
LEMMA ForeignIsQuiet ==
    ASSUME NEW w, NEW r, Foreign(w, r)
    PROVE  reports' = reports
BY Quiet DEF Foreign

\* A run that ended is leased to nobody.
LEMMA EndedIsUnleased ==
    ASSUME Inv, NEW w \in Worker, NEW r \in Run, Ended(r)
    PROVE  ~Leased(w, r)
BY DEF Inv, LeasesAreOfRunning, Ended, Leased, Terminal

\* release by the drive that has the run; refused, the worker fails.
LEMMA GiveBackStep ==
    ASSUME Inv, NEW w \in Worker, NEW r \in Run, GiveBack(w, r)
    PROVE  Inv'
<1>1. /\ Live(w, r) /\ drive[w][r].st # "none"
      /\ reports' = reports /\ UNCHANGED <<stopped, left>>
  BY Quiet DEF GiveBack, At, Live
<1>2. CASE Authority(w, r)
  <2>1. row' = Released(r) /\ Leave(w, r, FALSE)
    BY <1>2 DEF GiveBack
  <2> QED
    BY <1>1, <1>2, <2>1, Releasing, Ends
<1>3. CASE ~Authority(w, r)
  <2>1. row' = row /\ Leave(w, r, TRUE)
    BY <1>3 DEF GiveBack
  <2> QED
    BY <1>1, <1>3, <2>1, LeasedHasAuthority, Ends DEF LeavesRow
<1> QED
  BY <1>2, <1>3

\* yield_held.
LEMMA YieldStep ==
    ASSUME Inv, NEW w \in Worker, NEW r \in Run, Yield(w, r)
    PROVE  Inv'
<1>1. /\ Live(w, r) /\ drive[w][r].st # "none"
      /\ reports' = reports /\ UNCHANGED <<stopped, left>> /\ Leave(w, r, FALSE)
  BY Quiet, ForeignIsQuiet DEF Yield, At, Live
<1>2. CASE Authority(w, r)
  <2>1. row' = Released(r)
    BY <1>2 DEF Yield
  <2> QED
    BY <1>1, <1>2, <2>1, Releasing, Ends
<1>3. CASE ~Authority(w, r)
  <2>1. row' = row
    BY <1>3 DEF Yield
  <2> QED
    BY <1>1, <1>3, <2>1, LeasedHasAuthority, Ends DEF LeavesRow
<1> QED
  BY <1>2, <1>3

\* A drive that lost its lease has nothing to give back.
LEMMA LostStep ==
    ASSUME Inv, NEW w \in Worker, NEW r \in Run, Lost(w, r)
    PROVE  Inv'
<1>1. /\ drive[w][r].st = "lost" /\ drive[w][r].st # "none"
      /\ row' = row /\ reports' = reports /\ UNCHANGED <<stopped, left>> /\ Leave(w, r, FALSE)
  BY Quiet, ForeignIsQuiet DEF Lost, At
<1>2. ~(Intact("fault") /\ Intact("crash") /\ Leased(w, r))
  BY <1>1 DEF Inv, LeasedIsDriven
<1> QED
  BY <1>1, <1>2, Ends DEF LeavesRow

\* A drive that finds its run ended leaves it so.
LEMMA LookEndedStep ==
    ASSUME Inv, NEW w \in Worker, NEW r \in Run, LookEnded(w, r)
    PROVE  Inv'
<1>1. /\ drive[w][r].st = "ended" /\ Live(w, r) /\ drive[w][r].st # "none"
      /\ UNCHANGED <<row, stopped, left>>
  BY DEF LookEnded, At, Live
<1>2. CASE Ended(r)
  <2>1. reports' = reports /\ Leave(w, r, FALSE)
    BY <1>2, ForeignIsQuiet DEF LookEnded
  <2> QED
    BY <1>1, <1>2, <2>1, EndedIsUnleased, Ends DEF LeavesRow
<1>3. CASE ~Ended(r)
  <2>1. Move(w, r, "looked") /\ UNCHANGED <<wk, reports>>
    BY <1>3 DEF LookEnded
  <2>2. NotRestored
    BY <1>1, Unspent DEF Inv
  <2> QED
    BY <1>1, <2>1, <2>2, Moving DEF Steps
<1> QED
  BY <1>2, <1>3

\* The look at the stop decides between finish and release.
LEMMA LookStoppedStep ==
    ASSUME Inv, NEW w \in Worker, NEW r \in Run, LookStopped(w, r)
    PROVE  Inv'
<1>1. /\ drive[w][r].st = "looked" /\ Live(w, r)
      /\ UNCHANGED <<row, stopped, wk, reports>> /\ NotRestored
  BY Unspent DEF LookStopped, At, Live, Inv
<1>2. Move(w, r, "giveback") \/ Move(w, r, "finish")
  BY DEF LookStopped
<1> QED
  BY <1>1, <1>2, Moving DEF Steps

\* The store's finish reports the end that it commits.
LEMMA Finishing ==
    ASSUME Inv, NEW w \in Worker, NEW r \in Run, Live(w, r), Checked(w, r),
           row' = [row EXCEPT ![r] = FinishedRow(row[r], drive[w][r].out)],
           Report(w, r, Status(FinishedRow(row[r], drive[w][r].out)))
    PROVE  GivesUpLease(w, r)
<1>1. PICK s : s = FinishedRow(row[r], drive[w][r].out)
  OBVIOUS
<1>2. row \in [Run -> RowType]
  BY DEF Inv, TypeOK
<1>3. /\ s \in RowType /\ s.owner = NoWorker /\ s.lease = FALSE /\ s.gen = row[r].gen
      /\ s.state \in {"Completed", "Failed", "Waiting", "Ready"}
  BY <1>1, <1>2, FinishedRowFacts
<1>4. row' = [row EXCEPT ![r] = s] /\ Report(w, r, Status(s))
  BY <1>1
<1>5. \/ reports' = reports
      \/ s.state \in {"Completed", "Failed"} /\ reports' = reports \cup {<<r, drive[w][r].gen, s.state>>}
  BY <1>3, <1>4 DEF Report, Status, Terminal
<1>6. row' \in [Run -> RowType] /\ row'[r] = s /\ \A y \in Run \ {r} : row'[y] = row[y]
  BY <1>2, <1>3, <1>4
<1> QED
  BY <1>3, <1>5, <1>6 DEF GivesUpLease, Checked

\* finish, and what its refusals lead to.
LEMMA FinishStep ==
    ASSUME Inv, NEW w \in Worker, NEW r \in Run, Finish(w, r)
    PROVE  Inv'
<1>1. /\ drive[w][r].st = "finish" /\ Live(w, r) /\ drive[w][r].st # "none"
      /\ UNCHANGED <<stopped, left>> /\ NotRestored
  BY Unspent DEF Finish, At, Live, Inv
<1>2. CASE Checked(w, r)
  <2>1. Leave(w, r, FALSE) /\ GivesUpLease(w, r)
    BY <1>1, <1>2, Finishing DEF Finish
  <2> QED
    BY <1>1, <2>1, Ends
<1>3. CASE ~Checked(w, r)
  <2>1. row' = row
    BY <1>3 DEF Finish
  <2>2. \/ (Move(w, r, "yield") \/ Move(w, r, "giveback")) /\ UNCHANGED <<wk, reports>>
        \/ Refusal(w, r) = "lost" /\ Leave(w, r, TRUE) /\ Report(w, r, "Interrupted")
    BY <1>3 DEF Finish, Refusal
  <2>3. CASE (Move(w, r, "yield") \/ Move(w, r, "giveback")) /\ UNCHANGED <<wk, reports>>
    BY <1>1, <2>1, <2>3, Moving DEF Steps
  <2>4. CASE Refusal(w, r) = "lost" /\ Leave(w, r, TRUE) /\ Report(w, r, "Interrupted")
    <3>1. ~Authority(w, r) /\ reports' = reports
      BY <2>4, Quiet DEF Refusal
    <3> QED
      BY <1>1, <2>1, <2>4, <3>1, LeasedHasAuthority, Ends DEF LeavesRow
  <2> QED
    BY <2>2, <2>3, <2>4
<1> QED
  BY <1>2, <1>3

\* The finish of a run that this host cannot execute.
LEMMA FinishUnfitStep ==
    ASSUME Inv, NEW w \in Worker, NEW r \in Run, FinishUnfit(w, r)
    PROVE  Inv'
<1>1. /\ drive[w][r].st = "unfit" /\ Live(w, r) /\ drive[w][r].st # "none"
      /\ UNCHANGED <<stopped, left>> /\ Leave(w, r, ~Checked(w, r))
  BY DEF FinishUnfit, At, Live
<1>2. CASE Checked(w, r)
  <2>1. row' = [row EXCEPT ![r] = FinishedRow(row[r], drive[w][r].out)]
    BY <1>2 DEF FinishUnfit
  <2>2. Report(w, r, Status(FinishedRow(row[r], drive[w][r].out))) /\ Leave(w, r, FALSE)
    BY <1>2 DEF FinishUnfit, Leave
  <2> QED
    BY <1>1, <1>2, <2>1, <2>2, Finishing, Ends
<1>3. CASE ~Checked(w, r)
  <2>1. row' = row /\ Report(w, r, "Interrupted") /\ Leave(w, r, TRUE)
    BY <1>3 DEF FinishUnfit, Leave
  <2>2. ~(Intact("fault") /\ Intact("crash") /\ Leased(w, r))
    BY <1>1 DEF Inv, LeasedIsDriven
  <2> QED
    BY <1>1, <2>1, <2>2, Quiet, Ends DEF LeavesRow
<1> QED
  BY <1>2, <1>3

\* A drive that has not claimed its run leaves nothing behind.
LEMMA AbandonStep ==
    ASSUME Inv, NEW w \in Worker, NEW r \in Run,
           drive[w][r].st = "queued", Leave(w, r, FALSE), UNCHANGED <<row, stopped, left, reports>>
    PROVE  Inv'
<1>1. ~(Intact("fault") /\ Intact("crash") /\ Leased(w, r))
  BY DEF Inv, LeasedIsDriven, Live
<1> QED
  BY <1>1, Ends DEF LeavesRow

\* A claim opens the next generation: the drive is the only one that has it.
LEMMA ClaimStep ==
    ASSUME Inv, NEW w \in Worker, NEW r \in Run, Claim(w, r)
    PROVE  Inv'
<1>1. drive[w][r].st = "queued" /\ UNCHANGED <<stopped, left, reports>>
  BY DEF Claim, At
<1>2. CASE ~(~stopped /\ Claimable(r))
  <2>1. Leave(w, r, FALSE) /\ row' = row
    BY <1>2 DEF Claim
  <2> QED
    BY <1>1, <2>1, AbandonStep
<1>3. CASE ~stopped /\ Claimable(r)
  <2>3. row[r] \in RowType /\ drive[w][r] \in DriveType /\ row[r].gen \in Nat
    BY DEF Inv, TypeOK, RowType
  <2> DEFINE n == row[r].gen + 1
  <2>0. n \in Nat
    BY <2>3
  <2> HIDE DEF n
  <2>1. PICK s : s = [row[r] EXCEPT !.state = "Running", !.owner = w, !.lease = TRUE, !.gen = n]
    OBVIOUS
  <2>2. PICK d : d = [drive[w][r] EXCEPT !.st = "load", !.gen = n]
    OBVIOUS
  <2>4. /\ s \in RowType /\ s.state = "Running" /\ s.owner = w /\ s.lease = TRUE
        /\ s.gen = row[r].gen + 1
    <3>1. s \in RowType /\ s.state = "Running" /\ s.owner = w /\ s.lease = TRUE /\ s.gen = n
      BY <2>0, <2>1, <2>3 DEF RowType
    <3> QED
      BY <3>1 DEF n
  <2>5. /\ d \in DriveType /\ d.st = "load" /\ d.gen = row[r].gen + 1
        /\ d.pc = drive[w][r].pc
    <3>1. d \in DriveType /\ d.st = "load" /\ d.gen = n /\ d.pc = drive[w][r].pc
      BY <2>0, <2>2, <2>3 DEF DriveType, Steps
    <3> QED
      BY <3>1 DEF n
  <2>6. row' = [row EXCEPT ![r] = s] /\ Put(w, r, d) /\ wk' = wk
    BY <1>3, <2>1, <2>2 DEF Claim, Claimed, n
  <2>7. /\ drive' \in [Worker -> [Run -> DriveType]]
        /\ drive'[w][r] = d
        /\ \A x \in Worker, y \in Run : x # w \/ y # r => drive'[x][y] = drive[x][y]
    BY <2>5, <2>6, PutFacts DEF Inv, TypeOK
  <2>8. row' \in [Run -> RowType] /\ row'[r] = s /\ \A y \in Run \ {r} : row'[y] = row[y]
    BY <2>4, <2>6 DEF Inv, TypeOK
  <2>9. \A k \in Kinds : Intact(k)' <=> Intact(k)
    BY <1>1 DEF Intact
  <2>10. row[r].state \notin Terminal /\ ~row[r].lease
    BY <1>3 DEF Claimable, Terminal, Inv, LeasesAreOfRunning
  <2>11. \A x \in reports : x[1] \in Run /\ x[1] # r
    BY <2>10 DEF Inv, TypeOK, EndsAreCommitted, Terminal
  <2>12. \A x \in Worker : drive[x][r].gen \in Nat /\ drive[x][r].gen < row[r].gen + 1
    BY <2>3 DEF Inv, TypeOK, DriveType, DrivesAreSound
  <2>13. TypeOK'
    BY <1>1, <2>6, <2>7, <2>8 DEF Inv, TypeOK
  <2>14. LeasesAreOfRunning'
    BY <2>4, <2>8 DEF Inv, LeasesAreOfRunning
  <2>15. DrivesAreSound'
    <3> SUFFICES ASSUME NEW x \in Worker, NEW y \in Run
                 PROVE  /\ drive'[x][y].gen <= row'[y].gen
                        /\ ~Live(x, y)' => drive'[x][y].gen = 0
                        /\ \A c \in Call : drive'[x][y].pc[c] # "idle" => drive'[x][y].st \in {"run", "settle"}
      BY DEF DrivesAreSound, Live
    <3>1. CASE x = w /\ y = r
      BY <1>1, <2>3, <2>4, <2>5, <2>7, <2>8, <3>1 DEF Inv, DrivesAreSound, Live
    <3>2. CASE x # w /\ y = r
      <4>1. drive'[x][y] = drive[x][y] /\ row'[y].gen = row[r].gen + 1
        BY <2>4, <2>7, <2>8, <3>2
      <4>2. drive[x][y].gen <= row[r].gen + 1
        BY <2>3, <2>12, <3>2
      <4> QED
        BY <4>1, <4>2, <3>2 DEF Inv, DrivesAreSound, Live
    <3>3. CASE y # r
      BY <2>7, <2>8, <3>3 DEF Inv, DrivesAreSound, Live
    <3> QED
      BY <3>1, <3>2, <3>3
  <2>16. GenerationsDiffer'
    <3> SUFFICES ASSUME NEW y \in Run, NEW v \in Worker, NEW x \in Worker,
                        Live(v, y)', Live(x, y)', drive'[v][y].gen = drive'[x][y].gen
                 PROVE  v = x
      BY DEF GenerationsDiffer
    <3>1. CASE y # r \/ (v # w /\ x # w)
      BY <2>7, <3>1 DEF Inv, GenerationsDiffer, Live
    <3>2. CASE y = r /\ (v = w \/ x = w)
      BY <2>3, <2>5, <2>7, <2>12, <3>2
    <3> QED
      BY <3>1, <3>2
  <2>17. LiveIsCurrent'
    <3> SUFFICES ASSUME Intact("lapse")', NEW x \in Worker, NEW y \in Run, Live(x, y)'
                 PROVE  /\ drive'[x][y].gen = row'[y].gen
                        /\ row'[y].state \in Terminal \/ Leased(x, y)'
      BY DEF LiveIsCurrent
    <3>1. CASE x = w /\ y = r
      BY <2>4, <2>5, <2>7, <2>8, <3>1 DEF Leased
    <3>2. CASE x # w /\ y = r
      <4>1. Live(x, r)
        BY <2>7, <3>2 DEF Live
      <4> QED
        BY <2>9, <2>10, <4>1 DEF Inv, LiveIsCurrent, Leased, Kinds
    <3>3. CASE y # r
      BY <2>7, <2>8, <2>9, <3>3 DEF Inv, LiveIsCurrent, Leased, Live, Kinds
    <3> QED
      BY <3>1, <3>2, <3>3
  <2>18. LeasedIsDriven'
    <3> SUFFICES ASSUME Intact("fault")', Intact("crash")', NEW x \in Worker, NEW y \in Run, Leased(x, y)'
                 PROVE  /\ Live(x, y)' /\ drive'[x][y].gen = row'[y].gen
                        /\ drive'[x][y].st \notin {"lost", "unfit"}
      BY DEF LeasedIsDriven
    <3>1. CASE y = r
      <4>1. x = w
        BY <2>4, <2>8, <3>1 DEF Leased
      <4> QED
        BY <2>4, <2>5, <2>7, <2>8, <3>1, <4>1 DEF Live
    <3>2. CASE y # r
      BY <2>7, <2>8, <2>9, <3>2 DEF Inv, LeasedIsDriven, Leased, Live, Kinds
    <3> QED
      BY <3>1, <3>2
  <2>19. StoppedIsIdle'
    <3>1. wk[w].st \notin {"down", "failed"}
      BY <1>1 DEF Inv, StoppedIsIdle
    <3> QED
      BY <2>6, <2>7, <3>1 DEF Inv, StoppedIsIdle
  <2>20. EndsAreCommitted'
    BY <1>1, <2>8, <2>11 DEF Inv, EndsAreCommitted
  <2> QED
    BY <2>13, <2>14, <2>15, <2>16, <2>17, <2>18, <2>19, <2>20 DEF Inv
<1> QED
  BY <1>2, <1>3

-----------------------------------------------------------------------------
(* Steps of the workers' loops, of operators and of time. *)

\* Drives are left alone, queued, or lost with their worker; what decides
\* ownership is left alone.
LEMMA Bystander ==
    ASSUME Inv,
           row' \in [Run -> RowType], \A y \in Run : SameCore(row'[y], row[y]),
           stopped' \in BOOLEAN, reports' = reports, NotRestored,
           wk' \in [Worker -> [st : {"up", "draining", "down", "failed"}, due : SUBSET Run, failed : BOOLEAN]],
           drive' \in [Worker -> [Run -> DriveType]],
           \A x \in Worker, y \in Run :
               \/ drive'[x][y] = drive[x][y]
               \/ /\ ~Live(x, y)' /\ drive'[x][y].gen = 0
                  /\ \A c \in Call : drive'[x][y].pc[c] = "idle"
                  /\ ~Live(x, y) \/ ~Intact("crash")',
           \A x \in Worker, y \in Run : wk'[x].st \in {"down", "failed"} => drive'[x][y].st = "none"
    PROVE  Inv'
<1>1. \A y \in Run : row'[y].state = row[y].state /\ row'[y].gen = row[y].gen /\ row'[y].lease = row[y].lease
  BY DEF SameCore
<1>2. \A x \in Worker, y \in Run : Leased(x, y)' <=> Leased(x, y)
  BY DEF Leased, SameCore
<1>3. \A x \in Worker, y \in Run : Live(x, y)' => Live(x, y) /\ drive'[x][y] = drive[x][y]
  BY DEF Live
<1>4. TypeOK'
  <2>1. \A k \in Kinds : left'[k] <= Budget[k]
    BY DriverAssumption DEF Inv, TypeOK, NotRestored
  <2> QED
    BY <2>1 DEF Inv, TypeOK, NotRestored
<1>5. LeasesAreOfRunning'
  BY <1>1 DEF Inv, LeasesAreOfRunning
<1>6. DrivesAreSound'
  <2> SUFFICES ASSUME NEW x \in Worker, NEW y \in Run
               PROVE  /\ drive'[x][y].gen <= row'[y].gen
                      /\ ~Live(x, y)' => drive'[x][y].gen = 0
                      /\ \A c \in Call : drive'[x][y].pc[c] # "idle" => drive'[x][y].st \in {"run", "settle"}
    BY DEF DrivesAreSound, Live
  <2>1. CASE drive'[x][y] = drive[x][y]
    BY <1>1, <2>1 DEF Inv, DrivesAreSound, Live
  <2>2. CASE drive'[x][y].gen = 0 /\ \A c \in Call : drive'[x][y].pc[c] = "idle"
    <3>1. row'[y].gen \in Nat
      BY DEF RowType
    <3> QED
      BY <2>2, <3>1
  <2> QED
    BY <2>1, <2>2
<1>7. GenerationsDiffer'
  BY <1>3 DEF Inv, GenerationsDiffer
<1>8. LiveIsCurrent'
  <2> SUFFICES ASSUME Intact("lapse")' PROVE LiveIsCurrent'
    BY DEF LiveIsCurrent
  <2>1. Intact("lapse")
    BY StaysIntact DEF Inv, Kinds
  <2> QED
    BY <2>1, <1>1, <1>2, <1>3 DEF Inv, LiveIsCurrent
<1>9. LeasedIsDriven'
  <2> SUFFICES ASSUME Intact("fault")', Intact("crash")', NEW x \in Worker, NEW y \in Run, Leased(x, y)'
               PROVE  /\ Live(x, y)' /\ drive'[x][y].gen = row'[y].gen
                      /\ drive'[x][y].st \notin {"lost", "unfit"}
    BY DEF LeasedIsDriven
  <2>1. Intact("fault") /\ Intact("crash")
    BY StaysIntact DEF Inv, Kinds
  <2>2. Live(x, y) /\ drive[x][y].gen = row[y].gen /\ drive[x][y].st \notin {"lost", "unfit"}
    BY <1>2, <2>1 DEF Inv, LeasedIsDriven
  <2>3. drive'[x][y] = drive[x][y]
    BY <2>2
  <2> QED
    BY <1>1, <2>2, <2>3 DEF Live
<1>10. StoppedIsIdle'
  BY DEF StoppedIsIdle
<1>11. EndsAreCommitted'
  <2>1. \A x \in reports : x[1] \in Run
    BY DEF Inv, TypeOK
  <2> QED
    BY <1>1, <2>1 DEF Inv, EndsAreCommitted
<1> QED
  BY <1>4, <1>5, <1>6, <1>7, <1>8, <1>9, <1>10, <1>11 DEF Inv

\* The worker's polls, stops, crashes and restarts.
LEMMA LoopStep ==
    ASSUME Inv, NEW w \in Worker, Loop(w) \/ Shutdown(w) \/ Crash(w)
    PROVE  Inv'
<1> DEFINE WkType == [st : {"up", "draining", "down", "failed"}, due : SUBSET Run, failed : BOOLEAN]
<1>1. TypeOK /\ wk[w] \in WkType
  BY DEF Inv, TypeOK
<1>2. UNCHANGED <<row, stopped, reports>>
  BY DEF Loop, Poll, Spawn, Drained, Restart, Shutdown, Crash
<1>3. NotRestored
  BY <1>1, Unspent, SpentIsNotRestored DEF Loop, Poll, Spawn, Drained, Restart, Shutdown, Crash, Kinds
<1>4. row' \in [Run -> RowType] /\ \A y \in Run : SameCore(row'[y], row[y])
  BY <1>1, <1>2, RowsSame
<1>5. \A x \in Worker, y \in Run : wk[x].st \in {"down", "failed"} => drive[x][y].st = "none"
  BY DEF Inv, StoppedIsIdle
<1>6. CASE Poll(w)
  <2>1. PICK due \in SUBSET Run : wk' = [wk EXCEPT ![w].due = due]
    BY <1>6 DEF Poll
  <2>2. wk' \in [Worker -> WkType] /\ \A x \in Worker : wk'[x].st = wk[x].st
    BY <1>1, <2>1 DEF TypeOK
  <2>3. drive' = drive
    BY <1>6 DEF Poll
  <2> QED
    BY <1>1, <1>2, <1>3, <1>4, <1>5, <2>2, <2>3, Bystander DEF TypeOK
<1>7. CASE Spawn(w)
  <2>1. PICK new \in SUBSET (wk[w].due \ Drives(w)) :
          drive' = [drive EXCEPT ![w] =
                      [r \in Run |-> IF r \in new THEN [NoDrive EXCEPT !.st = "queued"] ELSE drive[w][r]]]
    BY <1>7 DEF Spawn
  <2>2. wk[w].st = "up" /\ wk' = [wk EXCEPT ![w].due = {}]
    BY <1>7 DEF Spawn
  <2>3. wk' \in [Worker -> WkType] /\ \A x \in Worker : wk'[x].st = wk[x].st
    BY <1>1, <2>2 DEF TypeOK
  <2>4. PICK q : q = [NoDrive EXCEPT !.st = "queued"]
    OBVIOUS
  <2>5. q \in DriveType /\ q.st = "queued" /\ q.gen = 0 /\ q.pc = [c \in Call |-> "idle"]
    BY <2>4, NoDriveType DEF NoDrive, DriveType, Steps
  <2>6. drive' = [drive EXCEPT ![w] = [r \in Run |-> IF r \in new THEN q ELSE drive[w][r]]]
    BY <2>1, <2>4
  <2>7. /\ drive' \in [Worker -> [Run -> DriveType]]
        /\ \A x \in Worker, y \in Run : drive'[x][y] = IF x = w /\ y \in new THEN q ELSE drive[x][y]
    BY <1>1, <2>5, <2>6 DEF TypeOK
  <2>8. \A y \in new : ~Live(w, y)
    BY <1>1 DEF Drives, Live, TypeOK
  <2>9. \A x \in Worker, y \in Run :
            \/ drive'[x][y] = drive[x][y]
            \/ /\ ~Live(x, y)' /\ drive'[x][y].gen = 0
               /\ \A c \in Call : drive'[x][y].pc[c] = "idle"
               /\ ~Live(x, y)
    BY <2>5, <2>7, <2>8 DEF Live
  <2>10. \A x \in Worker, y \in Run : wk'[x].st \in {"down", "failed"} => drive'[x][y].st = "none"
    BY <1>5, <2>2, <2>3, <2>7
  <2> QED
    BY <1>1, <1>2, <1>3, <1>4, <2>3, <2>7, <2>9, <2>10, Bystander DEF TypeOK
<1>8. CASE Drained(w)
  <2>1. \A y \in Run : drive[w][y].st = "none"
    BY <1>8 DEF Drained, Drives
  <2>2. PICK st \in {"down", "failed"} : wk' = [wk EXCEPT ![w].st = st, ![w].due = {}]
    BY <1>8 DEF Drained
  <2>3. wk' \in [Worker -> WkType] /\ \A x \in Worker \ {w} : wk'[x].st = wk[x].st
    BY <1>1, <2>2 DEF TypeOK
  <2>4. drive' = drive
    BY <1>8 DEF Drained
  <2>5. \A x \in Worker, y \in Run : wk'[x].st \in {"down", "failed"} => drive'[x][y].st = "none"
    BY <1>5, <2>1, <2>3, <2>4
  <2>6. \A x \in Worker, y \in Run : drive'[x][y] = drive[x][y]
    BY <2>4
  <2>7. stopped' \in BOOLEAN /\ reports' = reports /\ drive' \in [Worker -> [Run -> DriveType]]
    BY <1>1, <1>2, <2>4 DEF TypeOK
  <2> QED
    BY <1>3, <1>4, <2>3, <2>5, <2>6, <2>7, Bystander
<1>9. CASE Restart(w)
  <2>1. wk' = [wk EXCEPT ![w] = [st |-> "up", due |-> {}, failed |-> FALSE]] /\ drive' = drive
    BY <1>9 DEF Restart
  <2>2. wk' \in [Worker -> WkType] /\ wk'[w].st = "up" /\ \A x \in Worker \ {w} : wk'[x].st = wk[x].st
    BY <1>1, <2>1 DEF TypeOK
  <2> QED
    BY <1>1, <1>2, <1>3, <1>4, <1>5, <2>1, <2>2, Bystander DEF TypeOK
<1>10. CASE Shutdown(w)
  <2>1. wk' = [wk EXCEPT ![w].st = "draining", ![w].due = {}] /\ drive' = drive
    BY <1>10 DEF Shutdown
  <2>2. wk' \in [Worker -> WkType] /\ wk'[w].st = "draining" /\ \A x \in Worker \ {w} : wk'[x].st = wk[x].st
    BY <1>1, <2>1 DEF TypeOK
  <2> QED
    BY <1>1, <1>2, <1>3, <1>4, <1>5, <2>1, <2>2, Bystander DEF TypeOK
<1>11. CASE Crash(w)
  <2>1. /\ wk' = [wk EXCEPT ![w] = [st |-> "failed", due |-> {}, failed |-> TRUE]]
        /\ drive' = [drive EXCEPT ![w] = [r \in Run |-> NoDrive]]
    BY <1>11 DEF Crash
  <2>2. wk' \in [Worker -> WkType] /\ \A x \in Worker \ {w} : wk'[x].st = wk[x].st
    BY <1>1, <2>1 DEF TypeOK
  <2>3. /\ drive' \in [Worker -> [Run -> DriveType]]
        /\ \A x \in Worker, y \in Run : drive'[x][y] = IF x = w THEN NoDrive ELSE drive[x][y]
    BY <1>1, <2>1, NoDriveType DEF TypeOK
  <2>4. ~Intact("crash")'
    BY <1>1, <1>11, SpentIsNotIntact DEF Crash, Kinds
  <2>5. \A x \in Worker, y \in Run :
            \/ drive'[x][y] = drive[x][y]
            \/ /\ ~Live(x, y)' /\ drive'[x][y].gen = 0
               /\ \A c \in Call : drive'[x][y].pc[c] = "idle"
    BY <2>3 DEF Live, NoDrive
  <2>6. \A x \in Worker, y \in Run : wk'[x].st \in {"down", "failed"} => drive'[x][y].st = "none"
    BY <1>5, <2>2, <2>3 DEF NoDrive
  <2> QED
    BY <1>1, <1>2, <1>3, <1>4, <2>2, <2>3, <2>4, <2>5, <2>6, Bystander DEF TypeOK
<1> QED
  BY <1>6, <1>7, <1>8, <1>9, <1>10, <1>11 DEF Loop

\* A step of nobody's drive that keeps ownership.
LEMMA Unmoved ==
    ASSUME Inv, row' \in [Run -> RowType], \A y \in Run : SameCore(row'[y], row[y]),
           stopped' \in BOOLEAN, UNCHANGED <<wk, drive, reports>>, NotRestored
    PROVE  Inv'
<1>1. \A x \in Worker, y \in Run : wk'[x].st \in {"down", "failed"} => drive'[x][y].st = "none"
  BY DEF Inv, StoppedIsIdle
<1>2. /\ drive' \in [Worker -> [Run -> DriveType]]
      /\ wk' \in [Worker -> [st : {"up", "draining", "down", "failed"}, due : SUBSET Run, failed : BOOLEAN]]
  BY DEF Inv, TypeOK
<1>3. \A x \in Worker, y \in Run : drive'[x][y] = drive[x][y]
  OBVIOUS
<1> QED
  BY <1>1, <1>2, <1>3, Bystander

\* One row changes in what ownership does not depend on.
LEMMA RowKeepsCore ==
    ASSUME TypeOK, NEW r \in Run, NEW s \in RowType, SameCore(s, row[r]), row' = [row EXCEPT ![r] = s]
    PROVE  row' \in [Run -> RowType] /\ \A y \in Run : SameCore(row'[y], row[y])
BY DEF TypeOK, SameCore

\* Holds and due times do not decide ownership.
LEMMA OperatorStep ==
    ASSUME Inv, NEW r \in Run, Hold(r) \/ Unhold(r) \/ Due(r)
    PROVE  Inv'
<1>1. TypeOK /\ row[r] \in RowType
  BY DEF Inv, TypeOK
<1>2. UNCHANGED <<stopped, wk, drive, reports>> /\ stopped' \in BOOLEAN
  BY <1>1 DEF Hold, Unhold, Due, TypeOK
<1>3. NotRestored
  BY <1>1, Unspent, SpentIsNotRestored DEF Hold, Unhold, Due, Kinds
<1>4. \E s \in RowType : SameCore(s, row[r]) /\ row' = [row EXCEPT ![r] = s]
  <2>1. CASE Hold(r)
    <3>1. PICK s : s = [row[r] EXCEPT !.held = TRUE]
      OBVIOUS
    <3>2. s \in RowType /\ SameCore(s, row[r])
      BY <1>1, <3>1 DEF RowType, SameCore
    <3>3. row' = [row EXCEPT ![r] = s]
      BY <2>1, <3>1 DEF Hold
    <3> QED
      BY <3>2, <3>3
  <2>2. CASE Unhold(r)
    <3>1. PICK s : s = [row[r] EXCEPT !.held = FALSE]
      OBVIOUS
    <3>2. s \in RowType /\ SameCore(s, row[r])
      BY <1>1, <3>1 DEF RowType, SameCore
    <3>3. row' = [row EXCEPT ![r] = s]
      BY <2>2, <3>1 DEF Unhold
    <3> QED
      BY <3>2, <3>3
  <2>3. CASE Due(r)
    <3>1. PICK t \in {"none", "set", "over"} : t = IF row[r].state = "Waiting" THEN "over" ELSE row[r].timer
      BY <1>1 DEF RowType
    <3>2. PICK s : s = [row[r] EXCEPT !.due = TRUE, !.timer = t]
      OBVIOUS
    <3>3. s \in RowType /\ SameCore(s, row[r])
      BY <1>1, <3>2 DEF RowType, SameCore
    <3>4. row' = [row EXCEPT ![r] = s]
      BY <1>1, <2>3, <3>1, <3>2 DEF Due, TypeOK
    <3> QED
      BY <3>3, <3>4
  <2> QED
    BY <2>1, <2>2, <2>3
<1>5. row' \in [Run -> RowType] /\ \A y \in Run : SameCore(row'[y], row[y])
  BY <1>1, <1>4, RowKeepsCore
<1> QED
  BY <1>2, <1>3, <1>5, Unmoved

\* Nor does the emergency stop.
LEMMA StopStep ==
    ASSUME Inv, EmergencyStop \/ ClearStop
    PROVE  Inv'
<1>1. TypeOK
  BY DEF Inv
<1>2. UNCHANGED <<row, wk, drive, reports>> /\ stopped' \in BOOLEAN
  BY DEF EmergencyStop, ClearStop
<1>3. NotRestored
  BY <1>1, Unspent, SpentIsNotRestored DEF EmergencyStop, ClearStop, Kinds
<1> QED
  BY <1>1, <1>2, <1>3, RowsSame, Unmoved

\* A step that changes nothing.
LEMMA StutterStep ==
    ASSUME Inv, UNCHANGED vars
    PROVE  Inv'
<1>1. TypeOK /\ UNCHANGED <<row, stopped, wk, drive, left, reports>>
  BY DEF Inv, vars
<1> QED
  BY <1>1, Unspent, RowsSame, Unmoved DEF TypeOK

\* A run loses its lease, to a cancel or to time.
LEMMA Unleased ==
    ASSUME Inv, NEW r \in Run, NEW s \in RowType, row' = [row EXCEPT ![r] = s],
           s.lease = FALSE, s.gen = row[r].gen,
           s.state = row[r].state \/ (~Ended(r) /\ s.state = "Cancelled"),
           s.state = "Cancelled" \/ ~Intact("lapse")' \/ \A x \in Worker : Live(x, r) => ~Leased(x, r),
           NotRestored, UNCHANGED <<stopped, wk, drive, reports>>
    PROVE  Inv'
<1>1. TypeOK
  BY DEF Inv
<1>2. row' \in [Run -> RowType] /\ row'[r] = s /\ \A y \in Run \ {r} : row'[y] = row[y]
  BY <1>1 DEF TypeOK
<1>3. \A x \in Worker, y \in Run : Leased(x, y)' => y # r /\ Leased(x, y)
  BY <1>2 DEF Leased
<1>4. \A x \in Worker, y \in Run : Live(x, y)' <=> Live(x, y)
  BY DEF Live
<1>5. \A y \in Run : row'[y].gen = row[y].gen
  BY <1>2
<1>6. TypeOK'
  <2>1. \A k \in Kinds : left'[k] <= Budget[k]
    BY <1>1, DriverAssumption DEF TypeOK, NotRestored
  <2> QED
    BY <1>1, <1>2, <2>1 DEF TypeOK, NotRestored
<1>7. LeasesAreOfRunning'
  BY <1>2 DEF Inv, LeasesAreOfRunning
<1>8. DrivesAreSound' /\ GenerationsDiffer'
  BY <1>4, <1>5 DEF Inv, DrivesAreSound, GenerationsDiffer
<1>9. LiveIsCurrent'
  <2> SUFFICES ASSUME Intact("lapse")', NEW x \in Worker, NEW y \in Run, Live(x, y)'
               PROVE  /\ drive'[x][y].gen = row'[y].gen
                      /\ row'[y].state \in Terminal \/ Leased(x, y)'
    BY DEF LiveIsCurrent
  <2>1. Intact("lapse") /\ Live(x, y)
    BY <1>1, <1>4, StaysIntact DEF Kinds
  <2>2. drive[x][y].gen = row[y].gen /\ (row[y].state \in Terminal \/ Leased(x, y))
    BY <2>1 DEF Inv, LiveIsCurrent
  <2>3. CASE y # r
    BY <1>2, <2>2, <2>3 DEF Leased
  <2>4. CASE y = r
    <3>1. s.state \in Terminal
      BY <2>1, <2>2, <2>4 DEF Terminal
    <3> QED
      BY <1>2, <1>5, <2>2, <2>4, <3>1
  <2> QED
    BY <2>3, <2>4
<1>10. LeasedIsDriven'
  <2> SUFFICES ASSUME Intact("fault")', Intact("crash")', NEW x \in Worker, NEW y \in Run, Leased(x, y)'
               PROVE  /\ Live(x, y)' /\ drive'[x][y].gen = row'[y].gen
                      /\ drive'[x][y].st \notin {"lost", "unfit"}
    BY DEF LeasedIsDriven
  <2>1. Intact("fault") /\ Intact("crash")
    BY <1>1, StaysIntact DEF Kinds
  <2> QED
    BY <1>3, <1>4, <1>5, <2>1 DEF Inv, LeasedIsDriven
<1>11. StoppedIsIdle'
  BY DEF Inv, StoppedIsIdle
<1>12. EndsAreCommitted'
  <2>1. \A x \in reports : x[1] \in Run /\ x[3] \in {"Completed", "Failed"} /\ row[x[1]].state = x[3]
    BY <1>1 DEF Inv, TypeOK, EndsAreCommitted
  <2>2. \A x \in reports : row'[x[1]].state = x[3]
    BY <1>2, <2>1 DEF Ended, Terminal
  <2> QED
    BY <2>2 DEF Inv, EndsAreCommitted
<1> QED
  BY <1>6, <1>7, <1>8, <1>9, <1>10, <1>11, <1>12 DEF Inv

\* cancel ends the run under its drive.
LEMMA CancelStep ==
    ASSUME Inv, NEW r \in Run, Cancel(r)
    PROVE  Inv'
<1>1. TypeOK /\ row[r] \in RowType /\ Spent("cancel")
  BY DEF Inv, TypeOK, Cancel
<1>2. PICK u : u = Unowned(row[r])
  OBVIOUS
<1>3. u \in RowType /\ u.lease = FALSE /\ u.gen = row[r].gen
  BY <1>1, <1>2, UnownedFacts
<1>4. PICK s : s = [u EXCEPT !.state = "Cancelled", !.held = FALSE]
  OBVIOUS
<1>5. s \in RowType /\ s.lease = FALSE /\ s.gen = row[r].gen /\ s.state = "Cancelled"
  BY <1>3, <1>4 DEF RowType, Terminal
<1>6. row' = [row EXCEPT ![r] = s] /\ ~Ended(r) /\ UNCHANGED <<stopped, wk, drive, reports>>
  BY <1>2, <1>4 DEF Cancel
<1>7. NotRestored
  BY <1>1, SpentIsNotRestored DEF Kinds
<1> QED
  BY <1>5, <1>6, <1>7, Unleased

\* A lease may lapse under a drive only as an event.
LEMMA LapseStep ==
    ASSUME Inv, NEW r \in Run, Lapse(r)
    PROVE  Inv'
<1>1. TypeOK /\ row[r] \in RowType
  BY DEF Inv, TypeOK
<1>2. PICK s : s = [row[r] EXCEPT !.lease = FALSE]
  OBVIOUS
<1>3. s \in RowType /\ s.lease = FALSE /\ s.gen = row[r].gen /\ s.state = row[r].state
  BY <1>1, <1>2 DEF RowType
<1>4. row' = [row EXCEPT ![r] = s] /\ UNCHANGED <<stopped, wk, drive, reports>>
  BY <1>2 DEF Lapse
<1>5. CASE Orphan(r)
  <2>1. NotRestored
    BY <1>1, <1>5, Unspent DEF Lapse
  <2>2. CASE ~Intact("lapse")
    <3>1. ~Intact("lapse")'
      BY <1>1, <2>1, <2>2, StaysIntact DEF Kinds
    <3> QED
      BY <1>3, <1>4, <2>1, <3>1, Unleased
  <2>3. CASE Intact("lapse")
    <3>1. \A x \in Worker : Live(x, r) => ~Leased(x, r)
      BY <1>5, <2>3 DEF Orphan, Inv, LiveIsCurrent, Leased
    <3> QED
      BY <1>3, <1>4, <2>1, <3>1, Unleased
  <2> QED
    BY <2>2, <2>3
<1>6. CASE ~Orphan(r)
  <2>1. Spent("lapse")
    BY <1>6 DEF Lapse
  <2>2. NotRestored /\ ~Intact("lapse")'
    BY <1>1, <2>1, SpentIsNotRestored, SpentIsNotIntact DEF Kinds
  <2> QED
    BY <1>3, <1>4, <2>2, Unleased
<1> QED
  BY <1>5, <1>6

\* Every step keeps the invariant.
LEMMA InvNext == Inv /\ [Next]_vars => Inv'
<1> SUFFICES ASSUME Inv, [Next]_vars PROVE Inv'
  OBVIOUS
<1>1. CASE UNCHANGED vars
  BY <1>1, StutterStep
<1>2. ASSUME NEW w \in Worker, Loop(w) \/ Shutdown(w) \/ Crash(w) PROVE Inv'
  BY <1>2, LoopStep
<1>3. ASSUME NEW w \in Worker, NEW r \in Run, Driving(w, r) PROVE Inv'
  <2>1. CASE Abandon(w, r)
    BY <2>1, AbandonStep DEF Abandon, At
  <2> QED
    BY <1>3, <2>1, ClaimStep, LoadStep, CheckStep, ExecutionStep, WatchStep, GiveBackStep, YieldStep,
       LostStep, LookEndedStep, LookStoppedStep, FinishStep, FinishUnfitStep DEF Driving
<1>4. ASSUME NEW w \in Worker, NEW r \in Run, HeartbeatFails(w, r) \/ Signal(w, r) PROVE Inv'
  BY <1>4, HeartbeatFailsStep, SignalStep
<1>5. ASSUME NEW r \in Run, Hold(r) \/ Unhold(r) \/ Cancel(r) \/ Lapse(r) \/ Due(r) PROVE Inv'
  BY <1>5, OperatorStep, CancelStep, LapseStep
<1>6. CASE EmergencyStop \/ ClearStop
  BY <1>6, StopStep
<1> QED
  BY <1>1, <1>2, <1>3, <1>4, <1>5, <1>6 DEF Next

-----------------------------------------------------------------------------
(* The theorems. *)

\* The budgets' fields that the properties name.
LEMMA Intacts ==
    ASSUME TypeOK
    PROVE  /\ left.lapse = Budget.lapse <=> Intact("lapse")
           /\ left.fault < Budget.fault <=> ~Intact("fault")
           /\ left.crash < Budget.crash <=> ~Intact("crash")
<1>1. /\ left["lapse"] \in Nat /\ Budget["lapse"] \in Nat /\ left["lapse"] <= Budget["lapse"]
      /\ left["fault"] \in Nat /\ Budget["fault"] \in Nat /\ left["fault"] <= Budget["fault"]
      /\ left["crash"] \in Nat /\ Budget["crash"] \in Nat /\ left["crash"] <= Budget["crash"]
  BY DriverAssumption DEF TypeOK, Kinds
<1> QED
  BY <1>1 DEF Intact

\* What the invariant is for.
LEMMA InvImpliesOneDrive == Inv => OneDriveAtATime
<1> SUFFICES ASSUME Inv PROVE OneDriveAtATime
  OBVIOUS
<1>1. TypeOK
  BY DEF Inv
<1>2. NoDoubleDispatch
  <2> SUFFICES ASSUME NEW r \in Run, NEW c \in Call, left.lapse = Budget.lapse
               PROVE  Cardinality({w \in Worker : drive[w][r].pc[c] \in {"sent", "answered"}}) <= 1
    BY DEF NoDoubleDispatch
  <2> DEFINE S == {w \in Worker : drive[w][r].pc[c] \in {"sent", "answered"}}
  <2>1. Intact("lapse")
    BY <1>1, Intacts
  <2>2. \A w \in S : Live(w, r)
    BY DEF Inv, DrivesAreSound, Live
  <2>3. \A v, w \in S : v = w
    <3> SUFFICES ASSUME NEW v \in S, NEW w \in S PROVE v = w
      OBVIOUS
    <3>1. drive[v][r].gen = row[r].gen /\ drive[w][r].gen = row[r].gen
      BY <2>1, <2>2 DEF Inv, LiveIsCurrent
    <3> QED
      BY <2>2, <3>1 DEF Inv, GenerationsDiffer
  <2> HIDE DEF S
  <2>4. CASE S = {}
    <3>1. Cardinality(S) = 0
      BY <2>4, FS_EmptySet
    <3> QED
      BY <3>1 DEF S
  <2>5. CASE S # {}
    <3>1. PICK w : S = {w}
      BY <2>3, <2>5
    <3>2. Cardinality(S) = 1
      BY <3>1, FS_Singleton
    <3> QED
      BY <3>2 DEF S
  <2> QED
    BY <2>4, <2>5
<1>3. EndIsReportedOnce
  BY DEF Inv, EndsAreCommitted, EndIsReportedOnce
<1>4. CleanStopReleases
  <2> SUFFICES ASSUME NEW w \in Worker, NEW r \in Run, wk[w].st = "down", Leased(w, r),
                      Intact("fault"), Intact("crash")
               PROVE  FALSE
    BY <1>1, Intacts DEF CleanStopReleases, Leased
  <2> QED
    BY DEF Inv, LeasedIsDriven, StoppedIsIdle, Live
<1> QED
  BY <1>2, <1>3, <1>4 DEF OneDriveAtATime

\* At all times every drive is in the relation to its run's row that Inv states
\* (drive_mode's claims, renewals and finishes).
THEOREM Invariance == Spec => []Inv
BY InvInit, InvNext, PTL DEF Spec

\* The worker's state, its drives and the rows they write keep their types
\* (drive_mode, worker).
THEOREM Typing == Spec => []TypeOK
<1>1. Inv => TypeOK
  BY DEF Inv
<1> QED
  BY <1>1, Invariance, PTL

\* One drive at a time has a run: no call is in flight twice unless a lease
\* lapsed, an end is reported once and by the drive that committed it, and a
\* worker that stopped cleanly leaves no lease (worker, drive_mode, claim_as).
THEOREM OneDrive == Spec => []OneDriveAtATime
BY InvImpliesOneDrive, Invariance, PTL

-----------------------------------------------------------------------------
(* Which steps drop a call in flight. *)

\* The one drive that a step changes.
OnlyMoves(v, q) ==
    \A w \in Worker, r \in Run : w # v \/ r # q => drive'[w][r] = drive[w][r]

\* A step of a drive changes that drive.
LEMMA PutOnly ==
    ASSUME TypeOK, NEW v \in Worker, NEW q \in Run, NEW d, Put(v, q, d)
    PROVE  drive'[v][q] = d /\ OnlyMoves(v, q)
BY DEF TypeOK, Put, OnlyMoves

\* What an execution that ended, or was dropped, leaves.
LEMMA OverEnds ==
    ASSUME TypeOK, NEW v \in Worker, NEW q \in Run, NEW out, NEW why, Over(v, q, out, why)
    PROVE  drive'[v][q].st = "ended" /\ OnlyMoves(v, q)
<1>1. PICK d : d = [drive[v][q] EXCEPT !.st = "ended", !.out = out, !.why = why,
                                      !.pc = [c \in Call |-> "idle"]]
  OBVIOUS
<1>2. drive[v][q] \in DriveType
  BY DEF TypeOK
<1>3. d.st = "ended"
  BY <1>1, <1>2 DEF DriveType
<1>4. Put(v, q, d)
  BY <1>1 DEF Over
<1> QED
  BY <1>3, <1>4, PutOnly

\* So does the drop of its interpreter.
LEMMA DropMoves ==
    ASSUME TypeOK, NEW v \in Worker, NEW q \in Run, NEW st, NEW why, Drop(v, q, st, why)
    PROVE  OnlyMoves(v, q)
BY PutOnly DEF Drop

\* A new stage leaves its calls.
LEMMA MoveKeeps ==
    ASSUME TypeOK, NEW v \in Worker, NEW q \in Run, NEW st, Move(v, q, st)
    PROVE  OnlyMoves(v, q) /\ drive'[v][q].pc = drive[v][q].pc
<1>1. PICK d : d = [drive[v][q] EXCEPT !.st = st]
  OBVIOUS
<1>2. drive[v][q] \in DriveType
  BY DEF TypeOK
<1>3. d.pc = drive[v][q].pc
  BY <1>1, <1>2 DEF DriveType
<1>4. Put(v, q, d)
  BY <1>1 DEF Move
<1> QED
  BY <1>3, <1>4, PutOnly

\* A call's step leaves the other calls.
LEMMA PcMoves ==
    ASSUME TypeOK, NEW v \in Worker, NEW q \in Run, NEW e \in Call, NEW pc, Pc(v, q, e, pc)
    PROVE  /\ OnlyMoves(v, q) /\ drive'[v][q].pc[e] = pc
           /\ \A c \in Call : c # e => drive'[v][q].pc[c] = drive[v][q].pc[c]
<1>1. PICK d : d = [drive[v][q] EXCEPT !.pc[e] = pc]
  OBVIOUS
<1>2. drive[v][q] \in DriveType
  BY DEF TypeOK
<1>3. d.pc[e] = pc /\ \A c \in Call : c # e => d.pc[c] = drive[v][q].pc[c]
  BY <1>1, <1>2 DEF DriveType
<1>4. Put(v, q, d)
  BY <1>1 DEF Pc
<1> QED
  BY <1>3, <1>4, PutOnly

\* A step of one drive drops the calls of no other, and those only if it executes.
LEMMA OwnCalls ==
    ASSUME Inv, NEW v \in Worker, NEW q \in Run, OnlyMoves(v, q),
           NEW w \in Worker, NEW r \in Run, NEW c \in Call, Drops(w, r, c)
    PROVE  w = v /\ r = q /\ Executes(v, q)
BY DEF OnlyMoves, Drops, Inv, DrivesAreSound, Executes

\* The reasons for which a call in flight may be dropped.
MayDrop(w, r) == stopped \/ ~Authority(w, r) \/ (row[r].held /\ drive'[w][r].st = "ended")

\* A refused step ends the execution: by the stop, the lease or a hold.
LEMMA RefusedMayDrop ==
    ASSUME TypeOK, NEW w \in Worker, NEW r \in Run, NEW out, NEW why, Over(w, r, out, why), ~Checked(w, r)
    PROVE  MayDrop(w, r)
BY OverEnds DEF MayDrop, Checked

\* An execution drops its own calls only when a step of it is refused.
LEMMA ExecutionDrops ==
    ASSUME Inv, NEW v \in Worker, NEW q \in Run, Execution(v, q),
           NEW w \in Worker, NEW r \in Run, NEW c \in Call, Drops(w, r, c)
    PROVE  MayDrop(w, r)
<1>1. TypeOK
  BY DEF Inv
<1>2. drive[w][r].pc[c] = "sent" /\ drive'[w][r].pc[c] \notin {"sent", "answered"}
  BY DEF Drops
<1>3. ASSUME NEW e \in Call, Intent(v, q, e) PROVE MayDrop(w, r)
  <2>1. CASE Checked(v, q)
    <3>1. Pc(v, q, e, "open") /\ drive[v][q].pc[e] = "idle"
      BY <1>3, <2>1 DEF Intent
    <3> QED
      BY <1>1, <1>2, <3>1, PcMoves, OwnCalls
  <2>2. CASE ~Checked(v, q)
    <3>1. Over(v, q, "interrupted", Refusal(v, q))
      BY <1>3, <2>2 DEF Intent
    <3>2. w = v /\ r = q
      BY <1>1, <3>1, OverEnds, OwnCalls
    <3> QED
      BY <1>1, <2>2, <3>1, <3>2, RefusedMayDrop
  <2> QED
    BY <2>1, <2>2
<1>4. ASSUME NEW e \in Call, Dispatch(v, q, e) PROVE MayDrop(w, r)
  <2>1. CASE Checked(v, q)
    <3>1. Pc(v, q, e, "sent")
      BY <1>4, <2>1 DEF Dispatch
    <3> QED
      BY <1>1, <1>2, <3>1, PcMoves, OwnCalls
  <2>2. CASE ~Checked(v, q)
    <3>1. Over(v, q, "interrupted", Refusal(v, q))
      BY <1>4, <2>2 DEF Dispatch
    <3>2. w = v /\ r = q
      BY <1>1, <3>1, OverEnds, OwnCalls
    <3> QED
      BY <1>1, <2>2, <3>1, <3>2, RefusedMayDrop
  <2> QED
    BY <2>1, <2>2
<1>5. ASSUME NEW e \in Call, Answer(v, q, e) PROVE MayDrop(w, r)
  <2>1. Pc(v, q, e, "answered")
    BY <1>5 DEF Answer
  <2> QED
    BY <1>1, <1>2, <2>1, PcMoves, OwnCalls
<1>6. ASSUME NEW e \in Call, Save(v, q, e) PROVE MayDrop(w, r)
  <2>1. CASE ~stopped /\ Authority(v, q)
    <3>1. Pc(v, q, e, "done") /\ drive[v][q].pc[e] = "answered"
      BY <1>6, <2>1 DEF Save
    <3> QED
      BY <1>1, <1>2, <3>1, PcMoves, OwnCalls
  <2>2. CASE ~(~stopped /\ Authority(v, q))
    <3>1. Over(v, q, "interrupted", Refusal(v, q))
      BY <1>6, <2>2 DEF Save
    <3>2. w = v /\ r = q
      BY <1>1, <3>1, OverEnds, OwnCalls
    <3> QED
      BY <2>2, <3>2 DEF MayDrop
  <2> QED
    BY <2>1, <2>2
<1>7. CASE Return(v, q)
  <2>1. \E out, why : Over(v, q, out, why)
    BY <1>7 DEF Return
  <2>2. w = v /\ r = q
    BY <1>1, <2>1, OverEnds, OwnCalls
  <2> QED
    BY <1>2, <1>7, <2>2 DEF Return
<1> QED
  BY <1>3, <1>4, <1>5, <1>6, <1>7 DEF Execution

\* The steps beside it, when the lease or the worker is lost.
LEMMA WatchDrops ==
    ASSUME Inv, NEW v \in Worker, NEW q \in Run,
           Heartbeat(v, q) \/ Stop(v, q) \/ Settle(v, q) \/ HeartbeatFails(v, q) \/ Signal(v, q),
           NEW w \in Worker, NEW r \in Run, NEW c \in Call, Drops(w, r, c)
    PROVE  MayDrop(w, r)
<1>1. TypeOK
  BY DEF Inv
<1>2. drive[w][r].pc[c] = "sent" /\ drive'[w][r].pc[c] \notin {"sent", "answered"} /\ wk[w].st = "up"
  BY DEF Drops
<1>3. CASE Heartbeat(v, q)
  <2>1. CASE stopped
    BY <2>1 DEF MayDrop
  <2>2. CASE ~stopped /\ ~Authority(v, q)
    <3>1. Drop(v, q, "lost", "lost")
      BY <1>3, <2>2 DEF Heartbeat
    <3> QED
      BY <1>1, <2>2, <3>1, DropMoves, OwnCalls DEF MayDrop
  <2>3. CASE ~stopped /\ Authority(v, q)
    <3>1. Move(v, q, "settle")
      BY <1>3, <2>3 DEF Heartbeat
    <3> QED
      BY <1>1, <1>2, <3>1, MoveKeeps, OwnCalls
  <2> QED
    BY <2>1, <2>2, <2>3
<1>4. CASE Stop(v, q)
  <2>1. wk[v].st = "draining" /\ OnlyMoves(v, q)
    BY <1>1, <1>4, DropMoves DEF Stop, Stopping
  <2> QED
    BY <1>2, <2>1, OwnCalls
<1>5. CASE Settle(v, q)
  <2>1. w = v /\ r = q
    BY <1>1, <1>5, DropMoves, OwnCalls DEF Settle
  <2>2. Open(v, q) # {}
    BY <1>2, <2>1 DEF Open
  <2> QED
    BY <1>5, <2>1, <2>2 DEF Settle, MayDrop
<1>6. CASE HeartbeatFails(v, q)
  <2>1. left'["fault"] < left["fault"]
    BY <1>1, <1>6, SpentFacts DEF HeartbeatFails, Kinds
  <2>2. left["fault"] \in Nat
    BY <1>1 DEF TypeOK, Kinds
  <2> QED
    BY <2>1, <2>2 DEF Drops
<1>7. CASE Signal(v, q)
  <2>1. Over(v, q, "interrupted", "lost") /\ row[q].state = "Cancelled"
    BY <1>7 DEF Signal
  <2>2. w = v /\ r = q
    BY <1>1, <2>1, OverEnds, OwnCalls
  <2> QED
    BY <2>1, <2>2 DEF MayDrop, Authority
<1> QED
  BY <1>3, <1>4, <1>5, <1>6, <1>7

\* Before the execution and after it a drive has no call to drop.
LEMMA QuietDrops ==
    ASSUME Inv, NEW v \in Worker, NEW q \in Run, ~Executes(v, q), Driving(v, q),
           NEW w \in Worker, NEW r \in Run, NEW c \in Call, Drops(w, r, c)
    PROVE  FALSE
<1>1. TypeOK
  BY DEF Inv
<1>2. \E d : Put(v, q, d)
  <2>1. CASE Abandon(v, q) \/ Claim(v, q) \/ GiveBack(v, q) \/ Yield(v, q) \/ Lost(v, q)
    BY <2>1 DEF Abandon, Claim, GiveBack, Yield, Lost, Leave
  <2>2. CASE Load(v, q) \/ Check(v, q) \/ LookStopped(v, q)
    BY <2>2 DEF Load, Check, LookStopped, Move, Over
  <2>3. CASE LookEnded(v, q) \/ Finish(v, q) \/ FinishUnfit(v, q)
    BY <2>3 DEF LookEnded, Finish, FinishUnfit, Leave, Move
  <2>4. CASE Execution(v, q) \/ Heartbeat(v, q) \/ Stop(v, q) \/ Settle(v, q)
    BY <2>4 DEF Execution, Intent, Dispatch, Answer, Save, Return, Heartbeat, Stop, Settle, At, Executes
  <2> QED
    BY <2>1, <2>2, <2>3, <2>4 DEF Driving
<1> QED
  BY <1>1, <1>2, PutOnly, OwnCalls

\* The worker's loop drops no call while the worker goes on.
LEMMA LoopDrops ==
    ASSUME Inv, NEW v \in Worker, Loop(v) \/ Shutdown(v) \/ Crash(v),
           NEW w \in Worker, NEW r \in Run, NEW c \in Call, Drops(w, r, c)
    PROVE  FALSE
<1>1. TypeOK
  BY DEF Inv
<1>2. /\ drive[w][r].pc[c] = "sent" /\ drive'[w][r].pc[c] \notin {"sent", "answered"}
      /\ wk'[w].st = "up" /\ drive[w][r].st \in {"run", "settle"}
  BY DEF Drops, Inv, DrivesAreSound
<1>3. CASE Spawn(v)
  <2>1. PICK new \in SUBSET (wk[v].due \ Drives(v)) :
            drive' = [drive EXCEPT ![v] =
                        [y \in Run |-> IF y \in new THEN [NoDrive EXCEPT !.st = "queued"] ELSE @[y]]]
    BY <1>3 DEF Spawn
  <2>2. ~(w = v /\ r \in new)
    BY <1>2, <2>1 DEF Drives
  <2>3. drive'[w][r] = drive[w][r]
    BY <1>1, <2>1, <2>2 DEF TypeOK
  <2> QED
    BY <1>2, <2>3
<1>4. CASE Crash(v)
  BY <1>1, <1>2, <1>4 DEF Crash, TypeOK
<1>5. CASE Poll(v) \/ Drained(v) \/ Restart(v) \/ Shutdown(v)
  BY <1>2, <1>5 DEF Poll, Drained, Restart, Shutdown
<1> QED
  BY <1>3, <1>4, <1>5 DEF Loop

\* Every step has a reason for the calls it drops.
LEMMA CallsAreKept ==
    ASSUME Inv, Next, NEW w \in Worker, NEW r \in Run, NEW c \in Call, Drops(w, r, c)
    PROVE  MayDrop(w, r)
<1>1. ASSUME NEW v \in Worker, Loop(v) \/ Shutdown(v) \/ Crash(v) PROVE MayDrop(w, r)
  BY <1>1, LoopDrops
<1>2. ASSUME NEW v \in Worker, NEW q \in Run, Driving(v, q) PROVE MayDrop(w, r)
  <2>1. CASE ~Executes(v, q)
    BY <1>2, <2>1, QuietDrops
  <2>2. CASE Executes(v, q)
    <3>1. Execution(v, q) \/ Heartbeat(v, q) \/ Stop(v, q) \/ Settle(v, q)
      BY <1>2, <2>2 DEF Driving, Executes, At, Abandon, Claim, Load, Check, GiveBack, Yield, Lost,
                        LookEnded, LookStopped, Finish, FinishUnfit
    <3> QED
      BY <3>1, ExecutionDrops, WatchDrops
  <2> QED
    BY <2>1, <2>2
<1>3. ASSUME NEW v \in Worker, NEW q \in Run, HeartbeatFails(v, q) \/ Signal(v, q) PROVE MayDrop(w, r)
  BY <1>3, WatchDrops
<1>4. ASSUME drive' = drive PROVE MayDrop(w, r)
  BY <1>4 DEF Drops
<1>5. ASSUME NEW q \in Run, Hold(q) \/ Unhold(q) \/ Cancel(q) \/ Lapse(q) \/ Due(q) PROVE MayDrop(w, r)
  BY <1>4, <1>5 DEF Hold, Unhold, Cancel, Lapse, Due
<1>6. CASE EmergencyStop \/ ClearStop
  BY <1>4, <1>6 DEF EmergencyStop, ClearStop
<1> QED
  BY <1>1, <1>2, <1>3, <1>5, <1>6 DEF Next

\* While its worker goes on, a call in flight is dropped only for the lease, the
\* emergency stop, or a step of another branch that a hold refused (settle_held,
\* execute).
THEOREM HoldsKeepCalls == Spec => HoldKeepsCalls
<1>1. Inv /\ [Next]_vars => [\A w \in Worker, r \in Run, c \in Call :
          Drops(w, r, c) => \/ stopped \/ ~Authority(w, r)
                            \/ row[r].held /\ drive'[w][r].st = "ended"]_vars
  BY CallsAreKept DEF MayDrop
<1> QED
  BY <1>1, Invariance, PTL DEF Spec, HoldKeepsCalls

-----------------------------------------------------------------------------
(* Notices, which the same workers hand on, for any number of notices and    *)
(* workers, any page and any ceiling of the backoff.  A notice is gone only  *)
(* when it was handed on because whoever is past the sink holds an accepted  *)
(* one; it is reported once because at most one worker removed it.           *)

CONSTANTS N, Page, MaxDelay, Bad, MaxFaults

VARIABLES pending, pc, page, backoff, stopping, faults, committed, published, accepted, reported, owed

Notify == INSTANCE Notices

\* The notice that a worker is about to hand on.
First(w) == page[w][1]

HandTyped ==
    /\ pending \subseteq committed /\ committed \subseteq Notify!Notice
    /\ pc \in [Worker -> {"idle", "loop", "publish", "sink", "ack", "report", "forget", "down"}]
    /\ page \in [Worker -> Seq(Notify!Notice)]
    /\ stopping \in [Worker -> BOOLEAN]
    /\ backoff \in [Worker -> [Notify!Notice -> Notify!Backoff]]
    /\ owed \in [Worker -> [Notify!Notice -> 0..MaxDelay]]
    /\ reported \in [Notify!Notice -> {0, 1}]

\* A worker is about to hand something on, of the notices that were committed.
Pages ==
    \A w \in Worker :
        /\ Len(page[w]) <= Page /\ Notify!Listed(page[w]) \subseteq committed
        /\ pc[w] \notin {"idle", "loop", "down"} => page[w] # <<>>

\* Whoever is past a stage has passed it with the notice it holds.
Handed ==
    /\ accepted \subseteq committed
    /\ committed \ pending \subseteq published \cap accepted
    /\ \A w \in Worker :
          /\ pc[w] \in {"sink", "ack", "report", "forget"} => First(w) \in published
          /\ pc[w] \in {"ack", "report", "forget"} => First(w) \in accepted

\* One worker removed the notice it reports, and nobody has reported it.
RemovedByOne ==
    /\ \A n \in Notify!Notice : reported[n] = 1 => n \in accepted \ pending
    /\ \A w \in Worker : pc[w] = "report" => First(w) \notin pending /\ reported[First(w)] = 0
    /\ \A v, w \in Worker : pc[v] = "report" /\ pc[w] = "report" /\ First(v) = First(w) => v = w

\* What a worker remembers is of the notices of one page.
RemembersPage ==
    \A w \in Worker : \E S \in SUBSET Notify!Notice :
        /\ Cardinality(S) <= Page /\ Notify!Listed(page[w]) \subseteq S
        /\ {n \in Notify!Notice : backoff[w][n].delay > 0} \subseteq S

HandInv == HandTyped /\ Pages /\ Handed /\ RemovedByOne /\ RemembersPage

LEMMA SameNoticeCount == ASSUME NEW S PROVE Notify!Cardinality(S) = Cardinality(S)
  BY DEF Notify!Cardinality, Cardinality

\* A set of numbers has a least one.
LEMMA LeastNat ==
    ASSUME NEW S \in SUBSET Nat, S # {}
    PROVE  \E m \in S : \A n \in S : m <= n
<1> DEFINE T == {0..n : n \in S}
<1>1. T \subseteq FiniteSubsetsOf(Nat)
  <2>1. \A n \in S : IsFiniteSet(0..n)
    BY FS_Interval
  <2>2. \A n \in S : 0..n \in SUBSET Nat
    OBVIOUS
  <2> QED BY <2>1, <2>2 DEF FiniteSubsetsOf
<1>2. PICK x \in T : \A y \in T : ~(<<y, x>> \in StrictSubsetOrdering(Nat))
  <2> HIDE DEF T
  <2>1. T # {}
    BY DEF T
  <2> QED BY <1>1, <2>1, FS_StrictSubsetOrderingWellFounded, WFMin
<1>3. PICK m \in S : x = 0..m
  OBVIOUS
<1>4. ASSUME NEW n \in S, n < m PROVE FALSE
  <2>1. <<0..n, 0..m>> \in StrictSubsetOrdering(Nat)
    BY <1>4 DEF StrictSubsetOrdering
  <2> QED BY <1>2, <1>3, <2>1
<1> QED BY <1>4

\* How many of S are no later than n.
Upto(S, n) == {m \in S : m <= n}
Rank(S, n) == Cardinality(Upto(S, n))

LEMMA UptoAll ==
    ASSUME NEW S \in SUBSET Nat, NEW n \in Nat, \A m \in S : m <= n
    PROVE  Upto(S, n) = S
  BY DEF Upto

LEMMA UptoIsFinite ==
    ASSUME NEW S \in SUBSET Nat, IsFiniteSet(S), NEW n \in Nat
    PROVE  IsFiniteSet(Upto(S, n)) /\ Rank(S, n) \in Nat
<1>1. Upto(S, n) \subseteq S
  BY DEF Upto
<1>2. IsFiniteSet(Upto(S, n))
  BY <1>1, FS_Subset
<1> QED BY <1>2, FS_CardinalityType DEF Rank

LEMMA RankStep ==
    ASSUME NEW S \in SUBSET Nat, IsFiniteSet(S), NEW n \in Nat
    PROVE  /\ n + 1 \in S => Rank(S, n + 1) = Rank(S, n) + 1
           /\ n + 1 \notin S => Rank(S, n + 1) = Rank(S, n)
<1>1. IsFiniteSet(Upto(S, n)) /\ Rank(S, n) \in Nat
  BY UptoIsFinite
<1>2. ASSUME NEW m \in S PROVE m <= n + 1 <=> m <= n \/ m = n + 1
  OBVIOUS
<1>3. n + 1 \notin Upto(S, n)
  BY DEF Upto
<1>4. CASE n + 1 \in S
  <2>1. Upto(S, n + 1) = Upto(S, n) \cup {n + 1}
    BY <1>2, <1>4 DEF Upto
  <2> QED BY <1>1, <1>3, <1>4, <2>1, FS_AddElement DEF Rank
<1>5. CASE n + 1 \notin S
  <2>1. Upto(S, n + 1) = Upto(S, n)
    BY <1>2, <1>5 DEF Upto
  <2> QED BY <1>5, <2>1 DEF Rank
<1> QED BY <1>4, <1>5

LEMMA RankGrows ==
    ASSUME NEW S \in SUBSET Nat, IsFiniteSet(S), NEW m \in S, NEW n \in S, m < n
    PROVE  Rank(S, m) < Rank(S, n)
<1>1. PICK k \in Nat : n = k + 1
  <2>1. n - 1 \in Nat /\ n = (n - 1) + 1
    OBVIOUS
  <2> QED BY <2>1
<1>2. ASSUME NEW x \in S, x <= m PROVE x <= k
  BY <1>1, <1>2
<1>3. Upto(S, m) \subseteq Upto(S, k)
  BY <1>2 DEF Upto
<1>4. IsFiniteSet(Upto(S, k)) /\ Rank(S, k) \in Nat /\ Rank(S, m) \in Nat
  BY UptoIsFinite
<1>5. Rank(S, m) <= Rank(S, k)
  BY <1>3, <1>4, FS_Subset DEF Rank
<1>6. Rank(S, n) = Rank(S, k) + 1
  BY <1>1, RankStep
<1> QED BY <1>4, <1>5, <1>6

\* Every rank up to their number is some notice's.
LEMMA RankTaken ==
    ASSUME NEW S \in SUBSET Nat, IsFiniteSet(S), NEW M \in Nat, \A m \in S : 1 <= m /\ m <= M,
           NEW i \in 1..Cardinality(S)
    PROVE  \E n \in S : Rank(S, n) = i
<1>1. Cardinality(S) \in Nat
  BY FS_CardinalityType
<1>2. i \in Nat /\ 1 <= i /\ i <= Cardinality(S)
  BY <1>1
<1> DEFINE T == {n \in Nat : Rank(S, n) >= i}
<1>3. M \in T
  <2>1. \A m \in S : m <= M
    OBVIOUS
  <2>2. Upto(S, M) = S
    BY <2>1, UptoAll
  <2> QED BY <1>2, <2>2 DEF Rank
<1>4. PICK n \in T : \A m \in T : n <= m
  <2>1. T \in SUBSET Nat /\ T # {}
    BY <1>3
  <2> HIDE DEF T
  <2> QED BY <2>1, LeastNat
<1>5. n \in Nat /\ Rank(S, n) >= i
  OBVIOUS
<1>6. n # 0
  <2>1. SUFFICES ASSUME n = 0 PROVE FALSE
    OBVIOUS
  <2>2. Upto(S, 0) = {}
    <3>1. ASSUME NEW m \in S, m <= 0 PROVE FALSE
      <4>1. m \in Nat /\ 1 <= m
        OBVIOUS
      <4> QED BY <3>1, <4>1
    <3> QED BY <3>1 DEF Upto
  <2>3. Rank(S, 0) = 0
    BY <2>2, FS_EmptySet DEF Rank
  <2> QED BY <1>2, <1>5, <2>1, <2>3
<1>7. PICK k \in Nat : n = k + 1
  <2>1. n - 1 \in Nat /\ n = (n - 1) + 1
    BY <1>5, <1>6
  <2> QED BY <2>1
<1>8. Rank(S, k) \in Nat /\ ~(Rank(S, k) >= i)
  <2>1. k \notin T
    BY <1>4, <1>7
  <2> QED BY <2>1, UptoIsFinite
<1>9. Rank(S, n) \in Nat
  BY <1>5, UptoIsFinite
<1> HIDE DEF T
<1>10. n \in S /\ Rank(S, n) = Rank(S, k) + 1
  BY <1>2, <1>5, <1>7, <1>8, <1>9, RankStep
<1> QED BY <1>2, <1>5, <1>8, <1>9, <1>10

\* A page lists, once each, notices that are pending: all of them if they fit.
LEMMA PageIs ==
    ASSUME Notify!NoticesAssumption, HandTyped
    PROVE  /\ Notify!FirstPage \in Seq(Notify!Notice) /\ Len(Notify!FirstPage) <= Page
           /\ Notify!Listed(Notify!FirstPage) \subseteq pending
           /\ Cardinality(Notify!Listed(Notify!FirstPage)) <= Page
           /\ N <= Page => Notify!Listed(Notify!FirstPage) = pending
<1>1. /\ N \in Nat /\ Page \in Nat /\ 1 <= Page /\ pending \subseteq Notify!Notice
      /\ Notify!Notice = 1..N
  BY DEF Notify!NoticesAssumption, HandTyped, Notify!Notice
<1>2. pending \in SUBSET Nat /\ \A m \in pending : 1 <= m /\ m <= N
  BY <1>1
<1>3. IsFiniteSet(pending) /\ Cardinality(pending) <= N
  <2>1. IsFiniteSet(1..N) /\ Cardinality(1..N) = N
    BY <1>1, FS_Interval
  <2> QED BY <1>1, <2>1, FS_Subset
<1>4. Cardinality(pending) \in Nat
  BY <1>3, FS_CardinalityType
<1> DEFINE size == IF Cardinality(pending) < Page THEN Cardinality(pending) ELSE Page
           first == IF Notify!Cardinality(pending) < Page THEN Notify!Cardinality(pending) ELSE Page
           pick(i) == CHOOSE n \in pending : Notify!Cardinality({m \in pending : m <= n}) = i
<1>5. size \in Nat /\ size <= Page /\ size <= Cardinality(pending)
  BY <1>1, <1>4
<1>6. Notify!FirstPage = [i \in 1..size |-> pick(i)]
  <2>1. Notify!FirstPage = [i \in 1..first |-> pick(i)]
    BY Zenon DEF Notify!FirstPage
  <2>2. first = size
    BY SameNoticeCount
  <2> QED BY <2>1, <2>2
<1>7. ASSUME NEW i \in 1..size PROVE pick(i) \in pending /\ Rank(pending, pick(i)) = i
  <2>1. i \in 1..Cardinality(pending)
    BY <1>4, <1>5
  <2>2. PICK n \in pending : Rank(pending, n) = i
    BY <1>1, <1>2, <1>3, <2>1, RankTaken
  <2>3. \A k : Notify!Cardinality({m \in pending : m <= k}) = Rank(pending, k)
    BY SameNoticeCount DEF Rank, Upto
  <2>4. Notify!Cardinality({m \in pending : m <= n}) = i
    BY <2>2, <2>3
  <2>5. pick(i) \in pending /\ Notify!Cardinality({m \in pending : m <= pick(i)}) = i
    BY <2>4
  <2> QED BY <2>3, <2>5
<1> HIDE DEF size, first, pick
<1> DEFINE s == Notify!FirstPage
<1>8. s \in Seq(Notify!Notice) /\ Len(s) = size /\ DOMAIN s = 1..size
  <2>1. \A i \in 1..size : pick(i) \in Notify!Notice
    BY <1>1, <1>7
  <2> QED BY <1>5, <1>6, <2>1
<1>9. Notify!Listed(s) \subseteq pending
  BY <1>6, <1>7, <1>8 DEF Notify!Listed
<1>10. Cardinality(Notify!Listed(s)) <= Page
  <2>1. IsFiniteSet(1..size) /\ Cardinality(1..size) = size
    BY <1>5, FS_Interval
  <2>2. s \in Surjection(1..size, Notify!Listed(s))
    <3>1. s \in [1..size -> Notify!Listed(s)]
      BY <1>6, <1>8 DEF Notify!Listed
    <3>2. \A x \in Notify!Listed(s) : \E i \in 1..size : s[i] = x
      BY <1>8 DEF Notify!Listed
    <3> QED BY <3>1, <3>2 DEF Surjection
  <2>3. Cardinality(Notify!Listed(s)) <= size
    BY <2>1, <2>2, FS_Surjection
  <2>4. Cardinality(Notify!Listed(s)) \in Nat
    BY <2>1, <2>2, FS_Surjection, FS_CardinalityType
  <2> QED BY <1>1, <1>5, <2>3, <2>4
<1>11. ASSUME N <= Page, NEW n \in pending PROVE n \in Notify!Listed(s)
  <2>1. size = Cardinality(pending)
    BY <1>1, <1>3, <1>4, <1>11 DEF size
  <2>2. PICK i \in Nat : i = Rank(pending, n)
    BY <1>2, <1>3, UptoIsFinite
  <2>3. i \in 1..size
    <3>1. Upto(pending, n) \subseteq pending /\ n \in Upto(pending, n)
      BY <1>2 DEF Upto
    <3>2. IsFiniteSet(Upto(pending, n)) /\ Rank(pending, n) <= Cardinality(pending)
      BY <1>3, <3>1, FS_Subset DEF Rank
    <3>3. i # 0
      BY <2>2, <3>1, <3>2, FS_EmptySet DEF Rank
    <3> QED BY <1>4, <2>1, <2>2, <3>2, <3>3
  <2>4. pick(i) \in pending /\ Rank(pending, pick(i)) = i
    BY <1>7, <2>3
  <2>5. pick(i) = n
    <3>1. PICK m \in pending : m = pick(i) /\ Rank(pending, m) = Rank(pending, n)
      BY <2>2, <2>4
    <3>2. ~(m < n) /\ ~(n < m)
      <4>1. Rank(pending, n) \in Nat
        BY <2>2
      <4> QED BY <1>2, <1>3, <3>1, <4>1, RankGrows
    <3> QED BY <1>2, <3>1, <3>2
  <2> QED BY <1>6, <1>8, <2>3, <2>5 DEF Notify!Listed
<1> QED BY <1>5, <1>8, <1>9, <1>10, <1>11

-----------------------------------------------------------------------------

LEMMA ListedOfTail ==
    ASSUME NEW S, NEW s \in Seq(S), s # <<>>
    PROVE  /\ Tail(s) \in Seq(S) /\ Len(Tail(s)) <= Len(s) /\ s[1] \in Notify!Listed(s)
           /\ Notify!Listed(Tail(s)) \subseteq Notify!Listed(s)
<1>1. /\ Tail(s) \in Seq(S) /\ Len(s) \in Nat /\ Len(s) > 0 /\ Len(Tail(s)) = Len(s) - 1
      /\ \A i \in 1..(Len(s) - 1) : Tail(s)[i] = s[i + 1]
  OBVIOUS
<1>2. \A i \in DOMAIN Tail(s) : i + 1 \in DOMAIN s /\ Tail(s)[i] = s[i + 1]
  BY <1>1
<1>3. 1 \in DOMAIN s
  BY <1>1
<1> QED BY <1>1, <1>2, <1>3 DEF Notify!Listed

LEMMA NothingListed == Notify!Listed(<<>>) = {}
  BY DEF Notify!Listed

\* A worker that hands something on holds a committed notice.
LEMMA FirstIsCommitted ==
    ASSUME HandTyped, Pages, NEW w \in Worker, page[w] # <<>>
    PROVE  First(w) \in committed /\ First(w) \in Notify!Notice
<1>1. page[w] \in Seq(Notify!Notice)
  BY DEF HandTyped
<1>2. page[w][1] \in Notify!Listed(page[w])
  BY <1>1, ListedOfTail
<1> QED BY <1>2 DEF Pages, HandTyped, First

LEMMA DelayIs ==
    ASSUME Notify!NoticesAssumption, NEW d \in 0..MaxDelay
    PROVE  Notify!Delay(d) \in 0..MaxDelay /\ Notify!Delay(d) > 0
  BY DEF Notify!Delay, Notify!NoticesAssumption

\* What one worker's step may do to the page and the memory of a worker.
LEMMA TypedMemory ==
    ASSUME HandTyped, NEW w \in Worker, NEW n \in Notify!Notice, NEW b \in Notify!Backoff, NEW x \in 0..MaxDelay,
           backoff' = [backoff EXCEPT ![w][n] = b], owed' = [owed EXCEPT ![w][n] = x]
    PROVE  /\ backoff' \in [Worker -> [Notify!Notice -> Notify!Backoff]]
           /\ owed' \in [Worker -> [Notify!Notice -> 0..MaxDelay]]
           /\ backoff'[w][n] = b /\ owed'[w][n] = x
           /\ \A v \in Worker, m \in Notify!Notice :
                 v # w \/ m # n => backoff'[v][m] = backoff[v][m] /\ owed'[v][m] = owed[v][m]
<1>1. backoff \in [Worker -> [Notify!Notice -> Notify!Backoff]] /\ owed \in [Worker -> [Notify!Notice -> 0..MaxDelay]]
  BY DEF HandTyped
<1> QED BY <1>1

LEMMA InitHand == ASSUME Notify!NoticesAssumption, Notify!Init PROVE HandInv
<1>1. N \in Nat /\ MaxDelay \in Nat /\ Page \in Nat
  BY DEF Notify!NoticesAssumption
<1>2. [delay |-> 0, wait |-> 0] \in Notify!Backoff /\ 0 \in 0..MaxDelay
  BY <1>1 DEF Notify!Backoff
<1>3. HandTyped
  BY <1>1, <1>2 DEF HandTyped, Notify!Init, Notify!NoBackoff, Notify!NothingOwed
<1>4. Pages
  BY <1>1, NothingListed DEF Pages, Notify!Init
<1>5. Handed
  BY DEF Handed, Notify!Init
<1>6. RemovedByOne
  BY DEF RemovedByOne, Notify!Init
<1>7. RemembersPage
  <2>1. Cardinality({}) = 0
    BY FS_EmptySet
  <2>2. ASSUME NEW w \in Worker
        PROVE  Notify!Listed(page[w]) = {} /\ {n \in Notify!Notice : backoff[w][n].delay > 0} = {}
    BY <1>1, NothingListed DEF Notify!Init, Notify!NoBackoff
  <2> QED BY <1>1, <2>1, <2>2 DEF RemembersPage
<1> QED BY <1>3, <1>4, <1>5, <1>6, <1>7 DEF HandInv

LEMMA CommitNotice ==
    ASSUME Notify!NoticesAssumption, HandInv, NEW n \in Notify!Notice, Notify!Commit(n) PROVE HandInv'
<1> USE DEF Notify!Commit, Notify!worker
<1>1. HandTyped'
  BY DEF HandInv, HandTyped
<1>2. Pages'
  BY DEF HandInv, Pages
<1>3. Handed'
  BY DEF HandInv, Handed, First
<1>4. RemovedByOne'
  <2>1. ASSUME NEW w \in Worker, pc[w] = "report" PROVE First(w) # n
    BY <2>1, FirstIsCommitted DEF HandInv, Pages
  <2> QED BY <2>1 DEF HandInv, RemovedByOne, Handed, First
<1>5. RemembersPage'
  BY DEF HandInv, RemembersPage
<1> QED BY <1>1, <1>2, <1>3, <1>4, <1>5 DEF HandInv

-----------------------------------------------------------------------------
\* A step after which no worker is past another stage with its notice.
LEMMA QuietStep ==
    ASSUME HandInv, pending' = pending, committed' = committed, reported' = reported,
           published \subseteq published', accepted \subseteq accepted', accepted' \subseteq committed,
           \A v \in Worker : \/ pc'[v] \in {"idle", "loop", "publish", "down"}
                             \/ pc'[v] = pc[v] /\ page'[v] = page[v]
    PROVE  Handed' /\ RemovedByOne'
<1>1. ASSUME NEW v \in Worker, pc'[v] \notin {"idle", "loop", "publish", "down"}
      PROVE  pc'[v] = pc[v] /\ First(v)' = First(v)
  BY <1>1 DEF First
<1>2. Handed'
  BY <1>1 DEF HandInv, Handed
<1>3. RemovedByOne'
  BY <1>1 DEF HandInv, RemovedByOne
<1> QED BY <1>2, <1>3

\* A step after which every page is what is left of it, and what a worker newly
\* remembers is of its page.
LEMMA ShrinkStep ==
    ASSUME HandInv, HandTyped', committed' = committed,
           \A v \in Worker :
              /\ Len(page'[v]) <= Len(page[v]) /\ Notify!Listed(page'[v]) \subseteq Notify!Listed(page[v])
              /\ pc'[v] \notin {"idle", "loop", "down"} => page'[v] # <<>>
              /\ \A n \in Notify!Notice :
                    backoff'[v][n].delay > 0 => backoff[v][n].delay > 0 \/ n \in Notify!Listed(page[v])
    PROVE  Notify!NoticesAssumption => Pages' /\ RemembersPage'
<1> SUFFICES ASSUME Notify!NoticesAssumption PROVE Pages' /\ RemembersPage'
  OBVIOUS
<1>1. Pages'
  <2> SUFFICES ASSUME NEW v \in Worker
               PROVE  Len(page'[v]) <= Page /\ Notify!Listed(page'[v]) \subseteq committed
    BY DEF Pages
  <2>1. Len(page[v]) \in Nat /\ Len(page'[v]) \in Nat /\ Page \in Nat
    BY DEF HandInv, HandTyped, Notify!NoticesAssumption
  <2>2. Len(page[v]) <= Page /\ Notify!Listed(page[v]) \subseteq committed
    BY DEF HandInv, Pages
  <2> QED BY <2>1, <2>2
<1>2. RemembersPage'
  <2> SUFFICES ASSUME NEW v \in Worker
               PROVE  \E S \in SUBSET Notify!Notice :
                         /\ Cardinality(S) <= Page /\ Notify!Listed(page'[v]) \subseteq S
                         /\ {n \in Notify!Notice : backoff'[v][n].delay > 0} \subseteq S
    BY DEF RemembersPage
  <2>1. PICK S \in SUBSET Notify!Notice :
            /\ Cardinality(S) <= Page /\ Notify!Listed(page[v]) \subseteq S
            /\ {n \in Notify!Notice : backoff[v][n].delay > 0} \subseteq S
    BY DEF HandInv, RemembersPage
  <2>2. Notify!Listed(page'[v]) \subseteq S
    BY <2>1
  <2>3. \A n \in Notify!Notice : backoff'[v][n].delay > 0 => n \in S
    BY <2>1
  <2> QED BY <2>1, <2>2, <2>3
<1> QED BY <1>1, <1>2

\* A worker's page and place, typed and of the others unchanged.
LEMMA OneWorker ==
    ASSUME HandTyped, NEW w \in Worker,
           NEW x \in {"idle", "loop", "publish", "sink", "ack", "report", "forget", "down"}, pc' = [pc EXCEPT ![w] = x]
    PROVE  /\ pc' \in [Worker -> {"idle", "loop", "publish", "sink", "ack", "report", "forget", "down"}]
           /\ pc'[w] = x /\ \A v \in Worker : v # w => pc'[v] = pc[v]
  BY DEF HandTyped

LEMMA OnePage ==
    ASSUME HandTyped, NEW w \in Worker, NEW s \in Seq(Notify!Notice), page' = [page EXCEPT ![w] = s]
    PROVE  /\ page' \in [Worker -> Seq(Notify!Notice)]
           /\ page'[w] = s /\ \A v \in Worker : v # w => page'[v] = page[v]
  BY DEF HandTyped

LEMMA ReadStep ==
    ASSUME Notify!NoticesAssumption, HandInv, NEW w \in Worker, Notify!Read(w) PROVE HandInv'
<1> DEFINE s == Notify!FirstPage
<1>1. /\ pc' = [pc EXCEPT ![w] = "loop"] /\ page' = [page EXCEPT ![w] = s]
      /\ backoff' = [backoff EXCEPT ![w] = Notify!Retain(backoff[w], s)]
      /\ UNCHANGED <<pending, stopping, faults, committed, published, accepted, reported, owed>>
  BY DEF Notify!Read, Notify!history
<1>2. HandTyped
  BY DEF HandInv
<1>3. /\ s \in Seq(Notify!Notice) /\ Len(s) <= Page /\ Notify!Listed(s) \subseteq pending
      /\ Cardinality(Notify!Listed(s)) <= Page
  BY <1>2, PageIs
<1> HIDE DEF s
<1>4. [delay |-> 0, wait |-> 0] \in Notify!Backoff
  BY DEF Notify!Backoff, Notify!NoticesAssumption
<1>5. /\ Notify!Retain(backoff[w], s) \in [Notify!Notice -> Notify!Backoff]
      /\ \A n \in Notify!Notice : Notify!Retain(backoff[w], s)[n].delay > 0 => n \in Notify!Listed(s)
  BY <1>2, <1>4 DEF HandTyped, Notify!Retain, Notify!NoBackoff
<1>6. HandTyped'
  <2>1. backoff' \in [Worker -> [Notify!Notice -> Notify!Backoff]]
    BY <1>1, <1>2, <1>5 DEF HandTyped
  <2> QED BY <1>1, <1>2, <1>3, <2>1, OneWorker, OnePage DEF HandTyped
<1>7. Handed' /\ RemovedByOne'
  <2>1. \A v \in Worker : \/ pc'[v] \in {"idle", "loop", "publish", "down"}
                          \/ pc'[v] = pc[v] /\ page'[v] = page[v]
    BY <1>1, <1>2, <1>3, OneWorker, OnePage
  <2>2. accepted \subseteq committed
    BY DEF HandInv, Handed
  <2> QED BY <1>1, <2>1, <2>2, QuietStep
<1>8. Pages'
  <2>1. pending \subseteq committed
    BY <1>2 DEF HandTyped
  <2> QED BY <1>1, <1>2, <1>3, <2>1, OneWorker, OnePage DEF HandInv, Pages
<1>9. RemembersPage'
  <2> SUFFICES ASSUME NEW v \in Worker
               PROVE  \E S \in SUBSET Notify!Notice :
                         /\ Cardinality(S) <= Page /\ Notify!Listed(page'[v]) \subseteq S
                         /\ {n \in Notify!Notice : backoff'[v][n].delay > 0} \subseteq S
    BY DEF RemembersPage
  <2>1. CASE v # w
    <3>1. page'[v] = page[v] /\ backoff'[v] = backoff[v]
      BY <1>1, <1>2, <1>3, <2>1, OnePage DEF HandTyped
    <3> QED BY <3>1 DEF HandInv, RemembersPage
  <2>2. CASE v = w
    <3>1. page'[v] = s /\ backoff'[v] = Notify!Retain(backoff[w], s)
      BY <1>1, <1>2, <1>3, <2>2, OnePage DEF HandTyped
    <3>2. Notify!Listed(s) \in SUBSET Notify!Notice
      BY <1>2, <1>3 DEF HandTyped
    <3> QED BY <1>3, <1>5, <3>1, <3>2
  <2> QED BY <2>1, <2>2
<1> QED BY <1>6, <1>7, <1>8, <1>9 DEF HandInv

\* The place a step leaves worker w at, and the page it leaves it.
Left(w) ==
    \/ pc'[w] \in {"idle", "loop", "down"}
    \/ pc'[w] = "publish" /\ page'[w] # <<>>
    \/ pc'[w] = pc[w] /\ page'[w] = page[w]
Leaves(w) ==
    \/ page'[w] = page[w]
    \/ page'[w] = <<>>
    \/ page[w] # <<>> /\ page'[w] = Tail(page[w])

\* What a worker newly remembers is of its page.
Remembers ==
    \A v \in Worker, n \in Notify!Notice :
        backoff'[v][n].delay > 0 => backoff[v][n].delay > 0 \/ n \in Notify!Listed(page[v])

\* A step of one worker, by what it does to the page and the memory, in which
\* no worker comes past another stage.
LEMMA PlainStep ==
    ASSUME Notify!NoticesAssumption, HandInv, HandTyped', NEW w \in Worker,
           pending' = pending, committed' = committed, reported' = reported,
           published \subseteq published', accepted \subseteq accepted', accepted' \subseteq committed,
           \A v \in Worker : v # w => pc'[v] = pc[v] /\ page'[v] = page[v],
           Left(w), Leaves(w), Remembers
    PROVE  HandInv'
<1> USE DEF Left, Leaves, Remembers
<1>1. Handed' /\ RemovedByOne'
  BY QuietStep
<1>2. ASSUME NEW v \in Worker
      PROVE  /\ Len(page'[v]) <= Len(page[v]) /\ Notify!Listed(page'[v]) \subseteq Notify!Listed(page[v])
             /\ pc'[v] \notin {"idle", "loop", "down"} => page'[v] # <<>>
  <2>1. page[v] \in Seq(Notify!Notice) /\ Len(page[v]) \in Nat /\ Len(<<>>) = 0
    BY DEF HandInv, HandTyped
  <2>2. Len(page'[v]) <= Len(page[v]) /\ Notify!Listed(page'[v]) \subseteq Notify!Listed(page[v])
    <3>1. CASE page'[v] = page[v]
      BY <2>1, <3>1
    <3>2. CASE page'[v] = <<>>
      BY <2>1, <3>2, NothingListed
    <3>3. CASE page[v] # <<>> /\ page'[v] = Tail(page[v])
      BY <2>1, <3>3, ListedOfTail
    <3> QED BY <3>1, <3>2, <3>3
  <2>3. pc'[v] \notin {"idle", "loop", "down"} => page'[v] # <<>>
    BY DEF HandInv, Pages
  <2> QED BY <2>2, <2>3
<1>3. Pages' /\ RemembersPage'
  BY <1>2, ShrinkStep
<1> QED BY <1>1, <1>3 DEF HandInv

LEMMA TurnStep ==
    ASSUME Notify!NoticesAssumption, HandInv, NEW w \in Worker, Notify!Turn(w) PROVE HandInv'
<1>1. pc[w] = "loop" /\ UNCHANGED <<pending, backoff, stopping, faults, committed, published, accepted, reported, owed>>
  BY DEF Notify!Turn, Notify!history
<1>2. HandTyped /\ accepted \subseteq committed
  BY DEF HandInv, Handed
<1>3. page[w] \in Seq(Notify!Notice) /\ <<>> \in Seq(Notify!Notice)
  BY <1>2 DEF HandTyped
<1>4. CASE /\ pc' = [pc EXCEPT ![w] = IF stopping[w] THEN "down" ELSE "idle"]
           /\ page' = [page EXCEPT ![w] = <<>>]
  <2>1. HandTyped'
    BY <1>1, <1>2, <1>3, <1>4, OneWorker, OnePage DEF HandTyped
  <2>2. pc'[w] \in {"idle", "down"} /\ page'[w] = <<>> /\ \A v \in Worker : v # w => pc'[v] = pc[v] /\ page'[v] = page[v]
    BY <1>2, <1>3, <1>4, OneWorker, OnePage
  <2>3. Left(w) /\ Leaves(w) /\ Remembers
    BY <1>1, <2>2 DEF Left, Leaves, Remembers
  <2> QED BY <1>1, <1>2, <2>1, <2>2, <2>3, PlainStep
<1>5. CASE page[w] # <<>> /\ page' = [page EXCEPT ![w] = Tail(@)] /\ UNCHANGED pc
  <2>1. Tail(page[w]) \in Seq(Notify!Notice)
    BY <1>3, <1>5, ListedOfTail
  <2>2. HandTyped'
    BY <1>1, <1>2, <1>5, <2>1, OnePage DEF HandTyped
  <2>3. page'[w] = Tail(page[w]) /\ \A v \in Worker : v # w => pc'[v] = pc[v] /\ page'[v] = page[v]
    BY <1>2, <1>5, <2>1, OnePage
  <2>4. Left(w) /\ Leaves(w) /\ Remembers
    BY <1>1, <1>5, <2>3 DEF Left, Leaves, Remembers
  <2> QED BY <1>1, <1>2, <2>2, <2>3, <2>4, PlainStep
<1>6. CASE page[w] # <<>> /\ pc' = [pc EXCEPT ![w] = "publish"] /\ UNCHANGED page
  <2>1. HandTyped'
    BY <1>1, <1>2, <1>6, OneWorker DEF HandTyped
  <2>2. pc'[w] = "publish" /\ \A v \in Worker : v # w => pc'[v] = pc[v] /\ page'[v] = page[v]
    BY <1>2, <1>6, OneWorker
  <2>3. Left(w) /\ Leaves(w) /\ Remembers
    BY <1>1, <1>6, <2>2 DEF Left, Leaves, Remembers
  <2> QED BY <1>1, <1>2, <2>1, <2>2, <2>3, PlainStep
<1> QED BY <1>4, <1>5, <1>6 DEF Notify!Turn

\* The notice is left for a later call.
LEMMA FailedStep ==
    ASSUME Notify!NoticesAssumption, HandInv, NEW w \in Worker, Notify!Failed(w),
           pc[w] \in {"publish", "sink"},
           UNCHANGED <<pending, stopping, faults, committed, published, accepted, reported>>
    PROVE  HandInv'
<1>1. HandTyped /\ accepted \subseteq committed /\ page[w] # <<>> /\ page[w] \in Seq(Notify!Notice)
  BY DEF HandInv, Handed, HandTyped, Pages
<1>2. PICK n \in Notify!Notice : n = First(w) /\ n \in Notify!Listed(page[w])
  BY <1>1, FirstIsCommitted, ListedOfTail DEF HandInv, First
<1>3. backoff[w][n].delay \in 0..MaxDelay
  BY <1>1 DEF HandTyped, Notify!Backoff
<1>4. PICK d \in 0..MaxDelay : d = Notify!Delay(backoff[w][n].delay)
  BY <1>3, DelayIs
<1>5. PICK b \in Notify!Backoff : b = [delay |-> d, wait |-> d]
  BY DEF Notify!Backoff
<1>6. /\ backoff' = [backoff EXCEPT ![w][n] = b] /\ owed' = [owed EXCEPT ![w][n] = d]
      /\ page' = [page EXCEPT ![w] = Tail(@)] /\ pc' = [pc EXCEPT ![w] = "loop"]
  BY <1>2, <1>4, <1>5 DEF Notify!Failed, Notify!Head1, First
<1>7. Tail(page[w]) \in Seq(Notify!Notice)
  BY <1>1, ListedOfTail
<1>8. HandTyped'
  <2>1. /\ backoff' \in [Worker -> [Notify!Notice -> Notify!Backoff]]
        /\ owed' \in [Worker -> [Notify!Notice -> 0..MaxDelay]]
    BY <1>1, <1>6, TypedMemory
  <2> QED BY <1>1, <1>6, <1>7, <2>1, OneWorker, OnePage DEF HandTyped
<1>9. Remembers
  BY <1>1, <1>2, <1>6, TypedMemory DEF Remembers
<1>10. /\ pc'[w] = "loop" /\ page'[w] = Tail(page[w])
       /\ \A v \in Worker : v # w => pc'[v] = pc[v] /\ page'[v] = page[v]
  BY <1>1, <1>6, <1>7, OneWorker, OnePage
<1>11. Left(w) /\ Leaves(w)
  BY <1>1, <1>10 DEF Left, Leaves
<1> QED BY <1>1, <1>8, <1>9, <1>10, <1>11, PlainStep

LEMMA PublishOkStep ==
    ASSUME Notify!NoticesAssumption, HandInv, NEW w \in Worker, Notify!PublishOk(w) PROVE HandInv'
<1>1. /\ pc[w] = "publish" /\ published' = published \union {First(w)} /\ pc' = [pc EXCEPT ![w] = "sink"]
      /\ UNCHANGED <<pending, page, backoff, stopping, faults, committed, accepted, reported, owed>>
  BY DEF Notify!PublishOk, Notify!Head1, First
<1>2. HandTyped /\ page[w] # <<>>
  BY <1>1 DEF HandInv, Pages
<1>3. pc'[w] = "sink" /\ \A v \in Worker : v # w => pc'[v] = pc[v]
  BY <1>1, <1>2, OneWorker
<1>4. HandTyped'
  BY <1>1, <1>2, OneWorker DEF HandTyped
<1>5. Handed'
  BY <1>1, <1>3 DEF HandInv, Handed, First
<1>6. RemovedByOne'
  BY <1>1, <1>3 DEF HandInv, RemovedByOne, First
<1>7. Pages'
  BY <1>1, <1>2, <1>3 DEF HandInv, Pages
<1>8. RemembersPage'
  BY <1>1 DEF HandInv, RemembersPage
<1> QED BY <1>4, <1>5, <1>6, <1>7, <1>8 DEF HandInv

LEMMA PublishFailStep ==
    ASSUME Notify!NoticesAssumption, HandInv, NEW w \in Worker, Notify!PublishFail(w) PROVE HandInv'
<1>1. pc[w] = "publish" /\ UNCHANGED <<pending, stopping, faults, committed, published, accepted, reported>>
  BY DEF Notify!PublishFail
<1>2. CASE Notify!Failed(w)
  BY <1>1, <1>2, FailedStep
<1>3. CASE /\ pc' = [pc EXCEPT ![w] = "down"] /\ page' = [page EXCEPT ![w] = <<>>]
           /\ UNCHANGED <<backoff, owed>>
  <2>1. HandTyped /\ accepted \subseteq committed /\ <<>> \in Seq(Notify!Notice)
    BY DEF HandInv, Handed
  <2>2. HandTyped'
    BY <1>1, <1>3, <2>1, OneWorker, OnePage DEF HandTyped
  <2>3. pc'[w] = "down" /\ page'[w] = <<>> /\ \A v \in Worker : v # w => pc'[v] = pc[v] /\ page'[v] = page[v]
    BY <1>3, <2>1, OneWorker, OnePage
  <2>4. Left(w) /\ Leaves(w) /\ Remembers
    BY <1>3, <2>3 DEF Left, Leaves, Remembers
  <2> QED BY <1>1, <2>1, <2>2, <2>3, <2>4, PlainStep
<1> QED BY <1>2, <1>3 DEF Notify!PublishFail

LEMMA SinkOkStep ==
    ASSUME Notify!NoticesAssumption, HandInv, NEW w \in Worker, Notify!SinkOk(w) PROVE HandInv'
<1>1. /\ pc[w] = "sink" /\ accepted' = accepted \union {First(w)} /\ pc' = [pc EXCEPT ![w] = "ack"]
      /\ UNCHANGED <<pending, page, backoff, stopping, faults, committed, published, reported, owed>>
  BY DEF Notify!SinkOk, Notify!Head1, First
<1>2. HandTyped /\ page[w] # <<>> /\ First(w) \in committed
  BY <1>1, FirstIsCommitted DEF HandInv, Pages
<1>3. pc'[w] = "ack" /\ \A v \in Worker : v # w => pc'[v] = pc[v]
  BY <1>1, <1>2, OneWorker
<1>4. HandTyped'
  BY <1>1, <1>2, OneWorker DEF HandTyped
<1>5. Handed'
  BY <1>1, <1>2, <1>3 DEF HandInv, Handed, First
<1>6. RemovedByOne'
  BY <1>1, <1>3 DEF HandInv, RemovedByOne, First
<1>7. Pages'
  BY <1>1, <1>2, <1>3 DEF HandInv, Pages
<1>8. RemembersPage'
  BY <1>1 DEF HandInv, RemembersPage
<1> QED BY <1>4, <1>5, <1>6, <1>7, <1>8 DEF HandInv

LEMMA SinkFailStep ==
    ASSUME Notify!NoticesAssumption, HandInv, NEW w \in Worker, Notify!SinkFail(w) PROVE HandInv'
  BY FailedStep DEF Notify!SinkFail

LEMMA SinkStoppedStep ==
    ASSUME Notify!NoticesAssumption, HandInv, NEW w \in Worker, Notify!SinkStopped(w) PROVE HandInv'
<1>1. /\ pc[w] = "sink" /\ accepted' \in {accepted, accepted \union {First(w)}}
      /\ pc' = [pc EXCEPT ![w] = "down"] /\ page' = [page EXCEPT ![w] = <<>>]
      /\ UNCHANGED <<pending, backoff, stopping, faults, committed, published, reported, owed>>
  BY DEF Notify!SinkStopped, Notify!Head1, First
<1>2. HandTyped /\ accepted \subseteq committed /\ <<>> \in Seq(Notify!Notice) /\ First(w) \in committed
  BY <1>1, FirstIsCommitted DEF HandInv, Handed, Pages
<1>3. HandTyped'
  BY <1>1, <1>2, OneWorker, OnePage DEF HandTyped
<1>4. pc'[w] = "down" /\ page'[w] = <<>> /\ \A v \in Worker : v # w => pc'[v] = pc[v] /\ page'[v] = page[v]
  BY <1>1, <1>2, OneWorker, OnePage
<1>5. Left(w) /\ Leaves(w) /\ Remembers
  BY <1>1, <1>4 DEF Left, Leaves, Remembers
<1>6. accepted \subseteq accepted' /\ accepted' \subseteq committed
  BY <1>1, <1>2
<1> QED BY <1>1, <1>3, <1>4, <1>5, <1>6, PlainStep

LEMMA AcknowledgeStep ==
    ASSUME Notify!NoticesAssumption, HandInv, NEW w \in Worker, Notify!Acknowledge(w) PROVE HandInv'
<1> DEFINE n == First(w)
           to == IF n \in pending THEN "report" ELSE "forget"
<1>1. /\ pc[w] = "ack" /\ pending' = pending \ {n} /\ pc' = [pc EXCEPT ![w] = to]
      /\ UNCHANGED <<page, backoff, stopping, faults, committed, published, accepted, reported, owed>>
  BY DEF Notify!Acknowledge, Notify!Head1, Notify!Removes, Notify!history, First
<1>2. HandTyped /\ page[w] # <<>> /\ n \in committed /\ n \in Notify!Notice
  BY <1>1, FirstIsCommitted DEF HandInv, Pages
<1>3. /\ pc'[w] = to /\ \A v \in Worker : v # w => pc'[v] = pc[v]
      /\ pc' \in [Worker -> {"idle", "loop", "publish", "sink", "ack", "report", "forget", "down"}]
  BY <1>1, <1>2, OneWorker
<1>4. \A v \in Worker : First(v)' = First(v)
  BY <1>1 DEF First
<1> HIDE DEF n
<1>5. HandTyped'
  BY <1>1, <1>2, <1>3 DEF HandTyped
<1>6. n \in published /\ n \in accepted
  BY <1>1 DEF HandInv, Handed, n
<1>7. Handed'
  BY <1>1, <1>3, <1>4, <1>6 DEF HandInv, Handed, n
<1>8. n \in pending => reported[n] = 0
  BY <1>2 DEF HandInv, RemovedByOne, HandTyped
<1>9. RemovedByOne'
  <2>1. \A m \in Notify!Notice : reported'[m] = 1 => m \in accepted' \ pending'
    BY <1>1 DEF HandInv, RemovedByOne
  <2>2. ASSUME NEW v \in Worker, pc'[v] = "report"
        PROVE  First(v) \notin pending' /\ reported[First(v)] = 0
    BY <1>1, <1>3, <1>8, <2>2 DEF HandInv, RemovedByOne, n
  <2>3. ASSUME NEW v \in Worker, v # w, pc'[v] = "report", pc'[w] = "report" PROVE First(v) # n
    BY <1>3, <2>3 DEF HandInv, RemovedByOne
  <2> QED BY <1>1, <1>3, <1>4, <2>1, <2>2, <2>3 DEF HandInv, RemovedByOne, n
<1>10. Pages'
  BY <1>1, <1>2, <1>3 DEF HandInv, Pages
<1>11. RemembersPage'
  BY <1>1 DEF HandInv, RemembersPage
<1> QED BY <1>5, <1>7, <1>9, <1>10, <1>11 DEF HandInv

LEMMA ReportStep ==
    ASSUME Notify!NoticesAssumption, HandInv, NEW w \in Worker, Notify!Report(w) PROVE HandInv'
<1>1. /\ pc[w] = "report" /\ reported' = [reported EXCEPT ![First(w)] = @ + 1]
      /\ pc' = [pc EXCEPT ![w] = "forget"]
      /\ UNCHANGED <<pending, page, backoff, stopping, faults, committed, published, accepted, owed>>
  BY DEF Notify!Report, Notify!Head1, First
<1>2. HandTyped /\ page[w] # <<>> /\ First(w) \in Notify!Notice
  BY <1>1, FirstIsCommitted DEF HandInv, Pages
<1>3. /\ pc'[w] = "forget" /\ \A v \in Worker : v # w => pc'[v] = pc[v]
      /\ pc' \in [Worker -> {"idle", "loop", "publish", "sink", "ack", "report", "forget", "down"}]
  BY <1>1, <1>2, OneWorker
<1>4. /\ First(w) \notin pending /\ reported[First(w)] = 0
      /\ First(w) \in accepted /\ First(w) \in published
  BY <1>1 DEF HandInv, RemovedByOne, Handed
<1>5. /\ reported' \in [Notify!Notice -> {0, 1}] /\ reported'[First(w)] = 1
      /\ \A m \in Notify!Notice : m # First(w) => reported'[m] = reported[m]
  <2>1. reported' = [reported EXCEPT ![First(w)] = 1]
    BY <1>1, <1>4
  <2> QED BY <1>2, <2>1 DEF HandTyped
<1>6. HandTyped'
  BY <1>1, <1>2, <1>3, <1>5 DEF HandTyped
<1>7. Handed'
  BY <1>1, <1>3, <1>4 DEF HandInv, Handed, First
<1>8. RemovedByOne'
  <2>1. ASSUME NEW v \in Worker, pc'[v] = "report"
        PROVE  /\ v # w /\ pc[v] = "report" /\ First(v) # First(w)
               /\ First(v) \in Notify!Notice
    BY <1>1, <1>2, <1>3, <2>1, FirstIsCommitted DEF HandInv, RemovedByOne, Pages
  <2>2. \A v \in Worker : First(v)' = First(v)
    BY <1>1 DEF First
  <2>3. \A m \in Notify!Notice : reported'[m] = 1 => m \in accepted' \ pending'
    BY <1>1, <1>4, <1>5 DEF HandInv, RemovedByOne
  <2>4. ASSUME NEW v \in Worker, pc'[v] = "report"
        PROVE  First(v)' \notin pending' /\ reported'[First(v)'] = 0
    BY <1>1, <1>5, <2>1, <2>2, <2>4 DEF HandInv, RemovedByOne
  <2>5. ASSUME NEW v \in Worker, NEW u \in Worker, pc'[v] = "report", pc'[u] = "report", First(v)' = First(u)'
        PROVE  v = u
    BY <2>1, <2>2, <2>5 DEF HandInv, RemovedByOne
  <2> QED BY <2>3, <2>4, <2>5 DEF RemovedByOne
<1>9. Pages'
  BY <1>1, <1>2, <1>3 DEF HandInv, Pages
<1>10. RemembersPage'
  BY <1>1 DEF HandInv, RemembersPage
<1> QED BY <1>6, <1>7, <1>8, <1>9, <1>10 DEF HandInv

LEMMA ForgetStep ==
    ASSUME Notify!NoticesAssumption, HandInv, NEW w \in Worker, Notify!Forget(w) PROVE HandInv'
<1>1. HandTyped /\ accepted \subseteq committed /\ page[w] # <<>> /\ page[w] \in Seq(Notify!Notice)
  BY DEF HandInv, Handed, HandTyped, Pages, Notify!Forget
<1>2. PICK n \in Notify!Notice : n = First(w)
  BY <1>1, FirstIsCommitted DEF HandInv
<1>3. PICK b \in Notify!Backoff : b = [delay |-> 0, wait |-> 0] /\ b.delay = 0
  <2>1. 0 \in 0..MaxDelay
    BY DEF Notify!NoticesAssumption
  <2>2. [delay |-> 0, wait |-> 0] \in Notify!Backoff
    BY <2>1 DEF Notify!Backoff
  <2> QED BY <2>2
<1>4. /\ backoff' = [backoff EXCEPT ![w][n] = b] /\ owed' = [owed EXCEPT ![w][n] = 0]
      /\ page' = [page EXCEPT ![w] = Tail(@)] /\ pc' = [pc EXCEPT ![w] = "loop"]
      /\ UNCHANGED <<pending, stopping, faults, committed, published, accepted, reported>>
  BY <1>2, <1>3 DEF Notify!Forget, Notify!Head1, First, Notify!NoBackoff
<1>5. Tail(page[w]) \in Seq(Notify!Notice) /\ 0 \in 0..MaxDelay
  BY <1>1, ListedOfTail DEF Notify!NoticesAssumption
<1>6. HandTyped'
  <2>1. /\ backoff' \in [Worker -> [Notify!Notice -> Notify!Backoff]]
        /\ owed' \in [Worker -> [Notify!Notice -> 0..MaxDelay]]
    BY <1>1, <1>4, <1>5, TypedMemory
  <2> QED BY <1>1, <1>4, <1>5, <2>1, OneWorker, OnePage DEF HandTyped
<1>7. Remembers
  BY <1>1, <1>3, <1>4, <1>5, TypedMemory DEF Remembers
<1>8. /\ pc'[w] = "loop" /\ page'[w] = Tail(page[w])
      /\ \A v \in Worker : v # w => pc'[v] = pc[v] /\ page'[v] = page[v]
  BY <1>1, <1>4, <1>5, OneWorker, OnePage
<1>9. Left(w) /\ Leaves(w)
  BY <1>1, <1>8 DEF Left, Leaves
<1> QED BY <1>1, <1>4, <1>6, <1>7, <1>8, <1>9, PlainStep

LEMMA StopNotices ==
    ASSUME Notify!NoticesAssumption, HandInv, NEW w \in Worker, Notify!Stop(w) PROVE HandInv'
<1> DEFINE to == IF pc[w] = "idle" THEN "down" ELSE pc[w]
<1>1. /\ stopping' = [stopping EXCEPT ![w] = TRUE] /\ pc' = [pc EXCEPT ![w] = to]
      /\ UNCHANGED <<pending, page, backoff, committed, published, accepted, reported, owed>>
  BY DEF Notify!Stop, Notify!history
<1>2. HandTyped /\ accepted \subseteq committed
  BY DEF HandInv, Handed
<1>3. /\ pc'[w] = to /\ \A v \in Worker : v # w => pc'[v] = pc[v]
      /\ pc' \in [Worker -> {"idle", "loop", "publish", "sink", "ack", "report", "forget", "down"}]
  <2>1. to \in {"idle", "loop", "publish", "sink", "ack", "report", "forget", "down"}
    BY <1>2 DEF HandTyped
  <2> HIDE DEF to
  <2> QED BY <1>1, <1>2, <2>1, OneWorker
<1>4. HandTyped'
  BY <1>1, <1>2, <1>3 DEF HandTyped
<1>5. Left(w) /\ Leaves(w) /\ Remembers
  BY <1>1, <1>3 DEF Left, Leaves, Remembers
<1> QED BY <1>1, <1>2, <1>3, <1>4, <1>5, PlainStep

LEMMA CrashNotices ==
    ASSUME Notify!NoticesAssumption, HandInv, NEW w \in Worker, Notify!Crash(w) PROVE HandInv'
<1>1. /\ pc' = [pc EXCEPT ![w] = "down"] /\ page' = [page EXCEPT ![w] = <<>>]
      /\ UNCHANGED <<pending, backoff, stopping, committed, published, accepted, reported, owed>>
  BY DEF Notify!Crash, Notify!history
<1>2. HandTyped /\ accepted \subseteq committed /\ <<>> \in Seq(Notify!Notice)
  BY DEF HandInv, Handed
<1>3. HandTyped'
  BY <1>1, <1>2, OneWorker, OnePage DEF HandTyped
<1>4. pc'[w] = "down" /\ page'[w] = <<>> /\ \A v \in Worker : v # w => pc'[v] = pc[v] /\ page'[v] = page[v]
  BY <1>1, <1>2, OneWorker, OnePage
<1>5. Left(w) /\ Leaves(w) /\ Remembers
  BY <1>1, <1>4 DEF Left, Leaves, Remembers
<1> QED BY <1>1, <1>2, <1>3, <1>4, <1>5, PlainStep

LEMMA RestartNotices ==
    ASSUME Notify!NoticesAssumption, HandInv, NEW w \in Worker, Notify!Restart(w) PROVE HandInv'
<1>1. /\ pc' = [pc EXCEPT ![w] = "idle"] /\ stopping' = [stopping EXCEPT ![w] = FALSE]
      /\ backoff' = [backoff EXCEPT ![w] = Notify!NoBackoff] /\ owed' = [owed EXCEPT ![w] = Notify!NothingOwed]
      /\ UNCHANGED <<pending, page, committed, published, accepted, reported>>
  BY DEF Notify!Restart
<1>2. HandTyped /\ accepted \subseteq committed
  BY DEF HandInv, Handed
<1>3. /\ Notify!NoBackoff \in [Notify!Notice -> Notify!Backoff]
      /\ Notify!NothingOwed \in [Notify!Notice -> 0..MaxDelay]
      /\ \A n \in Notify!Notice : Notify!NoBackoff[n].delay = 0
  BY DEF Notify!NoBackoff, Notify!NothingOwed, Notify!Backoff, Notify!NoticesAssumption
<1>4. HandTyped'
  <2>1. pc' \in [Worker -> {"idle", "loop", "publish", "sink", "ack", "report", "forget", "down"}]
    BY <1>1, <1>2, OneWorker
  <2> QED BY <1>1, <1>2, <1>3, <2>1 DEF HandTyped
<1>5. pc'[w] = "idle" /\ \A v \in Worker : v # w => pc'[v] = pc[v]
  BY <1>1, <1>2, OneWorker
<1>6. Remembers
  <2>1. ASSUME NEW v \in Worker, NEW n \in Notify!Notice, backoff'[v][n].delay > 0
        PROVE  backoff[v][n].delay > 0
    BY <1>1, <1>2, <1>3, <2>1 DEF HandTyped
  <2> QED BY <2>1 DEF Remembers
<1>7. Left(w) /\ Leaves(w)
  BY <1>1, <1>5 DEF Left, Leaves
<1> QED BY <1>1, <1>2, <1>4, <1>5, <1>6, <1>7, PlainStep

LEMMA TickNotices ==
    ASSUME Notify!NoticesAssumption, HandInv, Notify!Tick PROVE HandInv'
<1>1. /\ backoff' = [w \in Worker |-> [n \in Notify!Notice |->
                        [backoff[w][n] EXCEPT !.wait = Notify!Less(@)]]]
      /\ owed' = [w \in Worker |-> [n \in Notify!Notice |-> Notify!Less(owed[w][n])]]
      /\ UNCHANGED <<pending, pc, page, stopping, committed, published, accepted, reported>>
  BY DEF Notify!Tick
<1>2. HandTyped /\ MaxDelay \in Nat
  BY DEF HandInv, Notify!NoticesAssumption
<1>3. ASSUME NEW t \in 0..MaxDelay PROVE Notify!Less(t) \in 0..MaxDelay
  BY <1>2 DEF Notify!Less
<1>4. ASSUME NEW w \in Worker, NEW n \in Notify!Notice
      PROVE  backoff'[w][n] \in Notify!Backoff /\ backoff'[w][n].delay = backoff[w][n].delay
  <2>1. PICK b \in Notify!Backoff : b = backoff[w][n]
    BY <1>2 DEF HandTyped
  <2>2. b.delay \in 0..MaxDelay /\ Notify!Less(b.wait) \in 0..MaxDelay
    BY <1>3 DEF Notify!Backoff
  <2>3. backoff'[w][n] = [b EXCEPT !.wait = Notify!Less(@)]
    BY <1>1, <2>1
  <2> QED BY <2>1, <2>2, <2>3 DEF Notify!Backoff
<1>5. HandTyped'
  <2>1. backoff' \in [Worker -> [Notify!Notice -> Notify!Backoff]]
    BY <1>1, <1>4
  <2>2. owed' \in [Worker -> [Notify!Notice -> 0..MaxDelay]]
    BY <1>1, <1>2, <1>3 DEF HandTyped
  <2> QED BY <1>1, <1>2, <2>1, <2>2 DEF HandTyped
<1>6. Handed' /\ RemovedByOne'
  BY <1>1 DEF HandInv, Handed, RemovedByOne, First
<1>7. Pages'
  BY <1>1 DEF HandInv, Pages
<1>8. RemembersPage'
  BY <1>1, <1>4 DEF HandInv, RemembersPage
<1> QED BY <1>5, <1>6, <1>7, <1>8 DEF HandInv

LEMMA NextHand == ASSUME Notify!NoticesAssumption, HandInv, [Notify!Next]_(Notify!vars) PROVE HandInv'
<1>1. ASSUME UNCHANGED Notify!vars PROVE HandInv'
  BY <1>1 DEF Notify!vars, Notify!worker, Notify!history, HandInv, HandTyped, Pages, Handed,
              RemovedByOne, RemembersPage, First
<1>2. ASSUME NEW w \in Worker, Notify!Call(w) PROVE HandInv'
  BY <1>2, ReadStep, TurnStep, PublishOkStep, PublishFailStep, SinkOkStep, SinkFailStep,
     SinkStoppedStep, AcknowledgeStep, ReportStep, ForgetStep DEF Notify!Call
<1> QED BY <1>1, <1>2, CommitNotice, StopNotices, CrashNotices, RestartNotices, TickNotices DEF Notify!Next

THEOREM HandInvariance == ASSUME Notify!NoticesAssumption PROVE Notify!Spec => []HandInv
<1>1. Notify!Init => HandInv
  BY InitHand
<1>2. HandInv /\ [Notify!Next]_(Notify!vars) => HandInv'
  BY NextHand
<1> QED BY <1>1, <1>2, PTL DEF Notify!Spec

\* A notice is gone from the store only after its listeners were reached and
\* the sink accepted it, whichever workers tried and where they stopped
\* (notify, acknowledge).
THEOREM HandedOn == ASSUME Notify!NoticesAssumption PROVE Notify!Spec => []Notify!GoneIsHanded
<1>1. HandInv => Notify!GoneIsHanded
  BY DEF HandInv, Handed, Notify!GoneIsHanded
<1> QED BY <1>1, HandInvariance, PTL

\* Of all the workers that hand a notice on at the same time, at most one
\* reports the trip (acknowledge says whose call removed the row).
THEOREM TripReports == ASSUME Notify!NoticesAssumption PROVE Notify!Spec => []Notify!ReportedOnce
<1>1. HandInv => Notify!ReportedOnce
  BY DEF HandInv, HandTyped, RemovedByOne, Notify!ReportedOnce
<1> QED BY <1>1, HandInvariance, PTL

\* What a worker remembers of its failures stays within a page, and its state
\* keeps its types (the retain of notice_backoff).
THEOREM Memory ==
    ASSUME Notify!NoticesAssumption
    PROVE  Notify!Spec => [](Notify!TypeOK /\ Notify!MemoryBounded)
<1>1. HandInv => Notify!TypeOK
  BY DEF HandInv, HandTyped, Pages, Notify!TypeOK
<1>2. ASSUME HandInv PROVE Notify!MemoryBounded
  <2> SUFFICES ASSUME NEW w \in Worker
               PROVE  Cardinality({n \in Notify!Notice : backoff[w][n].delay > 0}) <= Page
    BY SameNoticeCount DEF Notify!MemoryBounded
  <2>1. PICK S \in SUBSET Notify!Notice :
            Cardinality(S) <= Page /\ {n \in Notify!Notice : backoff[w][n].delay > 0} \subseteq S
    BY <1>2 DEF HandInv, RemembersPage
  <2>2. N \in Nat /\ Page \in Nat
    BY DEF Notify!NoticesAssumption
  <2>3. IsFiniteSet(1..N)
    BY <2>2, FS_Interval
  <2>4. IsFiniteSet(S)
    BY <2>3, FS_Subset DEF Notify!Notice
  <2> DEFINE K == {n \in Notify!Notice : backoff[w][n].delay > 0}
  <2> HIDE DEF K
  <2>5. IsFiniteSet(K) /\ Cardinality(K) <= Cardinality(S)
    BY <2>1, <2>4, FS_Subset DEF K
  <2>6. Cardinality(K) \in Nat /\ Cardinality(S) \in Nat
    BY <2>4, <2>5, FS_CardinalityType
  <2>7. Cardinality(K) <= Page
    BY <2>1, <2>2, <2>5, <2>6
  <2> QED BY <2>7 DEF K
<1> QED BY <1>1, <1>2, HandInvariance, PTL

-----------------------------------------------------------------------------
\* A worker remembers what its last failure asks for, of all that it may still
\* hand on, and what it has never seen owes nothing.
Paced ==
    /\ \A w \in Worker, n \in Notify!Notice :
          n \in pending \cup Notify!Listed(page[w]) => owed[w][n] = backoff[w][n].wait
    /\ \A w \in Worker, n \in Notify!Notice :
          n \notin committed => owed[w][n] = 0 /\ backoff[w][n].wait = 0
    /\ \A w \in Worker : pc[w] = "publish" => backoff[w][First(w)].wait = 0

\* A step in which only what is listed and where workers are changes.
LEMMA PacedKept ==
    ASSUME HandInv, Paced, UNCHANGED <<backoff, owed>>, pending' \subseteq pending, committed \subseteq committed',
           \A w \in Worker : Notify!Listed(page'[w]) \subseteq Notify!Listed(page[w]),
           \A w \in Worker : pc'[w] = "publish" =>
              page'[w] = page[w] /\ (pc[w] = "publish" \/ backoff[w][First(w)].wait = 0)
    PROVE  Paced'
<1>1. \A w \in Worker : pc'[w] = "publish" => First(w)' = First(w)
  BY DEF First
<1> QED BY <1>1 DEF Paced

LEMMA PacedRead ==
    ASSUME Notify!NoticesAssumption, N <= Page, HandInv, Paced, NEW w \in Worker, Notify!Read(w)
    PROVE  Paced'
<1> DEFINE s == Notify!FirstPage
<1>1. /\ pc' = [pc EXCEPT ![w] = "loop"] /\ page' = [page EXCEPT ![w] = s]
      /\ backoff' = [backoff EXCEPT ![w] = Notify!Retain(backoff[w], s)]
      /\ UNCHANGED <<pending, stopping, faults, committed, published, accepted, reported, owed>>
  BY DEF Notify!Read, Notify!history
<1>2. HandTyped /\ pending \subseteq committed
  BY DEF HandInv, HandTyped
<1>3. s \in Seq(Notify!Notice) /\ Notify!Listed(s) = pending
  BY <1>2, PageIs
<1> HIDE DEF s
<1>4. /\ pc'[w] = "loop" /\ page'[w] = s
      /\ \A v \in Worker : v # w => pc'[v] = pc[v] /\ page'[v] = page[v] /\ backoff'[v] = backoff[v]
      /\ \A n \in Notify!Notice :
            backoff'[w][n] = IF n \in pending THEN backoff[w][n] ELSE [delay |-> 0, wait |-> 0]
  BY <1>1, <1>2, <1>3 DEF HandTyped, Notify!Retain, Notify!NoBackoff
<1>5. ASSUME NEW v \in Worker, NEW n \in Notify!Notice, n \in pending \cup Notify!Listed(page'[v])
      PROVE  owed[v][n] = backoff'[v][n].wait
  BY <1>3, <1>4, <1>5 DEF Paced
<1>6. ASSUME NEW v \in Worker, NEW n \in Notify!Notice, n \notin committed
      PROVE  owed[v][n] = 0 /\ backoff'[v][n].wait = 0
  BY <1>2, <1>4, <1>6 DEF Paced
<1>7. ASSUME NEW v \in Worker, pc'[v] = "publish" PROVE backoff'[v][First(v)'].wait = 0
  BY <1>4, <1>7 DEF Paced, First
<1> QED BY <1>1, <1>5, <1>6, <1>7 DEF Paced

LEMMA PacedFailed ==
    ASSUME Notify!NoticesAssumption, HandInv, Paced, NEW w \in Worker, Notify!Failed(w),
           pc[w] \in {"publish", "sink"}, pending' = pending, committed' = committed
    PROVE  Paced'
<1>1. HandTyped /\ page[w] # <<>> /\ page[w] \in Seq(Notify!Notice)
  BY DEF HandInv, HandTyped, Pages
<1>2. PICK n \in Notify!Notice : n = First(w) /\ n \in committed
  BY <1>1, FirstIsCommitted DEF HandInv
<1>3. backoff[w][n].delay \in 0..MaxDelay
  BY <1>1 DEF HandTyped, Notify!Backoff
<1>4. PICK d \in 0..MaxDelay : d = Notify!Delay(backoff[w][n].delay)
  BY <1>3, DelayIs
<1>5. PICK b \in Notify!Backoff : b = [delay |-> d, wait |-> d] /\ b.wait = d
  <2>1. [delay |-> d, wait |-> d] \in Notify!Backoff
    BY DEF Notify!Backoff
  <2> QED BY <2>1
<1>6. /\ backoff' = [backoff EXCEPT ![w][n] = b] /\ owed' = [owed EXCEPT ![w][n] = d]
      /\ page' = [page EXCEPT ![w] = Tail(@)] /\ pc' = [pc EXCEPT ![w] = "loop"]
  BY <1>2, <1>4, <1>5 DEF Notify!Failed, Notify!Head1, First
<1>7. /\ backoff'[w][n].wait = owed'[w][n]
      /\ \A v \in Worker, m \in Notify!Notice :
            v # w \/ m # n => backoff'[v][m] = backoff[v][m] /\ owed'[v][m] = owed[v][m]
  <2>1. /\ backoff'[w][n] = b /\ owed'[w][n] = d
        /\ \A v \in Worker, m \in Notify!Notice :
              v # w \/ m # n => backoff'[v][m] = backoff[v][m] /\ owed'[v][m] = owed[v][m]
    BY <1>1, <1>6 DEF HandTyped
  <2> QED BY <1>5, <2>1
<1>8. /\ pc'[w] = "loop" /\ Notify!Listed(page'[w]) \subseteq Notify!Listed(page[w])
      /\ \A v \in Worker : v # w => pc'[v] = pc[v] /\ page'[v] = page[v]
  BY <1>1, <1>6, ListedOfTail, OneWorker, OnePage
<1>9. ASSUME NEW v \in Worker, NEW m \in Notify!Notice, m \in pending' \cup Notify!Listed(page'[v])
      PROVE  owed'[v][m] = backoff'[v][m].wait
  BY <1>7, <1>8, <1>9 DEF Paced
<1>10. ASSUME NEW v \in Worker, NEW m \in Notify!Notice, m \notin committed'
       PROVE  owed'[v][m] = 0 /\ backoff'[v][m].wait = 0
  BY <1>2, <1>7, <1>10 DEF Paced
<1>11. ASSUME NEW v \in Worker, pc'[v] = "publish" PROVE backoff'[v][First(v)'].wait = 0
  <2>1. v # w /\ First(v)' = First(v) /\ First(v) \in Notify!Notice /\ pc[v] = "publish"
    BY <1>1, <1>8, <1>11, FirstIsCommitted DEF First, HandInv, Pages
  <2> QED BY <1>7, <2>1 DEF Paced
<1> QED BY <1>9, <1>10, <1>11 DEF Paced

LEMMA PacedTick ==
    ASSUME HandInv, Paced, Notify!Tick PROVE Paced'
<1>1. /\ backoff' = [w \in Worker |-> [n \in Notify!Notice |->
                        [backoff[w][n] EXCEPT !.wait = Notify!Less(@)]]]
      /\ owed' = [w \in Worker |-> [n \in Notify!Notice |-> Notify!Less(owed[w][n])]]
      /\ UNCHANGED <<pending, pc, page, committed>>
  BY DEF Notify!Tick
<1>2. ASSUME NEW w \in Worker, NEW n \in Notify!Notice
      PROVE  /\ backoff'[w][n].wait = Notify!Less(backoff[w][n].wait)
             /\ owed'[w][n] = Notify!Less(owed[w][n])
  <2>1. PICK b \in Notify!Backoff : b = backoff[w][n]
    BY DEF HandInv, HandTyped
  <2>2. backoff'[w][n] = [b EXCEPT !.wait = Notify!Less(@)]
    BY <1>1, <2>1
  <2> QED BY <1>1, <2>1, <2>2 DEF Notify!Backoff
<1>3. Notify!Less(0) = 0
  BY DEF Notify!Less
<1>4. ASSUME NEW w \in Worker, pc[w] = "publish" PROVE First(w) \in Notify!Notice /\ First(w)' = First(w)
  BY <1>1, <1>4, FirstIsCommitted DEF HandInv, Pages, First
<1> QED BY <1>1, <1>2, <1>3, <1>4 DEF Paced

LEMMA PacedRestart ==
    ASSUME HandInv, Paced, NEW w \in Worker, Notify!Restart(w) PROVE Paced'
<1>1. /\ pc' = [pc EXCEPT ![w] = "idle"]
      /\ backoff' = [backoff EXCEPT ![w] = Notify!NoBackoff] /\ owed' = [owed EXCEPT ![w] = Notify!NothingOwed]
      /\ UNCHANGED <<pending, page, committed>>
  BY DEF Notify!Restart
<1>2. HandTyped
  BY DEF HandInv
<1>3. pc'[w] = "idle" /\ \A v \in Worker : v # w => pc'[v] = pc[v]
  BY <1>1, <1>2, OneWorker
<1>4. /\ \A n \in Notify!Notice : backoff'[w][n].wait = 0 /\ owed'[w][n] = 0
      /\ \A v \in Worker : v # w => backoff'[v] = backoff[v] /\ owed'[v] = owed[v]
  BY <1>1, <1>2 DEF HandTyped, Notify!NoBackoff, Notify!NothingOwed
<1>5. ASSUME NEW v \in Worker, pc'[v] = "publish" PROVE v # w /\ pc[v] = "publish" /\ First(v)' = First(v)
  BY <1>1, <1>3, <1>5 DEF First
<1> QED BY <1>1, <1>4, <1>5 DEF Paced

LEMMA PacedForget ==
    ASSUME Notify!NoticesAssumption, HandInv, Paced, NEW w \in Worker, Notify!Forget(w) PROVE Paced'
<1>1. HandTyped /\ page[w] # <<>> /\ page[w] \in Seq(Notify!Notice)
  BY DEF HandInv, HandTyped, Pages, Notify!Forget
<1>2. PICK n \in Notify!Notice : n = First(w)
  BY <1>1, FirstIsCommitted DEF HandInv
<1>3. 0 \in 0..MaxDelay
  BY DEF Notify!NoticesAssumption
<1>4. PICK b \in Notify!Backoff : b = [delay |-> 0, wait |-> 0] /\ b.wait = 0
  <2>1. [delay |-> 0, wait |-> 0] \in Notify!Backoff
    BY <1>3 DEF Notify!Backoff
  <2> QED BY <2>1
<1>5. /\ backoff' = [backoff EXCEPT ![w][n] = b] /\ owed' = [owed EXCEPT ![w][n] = 0]
      /\ page' = [page EXCEPT ![w] = Tail(@)] /\ pc' = [pc EXCEPT ![w] = "loop"]
      /\ UNCHANGED <<pending, committed>>
  BY <1>2, <1>4 DEF Notify!Forget, Notify!Head1, First, Notify!NoBackoff
<1>6. /\ backoff'[w][n].wait = 0 /\ owed'[w][n] = 0
      /\ \A v \in Worker, m \in Notify!Notice :
            v # w \/ m # n => backoff'[v][m] = backoff[v][m] /\ owed'[v][m] = owed[v][m]
  <2>1. /\ backoff'[w][n] = b /\ owed'[w][n] = 0
        /\ \A v \in Worker, m \in Notify!Notice :
              v # w \/ m # n => backoff'[v][m] = backoff[v][m] /\ owed'[v][m] = owed[v][m]
    BY <1>1, <1>5 DEF HandTyped
  <2> QED BY <1>4, <2>1
<1>7. /\ pc'[w] = "loop" /\ Notify!Listed(page'[w]) \subseteq Notify!Listed(page[w])
      /\ \A v \in Worker : v # w => pc'[v] = pc[v] /\ page'[v] = page[v]
  BY <1>1, <1>5, ListedOfTail, OneWorker, OnePage
<1>8. ASSUME NEW v \in Worker, NEW m \in Notify!Notice, m \in pending' \cup Notify!Listed(page'[v])
      PROVE  owed'[v][m] = backoff'[v][m].wait
  BY <1>5, <1>6, <1>7, <1>8 DEF Paced
<1>9. ASSUME NEW v \in Worker, NEW m \in Notify!Notice, m \notin committed'
      PROVE  owed'[v][m] = 0 /\ backoff'[v][m].wait = 0
  BY <1>5, <1>6, <1>9 DEF Paced
<1>10. ASSUME NEW v \in Worker, pc'[v] = "publish" PROVE backoff'[v][First(v)'].wait = 0
  <2>1. v # w /\ First(v)' = First(v) /\ First(v) \in Notify!Notice /\ pc[v] = "publish"
    BY <1>1, <1>7, <1>10, FirstIsCommitted DEF First, HandInv, Pages
  <2> QED BY <1>6, <2>1 DEF Paced
<1> QED BY <1>8, <1>9, <1>10 DEF Paced

\* The steps that neither remember nor forget.
LEMMA PacedOther ==
    ASSUME Notify!NoticesAssumption, HandInv, Paced, NEW w \in Worker,
           \/ Notify!Turn(w) \/ Notify!PublishOk(w) \/ Notify!SinkOk(w) \/ Notify!SinkStopped(w)
           \/ Notify!Acknowledge(w) \/ Notify!Report(w) \/ Notify!Stop(w) \/ Notify!Crash(w)
           \/ Notify!PublishFail(w) /\ ~Notify!Failed(w)
    PROVE  Paced'
<1>1. HandTyped
  BY DEF HandInv
<1>2. page[w] \in Seq(Notify!Notice) /\ <<>> \in Seq(Notify!Notice)
  BY <1>1 DEF HandTyped
<1>3. UNCHANGED <<backoff, owed>> /\ pending' \subseteq pending /\ committed' = committed
  BY DEF Notify!Turn, Notify!PublishOk, Notify!SinkOk, Notify!SinkStopped, Notify!Acknowledge, Notify!Report,
         Notify!Stop, Notify!Crash, Notify!PublishFail, Notify!history
<1>4. \/ page' = page
      \/ page' = [page EXCEPT ![w] = <<>>]
      \/ page[w] # <<>> /\ page' = [page EXCEPT ![w] = Tail(@)]
  BY DEF Notify!Turn, Notify!PublishOk, Notify!SinkOk, Notify!SinkStopped, Notify!Acknowledge, Notify!Report,
         Notify!Stop, Notify!Crash, Notify!PublishFail
<1>5. \A v \in Worker : Notify!Listed(page'[v]) \subseteq Notify!Listed(page[v])
  <2>1. CASE page' = page
    BY <2>1
  <2>2. CASE page' = [page EXCEPT ![w] = <<>>]
    BY <1>1, <1>2, <2>2, NothingListed, OnePage
  <2>3. CASE page[w] # <<>> /\ page' = [page EXCEPT ![w] = Tail(@)]
    <3>1. Tail(page[w]) \in Seq(Notify!Notice) /\ Notify!Listed(Tail(page[w])) \subseteq Notify!Listed(page[w])
      BY <1>2, <2>3, ListedOfTail
    <3> QED BY <1>1, <2>3, <3>1, OnePage
  <2> QED BY <1>4, <2>1, <2>2, <2>3
<1>6. \/ /\ pc[w] = "loop" /\ pc' = [pc EXCEPT ![w] = "publish"] /\ page' = page
         /\ ~(backoff[w][First(w)].wait > 0) /\ page[w] # <<>>
      \/ /\ \E x \in {"idle", "loop", "sink", "ack", "report", "forget", "down"} : pc' = [pc EXCEPT ![w] = x]
         /\ \A v \in Worker : v # w => page'[v] = page[v]
      \/ pc' = pc /\ page' = page
      \/ pc' = pc /\ pc[w] = "loop" /\ \A v \in Worker : v # w => page'[v] = page[v]
  <2>1. \A v \in Worker : v # w => page'[v] = page[v]
    BY <1>1, <1>4 DEF HandTyped
  <2>2. CASE Notify!Turn(w)
    BY <2>1, <2>2 DEF Notify!Turn, Notify!Waits, Notify!Head1, First
  <2>3. CASE Notify!Stop(w)
    <3>1. CASE pc[w] = "idle"
      BY <2>1, <2>3, <3>1 DEF Notify!Stop
    <3>2. CASE pc[w] # "idle"
      <4>1. pc' = pc /\ page' = page
        BY <1>1, <2>3, <3>2 DEF Notify!Stop, HandTyped
      <4> QED BY <4>1
    <3> QED BY <3>1, <3>2
  <2>4. CASE Notify!Acknowledge(w)
    <3>1. pc' = [pc EXCEPT ![w] = "report"] \/ pc' = [pc EXCEPT ![w] = "forget"]
      BY <2>4 DEF Notify!Acknowledge
    <3> QED BY <2>1, <3>1
  <2>5. CASE \/ Notify!PublishOk(w) \/ Notify!SinkOk(w) \/ Notify!SinkStopped(w) \/ Notify!Report(w)
             \/ Notify!Crash(w)
             \/ Notify!PublishFail(w) /\ ~Notify!Failed(w)
    <3>1. \/ pc' = [pc EXCEPT ![w] = "sink"] \/ pc' = [pc EXCEPT ![w] = "ack"]
          \/ pc' = [pc EXCEPT ![w] = "forget"] \/ pc' = [pc EXCEPT ![w] = "down"]
      BY <2>5 DEF Notify!PublishOk, Notify!SinkOk, Notify!SinkStopped, Notify!Report, Notify!Crash, Notify!PublishFail
    <3> QED BY <2>1, <3>1
  <2> QED BY <2>2, <2>3, <2>4, <2>5
<1>7. ASSUME NEW v \in Worker, pc'[v] = "publish"
      PROVE  page'[v] = page[v] /\ (pc[v] = "publish" \/ backoff[v][First(v)].wait = 0)
  <2>1. CASE v # w
    <3>1. pc'[v] = pc[v]
      BY <1>1, <1>6, <2>1 DEF HandTyped
    <3> QED BY <1>6, <1>7, <2>1, <3>1
  <2>2. CASE v = w
    <3>1. CASE /\ pc[w] = "loop" /\ page' = page /\ ~(backoff[w][First(w)].wait > 0) /\ page[w] # <<>>
      <4>1. First(w) \in Notify!Notice
        BY <1>1, <3>1, FirstIsCommitted DEF HandInv
      <4>2. backoff[w][First(w)].wait \in 0..MaxDelay /\ MaxDelay \in Nat
        BY <1>1, <4>1 DEF HandTyped, Notify!Backoff, Notify!NoticesAssumption
      <4> QED BY <2>2, <3>1, <4>2
    <3>2. CASE \E x \in {"idle", "loop", "sink", "ack", "report", "forget", "down"} : pc' = [pc EXCEPT ![w] = x]
      <4>1. pc'[w] # "publish"
        BY <1>1, <3>2 DEF HandTyped
      <4> QED BY <1>7, <2>2, <4>1
    <3>3. CASE pc' = pc
      BY <1>6, <1>7, <2>2, <3>2, <3>3
    <3> QED BY <1>6, <3>1, <3>2, <3>3
  <2> QED BY <2>1, <2>2
<1> QED BY <1>3, <1>5, <1>7, PacedKept

LEMMA NextPaced ==
    ASSUME Notify!NoticesAssumption, N <= Page, HandInv, Paced, [Notify!Next]_(Notify!vars) PROVE Paced'
<1>1. ASSUME UNCHANGED Notify!vars PROVE Paced'
  BY <1>1 DEF Notify!vars, Notify!worker, Notify!history, Paced, First
<1>2. ASSUME NEW n \in Notify!Notice, Notify!Commit(n) PROVE Paced'
  BY <1>2 DEF Notify!Commit, Notify!worker, Paced, First
<1>3. ASSUME NEW w \in Worker, Notify!PublishFail(w) PROVE Paced'
  <2>1. CASE Notify!Failed(w)
    <3>1. pc[w] \in {"publish", "sink"} /\ pending' = pending /\ committed' = committed
      BY <1>3 DEF Notify!PublishFail
    <3> QED BY <2>1, <3>1, PacedFailed
  <2> QED BY <1>3, <2>1, PacedOther
<1>4. ASSUME NEW w \in Worker, Notify!SinkFail(w) PROVE Paced'
  <2>1. pc[w] \in {"publish", "sink"} /\ pending' = pending /\ committed' = committed /\ Notify!Failed(w)
    BY <1>4 DEF Notify!SinkFail
  <2> QED BY <2>1, PacedFailed
<1>5. ASSUME NEW w \in Worker, Notify!Call(w) PROVE Paced'
  BY <1>3, <1>4, <1>5, PacedRead, PacedForget, PacedOther DEF Notify!Call
<1> QED BY <1>1, <1>2, <1>5, PacedTick, PacedRestart, PacedOther DEF Notify!Next

\* While what is pending fits a page, so that a notice that waits is not
\* dropped from the page and read again, a worker tries a notice again only
\* after the backoff of its last failure (notice_backoff, retry_at).
THEOREM Backoffs ==
    ASSUME Notify!NoticesAssumption, N <= Page
    PROVE  Notify!Spec => []Notify!RetriedAfterBackoff
<1>1. Notify!Init => HandInv /\ Paced
  BY InitHand DEF Notify!Init, Paced, Notify!NoBackoff, Notify!NothingOwed
<1>2. HandInv /\ Paced /\ [Notify!Next]_(Notify!vars) => HandInv' /\ Paced'
  BY NextHand, NextPaced
<1>3. HandInv /\ Paced => Notify!RetriedAfterBackoff
  <2> SUFFICES ASSUME HandInv, Paced, NEW w \in Worker, pc[w] = "publish" PROVE owed[w][First(w)] = 0
    BY DEF Notify!RetriedAfterBackoff, Notify!Head1, First
  <2>1. page[w] # <<>> /\ page[w] \in Seq(Notify!Notice) /\ HandTyped
    BY DEF HandInv, HandTyped, Pages
  <2>2. First(w) \in Notify!Notice /\ First(w) \in Notify!Listed(page[w])
    BY <2>1, FirstIsCommitted, ListedOfTail DEF HandInv, First
  <2> QED BY <2>2 DEF Paced
<1> QED BY <1>1, <1>2, <1>3, PTL DEF Notify!Spec

=============================================================================
