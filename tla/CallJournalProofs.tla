------------------------- MODULE CallJournalProofs -------------------------
(***************************************************************************)
(* Proofs about CallJournal, for any workers, lists of calls, deliveries,  *)
(* numbers of attempts, delays and faults.                                 *)
(***************************************************************************)
EXTENDS CallJournal, FiniteSetTheorems, TLAPS

-----------------------------------------------------------------------------
(* Types.                                                                  *)

States == {"none", "pending", "ok", "failed", "notExecuted", "marker"}
CallRec == [state : States, args : Nat]
Results == {"ok", "error", "unknown", "unknownError", "conflict", "timeout"}
Heard == {"ok", "failed", "notExecuted", "unknown", "interrupted"}
Working == {"try", "attempt", "task", "dispatch", "flying", "answer", "checkpoint"}
Ending == {"caught", "sleep", "handler", "finish"}

Records ==
    [call : [Attempts -> [Tasks -> CallRec]],
     task : [Attempts -> [Tasks -> Results \cup {"none"}]],
     retry : [Attempts -> {"none", "again", "stop"}],
     timer : [Attempts -> Nat], sleep : [Attempts -> Nat], began : Nat]

Places ==
    [pc : Working \cup Ending \cup {"idle"}, k : Attempts, p : Tasks,
     res : Results \cup Heard \cup {"none", "handled"}, seen : Records]

Types ==
    /\ setup \in SetupType
    /\ journal \in Records
    /\ totals \in Nat /\ now \in Nat /\ wake \in Nat /\ faults \in Nat
    /\ fin \in {"none", "completed", "faulted", "cancelled"}
    /\ owner \in Worker \cup {Nobody}
    /\ held \in BOOLEAN /\ ran \in BOOLEAN
    /\ x \in [Worker -> Places]
    /\ sent \subseteq Attempts \X Tasks
    /\ twice \subseteq Tasks
    /\ handed \subseteq Attempts \X Tasks \X Nat /\ IsFiniteSet(handed)

-----------------------------------------------------------------------------
(* The journal alone.                                                      *)

\* Some attempt has a result of the task's call.
HasResult(j, p) == \E k \in Attempts : j.call[k][p].state \in {"ok", "marker"}

\* An attempt that has failed: some task's checkpoint is not a result.
Closed(j, k) == \E q \in Tasks : j.task[k][q] \notin {"none", "ok"}

\* A task that is done has a result, and a next attempt is within the limit.
JournalHas(j) ==
    /\ \A k \in Attempts, p \in Tasks : j.task[k][p] = "ok" => HasResult(j, p)
    /\ \A k \in Attempts : j.retry[k] = "again" => k < MaxAttempts

(* Without deadlines: tasks and attempts come one after the other, a task    *)
(* that failed ends its attempt, and what a catch acts on is known to it.    *)
JournalInOrder(j) ==
    /\ \A k \in Attempts, q, r \in Tasks :
          r < q /\ (j.task[k][q] # "none" \/ j.call[k][q].state # "none") => j.task[k][r] = "ok"
    /\ \A k \in Attempts : j.retry[k] # "none" => Closed(j, k)
    /\ \A k, i \in Attempts :
          i < k /\ (j.retry[k] # "none" \/ \E q \in Tasks : j.call[k][q].state # "none")
              => j.retry[i] = "again"
    /\ \A k \in Attempts, q \in Tasks :
          AtMostOnce(q) /\ j.call[k][q].state = "pending" =>
              /\ j.task[k][q] \in {"none", "unknown"}
              /\ ~setup.names => j.retry[k] = "none"

JournalOK(j) == JournalHas(j) /\ (~setup.bounded => JournalInOrder(j))

\* How a call's record may change, and with it the journal.
Advance(old, new) ==
    \/ old = new
    \/ /\ old.state \in {"none", "pending", "notExecuted"}
       /\ new.state # "none"
       /\ old.state # "none" => old.args = new.args

Advances(i, j) ==
    /\ \A k \in Attempts, p \in Tasks : Advance(i.call[k][p], j.call[k][p])
    /\ \A k \in Attempts : i.retry[k] # "none" => j.retry[k] = i.retry[k]

-----------------------------------------------------------------------------
(* A worker's place, its copy of the journal, and the journal.             *)

Active(y) == y.pc # "idle"
Holding(y) == y.pc \in {"dispatch", "flying", "answer"}

\* What a worker's place says of its own copy.
PlaceOK(y) ==
    /\ JournalOK(y.seen)
    /\ y.pc = "try" => y.k = 1
    /\ \A i \in Attempts : i < y.k => y.seen.retry[i] = "again"
    /\ y.pc = "sleep" => y.seen.retry[y.k] = "again"
    /\ y.pc = "handler" => y.seen.retry[y.k] = "stop"
    /\ Holding(y) =>
          /\ y.seen.call[y.k][y.p].state = "pending"
          /\ AtMostOnce(y.p) => y.seen.call[y.k][y.p].args = Arguments(y.k)
    /\ y.pc = "answer" => y.res \in Heard
    /\ y.pc \in {"checkpoint", "caught"} => y.res \in Results
    /\ y.pc = "checkpoint" /\ AtMostOnce(y.p) /\ y.seen.call[y.k][y.p].state = "pending" =>
          y.res = "unknown"
    /\ \A q \in Tasks :
          \/ q < y.p
          \/ q = y.p /\ y.pc = "checkpoint" /\ y.res = "ok"
          \/ y.pc = "finish" /\ y.res = "ok"
          => HasResult(y.seen, q)

\* Without deadlines, its attempt is at its first task that is not done.
PlaceInOrder(y) ==
    /\ \A q \in Tasks : q < y.p => y.seen.task[y.k][q] = "ok"
    /\ Holding(y) \/ y.pc = "checkpoint" => y.seen.task[y.k][y.p] = "none"
    /\ y.pc = "caught" => y.res # "ok" /\ y.seen.task[y.k][y.p] = y.res /\ Catches(y.res)
    /\ y.pc = "finish" /\ y.res = "ok" => \A q \in Tasks : y.seen.task[y.k][q] = "ok"

\* The owner has read the journal, and writes to both alike; what an attempt
\* that was cut off saved last it may not know.
Current(y, j) ==
    /\ y.seen.retry = j.retry
    /\ \A k \in Attempts :
          ~setup.bounded \/ k > y.k \/ (k = y.k /\ y.pc \in Working) =>
              y.seen.call[k] = j.call[k] /\ y.seen.task[k] = j.task[k]

WorkerOK(w) ==
    Active(x[w]) =>
        /\ PlaceOK(x[w])
        /\ ~setup.bounded => PlaceInOrder(x[w])
        /\ Advances(x[w].seen, journal)
        /\ owner = w => Current(x[w], journal)

-----------------------------------------------------------------------------
(* What has been sent.                                                     *)

\* Whatever the delivery: a call in flight is counted as sent; what is taken
\* back was not sent twice and has no other dispatch in flight.
SentIsTrue ==
    /\ \A w \in Worker : x[w].pc = "flying" \/ (x[w].pc = "answer" /\ x[w].res = "ok") =>
          <<x[w].k, x[w].p>> \in sent
    /\ \A k \in Attempts, p \in Tasks :
          /\ journal.call[k][p].state = "ok" => <<k, p>> \in sent
          /\ <<k, p>> \in sent => journal.call[k][p].state # "none"
    /\ \A w \in Worker : x[w].pc = "flying" /\ x[w].p \notin twice =>
          /\ journal.call[x[w].k][x[w].p].state # "ok"
          /\ \A v \in Worker \ {w} : x[v].p = x[w].p =>
                ~(x[v].pc = "flying" \/ (x[v].pc = "answer" /\ x[v].res = "ok"))

\* Without deadlines, an at-most-once call has one worker that may send it.
OneSender ==
    /\ \A w \in Worker : Holding(x[w]) /\ AtMostOnce(x[w].p) =>
          /\ journal.call[x[w].k][x[w].p].state \in {"pending", "marker"}
          /\ \A v \in Worker \ {w} : Holding(x[v]) => x[v].p # x[w].p
          /\ x[w].pc = "dispatch" => \A k \in Attempts : <<k, x[w].p>> \notin sent
          /\ x[w].pc = "answer" /\ x[w].res = "notExecuted" => <<x[w].k, x[w].p>> \notin sent
    /\ \A k \in Attempts, p \in Tasks : AtMostOnce(p) /\ <<k, p>> \in sent =>
          journal.call[k][p].state \notin {"none", "notExecuted"}
    /\ \A p \in twice : ~AtMostOnce(p)

\* An event's envelopes are those the journal names.
EnvelopesAreSaved ==
    \A h \in handed : LET c == journal.call[h[1]][h[2]]
                      IN  c.state # "none" /\ c.args = h[3]

-----------------------------------------------------------------------------
(* How the run ends.                                                       *)

EndsAreTrue ==
    /\ fin = "completed" /\ ~ran => \A p \in Tasks : HasResult(journal, p)
    /\ \A w \in Worker : x[w].pc = "finish" /\ x[w].res = "handled" => ran
    /\ ~setup.bounded /\ ran => \E k \in Attempts : journal.retry[k] = "stop"

\* A call that was sent and has no answer, where a worker stands at it, or ends
\* the run with it.
InDoubt(k, p) == AtMostOnce(p) /\ <<k, p>> \in sent /\ journal.call[k][p].state = "pending"

StandsAt(y, k, p) ==
    /\ y.k = k /\ y.seen.call[k][p].state = "pending"
    /\ \/ y.pc \in {"flying", "answer", "checkpoint"} /\ y.p = p
       \/ y.pc = "finish" /\ y.res = "unknown"

Handled(y) == y.pc = "finish" /\ y.res = "handled"

\* While nothing failed there is one execution at a time, and a call in doubt is
\* the one it stands at or ends with.
Undisturbed ==
    /\ ~held /\ fin # "cancelled"
    /\ \A w \in Worker : Active(x[w]) => owner = w /\ fin = "none"
    /\ ran => fin # "none" \/ \E w \in Worker : Handled(x[w])
    /\ ~setup.names =>
          \A k \in Attempts, p \in Tasks : InDoubt(k, p) =>
              \/ fin # "none" /\ ~ran
              \/ \E w \in Worker : StandsAt(x[w], k, p)

Inv ==
    /\ Types
    /\ JournalOK(journal)
    /\ \A w \in Worker : WorkerOK(w)
    /\ SentIsTrue
    /\ ~setup.bounded => OneSender
    /\ EnvelopesAreSaved
    /\ TotalsAgree
    /\ EndsAreTrue
    /\ faults = 0 => Undisturbed

-----------------------------------------------------------------------------
(* What the operators return.                                              *)

\* The tasks are numbered from one.
LEMMA TaskNumbers ==
    ASSUME setup \in SetupType
    PROVE  /\ Len(setup.kinds) \in Nat \ {0}
           /\ Tasks = 1..Len(setup.kinds)
           /\ 1 \in Tasks
           /\ \A q \in Tasks : q \in Nat /\ q >= 1 /\ q <= Len(setup.kinds)
  <1>1. setup.kinds \in Seq({"amo", "alo", "emit"}) /\ setup.kinds # <<>> BY DEF SetupType
  <1>2. Len(setup.kinds) \in Nat \ {0} BY <1>1
  <1>3. Tasks = 1..Len(setup.kinds) BY <1>1 DEF Tasks
  <1> QED BY <1>2, <1>3

\* The attempts are numbered from one.
LEMMA AttemptNumbers ==
    /\ MaxAttempts \in Nat \ {0}
    /\ 1 \in Attempts
    /\ \A k \in Attempts : k \in Nat /\ k >= 1 /\ k <= MaxAttempts
    /\ \A k \in Attempts : k < MaxAttempts => k + 1 \in Attempts
  BY BoundAssumption DEF Attempts

\* A blank journal.
LEMMA BlankRecords ==
    ASSUME setup \in SetupType
    PROVE  /\ NoRecords(Len(setup.kinds)) \in Records
           /\ \A k \in Attempts, p \in Tasks :
                 /\ NoRecords(Len(setup.kinds)).call[k][p] = NoCall
                 /\ NoRecords(Len(setup.kinds)).task[k][p] = "none"
           /\ \A k \in Attempts : NoRecords(Len(setup.kinds)).retry[k] = "none"
  <1>1. Tasks = 1..Len(setup.kinds) BY TaskNumbers
  <1>2. Unset \in Nat BY BoundAssumption DEF Unset
  <1>3. NoCall \in CallRec BY DEF NoCall, CallRec, States
  <1> QED BY <1>1, <1>2, <1>3 DEF NoRecords, Records

\* An idle worker has no place that says anything.
LEMMA IdlePlace ==
    ASSUME setup \in SetupType
    PROVE  /\ Idle(Len(setup.kinds)) \in Places
           /\ Idle(Len(setup.kinds)).pc = "idle"
  BY BlankRecords, TaskNumbers, AttemptNumbers DEF Idle, Places

\* Where the list goes on after a task.
Follows(s, y, res) ==
    /\ y.k = s.k
    /\ \/ /\ res = "ok" /\ s.p # Len(setup.kinds)
          /\ y.p = s.p + 1 /\ y.pc = "task" /\ y.res = "none"
       \/ /\ res = "ok" /\ s.p = Len(setup.kinds)
          /\ y.p = s.p /\ y.pc = "finish" /\ y.res = res
       \/ /\ res # "ok" /\ y.p = s.p /\ y.res = res
          /\ y.pc = IF Catches(res) THEN "caught" ELSE "finish"

\* After a task the list goes on, or its body ends.
LEMMA AfterPlace ==
    ASSUME setup \in SetupType, NEW s \in Places, NEW res \in Results, NEW y, y = After(s, res)
    PROVE  y \in Places /\ y.seen = s.seen /\ Follows(s, y, res)
  <1> USE DEF Follows
  <1>1. PICK n \in Nat : n = s.p + 1 BY TaskNumbers DEF Places
  <1>2. s.p # Len(setup.kinds) => n \in Tasks BY <1>1, TaskNumbers DEF Places
  <1>3. CASE res = "ok" /\ s.p # Len(setup.kinds)
    <2>1. y = [s EXCEPT !.p = n, !.pc = "task", !.res = "none"] BY <1>1, <1>3 DEF After, Places
    <2> QED BY <1>1, <1>2, <1>3, <2>1 DEF Places, Working
  <1>4. CASE res = "ok" /\ s.p = Len(setup.kinds)
    <2>1. y = [s EXCEPT !.pc = "finish", !.res = res] BY <1>4 DEF After
    <2> QED BY <1>4, <2>1 DEF Places, Ending
  <1>5. CASE res # "ok"
    <2>1. y = [s EXCEPT !.pc = IF Catches(res) THEN "caught" ELSE "finish", !.res = res]
      BY <1>5 DEF After
    <2>2. PICK c : c = IF Catches(res) THEN "caught" ELSE "finish" OBVIOUS
    <2>3. c \in Ending BY <2>2 DEF Ending
    <2> QED BY <1>5, <2>1, <2>2, <2>3 DEF Places
  <1> QED BY <1>3, <1>4, <1>5

\* The first task of an attempt.
LEMMA BeginPlace ==
    ASSUME setup \in SetupType, NEW s \in Places, NEW y, y = Begin(s)
    PROVE  /\ y \in Places
           /\ y.seen = s.seen /\ y.k = s.k /\ y.p = 1 /\ y.res = s.res
           /\ y.pc = IF setup.bounded THEN "attempt" ELSE "task"
  <1>1. PICK c : c = IF setup.bounded THEN "attempt" ELSE "task" OBVIOUS
  <1>2. c \in Working BY <1>1 DEF Working
  <1>3. y = [s EXCEPT !.pc = c, !.p = 1] BY <1>1 DEF Begin
  <1> QED BY <1>1, <1>2, <1>3, TaskNumbers DEF Places

-----------------------------------------------------------------------------
(* How a journal grows.                                                    *)

\* A record advances by steps.
LEMMA AdvanceTransitive ==
    ASSUME NEW a, NEW b, NEW c, Advance(a, b), Advance(b, c)
    PROVE  Advance(a, c)
  BY DEF Advance

\* So does a journal, whose results stay.
LEMMA AdvancesFacts ==
    /\ \A i : Advances(i, i)
    /\ \A h, i, j : Advances(h, i) /\ Advances(i, j) => Advances(h, j)
    /\ \A i, j, p : p \in Tasks /\ Advances(i, j) /\ HasResult(i, p) => HasResult(j, p)
  <1>1. \A i : Advances(i, i) BY DEF Advances, Advance
  <1>2. ASSUME NEW h, NEW i, NEW j, Advances(h, i), Advances(i, j) PROVE Advances(h, j)
    <2>1. ASSUME NEW k \in Attempts, NEW p \in Tasks PROVE Advance(h.call[k][p], j.call[k][p])
      BY <1>2, AdvanceTransitive DEF Advances
    <2>2. ASSUME NEW k \in Attempts, h.retry[k] # "none" PROVE j.retry[k] = h.retry[k]
      BY <1>2, <2>2 DEF Advances
    <2> QED BY <2>1, <2>2 DEF Advances
  <1>3. ASSUME NEW i, NEW j, NEW p \in Tasks, Advances(i, j), HasResult(i, p)
        PROVE  HasResult(j, p)
    <2>1. PICK k \in Attempts : i.call[k][p].state \in {"ok", "marker"} BY <1>3 DEF HasResult
    <2>2. j.call[k][p] = i.call[k][p] BY <1>3, <2>1 DEF Advances, Advance
    <2> QED BY <2>1, <2>2 DEF HasResult
  <1> QED BY <1>1, <1>2, <1>3

\* One record's step is the journal's.
LEMMA CallAdvances ==
    ASSUME NEW i, NEW j, NEW k \in Attempts, NEW p \in Tasks, Advance(i.call[k][p], j.call[k][p]),
           \A a \in Attempts, q \in Tasks : a # k \/ q # p => j.call[a][q] = i.call[a][q],
           j.retry = i.retry
    PROVE  Advances(i, j)
  BY DEF Advances, Advance

\* Only calls and decisions count.
LEMMA SameAdvances ==
    ASSUME NEW i, NEW j, j.call = i.call, j.retry = i.retry
    PROVE  Advances(i, j)
  BY DEF Advances, Advance

\* What is not about timers is not changed by them.
LEMMA SameJournal ==
    ASSUME NEW i, NEW j, j.call = i.call, j.task = i.task, j.retry = i.retry, JournalOK(i)
    PROVE  JournalOK(j)
  <1>1. \A p \in Tasks : HasResult(i, p) <=> HasResult(j, p) BY DEF HasResult
  <1>2. \A k \in Attempts : Closed(i, k) <=> Closed(j, k) BY DEF Closed
  <1>3. JournalHas(j) BY <1>1 DEF JournalOK, JournalHas
  <1>4. JournalInOrder(i) => JournalInOrder(j) BY <1>2 DEF JournalInOrder
  <1> QED BY <1>3, <1>4 DEF JournalOK

\* An attempt whose task is not done, and the ones before are, is the last.
LEMMA OpenAttempt ==
    ASSUME setup \in SetupType, NEW j, JournalInOrder(j), NEW k \in Attempts, NEW p \in Tasks,
           \A q \in Tasks : q < p => j.task[k][q] = "ok", j.task[k][p] = "none"
    PROVE  /\ j.retry[k] = "none"
           /\ \A a \in Attempts : a > k =>
                 /\ j.retry[a] = "none"
                 /\ \A q \in Tasks : j.call[a][q].state = "none"
  <1>1. ~Closed(j, k)
    <2> SUFFICES ASSUME NEW q \in Tasks, j.task[k][q] \notin {"none", "ok"} PROVE FALSE
      BY DEF Closed
    <2>1. ~(q < p) /\ q # p OBVIOUS
    <2>2. p < q BY <2>1, TaskNumbers
    <2>3. j.task[k][p] = "ok" BY <2>2 DEF JournalInOrder
    <2> QED BY <2>3
  <1>2. j.retry[k] = "none" BY <1>1 DEF JournalInOrder
  <1>3. ASSUME NEW a \in Attempts, a > k
        PROVE  j.retry[a] = "none" /\ \A q \in Tasks : j.call[a][q].state = "none"
    <2>1. k < a BY <1>3, AttemptNumbers
    <2>2. j.retry[k] # "again" BY <1>2
    <2> QED BY <2>1, <2>2 DEF JournalInOrder
  <1> QED BY <1>2, <1>3

\* A call's record is written, where the list stands at the call.
CallSaved(i, j, k, p) ==
    /\ JournalOK(i) /\ Advance(i.call[k][p], j.call[k][p])
    /\ \A a \in Attempts, q \in Tasks : a # k \/ q # p => j.call[a][q] = i.call[a][q]
    /\ j.task = i.task /\ j.retry = i.retry
    /\ ~setup.bounded =>
          /\ \A q \in Tasks : q < p => i.task[k][q] = "ok"
          /\ i.task[k][p] = "none"
          /\ \A a \in Attempts : a < k => i.retry[a] = "again"

\* A journal with a call's record stays in order.
LEMMA CallKeepsJournal ==
    ASSUME setup \in SetupType, NEW i, NEW j, NEW k \in Attempts, NEW p \in Tasks,
           CallSaved(i, j, k, p)
    PROVE  JournalOK(j)
  <1> USE DEF CallSaved
  <1>1. Advances(i, j) BY CallAdvances
  <1>2. JournalHas(j) BY <1>1, AdvancesFacts DEF JournalOK, JournalHas
  <1>3. ASSUME ~setup.bounded PROVE JournalInOrder(j)
    <2>1. JournalInOrder(i) BY <1>3 DEF JournalOK
    <2>2. i.retry[k] = "none" BY <1>3, <2>1, OpenAttempt
    <2>3. ASSUME NEW a \in Attempts, NEW q \in Tasks, NEW r \in Tasks, r < q,
                 j.task[a][q] # "none" \/ j.call[a][q].state # "none"
          PROVE  j.task[a][r] = "ok"
      BY <1>3, <2>1, <2>3 DEF JournalInOrder
    <2>4. \A a \in Attempts : j.retry[a] # "none" => Closed(j, a) BY <2>1 DEF JournalInOrder, Closed
    <2>5. ASSUME NEW a \in Attempts, NEW b \in Attempts, b < a,
                 j.retry[a] # "none" \/ \E q \in Tasks : j.call[a][q].state # "none"
          PROVE  j.retry[b] = "again"
      <3>1. CASE a = k BY <1>3, <2>5, <3>1
      <3>2. CASE a # k BY <2>1, <2>5, <3>2 DEF JournalInOrder
      <3> QED BY <3>1, <3>2
    <2>6. ASSUME NEW a \in Attempts, NEW q \in Tasks, AtMostOnce(q), j.call[a][q].state = "pending"
          PROVE  j.task[a][q] \in {"none", "unknown"} /\ (~setup.names => j.retry[a] = "none")
      <3>1. CASE a = k /\ q = p BY <1>3, <2>2, <3>1
      <3>2. CASE ~(a = k /\ q = p) BY <2>1, <2>6, <3>2 DEF JournalInOrder
      <3> QED BY <3>1, <3>2
    <2> QED BY <2>3, <2>4, <2>5, <2>6 DEF JournalInOrder
  <1> QED BY <1>2, <1>3 DEF JournalOK

\* A task's checkpoint is written, where the list stands at the task.
TaskSaved(i, j, k, p, r) ==
    /\ JournalOK(i) /\ j.task[k][p] = r /\ (r = "ok" => HasResult(i, p))
    /\ \A a \in Attempts, q \in Tasks : a # k \/ q # p => j.task[a][q] = i.task[a][q]
    /\ j.call = i.call /\ j.retry = i.retry
    /\ ~setup.bounded =>
          /\ \A q \in Tasks : q < p => i.task[k][q] = "ok"
          /\ i.task[k][p] = "none"
          /\ AtMostOnce(p) /\ i.call[k][p].state = "pending" => r = "unknown"

\* A journal with a checkpoint stays in order.
LEMMA TaskKeepsJournal ==
    ASSUME setup \in SetupType, NEW i, NEW j, NEW k \in Attempts, NEW p \in Tasks, NEW r \in Results,
           TaskSaved(i, j, k, p, r)
    PROVE  JournalOK(j)
  <1> USE DEF TaskSaved
  <1>1. \A q \in Tasks : HasResult(i, q) <=> HasResult(j, q) BY DEF HasResult
  <1>2. JournalHas(j) BY <1>1 DEF JournalOK, JournalHas
  <1>3. ASSUME ~setup.bounded PROVE JournalInOrder(j)
    <2>1. JournalInOrder(i) BY <1>3 DEF JournalOK
    <2>2. ASSUME NEW a \in Attempts, NEW q \in Tasks, NEW s \in Tasks, s < q,
                 j.task[a][q] # "none" \/ j.call[a][q].state # "none"
          PROVE  j.task[a][s] = "ok"
      <3>1. CASE a # k BY <2>1, <2>2, <3>1 DEF JournalInOrder
      <3>2. CASE a = k /\ q = p BY <1>3, <2>2, <3>2
      <3>3. CASE a = k /\ q # p
        <4>1. i.task[k][s] = "ok" BY <2>1, <2>2, <3>3 DEF JournalInOrder
        <4>2. s # p BY <1>3, <4>1
        <4> QED BY <3>3, <4>1, <4>2
      <3> QED BY <3>1, <3>2, <3>3
    <2>3. ASSUME NEW a \in Attempts, j.retry[a] # "none" PROVE Closed(j, a)
      <3>1. PICK q \in Tasks : i.task[a][q] \notin {"none", "ok"}
        BY <2>1, <2>3 DEF JournalInOrder, Closed
      <3>2. a # k \/ q # p BY <1>3, <3>1
      <3> QED BY <3>1, <3>2 DEF Closed
    <2>4. \A a, b \in Attempts :
             b < a /\ (j.retry[a] # "none" \/ \E q \in Tasks : j.call[a][q].state # "none")
                 => j.retry[b] = "again"
      BY <2>1 DEF JournalInOrder
    <2>5. ASSUME NEW a \in Attempts, NEW q \in Tasks, AtMostOnce(q), j.call[a][q].state = "pending"
          PROVE  j.task[a][q] \in {"none", "unknown"} /\ (~setup.names => j.retry[a] = "none")
      <3>1. CASE a = k /\ q = p BY <1>3, <2>1, <2>5, <3>1 DEF JournalInOrder
      <3>2. CASE ~(a = k /\ q = p) BY <2>1, <2>5, <3>2 DEF JournalInOrder
      <3> QED BY <3>1, <3>2
    <2> QED BY <2>2, <2>3, <2>4, <2>5 DEF JournalInOrder
  <1> QED BY <1>2, <1>3 DEF JournalOK

\* What a catch decided is written, once an attempt has failed.
RetrySaved(i, j, k, d) ==
    /\ JournalOK(i) /\ i.retry[k] = "none" /\ j.retry[k] = d /\ (d = "again" => k < MaxAttempts)
    /\ \A a \in Attempts : a # k => j.retry[a] = i.retry[a]
    /\ j.call = i.call /\ j.task = i.task
    /\ ~setup.bounded =>
          /\ Closed(i, k)
          /\ \A a \in Attempts : a < k => i.retry[a] = "again"
          /\ ~setup.names => \A q \in Tasks : AtMostOnce(q) => i.call[k][q].state # "pending"

\* A journal with a decision stays in order.
LEMMA RetryKeepsJournal ==
    ASSUME setup \in SetupType, NEW i, NEW j, NEW k \in Attempts, NEW d \in {"again", "stop"},
           RetrySaved(i, j, k, d)
    PROVE  JournalOK(j)
  <1> USE DEF RetrySaved
  <1>1. \A q \in Tasks : HasResult(i, q) <=> HasResult(j, q) BY DEF HasResult
  <1>2. JournalHas(j) BY <1>1 DEF JournalOK, JournalHas
  <1>3. ASSUME ~setup.bounded PROVE JournalInOrder(j)
    <2>1. JournalInOrder(i) BY <1>3 DEF JournalOK
    <2>2. \A a \in Attempts, q, s \in Tasks :
             s < q /\ (j.task[a][q] # "none" \/ j.call[a][q].state # "none") => j.task[a][s] = "ok"
      BY <2>1 DEF JournalInOrder
    <2>3. ASSUME NEW a \in Attempts, j.retry[a] # "none" PROVE Closed(j, a)
      BY <1>3, <2>1, <2>3 DEF JournalInOrder, Closed
    <2>4. ASSUME NEW a \in Attempts, NEW b \in Attempts, b < a,
                 j.retry[a] # "none" \/ \E q \in Tasks : j.call[a][q].state # "none"
          PROVE  j.retry[b] = "again"
      <3>1. CASE a = k
        <4>1. b # k BY <2>4, <3>1, AttemptNumbers
        <4> QED BY <1>3, <2>4, <3>1, <4>1
      <3>2. CASE a # k
        <4>1. i.retry[b] = "again" BY <2>1, <2>4, <3>2 DEF JournalInOrder
        <4> QED BY <4>1
      <3> QED BY <3>1, <3>2
    <2>5. ASSUME NEW a \in Attempts, NEW q \in Tasks, AtMostOnce(q), j.call[a][q].state = "pending"
          PROVE  j.task[a][q] \in {"none", "unknown"} /\ (~setup.names => j.retry[a] = "none")
      BY <1>3, <2>1, <2>5 DEF JournalInOrder
    <2> QED BY <2>2, <2>3, <2>4, <2>5 DEF JournalInOrder
  <1> QED BY <1>2, <1>3 DEF JournalOK

-----------------------------------------------------------------------------
(* The workers.  A step of one of them writes the journal only as the owner. *)

\* The workflow is fixed, so what is said of a journal is the same after a step.
LEMMA FixedJournal ==
    ASSUME setup' = setup, NEW j, journal' = j
    PROVE  /\ JournalOK(j) => JournalOK(journal)'
           /\ \A p \in Tasks : HasResult(j, p) <=> HasResult(journal, p)'
           /\ Tasks' = Tasks
           /\ \A p \in Tasks : AtMostOnce(p)' <=> AtMostOnce(p)
  <1>1. Tasks' = Tasks BY DEF Tasks
  <1>2. \A p \in Tasks : AtMostOnce(p)' <=> AtMostOnce(p) BY DEF AtMostOnce
  <1>3. \A p \in Tasks : HasResult(j, p) <=> HasResult(journal, p)' BY DEF HasResult
  <1>4. \A k \in Attempts : Closed(j, k) <=> Closed(journal, k)' BY <1>1 DEF Closed
  <1>5. JournalHas(j) => JournalHas(journal)' BY <1>1, <1>3 DEF JournalHas
  <1>6. JournalInOrder(j) => JournalInOrder(journal)' BY <1>1, <1>2, <1>4 DEF JournalInOrder
  <1>7. JournalOK(j) => JournalOK(journal)' BY <1>5, <1>6 DEF JournalOK
  <1> QED BY <1>1, <1>2, <1>3, <1>7

\* And what is said of a worker's place.
LEMMA FixedWorker ==
    ASSUME setup' = setup, NEW w \in Worker, NEW y \in Places, x'[w] = y,
           Active(y) => /\ PlaceOK(y)
                        /\ ~setup.bounded => PlaceInOrder(y)
                        /\ Advances(y.seen, journal')
                        /\ owner' = w => Current(y, journal')
    PROVE  WorkerOK(w)'
  <1>1. Tasks' = Tasks BY DEF Tasks
  <1>2. \A p \in Tasks : AtMostOnce(p)' <=> AtMostOnce(p) BY DEF AtMostOnce
  <1>3. SUFFICES ASSUME Active(y)
                 PROVE  (/\ PlaceOK(x[w])
                         /\ ~setup.bounded => PlaceInOrder(x[w])
                         /\ Advances(x[w].seen, journal)
                         /\ owner = w => Current(x[w], journal))'
    BY DEF WorkerOK, Active
  <1>4. y.k \in Attempts /\ y.p \in Tasks BY DEF Places
  <1>5. PlaceOK(x[w])'
    <2>1. PlaceOK(y) BY <1>3
    <2>2. \A p \in Tasks : HasResult(y.seen, p) <=> HasResult(x[w].seen, p)' BY DEF HasResult
    <2>3. \A k \in Attempts : Closed(y.seen, k) <=> Closed(x[w].seen, k)' BY <1>1 DEF Closed
    <2>4. JournalHas(y.seen) => JournalHas(x[w].seen)' BY <1>1, <2>2 DEF JournalHas
    <2>5. JournalInOrder(y.seen) => JournalInOrder(x[w].seen)'
      BY <1>1, <1>2, <2>3 DEF JournalInOrder
    <2>6. JournalOK(x[w].seen)' BY <2>1, <2>4, <2>5 DEF JournalOK, PlaceOK
    <2>7. \A k \in Attempts : Arguments(k)' = Arguments(k) BY DEF Arguments
    <2> QED BY <1>1, <1>2, <1>4, <2>1, <2>2, <2>6, <2>7 DEF PlaceOK, Holding
  <1>6. ~setup.bounded => PlaceInOrder(x[w])'
    BY <1>1, <1>2, <1>3 DEF PlaceInOrder, Holding, Catches
  <1>7. Advances(x[w].seen, journal)' BY <1>1, <1>3 DEF Advances
  <1>8. owner' = w => Current(x[w], journal)' BY <1>3 DEF Current
  <1> QED BY <1>5, <1>6, <1>7, <1>8

\* A step of one worker keeps what is said of all.
LEMMA WorkersKept ==
    ASSUME Types, \A v \in Worker : WorkerOK(v), setup' = setup,
           NEW w \in Worker, NEW y \in Places, x' = [x EXCEPT ![w] = y],
           Advances(journal, journal'), journal' = journal \/ owner = w,
           owner' \in {owner, Nobody, w},
           Active(y) => /\ PlaceOK(y)
                        /\ ~setup.bounded => PlaceInOrder(y)
                        /\ Advances(y.seen, journal')
                        /\ owner' = w => Current(y, journal')
    PROVE  (\A v \in Worker : WorkerOK(v))'
  <1> SUFFICES ASSUME NEW v \in Worker PROVE WorkerOK(v)'
    OBVIOUS
  <1>1. CASE v = w
    <2>1. x'[w] = y BY DEF Types
    <2> QED BY <1>1, <2>1, FixedWorker
  <1>2. CASE v # w
    <2>1. PICK z \in Places : z = x[v] /\ x'[v] = z BY <1>2 DEF Types
    <2>2. Active(z) => /\ PlaceOK(z) /\ (~setup.bounded => PlaceInOrder(z))
                       /\ Advances(z.seen, journal)
                       /\ owner = v => Current(z, journal)
      BY <2>1 DEF WorkerOK
    <2>3. Active(z) => Advances(z.seen, journal')
      <3>1. PICK i, j : i = journal /\ j = journal' OBVIOUS
      <3> QED BY <2>2, <3>1, AdvancesFacts
    <2>4. owner' = v => owner = v BY <1>2, BoundAssumption
    <2>5. owner = v => journal' = journal BY <1>2
    <2>6. Active(z) /\ owner' = v => Current(z, journal') BY <2>2, <2>4, <2>5
    <2> QED BY <2>1, <2>2, <2>3, <2>6, FixedWorker
  <1> QED BY <1>1, <1>2

-----------------------------------------------------------------------------
(* The places that the steps lead to.                                      *)

\* What holds at every place: earlier attempts are retried, earlier tasks done.
Base(y) ==
    /\ JournalOK(y.seen)
    /\ \A i \in Attempts : i < y.k => y.seen.retry[i] = "again"
    /\ \A q \in Tasks : q < y.p => HasResult(y.seen, q)
    /\ ~setup.bounded => \A q \in Tasks : q < y.p => y.seen.task[y.k][q] = "ok"

Fits(y) == PlaceOK(y) /\ (~setup.bounded => PlaceInOrder(y))

\* Every place that fits has it.
LEMMA BaseHolds ==
    ASSUME NEW y, Fits(y)
    PROVE  Base(y)
  BY DEF Fits, Base, PlaceOK, PlaceInOrder

\* Base is about the attempt, the task and the copy.
LEMMA BaseMoves ==
    ASSUME NEW y, NEW z, Base(y), z.k = y.k, z.p = y.p, z.seen.call = y.seen.call,
           z.seen.task = y.seen.task, z.seen.retry = y.seen.retry
    PROVE  Base(z)
  <1>1. JournalOK(z.seen) BY SameJournal DEF Base
  <1>2. \A q \in Tasks : HasResult(y.seen, q) <=> HasResult(z.seen, q) BY DEF HasResult
  <1> QED BY <1>1, <1>2 DEF Base

\* At the beginning of an attempt or of a task.
LEMMA AtTask ==
    ASSUME NEW y \in Places, Base(y), y.pc \in {"attempt", "task"}
    PROVE  Fits(y)
  BY DEF Fits, Base, PlaceOK, PlaceInOrder, Holding

\* With an intent that is saved.
LEMMA AtCall ==
    ASSUME NEW y \in Places, Base(y), Holding(y),
           y.seen.call[y.k][y.p].state = "pending",
           AtMostOnce(y.p) => y.seen.call[y.k][y.p].args = Arguments(y.k),
           y.pc = "answer" => y.res \in Heard,
           ~setup.bounded => y.seen.task[y.k][y.p] = "none"
    PROVE  Fits(y)
  BY DEF Fits, Base, PlaceOK, PlaceInOrder, Holding

\* With what the task comes to.
LEMMA AtCheckpoint ==
    ASSUME NEW y \in Places, Base(y), y.pc = "checkpoint", y.res \in Results,
           AtMostOnce(y.p) /\ y.seen.call[y.k][y.p].state = "pending" => y.res = "unknown",
           y.res = "ok" => HasResult(y.seen, y.p),
           ~setup.bounded => y.seen.task[y.k][y.p] = "none"
    PROVE  Fits(y)
  BY DEF Fits, Base, PlaceOK, PlaceInOrder, Holding

\* What a task leaves in the copy, done or failed.
Leaves(s, i, res) ==
    /\ JournalOK(i)
    /\ \A a \in Attempts : a < s.k => i.retry[a] = "again"
    /\ \A q \in Tasks : q < s.p => HasResult(i, q)
    /\ res = "ok" => HasResult(i, s.p)
    /\ ~setup.bounded => /\ \A q \in Tasks : q < s.p => i.task[s.k][q] = "ok"
                         /\ i.task[s.k][s.p] = res

\* Where the list goes on fits what the task left.
LEMMA AtNext ==
    ASSUME setup \in SetupType, NEW s \in Places, NEW y \in Places, NEW res \in Results,
           Follows(s, y, res), Leaves(s, y.seen, res)
    PROVE  Fits(y)
  <1> USE DEF Follows, Leaves
  <1>1. s.p \in Tasks /\ y.k \in Attempts BY DEF Places
  <1>2. CASE res = "ok" /\ s.p # Len(setup.kinds)
    <2>1. y.p = s.p + 1 /\ y.pc = "task" BY <1>2
    <2>2. ASSUME NEW q \in Tasks, q < y.p PROVE q < s.p \/ q = s.p BY <1>1, <2>1, <2>2, TaskNumbers
    <2>3. Base(y) BY <1>2, <2>2 DEF Base
    <2> QED BY <2>1, <2>3, AtTask
  <1>3. CASE res = "ok" /\ s.p = Len(setup.kinds)
    <2>1. y.p = s.p /\ y.pc = "finish" /\ y.res = "ok" BY <1>3
    <2>2. ASSUME NEW q \in Tasks PROVE q < s.p \/ q = s.p BY <1>1, <1>3, TaskNumbers
    <2>3. \A q \in Tasks : HasResult(y.seen, q) BY <1>3, <2>2
    <2>4. ~setup.bounded => \A q \in Tasks : y.seen.task[y.k][q] = "ok" BY <1>3, <2>2
    <2> QED BY <2>1, <2>3, <2>4 DEF Fits, PlaceOK, PlaceInOrder, Holding
  <1>4. CASE res # "ok"
    <2>1. y.p = s.p /\ y.res = res /\ y.pc = IF Catches(res) THEN "caught" ELSE "finish" BY <1>4
    <2>2. CASE Catches(res)
      <3>1. y.pc = "caught" BY <2>1, <2>2
      <3> QED BY <1>4, <2>1, <2>2, <3>1 DEF Fits, PlaceOK, PlaceInOrder, Holding
    <2>3. CASE ~Catches(res)
      <3>1. y.pc = "finish" BY <2>1, <2>3
      <3> QED BY <1>4, <2>1, <3>1 DEF Fits, PlaceOK, PlaceInOrder, Holding
    <2> QED BY <2>2, <2>3
  <1> QED BY <1>2, <1>3, <1>4

\* After the catch's decision, and after its handler.
LEMMA AtDecision ==
    ASSUME NEW y \in Places, Base(y),
           \/ y.pc = "sleep" /\ y.seen.retry[y.k] = "again"
           \/ y.pc = "handler" /\ y.seen.retry[y.k] = "stop"
           \/ y.pc = "finish" /\ y.res = "handled"
    PROVE  Fits(y)
  BY DEF Fits, Base, PlaceOK, PlaceInOrder, Holding

\* The owner goes on with what it knows of the journal.
LEMMA CurrentGoes ==
    ASSUME NEW s \in Places, NEW y \in Places, NEW j, Current(s, j),
           y.seen.call = s.seen.call, y.seen.task = s.seen.task, y.seen.retry = s.seen.retry,
           \/ y.k > s.k
           \/ y.k = s.k /\ (y.pc \in Working => s.pc \in Working)
    PROVE  Current(y, j)
  <1>1. y.k \in Attempts /\ s.k \in Attempts BY DEF Places
  <1>2. ASSUME NEW k \in Attempts, ~setup.bounded \/ k > y.k \/ (k = y.k /\ y.pc \in Working)
        PROVE  ~setup.bounded \/ k > s.k \/ (k = s.k /\ s.pc \in Working)
    BY <1>1, <1>2, AttemptNumbers
  <1> QED BY <1>2 DEF Current

-----------------------------------------------------------------------------
(* The kinds of step.                                                      *)

\* A worker goes to a place that fits, and the journal grows at most as its
\* owner writes it.
StepOf(w, y) ==
    /\ y \in Places /\ x' = [x EXCEPT ![w] = y]
    /\ journal' \in Records /\ JournalOK(journal') /\ Advances(journal, journal')
    /\ journal' = journal \/ owner = w
    /\ Active(y) => /\ Fits(y)
                    /\ Advances(y.seen, journal')
                    /\ owner' = w => Current(y, journal')

\* What a step needs to know of its worker.
Ready(w) == Types /\ JournalOK(journal) /\ Active(x[w]) /\ WorkerOK(w)

\* What is ready has a place that fits.
LEMMA ReadyFacts ==
    ASSUME NEW w \in Worker, Ready(w)
    PROVE  /\ x[w] \in Places /\ x[w].k \in Attempts /\ x[w].p \in Tasks /\ x[w].seen \in Records
           /\ Fits(x[w]) /\ Base(x[w]) /\ Advances(x[w].seen, journal)
           /\ owner = w => Current(x[w], journal)
           /\ setup \in SetupType /\ journal \in Records
  <1>1. x[w] \in Places BY DEF Ready, Types
  <1>2. Fits(x[w]) BY DEF Ready, WorkerOK, Fits
  <1>3. Base(x[w]) BY <1>2, BaseHolds
  <1> QED BY <1>1, <1>2, <1>3 DEF Ready, WorkerOK, Types, Places

\* An execution that ends, whatever it leaves.
LEMMA Stops ==
    ASSUME setup \in SetupType, NEW w \in Worker, x[w] \in Places
    PROVE  /\ Stop(w) \in Places /\ Stop(w).pc = "idle"
           /\ ~Active(Stop(w)) /\ ~Holding(Stop(w)) /\ ~Handled(Stop(w))
  <1>1. NoRecords(Len(setup.kinds)) \in Records BY BlankRecords
  <1>2. Stop(w) \in Places /\ Stop(w).pc = "idle" BY <1>1 DEF Stop, Places
  <1> QED BY <1>2 DEF Active, Holding, Handled

\* A step that writes neither calls nor checkpoints nor decisions.
LEMMA GoStep ==
    ASSUME NEW w \in Worker, Ready(w), NEW y \in Places, x' = [x EXCEPT ![w] = y],
           journal' \in Records, journal' = journal \/ owner = w,
           journal'.call = journal.call, journal'.task = journal.task,
           journal'.retry = journal.retry, owner' \in {owner, Nobody},
           Active(y) =>
              /\ Fits(y)
              /\ y.seen.call = x[w].seen.call /\ y.seen.task = x[w].seen.task
              /\ y.seen.retry = x[w].seen.retry
              /\ \/ y.k > x[w].k
                 \/ y.k = x[w].k /\ (y.pc \in Working => x[w].pc \in Working)
    PROVE  StepOf(w, y)
  <1>1. PICK j \in Records : j = journal' OBVIOUS
  <1>2. JournalOK(j) BY <1>1, SameJournal DEF Ready
  <1>3. Advances(journal, j) BY <1>1, SameAdvances
  <1>4. ASSUME Active(y) PROVE Fits(y) /\ Advances(y.seen, j) /\ (owner' = w => Current(y, j))
    <2>1. Advances(x[w].seen, journal) BY ReadyFacts
    <2>2. Advances(y.seen, x[w].seen) BY <1>4, SameAdvances
    <2>3. Advances(y.seen, j) BY <1>3, <2>1, <2>2, AdvancesFacts
    <2>4. ASSUME owner' = w PROVE Current(y, j)
      <3>1. owner = w BY <2>4, BoundAssumption
      <3>2. Current(x[w], journal) BY <3>1, ReadyFacts
      <3>3. Current(y, journal) BY <1>4, <3>2, ReadyFacts, CurrentGoes
      <3> QED BY <1>1, <3>3 DEF Current
    <2> QED BY <1>4, <2>3, <2>4
  <1> QED BY <1>1, <1>2, <1>3, <1>4 DEF StepOf

\* A step that leaves calls alone.
Local(w, y) ==
    /\ StepOf(w, y)
    /\ journal'.call = journal.call /\ totals' = totals
    /\ ~Holding(y) /\ (Handled(y) => ran')
    /\ UNCHANGED <<sent, twice, handed>>

\* A step that saves the intent of the call that its worker stands at, which
\* nobody has sent or may send if it is at-most-once.
Intends(w, y) ==
    LET k == x[w].k
        p == x[w].p
    IN  /\ StepOf(w, y)
        /\ owner = w /\ x[w].pc = "task" /\ totals' = totals
        /\ journal.call[k][p].state \in {"none", "pending"}
        /\ AtMostOnce(p) => journal.call[k][p].state = "none"
        /\ journal'.call[k][p].state = "pending"
        /\ \A a \in Attempts, q \in Tasks :
              a # k \/ q # p => journal'.call[a][q] = journal.call[a][q]
        /\ ~setup.bounded /\ AtMostOnce(p) =>
              \A a \in Attempts : journal.call[a][p].state \in {"none", "notExecuted"}
        /\ \/ ~Holding(y)
           \/ y.pc = "dispatch" /\ y.k = k /\ y.p = p
        /\ ~Handled(y)
        /\ UNCHANGED <<sent, twice, handed>>

\* A step that saves the answer of a call, or the marker for an unknown one.
Answers(w, y) ==
    LET k == x[w].k
        p == x[w].p
        c == journal'.call[k][p].state
    IN  /\ StepOf(w, y)
        /\ owner = w
        /\ journal.call[k][p].state = "pending"
        /\ \/ c \in {"ok", "failed"} /\ totals' = totals + 1
           \/ c \in {"notExecuted", "marker"} /\ totals' = totals
        /\ c = "marker" \/ (x[w].pc = "answer" /\ x[w].res = c)
        /\ \A a \in Attempts, q \in Tasks :
              a # k \/ q # p => journal'.call[a][q] = journal.call[a][q]
        /\ ~Holding(y) /\ ~Handled(y)
        /\ UNCHANGED <<sent, twice, handed>>

\* What a step leaves of an undisturbed run.
Calm(w, y) ==
    faults = 0 /\ faults' = 0 /\ Undisturbed =>
        /\ ~held' /\ fin' # "cancelled"
        /\ Active(y) => owner' = w /\ fin' = "none"
        /\ ran' => fin' # "none" \/ Handled(y)
        /\ ~setup.names =>
              \A k \in Attempts, p \in Tasks :
                  AtMostOnce(p) /\ <<k, p>> \in sent' /\ journal'.call[k][p].state = "pending" =>
                      \/ fin' # "none" /\ ~ran'
                      \/ StandsAt(y, k, p)

\* The one execution there is.
LEMMA Alone ==
    ASSUME NEW w \in Worker, Ready(w), Undisturbed
    PROVE  /\ owner = w /\ fin = "none" /\ ~held
           /\ MayWrite(w, FALSE) /\ MayWrite(w, TRUE)
           /\ ran => Handled(x[w])
           /\ ~setup.names => \A k \in Attempts, p \in Tasks : InDoubt(k, p) => StandsAt(x[w], k, p)
  <1>1. owner = w /\ fin = "none" /\ ~held BY DEF Undisturbed, Ready
  <1>2. ASSUME NEW v \in Worker, Active(x[v]) PROVE v = w BY <1>1, <1>2 DEF Undisturbed
  <1>3. \A v \in Worker : Handled(x[v]) => v = w BY <1>2 DEF Handled, Active
  <1>4. \A v \in Worker, k \in Attempts, p \in Tasks : StandsAt(x[v], k, p) => v = w
    BY <1>2 DEF StandsAt, Active
  <1> QED BY <1>1, <1>3, <1>4 DEF Undisturbed, MayWrite

\* From a place where no call is in doubt, a step that sends nothing.
LEMMA CalmElsewhere ==
    ASSUME NEW w \in Worker, Ready(w), NEW y \in Places,
           x[w].pc \in {"try", "attempt", "task", "dispatch", "caught", "sleep"},
           fin' = fin, held' = held, ran' = ran, sent' = sent, owner' = owner \/ ~Active(y),
           \A k \in Attempts, p \in Tasks :
              AtMostOnce(p) /\ journal'.call[k][p].state = "pending" /\ <<k, p>> \in sent =>
                 journal.call[k][p].state = "pending"
    PROVE  Calm(w, y)
  <1> SUFFICES ASSUME faults = 0, Undisturbed
               PROVE  /\ ~held' /\ fin' # "cancelled"
                      /\ Active(y) => owner' = w /\ fin' = "none"
                      /\ ran' => fin' # "none" \/ Handled(y)
                      /\ ~setup.names =>
                            \A k \in Attempts, p \in Tasks :
                               ~(AtMostOnce(p) /\ <<k, p>> \in sent' /\ journal'.call[k][p].state = "pending")
    BY DEF Calm
  <1>1. ~ran BY Alone DEF Handled
  <1>2. ~setup.names => \A k \in Attempts, p \in Tasks : ~InDoubt(k, p) BY Alone DEF StandsAt
  <1> QED BY <1>1, <1>2, Alone DEF InDoubt

-----------------------------------------------------------------------------
(* The steps of an execution.                                              *)

\* What these steps leave alone.
Resting == UNCHANGED <<setup, fin, owner, held, wake, now, sent, twice, handed, ran>>

\* The try's task.
LEMMA TryKind ==
    ASSUME NEW w \in Worker, Ready(w), Try(w)
    PROVE  Resting /\ \E y \in Places : Local(w, y) /\ Calm(w, y)
  <1> DEFINE s == x[w]
             j == [journal EXCEPT !.began = now]
             n == Begin(s)
             z == [n EXCEPT !.seen = [s.seen EXCEPT !.began = now]]
  <1>1. s \in Places /\ s.seen \in Records /\ Base(s) /\ journal \in Records /\ setup \in SetupType
        /\ now \in Nat
    BY ReadyFacts DEF Ready, Types
  <1>2. j \in Records /\ j.call = journal.call /\ j.task = journal.task /\ j.retry = journal.retry
    BY <1>1 DEF Records
  <1>3. /\ n \in Places /\ n.seen = s.seen /\ n.k = s.k /\ n.p = 1 /\ n.pc \in {"attempt", "task"}
    BY <1>1, BeginPlace
  <1>4. /\ z \in Places /\ z.seen.call = s.seen.call /\ z.seen.task = s.seen.task
        /\ z.seen.retry = s.seen.retry /\ z.k = s.k /\ z.p = 1 /\ z.pc \in {"attempt", "task"}
    BY <1>1, <1>3 DEF Places, Records
  <1>5. Resting /\ s.pc = "try" BY DEF Try, Resting, history
  <1>6. PICK y : /\ x' = [x EXCEPT ![w] = y]
                 /\ journal' = journal \/ (owner = w /\ journal' = j)
                 /\ totals' = totals
                 /\ y \in {n, z, Stop(w)}
    <2>1. CASE s.seen.began # Unset BY <2>1, <1>3 DEF Try, Go
    <2>2. CASE s.seen.began = Unset
      <3>1. SaveStep(w, [i \in Copies(w) |-> [i EXCEPT !.began = now]], n) BY <2>2 DEF Try
      <3>2. totals + 0 = totals BY DEF Ready, Types
      <3> QED BY <3>1, <3>2 DEF SaveStep, Save, Copies, MayWrite
    <2> QED BY <2>1, <2>2
  <1> HIDE DEF j, n, z
  <1>7. y \in Places /\ ~Holding(y) /\ ~Handled(y)
    BY <1>1, <1>3, <1>4, <1>6, Stops DEF Holding, Handled
  <1>8. ASSUME Active(y)
        PROVE  /\ Fits(y) /\ y.seen.call = s.seen.call /\ y.seen.task = s.seen.task
               /\ y.seen.retry = s.seen.retry /\ y.k = s.k
    <2>1. y \in {n, z} BY <1>1, <1>6, <1>8, Stops
    <2>2. /\ y.seen.call = s.seen.call /\ y.seen.task = s.seen.task /\ y.seen.retry = s.seen.retry
          /\ y.k = s.k /\ y.p = 1 /\ y.pc \in {"attempt", "task"}
      BY <1>3, <1>4, <2>1
    <2>3. Base(y)
      <3>1. JournalOK(y.seen) BY <1>1, <2>2, SameJournal DEF Base
      <3>2. \A q \in Tasks : ~(q < 1) BY <1>1, TaskNumbers
      <3> QED BY <1>1, <2>2, <3>1, <3>2 DEF Base
    <2> QED BY <1>7, <2>2, <2>3, AtTask
  <1>9. StepOf(w, y)
    <2>1. s.pc \in Working BY <1>5 DEF Working
    <2> QED BY <1>1, <1>2, <1>5, <1>6, <1>7, <1>8, <2>1, GoStep DEF Resting
  <1>10. Local(w, y) BY <1>2, <1>5, <1>6, <1>7, <1>9 DEF Local, Resting
  <1>11. Calm(w, y)
    <2>1. journal'.call = journal.call BY <1>2, <1>6
    <2> QED BY <1>5, <1>7, <2>1, CalmElsewhere DEF Resting
  <1> QED BY <1>5, <1>7, <1>10, <1>11

\* The attempt's deadline.
LEMMA AttemptKind ==
    ASSUME NEW w \in Worker, Ready(w), Attempt(w)
    PROVE  Resting /\ \E y \in Places : Local(w, y) /\ Calm(w, y)
  <1> DEFINE s == x[w]
             d == Cap(now + AttemptFor)
             j == [journal EXCEPT !.timer[s.k] = d]
             n == [s EXCEPT !.pc = "task"]
             z == [n EXCEPT !.seen = [s.seen EXCEPT !.timer[s.k] = d]]
  <1>1. s \in Places /\ s.seen \in Records /\ Base(s) /\ journal \in Records /\ setup \in SetupType
    BY ReadyFacts
  <1>2. j \in Records /\ j.call = journal.call /\ j.task = journal.task /\ j.retry = journal.retry
    <2>1. d \in Nat BY BoundAssumption DEF Cap
    <2> HIDE DEF d
    <2> QED BY <1>1, <2>1 DEF Records
  <1>3. n \in Places /\ n.seen = s.seen /\ n.k = s.k /\ n.p = s.p /\ n.pc = "task"
    BY <1>1 DEF Places, Working
  <1>4. /\ z \in Places /\ z.seen.call = s.seen.call /\ z.seen.task = s.seen.task
        /\ z.seen.retry = s.seen.retry /\ z.k = s.k /\ z.p = s.p /\ z.pc = "task"
    <2>1. d \in Nat BY BoundAssumption DEF Cap
    <2> HIDE DEF d
    <2>2. PICK i : i = [s.seen EXCEPT !.timer[s.k] = d] OBVIOUS
    <2>3. i \in Records /\ i.call = s.seen.call /\ i.task = s.seen.task /\ i.retry = s.seen.retry
      BY <1>1, <2>1, <2>2 DEF Records, Places
    <2> QED BY <1>3, <2>2, <2>3 DEF Places
  <1>5. Resting /\ s.pc = "attempt" BY DEF Attempt, Resting, history
  <1>6. PICK y : /\ x' = [x EXCEPT ![w] = y]
                 /\ journal' = journal \/ (owner = w /\ journal' = j)
                 /\ totals' = totals
                 /\ y \in {n, z, Stop(w)}
    <2>1. CASE s.seen.timer[s.k] # Unset BY <2>1, <1>3 DEF Attempt, Go
    <2>2. CASE s.seen.timer[s.k] = Unset
      <3>1. SaveStep(w, [i \in Copies(w) |-> [i EXCEPT !.timer[s.k] = d]], n) BY <2>2 DEF Attempt
      <3>2. totals + 0 = totals BY DEF Ready, Types
      <3> HIDE DEF d
      <3> QED BY <3>1, <3>2 DEF SaveStep, Save, Copies, MayWrite
    <2> QED BY <2>1, <2>2
  <1> HIDE DEF j, n, z, d
  <1>7. y \in Places /\ ~Holding(y) /\ ~Handled(y)
    BY <1>1, <1>3, <1>4, <1>6, Stops DEF Holding, Handled
  <1>8. ASSUME Active(y)
        PROVE  /\ Fits(y) /\ y.seen.call = s.seen.call /\ y.seen.task = s.seen.task
               /\ y.seen.retry = s.seen.retry /\ y.k = s.k
    <2>1. y \in {n, z} BY <1>1, <1>6, <1>8, Stops
    <2>2. /\ y.seen.call = s.seen.call /\ y.seen.task = s.seen.task /\ y.seen.retry = s.seen.retry
          /\ y.k = s.k /\ y.p = s.p /\ y.pc = "task"
      BY <1>3, <1>4, <2>1
    <2>3. Base(y) BY <1>1, <2>2, BaseMoves
    <2> QED BY <1>7, <2>2, <2>3, AtTask
  <1>9. StepOf(w, y)
    <2>1. s.pc \in Working BY <1>5 DEF Working
    <2> QED BY <1>1, <1>2, <1>5, <1>6, <1>7, <1>8, <2>1, GoStep DEF Resting
  <1>10. Local(w, y) BY <1>2, <1>5, <1>6, <1>7, <1>9 DEF Local, Resting
  <1>11. Calm(w, y)
    <2>1. journal'.call = journal.call BY <1>2, <1>6
    <2> QED BY <1>5, <1>7, <2>1, CalmElsewhere DEF Resting
  <1> QED BY <1>5, <1>7, <1>10, <1>11

\* A task that is restored.
LEMMA TaskKind ==
    ASSUME NEW w \in Worker, Ready(w), Task(w)
    PROVE  Resting /\ \E y \in Places : Local(w, y) /\ Calm(w, y)
  <1> DEFINE s == x[w]
  <1>1. /\ s \in Places /\ s.seen \in Records /\ Base(s) /\ setup \in SetupType
        /\ s.k \in Attempts /\ s.p \in Tasks /\ journal \in Records
    BY ReadyFacts
  <1>2. PICK r : r = s.seen.task[s.k][s.p] OBVIOUS
  <1>3. PICK y : y = After(s, r) OBVIOUS
  <1>4. /\ Resting /\ s.pc = "task" /\ r # "none" /\ x' = [x EXCEPT ![w] = y]
        /\ journal' = journal /\ totals' = totals
    BY Zenon, <1>2, <1>3 DEF Task, Go, Resting, history
  <1>5. r \in Results BY <1>1, <1>2, <1>4 DEF Records
  <1>6. y \in Places /\ y.seen = s.seen /\ Follows(s, y, r)
    BY SMTT(30), <1>1, <1>3, <1>5, AfterPlace
  <1>7. Leaves(s, y.seen, r) BY <1>1, <1>2, <1>6 DEF Leaves, Base, JournalOK, JournalHas
  <1>8. Fits(y) BY <1>1, <1>5, <1>6, <1>7, AtNext
  <1>9. ~Holding(y) /\ ~Handled(y) /\ y.k = s.k BY <1>5, <1>6 DEF Holding, Handled, Follows, Results
  <1>10. StepOf(w, y)
    <2>1. s.pc \in Working BY <1>4 DEF Working
    <2> QED BY <1>1, <1>4, <1>6, <1>8, <1>9, <2>1, GoStep DEF Resting
  <1>11. Local(w, y) BY <1>4, <1>9, <1>10 DEF Local, Resting
  <1>12. Calm(w, y) BY <1>4, <1>6, CalmElsewhere DEF Resting
  <1> QED BY <1>4, <1>6, <1>11, <1>12

\* The checkpoint of a task.
LEMMA CheckpointKind ==
    ASSUME NEW w \in Worker, Ready(w), Checkpoint(w)
    PROVE  Resting /\ \E y \in Places : Local(w, y) /\ Calm(w, y)
  <1> DEFINE s == x[w]
  <1>1. PICK r : r = s.res OBVIOUS
  <1>2. PICK n : n = After(s, r) OBVIOUS
  <1>3. PICK j : j = [journal EXCEPT !.task[s.k][s.p] = r] OBVIOUS
  <1>4. PICK i : i = [s.seen EXCEPT !.task[s.k][s.p] = r] OBVIOUS
  <1>5. PICK z : z = [n EXCEPT !.seen = i] OBVIOUS
  <1>6. s \in Places /\ s.seen \in Records /\ Base(s) /\ Fits(s) /\ journal \in Records
        /\ setup \in SetupType /\ s.k \in Attempts /\ s.p \in Tasks
    BY ReadyFacts
  <1>7. Resting /\ s.pc = "checkpoint" BY DEF Checkpoint, Resting, history
  <1>8. /\ r \in Results /\ (r = "ok" => HasResult(s.seen, s.p))
        /\ AtMostOnce(s.p) /\ s.seen.call[s.k][s.p].state = "pending" => r = "unknown"
        /\ ~setup.bounded => s.seen.task[s.k][s.p] = "none"
    BY <1>1, <1>6, <1>7 DEF Fits, PlaceOK, PlaceInOrder
  <1>9. /\ j \in Records /\ j.task[s.k][s.p] = r
        /\ \A a \in Attempts, q \in Tasks : a # s.k \/ q # s.p => j.task[a][q] = journal.task[a][q]
        /\ j.call = journal.call /\ j.retry = journal.retry
        /\ \A a \in Attempts : a # s.k => j.task[a] = journal.task[a]
        /\ j.task[s.k] = [journal.task[s.k] EXCEPT ![s.p] = r]
    BY Zenon, <1>3, <1>6, <1>8 DEF Records
  <1>10. /\ i \in Records /\ i.task[s.k][s.p] = r
         /\ \A a \in Attempts, q \in Tasks : a # s.k \/ q # s.p => i.task[a][q] = s.seen.task[a][q]
         /\ i.call = s.seen.call /\ i.retry = s.seen.retry
         /\ \A a \in Attempts : a # s.k => i.task[a] = s.seen.task[a]
         /\ i.task[s.k] = [s.seen.task[s.k] EXCEPT ![s.p] = r]
    BY Zenon, <1>4, <1>6, <1>8 DEF Records
  <1>11. n \in Places /\ n.seen = s.seen /\ Follows(s, n, r) BY <1>2, <1>6, <1>8, AfterPlace
  <1>12. SaveStep(w, [c \in Copies(w) |-> [c EXCEPT !.task[s.k][s.p] = r]], n)
    BY <1>1, <1>2 DEF Checkpoint
  <1>13. PICK y : /\ x' = [x EXCEPT ![w] = y]
                  /\ \/ owner = w /\ journal' = j
                     \/ journal' = journal /\ y = Stop(w)
                        /\ (faults' = 0 /\ faults = 0 => ~MayWrite(w, FALSE))
                  /\ totals' = totals
                  /\ y = z \/ (y = Stop(w) /\ (faults' = 0 /\ faults = 0 => ~MayWrite(w, FALSE)))
    <2>1. totals + 0 = totals /\ faults + 1 # 0 BY DEF Ready, Types
    <2> QED BY <1>3, <1>4, <1>5, <1>12, <2>1 DEF SaveStep, Save, Copies, MayWrite, Fault
  <1>14. z \in Places /\ z.seen = i /\ Follows(s, z, r) BY <1>5, <1>10, <1>11 DEF Places, Follows
  <1>15. y \in Places /\ ~Holding(y) /\ ~Handled(y)
    BY <1>6, <1>8, <1>13, <1>14, Stops DEF Holding, Handled, Follows, Results
  <1>16. ASSUME owner = w
         PROVE  /\ s.seen.retry = journal.retry
                /\ \A k \in Attempts : ~setup.bounded \/ k >= s.k =>
                      s.seen.call[k] = journal.call[k] /\ s.seen.task[k] = journal.task[k]
    <2>1. Current(s, journal) /\ s.pc \in Working BY <1>7, <1>16, ReadyFacts DEF Working
    <2> QED BY <1>6, <2>1, AttemptNumbers DEF Current
  <1>17. ASSUME owner = w PROVE JournalOK(j)
    <2>1. JournalOK(journal) BY DEF Ready
    <2>2. Advances(s.seen, journal) BY ReadyFacts
    <2>3. r = "ok" => HasResult(journal, s.p) BY <1>6, <1>8, <2>2, AdvancesFacts
    <2>4. ASSUME ~setup.bounded
          PROVE  /\ \A q \in Tasks : q < s.p => journal.task[s.k][q] = "ok"
                 /\ journal.task[s.k][s.p] = "none"
                 /\ AtMostOnce(s.p) /\ journal.call[s.k][s.p].state = "pending" => r = "unknown"
      BY <1>6, <1>8, <1>16, <1>17, <2>4 DEF Base
    <2>5. TaskSaved(journal, j, s.k, s.p, r) BY <1>9, <2>1, <2>3, <2>4 DEF TaskSaved
    <2> QED BY <1>6, <1>8, <2>5, TaskKeepsJournal
  <1>18. JournalOK(i)
    <2>1. TaskSaved(s.seen, i, s.k, s.p, r) BY <1>6, <1>8, <1>10 DEF TaskSaved, Base
    <2> QED BY SMTT(30), <1>6, <1>8, <2>1, TaskKeepsJournal
  <1>19. Fits(z)
    <2>1. \A q \in Tasks : HasResult(i, q) <=> HasResult(s.seen, q) BY <1>10 DEF HasResult
    <2>2. ~setup.bounded => /\ \A q \in Tasks : q < s.p => i.task[s.k][q] = "ok"
                            /\ i.task[s.k][s.p] = r
      BY SMTT(30), <1>6, <1>10, TaskNumbers DEF Base
    <2>3. Leaves(s, i, r) BY <1>6, <1>8, <1>10, <1>18, <2>1, <2>2 DEF Leaves, Base
    <2> QED BY <1>6, <1>8, <1>14, <2>3, AtNext
  <1>20. ASSUME owner = w PROVE Current(z, j)
    <2>1. ASSUME NEW k \in Attempts, ~setup.bounded \/ k >= s.k
          PROVE  i.call[k] = j.call[k] /\ i.task[k] = j.task[k]
      <3>1. s.seen.call[k] = journal.call[k] /\ s.seen.task[k] = journal.task[k]
        BY <1>16, <1>20, <2>1
      <3> QED BY <1>9, <1>10, <3>1
    <2>2. ASSUME NEW k \in Attempts, ~setup.bounded \/ k > z.k \/ (k = z.k /\ z.pc \in Working)
          PROVE  ~setup.bounded \/ k >= s.k
      BY <1>6, <1>14, <2>2, AttemptNumbers DEF Follows
    <2> QED BY <1>9, <1>10, <1>14, <1>16, <1>20, <2>1, <2>2 DEF Current
  <1>21. StepOf(w, y)
    <2>1. Advances(journal, j) BY <1>9, SameAdvances
    <2>2. Advances(journal, journal) BY AdvancesFacts
    <2>3. ASSUME Active(y) PROVE y = z /\ owner = w /\ journal' = j
      BY <1>6, <1>13, <2>3, Stops
    <2>4. Advances(i, j)
      <3>1. Advances(s.seen, journal) BY ReadyFacts
      <3>2. Advances(i, s.seen) BY <1>10, SameAdvances
      <3> QED BY <2>1, <3>1, <3>2, AdvancesFacts
    <2>5. journal' \in Records /\ JournalOK(journal') /\ Advances(journal, journal')
          /\ (journal' = journal \/ owner = w)
      BY <1>6, <1>9, <1>13, <1>17, <2>1, <2>2 DEF Ready
    <2>6. Active(y) => Fits(y) /\ Advances(y.seen, journal') /\ (owner' = w => Current(y, journal'))
      BY <1>14, <1>19, <1>20, <2>3, <2>4
    <2> QED BY <1>13, <1>15, <2>5, <2>6 DEF StepOf
  <1>22. journal'.call = journal.call BY <1>9, <1>13
  <1>23. Local(w, y) BY <1>7, <1>13, <1>15, <1>21, <1>22 DEF Local, Resting
  <1>24. Calm(w, y)
    <2> SUFFICES ASSUME faults = 0, faults' = 0, Undisturbed
                 PROVE  /\ ~held' /\ fin' # "cancelled"
                        /\ Active(y) => owner' = w /\ fin' = "none"
                        /\ ran' => fin' # "none" \/ Handled(y)
                        /\ ~setup.names => \A k \in Attempts, p \in Tasks :
                              AtMostOnce(p) /\ <<k, p>> \in sent' /\ journal'.call[k][p].state = "pending"
                                 => StandsAt(y, k, p)
      BY DEF Calm
    <2>1. y = z BY <1>13, Alone
    <2>2. ~ran BY <1>7, Alone DEF Handled
    <2>3. ASSUME ~setup.names, NEW k \in Attempts, NEW p \in Tasks,
                 AtMostOnce(p), <<k, p>> \in sent', journal'.call[k][p].state = "pending"
          PROVE  StandsAt(y, k, p)
      <3>1. InDoubt(k, p) BY <1>7, <1>22, <2>3 DEF InDoubt, Resting
      <3>2. k = s.k /\ p = s.p /\ s.seen.call[k][p].state = "pending"
        BY <1>7, <2>3, <3>1, Alone DEF StandsAt
      <3>3. r = "unknown" BY <1>8, <2>3, <3>2
      <3>4. ~Catches(r) BY <2>3, <3>3 DEF Catches
      <3>5. z.pc = "finish" /\ z.res = "unknown" BY <1>14, <3>3, <3>4 DEF Follows
      <3> QED BY <1>10, <1>14, <2>1, <3>2, <3>5 DEF StandsAt, Follows
    <2> QED BY <1>7, <2>1, <2>2, <2>3, Alone DEF Resting
  <1> QED BY <1>7, <1>15, <1>23, <1>24

\* What the catch sees is known to it, where a catch takes no unknown outcome.
LEMMA CaughtKnows ==
    ASSUME NEW w \in Worker, Ready(w), x[w].pc = "caught", ~setup.bounded
    PROVE  /\ Closed(x[w].seen, x[w].k)
           /\ ~setup.names =>
                 \A q \in Tasks : AtMostOnce(q) => x[w].seen.call[x[w].k][q].state # "pending"
  <1> DEFINE s == x[w]
  <1>1. s \in Places /\ setup \in SetupType /\ s.k \in Attempts /\ s.p \in Tasks /\ Fits(s)
    BY ReadyFacts
  <1>2. /\ JournalInOrder(s.seen) /\ s.res \in Results /\ s.res # "ok"
        /\ s.seen.task[s.k][s.p] = s.res /\ Catches(s.res)
        /\ \A q \in Tasks : q < s.p => s.seen.task[s.k][q] = "ok"
    BY <1>1 DEF Fits, PlaceOK, PlaceInOrder, JournalOK
  <1>3. Closed(s.seen, s.k) BY <1>1, <1>2 DEF Closed, Results
  <1>4. ASSUME ~setup.names, NEW q \in Tasks, AtMostOnce(q), s.seen.call[s.k][q].state = "pending"
        PROVE  FALSE
    <2>1. s.seen.task[s.k][q] \in {"none", "unknown"} BY <1>1, <1>2, <1>4 DEF JournalInOrder
    <2>2. s.res \notin {"none", "unknown"} BY <1>2, <1>4 DEF Catches
    <2>3. ~(q < s.p) /\ q # s.p BY <1>2, <2>1, <2>2
    <2>4. s.p < q BY <1>1, <2>3, TaskNumbers
    <2>5. s.seen.task[s.k][s.p] = "ok" BY <1>1, <1>2, <1>4, <2>4 DEF JournalInOrder
    <2> QED BY SMTT(30), <1>2, <2>5
  <1> QED BY <1>3, <1>4

\* The catch's decision.
LEMMA CaughtKind ==
    ASSUME NEW w \in Worker, Ready(w), Caught(w)
    PROVE  Resting /\ \E y \in Places : Local(w, y) /\ Calm(w, y)
  <1> DEFINE s == x[w]
  <1>1. /\ s \in Places /\ s.seen \in Records /\ Base(s) /\ setup \in SetupType
        /\ s.k \in Attempts /\ s.p \in Tasks /\ journal \in Records /\ Advances(s.seen, journal)
        /\ owner = w => Current(s, journal)
    BY ReadyFacts
  <1>2. Resting /\ s.pc = "caught" BY DEF Caught, Resting, history
  <1>3. PICK d : d = IF s.seen.retry[s.k] # "none" THEN s.seen.retry[s.k]
                     ELSE IF BlocksRetry(s.seen, s.k) \/ RetriesEnd(s.k, s.seen.began)
                          THEN "stop" ELSE "again"
    OBVIOUS
  <1>4. PICK c : c = IF d = "again" THEN "sleep" ELSE "handler" OBVIOUS
  <1>5. PICK n : n = [s EXCEPT !.pc = c] OBVIOUS
  <1>6. PICK j : j = [journal EXCEPT !.retry[s.k] = d] OBVIOUS
  <1>7. PICK i : i = [s.seen EXCEPT !.retry[s.k] = d] OBVIOUS
  <1>8. PICK z : z = [n EXCEPT !.seen = i] OBVIOUS
  <1>9. d \in {"again", "stop"} BY <1>1, <1>3 DEF Records
  <1>10. s.seen.retry[s.k] = "none" /\ d = "again" => s.k < MaxAttempts
    BY <1>1, <1>3, AttemptNumbers DEF RetriesEnd
  <1>11. c \in {"sleep", "handler"} /\ c \in Ending BY <1>4 DEF Ending
  <1>12. n \in Places /\ n.seen = s.seen /\ n.k = s.k /\ n.p = s.p /\ n.pc = c
    BY <1>1, <1>5, <1>11 DEF Places
  <1>13. /\ i \in Records /\ i.retry[s.k] = d /\ i.call = s.seen.call /\ i.task = s.seen.task
         /\ \A a \in Attempts : a # s.k => i.retry[a] = s.seen.retry[a]
         /\ i.retry = [s.seen.retry EXCEPT ![s.k] = d]
    BY <1>1, <1>7, <1>9 DEF Records
  <1>14. /\ j \in Records /\ j.retry[s.k] = d /\ j.call = journal.call /\ j.task = journal.task
         /\ \A a \in Attempts : a # s.k => j.retry[a] = journal.retry[a]
         /\ j.retry = [journal.retry EXCEPT ![s.k] = d]
    BY <1>1, <1>6, <1>9 DEF Records
  <1>15. z \in Places /\ z.seen = i /\ z.k = s.k /\ z.p = s.p /\ z.pc = c
    BY <1>8, <1>12, <1>13 DEF Places
  <1>16. PICK y : /\ x' = [x EXCEPT ![w] = y] /\ totals' = totals
                  /\ \/ y = n /\ journal' = journal /\ s.seen.retry[s.k] # "none"
                     \/ /\ y \in {z, Stop(w)} /\ journal' = j /\ owner = w
                        /\ s.seen.retry[s.k] = "none"
                     \/ y = Stop(w) /\ journal' = journal
    <2>1. CASE s.seen.retry[s.k] # "none"
      BY <1>3, <1>4, <1>5, <2>1 DEF Caught, Go
    <2>2. CASE s.seen.retry[s.k] = "none"
      <3>1. SaveStep(w, [e \in Copies(w) |-> [e EXCEPT !.retry[s.k] = d]], n)
        BY <1>3, <1>4, <1>5, <2>2 DEF Caught
      <3>2. totals + 0 = totals BY DEF Ready, Types
      <3> QED BY <1>6, <1>7, <1>8, <2>2, <3>1, <3>2 DEF SaveStep, Save, Copies, MayWrite
    <2> QED BY <2>1, <2>2
  <1>17. y \in Places /\ ~Holding(y) /\ ~Handled(y)
    BY <1>1, <1>11, <1>12, <1>15, <1>16, Stops DEF Holding, Handled
  <1>18. ASSUME s.seen.retry[s.k] = "none"
         PROVE  JournalOK(i) /\ Base(z)
    <2>1. RetrySaved(s.seen, i, s.k, d)
      BY <1>1, <1>2, <1>10, <1>13, <1>18, CaughtKnows DEF RetrySaved, Base
    <2>2. JournalOK(i) BY <1>1, <1>9, <2>1, RetryKeepsJournal
    <2>3. \A q \in Tasks : HasResult(i, q) <=> HasResult(s.seen, q) BY <1>13 DEF HasResult
    <2>4. \A a \in Attempts : a < s.k => i.retry[a] = "again"
      BY <1>1, <1>13, AttemptNumbers DEF Base
    <2> QED BY <1>1, <1>13, <1>15, <2>2, <2>3, <2>4 DEF Base
  <1>19. ASSUME owner = w, s.seen.retry[s.k] = "none"
         PROVE  JournalOK(j) /\ Advances(journal, j) /\ Advances(i, j) /\ Current(z, j)
    <2>1. s.seen.retry = journal.retry BY <1>1, <1>19 DEF Current
    <2>2. ~setup.bounded => s.seen.call[s.k] = journal.call[s.k] /\ s.seen.task[s.k] = journal.task[s.k]
      BY <1>1, <1>19 DEF Current
    <2>3. RetrySaved(journal, j, s.k, d)
      <3>1. JournalOK(journal) BY DEF Ready
      <3>2. ASSUME ~setup.bounded
            PROVE  /\ Closed(journal, s.k)
                   /\ \A a \in Attempts : a < s.k => journal.retry[a] = "again"
                   /\ ~setup.names => \A q \in Tasks : AtMostOnce(q) => journal.call[s.k][q].state # "pending"
        BY <1>1, <1>2, <2>1, <2>2, <3>2, CaughtKnows DEF Base, Closed
      <3> QED BY <1>10, <1>14, <1>19, <2>1, <3>1, <3>2 DEF RetrySaved
    <2>4. JournalOK(j) BY <1>1, <1>9, <2>3, RetryKeepsJournal
    <2>5. Advances(journal, j) BY <1>1, <1>14, <1>19, <2>1 DEF Advances, Advance
    <2>6. i.retry = j.retry BY <1>13, <1>14, <2>1
    <2>7. Advances(i, j)
      <3>1. \A a \in Attempts, q \in Tasks : Advance(s.seen.call[a][q], journal.call[a][q])
        BY <1>1 DEF Advances
      <3> QED BY <1>13, <1>14, <2>6, <3>1 DEF Advances
    <2>8. z.pc \notin Working BY <1>11, <1>15 DEF Working
    <2>9. Current(z, j) BY <1>1, <1>13, <1>14, <1>15, <1>19, <2>6, <2>8 DEF Current
    <2> QED BY <2>4, <2>5, <2>7, <2>9
  <1>20. StepOf(w, y)
    <2>1. CASE y = n /\ journal' = journal /\ s.seen.retry[s.k] # "none"
      <3>1. Base(n) BY <1>1, <1>12, BaseMoves
      <3>2. n.seen.retry[n.k] = d BY <1>3, <1>12, <2>1
      <3>3. Fits(n) BY <1>4, <1>9, <1>12, <3>1, <3>2, AtDecision
      <3>4. n.pc \notin Working BY <1>11, <1>12 DEF Working
      <3> QED BY <1>1, <1>2, <1>12, <1>16, <2>1, <3>3, <3>4, GoStep DEF Resting
    <2>2. CASE /\ y \in {z, Stop(w)} /\ journal' = j /\ owner = w /\ s.seen.retry[s.k] = "none"
      <3>1. Active(y) => y = z BY <1>1, <2>2, Stops
      <3>2. Fits(z) BY <1>4, <1>9, <1>13, <1>15, <1>18, <2>2, AtDecision
      <3> QED BY <1>14, <1>15, <1>16, <1>17, <1>19, <2>2, <3>1, <3>2 DEF StepOf
    <2>3. CASE y = Stop(w) /\ journal' = journal
      <3>1. ~Active(y) BY <1>1, <2>3, Stops
      <3> QED BY <1>1, <1>2, <1>16, <1>17, <2>3, <3>1, GoStep DEF Resting
    <2> QED BY <1>16, <2>1, <2>2, <2>3
  <1>21. journal'.call = journal.call BY <1>14, <1>16
  <1>22. Local(w, y) BY <1>2, <1>16, <1>17, <1>20, <1>21 DEF Local, Resting
  <1>23. Calm(w, y) BY <1>2, <1>17, <1>21, CalmElsewhere DEF Resting
  <1> QED BY <1>2, <1>17, <1>22, <1>23

\* The back-off: a sleep that leaves the worker, and the next attempt.
LEMMA SleepKind ==
    ASSUME NEW w \in Worker, Ready(w), Sleep(w)
    PROVE  /\ UNCHANGED <<setup, fin, held, now, ran>> /\ owner' \in {owner, Nobody} /\ wake' \in Nat
           /\ \E y \in Places : Local(w, y) /\ Calm(w, y)
  <1> DEFINE s == x[w]
  <1>1. /\ s \in Places /\ s.seen \in Records /\ Base(s) /\ Fits(s) /\ setup \in SetupType
        /\ s.k \in Attempts /\ s.p \in Tasks /\ journal \in Records
    BY ReadyFacts
  <1>2. /\ UNCHANGED <<setup, fin, held, now, sent, twice, handed, ran>> /\ s.pc = "sleep"
        /\ owner' \in {owner, Nobody}
    BY DEF Sleep, history
  <1>3. PICK d : d = Cap(now + BackOff(s.k)) OBVIOUS
  <1>4. d \in Nat BY <1>3, BoundAssumption DEF Cap
  <1>5. PICK l \in Nat : l = s.k + 1 BY <1>1, AttemptNumbers
  <1>6. l \in Attempts /\ s.seen.retry[s.k] = "again"
    <2>1. s.seen.retry[s.k] = "again" BY <1>1, <1>2 DEF Fits, PlaceOK
    <2>2. s.k < MaxAttempts BY <1>1, <2>1 DEF Base, JournalOK, JournalHas
    <2> QED BY <1>1, <1>5, <2>1, <2>2, AttemptNumbers
  <1>7. PICK i : i = [s.seen EXCEPT !.sleep[s.k] = d] OBVIOUS
  <1>8. PICK j : j = [journal EXCEPT !.sleep[s.k] = d] OBVIOUS
  <1>9. PICK z : z = [s EXCEPT !.seen = i] OBVIOUS
  <1>10. PICK m : m = [s EXCEPT !.k = l, !.res = "none"] OBVIOUS
  <1>11. PICK n : n = Begin(m) OBVIOUS
  <1>12. i \in Records /\ i.call = s.seen.call /\ i.task = s.seen.task /\ i.retry = s.seen.retry
    BY <1>1, <1>4, <1>7 DEF Records
  <1>13. j \in Records /\ j.call = journal.call /\ j.task = journal.task /\ j.retry = journal.retry
    BY <1>1, <1>4, <1>8 DEF Records
  <1>14. z \in Places /\ z.seen = i /\ z.k = s.k /\ z.p = s.p /\ z.pc = "sleep"
    BY <1>1, <1>2, <1>9, <1>12 DEF Places
  <1>15. m \in Places /\ m.seen = s.seen /\ m.k = l
    BY <1>1, <1>6, <1>10 DEF Places
  <1>16. n \in Places /\ n.seen = s.seen /\ n.k = l /\ n.p = 1 /\ n.pc \in {"attempt", "task"}
    BY <1>1, <1>11, <1>15, BeginPlace
  <1>17. PICK y : /\ x' = [x EXCEPT ![w] = y] /\ totals' = totals
                  /\ journal' = journal \/ (owner = w /\ journal' = j)
                  /\ y \in {n, z, Stop(w)}
                  /\ Active(y) => owner' = owner
    <2>1. m = [s EXCEPT !.k = s.k + 1, !.res = "none"] BY <1>5, <1>10
    <2>2. CASE /\ s.seen.sleep[s.k] = Unset
               /\ SaveStep(w, [e \in Copies(w) |-> [e EXCEPT !.sleep[s.k] = d]], s)
               /\ UNCHANGED <<owner, wake>>
      <3>1. totals + 0 = totals BY DEF Ready, Types
      <3> QED BY <1>7, <1>8, <1>9, <2>2, <3>1 DEF SaveStep, Save, Copies, MayWrite
    <2>3. CASE Go(w, n) /\ UNCHANGED <<owner, wake>> BY <2>3 DEF Go
    <2>4. CASE Go(w, Stop(w)) BY <1>1, <2>4, Stops DEF Go
    <2> QED BY <1>3, <1>11, <2>1, <2>2, <2>3, <2>4 DEF Sleep
  <1>18. y \in Places /\ ~Holding(y) /\ ~Handled(y)
    BY <1>1, <1>14, <1>16, <1>17, Stops DEF Holding, Handled
  <1>19. wake' \in Nat
    <2>1. wake \in Nat /\ s.seen.sleep[s.k] \in Nat BY <1>1 DEF Ready, Types, Records
    <2> QED BY <2>1 DEF Sleep
  <1>20. StepOf(w, y)
    <2>1. CASE y = n
      <3>1. Base(n)
        <4>1. ASSUME NEW a \in Attempts, a < l PROVE n.seen.retry[a] = "again"
          <5>1. a < s.k \/ a = s.k BY <1>1, <1>5, <4>1, AttemptNumbers
          <5> QED BY <1>1, <1>6, <1>16, <5>1 DEF Base
        <4>2. \A q \in Tasks : ~(q < 1) BY <1>1, TaskNumbers
        <4> QED BY <1>1, <1>16, <4>1, <4>2 DEF Base
      <3>2. Fits(n) BY <1>16, <3>1, AtTask
      <3>3. n.k > s.k BY <1>1, <1>5, <1>16, AttemptNumbers
      <3> QED BY <1>1, <1>2, <1>13, <1>16, <1>17, <2>1, <3>2, <3>3, GoStep
    <2>2. CASE y = z
      <3>1. Base(z) BY <1>1, <1>12, <1>14, BaseMoves
      <3>2. Fits(z) BY <1>6, <1>12, <1>14, <3>1, AtDecision
      <3>3. z.pc \notin Working BY <1>14 DEF Working
      <3> QED BY <1>1, <1>2, <1>12, <1>13, <1>14, <1>17, <2>2, <3>2, <3>3, GoStep
    <2>3. CASE y = Stop(w)
      <3>1. ~Active(y) BY <1>1, <2>3, Stops
      <3> QED BY <1>1, <1>2, <1>13, <1>17, <1>18, <2>3, <3>1, GoStep
    <2> QED BY <1>17, <2>1, <2>2, <2>3
  <1>21. journal'.call = journal.call BY <1>13, <1>17
  <1>22. Local(w, y) BY <1>2, <1>17, <1>18, <1>20, <1>21 DEF Local
  <1>23. Calm(w, y) BY <1>2, <1>17, <1>18, <1>21, CalmElsewhere
  <1> QED BY <1>2, <1>18, <1>19, <1>22, <1>23

\* The catch's handler.
LEMMA HandlerKind ==
    ASSUME NEW w \in Worker, Ready(w), Handler(w)
    PROVE  /\ UNCHANGED <<setup, fin, owner, held, wake, now>> /\ ran' = TRUE
           /\ \E k \in Attempts : journal.retry[k] = "stop"
           /\ journal' = journal
           /\ \E y \in Places : Local(w, y) /\ Calm(w, y)
  <1> DEFINE s == x[w]
  <1>1. /\ s \in Places /\ s.seen \in Records /\ Base(s) /\ Fits(s) /\ setup \in SetupType
        /\ s.k \in Attempts /\ s.p \in Tasks /\ journal \in Records /\ Advances(s.seen, journal)
    BY ReadyFacts
  <1>2. PICK y : y = [s EXCEPT !.pc = "finish", !.res = "handled"] OBVIOUS
  <1>3. /\ UNCHANGED <<setup, fin, owner, held, wake, now, journal, totals, sent, twice, handed>>
        /\ s.pc = "handler" /\ ran' = TRUE /\ x' = [x EXCEPT ![w] = y]
    <2>1. x' = [x EXCEPT ![w].pc = "finish", ![w].res = "handled"] BY DEF Handler
    <2>2. x \in [Worker -> Places] BY DEF Ready, Types
    <2>3. x' = [x EXCEPT ![w] = y] BY <1>1, <1>2, <2>1, <2>2 DEF Places
    <2> QED BY <2>3 DEF Handler, store
  <1>4. /\ y \in Places /\ y.seen = s.seen /\ y.k = s.k /\ y.p = s.p
        /\ y.pc = "finish" /\ y.res = "handled"
    BY <1>1, <1>2 DEF Places, Ending
  <1>5. s.seen.retry[s.k] = "stop" BY <1>1, <1>3 DEF Fits, PlaceOK
  <1>6. journal.retry[s.k] = "stop" BY <1>1, <1>5 DEF Advances
  <1>7. StepOf(w, y)
    <2>1. Base(y) BY <1>1, <1>4, BaseMoves
    <2>2. Fits(y) BY <1>4, <2>1, AtDecision
    <2>3. y.pc \notin Working BY <1>4 DEF Working
    <2> QED BY <1>1, <1>3, <1>4, <2>2, <2>3, GoStep
  <1>8. Local(w, y) BY <1>3, <1>4, <1>7 DEF Local, Holding
  <1>9. Calm(w, y)
    <2>1. Handled(y) BY <1>4 DEF Handled
    <2> SUFFICES ASSUME Undisturbed
                 PROVE  /\ ~held' /\ fin' # "cancelled" /\ owner' = w /\ fin' = "none"
                        /\ ~setup.names => \A k \in Attempts, p \in Tasks : ~InDoubt(k, p)
      BY <1>3, <2>1 DEF Calm, InDoubt
    <2>2. \A k \in Attempts, p \in Tasks : ~StandsAt(s, k, p) BY <1>3 DEF StandsAt
    <2> QED BY <1>3, <2>2, Alone
  <1> QED BY <1>1, <1>3, <1>4, <1>6, <1>8, <1>9

\* The end of the run.
LEMMA FinishKind ==
    ASSUME NEW w \in Worker, Ready(w), EndsAreTrue, Finish(w)
    PROVE  /\ UNCHANGED <<setup, held, wake, now, ran, journal>> /\ owner' \in {owner, Nobody}
           /\ fin' \in {fin, "completed", "faulted"}
           /\ fin' = "completed" /\ ~ran => fin = "completed" \/ \A p \in Tasks : HasResult(journal, p)
           /\ \E y \in Places : Local(w, y) /\ Calm(w, y)
  <1> DEFINE s == x[w]
  <1>1. s \in Places /\ Fits(s) /\ setup \in SetupType /\ journal \in Records /\ Advances(s.seen, journal)
    BY ReadyFacts
  <1>2. /\ UNCHANGED <<setup, held, wake, now, ran, journal, totals, sent, twice, handed>>
        /\ s.pc = "finish" /\ x' = [x EXCEPT ![w] = Stop(w)] /\ owner' \in {owner, Nobody}
        /\ fin' \in {fin, "completed", "faulted"}
        /\ fin' = "completed" => fin = "completed" \/ s.res \in {"ok", "handled"}
        /\ MayWrite(w, FALSE) => fin' # "none" /\ fin' # "cancelled"
    BY DEF Finish, history
  <1>3. PICK y : y = Stop(w) OBVIOUS
  <1>4. y \in Places /\ ~Active(y) /\ ~Holding(y) /\ ~Handled(y) BY <1>1, <1>3, Stops
  <1>5. ASSUME fin' = "completed", ~ran, fin # "completed", NEW p \in Tasks PROVE HasResult(journal, p)
    <2>1. s.res = "ok" BY <1>2, <1>5 DEF EndsAreTrue
    <2>2. HasResult(s.seen, p) BY <1>1, <1>2, <1>5, <2>1 DEF Fits, PlaceOK
    <2> QED BY <1>1, <2>2, AdvancesFacts
  <1>6. StepOf(w, y) BY <1>1, <1>2, <1>3, <1>4, GoStep
  <1>7. Local(w, y) BY <1>2, <1>4, <1>6 DEF Local
  <1>8. Calm(w, y)
    <2> SUFFICES ASSUME Undisturbed
                 PROVE  /\ ~held' /\ fin' # "cancelled" /\ fin' # "none"
                        /\ ~setup.names => \A k \in Attempts, p \in Tasks : InDoubt(k, p) => ~ran
      BY <1>2, <1>4 DEF Calm, InDoubt
    <2>1. ran => s.res = "handled" BY Alone DEF Handled
    <2>2. \A k \in Attempts, p \in Tasks : StandsAt(s, k, p) => s.res = "unknown"
      BY <1>2 DEF StandsAt
    <2> QED BY <1>2, <2>1, <2>2, Alone
  <1> QED BY <1>2, <1>4, <1>5, <1>7, <1>8

\* A worker that is lost.
LEMMA CrashKind ==
    ASSUME NEW w \in Worker, Ready(w), Crash(w)
    PROVE  Resting /\ journal' = journal /\ \E y \in Places : Local(w, y) /\ Calm(w, y)
  <1>1. /\ x[w] \in Places /\ setup \in SetupType /\ journal \in Records
    BY ReadyFacts
  <1>2. /\ Resting /\ UNCHANGED <<journal, totals>> /\ x' = [x EXCEPT ![w] = Stop(w)]
        /\ faults' = faults + 1
    BY DEF Crash, Resting, history, store, Fault
  <1>3. PICK y : y = Stop(w) OBVIOUS
  <1>4. y \in Places /\ ~Active(y) /\ ~Holding(y) /\ ~Handled(y) BY <1>1, <1>3, Stops
  <1>5. StepOf(w, y) BY <1>1, <1>2, <1>3, <1>4, GoStep DEF Resting
  <1>6. Local(w, y) BY <1>2, <1>4, <1>5 DEF Local, Resting
  <1>7. Calm(w, y)
    <2>1. faults \in Nat BY DEF Ready, Types
    <2>2. faults' # 0 BY <1>2, <2>1
    <2> QED BY <2>2 DEF Calm
  <1> QED BY <1>2, <1>4, <1>6, <1>7

-----------------------------------------------------------------------------
(* The steps that write a call's record.                                   *)

\* The place of a worker that has written a record to its copy.
Wrote(w, n, c) == [n EXCEPT !.seen = [x[w].seen EXCEPT !.call[x[w].k][x[w].p] = c]]

\* What the journal or a copy is with the record.
Writes(i, j, k, p, c) ==
    /\ j \in Records /\ j.call[k][p] = c
    /\ \A a \in Attempts, q \in Tasks : a # k \/ q # p => j.call[a][q] = i.call[a][q]
    /\ \A a \in Attempts : a # k => j.call[a] = i.call[a]
    /\ j.call[k] = [i.call[k] EXCEPT ![p] = c]
    /\ j.task = i.task /\ j.retry = i.retry

\* A worker that writes one as the owner of the run.
LEMMA WroteFacts ==
    ASSUME NEW w \in Worker, Ready(w), x[w].pc \in Working, owner = w, NEW n \in Places,
           n.k = x[w].k, n.p = x[w].p, NEW c \in CallRec, c.state # "none",
           CheckTransition(journal.call[x[w].k][x[w].p], c),
           ~setup.bounded => x[w].seen.task[x[w].k][x[w].p] = "none",
           NEW z, z = Wrote(w, n, c)
    PROVE  /\ z \in Places /\ z.pc = n.pc /\ z.k = n.k /\ z.p = n.p /\ z.res = n.res
           /\ Base(z) /\ Writes(x[w].seen, z.seen, x[w].k, x[w].p, c)
           /\ x[w].seen.call[x[w].k] = journal.call[x[w].k]
  <1> DEFINE s == x[w]
  <1>1. /\ s \in Places /\ s.seen \in Records /\ Base(s) /\ setup \in SetupType
        /\ s.k \in Attempts /\ s.p \in Tasks /\ journal \in Records /\ Current(s, journal)
    BY ReadyFacts
  <1>2. s.seen.call[s.k] = journal.call[s.k] BY <1>1 DEF Current
  <1>3. PICK i : i = [s.seen EXCEPT !.call[s.k][s.p] = c] OBVIOUS
  <1>4. Writes(s.seen, i, s.k, s.p, c) BY Zenon, <1>1, <1>3 DEF Records, Writes
  <1>5. z = [n EXCEPT !.seen = i] BY SMTT(30), <1>3 DEF Wrote
  <1>6. z \in Places /\ z.pc = n.pc /\ z.k = n.k /\ z.p = n.p /\ z.res = n.res /\ z.seen = i
    BY <1>4, <1>5 DEF Places, Writes
  <1>7. Advance(s.seen.call[s.k][s.p], c) BY <1>2 DEF CheckTransition, Advance
  <1>8. CallSaved(s.seen, i, s.k, s.p) BY Zenon, <1>1, <1>4, <1>7 DEF CallSaved, Writes, Base
  <1>9. JournalOK(i) BY <1>1, <1>8, CallKeepsJournal
  <1>10. Advances(s.seen, i) BY ZenonT(30), <1>1, <1>4, <1>7 DEF Advances, Advance, Writes
  <1>11. Base(z)
    <2>1. \A q \in Tasks : HasResult(s.seen, q) => HasResult(i, q) BY <1>10, AdvancesFacts
    <2> QED BY <1>1, <1>4, <1>6, <1>9, <2>1 DEF Base, Writes
  <1> QED BY <1>2, <1>4, <1>6, <1>11

\* A save of a record: it happens, and the worker goes on or stops, or it does not.
LEMMA SaveCallStep ==
    ASSUME NEW w \in Worker, Ready(w), x[w].pc \in Working, NEW n \in Places,
           n.k = x[w].k, n.p = x[w].p, n.pc \in Working, NEW c \in CallRec, c.state # "none",
           owner' = owner, SaveCall(w, c, n),
           ~setup.bounded => x[w].seen.task[x[w].k][x[w].p] = "none",
           owner = w /\ CheckTransition(journal.call[x[w].k][x[w].p], c) => Fits(Wrote(w, n, c))
    PROVE  \E y \in Places :
              /\ StepOf(w, y)
              /\ \/ /\ owner = w /\ CheckTransition(journal.call[x[w].k][x[w].p], c)
                    /\ Writes(journal, journal', x[w].k, x[w].p, c)
                    /\ totals' = totals + Gain(journal.call[x[w].k][x[w].p], c)
                    /\ y = Wrote(w, n, c) \/ (y = Stop(w) /\ faults' # 0)
                 \/ /\ journal' = journal /\ totals' = totals /\ y = Stop(w)
                    /\ \/ faults' # 0 \/ ~MayWrite(w, TRUE) \/ ~MayWrite(w, FALSE)
                       \/ ~CheckTransition(journal.call[x[w].k][x[w].p], c)
  <1> DEFINE s == x[w]
             old == journal.call[s.k][s.p]
  <1>1. /\ s \in Places /\ s.seen \in Records /\ Base(s) /\ setup \in SetupType
        /\ s.k \in Attempts /\ s.p \in Tasks /\ journal \in Records /\ Advances(s.seen, journal)
        /\ owner = w => Current(s, journal)
    BY ReadyFacts
  <1>2. PICK j : j = [journal EXCEPT !.call[s.k][s.p] = c] OBVIOUS
  <1>3. PICK z : z = Wrote(w, n, c) OBVIOUS
  <1>4. Writes(journal, j, s.k, s.p, c) BY <1>1, <1>2 DEF Records, Writes
  <1>5. PICK y : /\ x' = [x EXCEPT ![w] = y]
                 /\ \/ /\ owner = w /\ CheckTransition(old, c) /\ journal' = j
                       /\ totals' = totals + Gain(old, c)
                       /\ y = z \/ (y = Stop(w) /\ faults' # 0)
                    \/ /\ journal' = journal /\ totals' = totals /\ y = Stop(w)
                       /\ \/ faults' # 0 \/ ~MayWrite(w, TRUE) \/ ~MayWrite(w, FALSE)
                          \/ ~CheckTransition(old, c)
    <2>1. PICK b \in BOOLEAN : b = (c.state # "pending" /\ old.state = "pending") BY Zenon
    <2>2. PICK g : g = Gain(old, c) OBVIOUS
    <2>3. Save(w, MayWrite(w, b) /\ CheckTransition(old, c),
               [e \in Copies(w) |-> [e EXCEPT !.call[s.k][s.p] = c]], g, n)
      BY Zenon, <2>1, <2>2 DEF SaveCall
    <2>4. faults + 1 # 0 BY DEF Ready, Types
    <2>5. CASE b
      <3>1. MayWrite(w, b) <=> MayWrite(w, TRUE) BY <2>5
      <3> QED BY Zenon, <1>2, <1>3, <2>2, <2>3, <2>4, <3>1 DEF Save, Copies, Wrote, Fault, MayWrite
    <2>6. CASE ~b
      <3>1. MayWrite(w, b) <=> MayWrite(w, FALSE) BY <2>6
      <3> QED BY Zenon, <1>2, <1>3, <2>2, <2>3, <2>4, <3>1 DEF Save, Copies, Wrote, Fault, MayWrite
    <2> QED BY <2>5, <2>6
  <1>6. y = Stop(w) => y \in Places /\ ~Active(y) BY <1>1, Stops
  <1>7. CASE /\ journal' = journal /\ totals' = totals /\ y = Stop(w)
             /\ \/ faults' # 0 \/ ~MayWrite(w, TRUE) \/ ~MayWrite(w, FALSE)
                \/ ~CheckTransition(old, c)
    <2>1. StepOf(w, y) BY <1>1, <1>5, <1>6, <1>7, GoStep
    <2> QED BY <1>6, <1>7, <2>1
  <1>8. CASE owner = w /\ CheckTransition(old, c) /\ journal' = j
    <2>1. /\ z \in Places /\ z.pc = n.pc /\ z.k = s.k /\ z.p = s.p /\ Fits(z)
          /\ Writes(s.seen, z.seen, s.k, s.p, c) /\ s.seen.call[s.k] = journal.call[s.k]
          /\ Current(s, journal)
      BY <1>1, <1>3, <1>8, WroteFacts
    <2>2. y \in Places BY <1>5, <1>6, <2>1
    <2>3. Advance(old, c) BY <1>8 DEF CheckTransition, Advance
    <2>4. Advances(journal, j) BY Zenon, <1>4, <2>3 DEF Advances, Advance, Writes
    <2>5. JournalOK(j)
      <3>1. ~setup.bounded =>
               /\ \A q \in Tasks : q < s.p => journal.task[s.k][q] = "ok"
               /\ journal.task[s.k][s.p] = "none"
               /\ \A a \in Attempts : a < s.k => journal.retry[a] = "again"
        BY SMTT(30), <1>1, <2>1 DEF Current, Base
      <3>2. CallSaved(journal, j, s.k, s.p) BY <1>4, <2>3, <3>1 DEF CallSaved, Writes, Ready
      <3> QED BY <1>1, <3>2, CallKeepsJournal
    <2>6. Advances(z.seen, j)
      <3>1. \A a \in Attempts, q \in Tasks : Advance(s.seen.call[a][q], journal.call[a][q])
        BY <1>1 DEF Advances
      <3>2. \A a \in Attempts : s.seen.retry[a] # "none" => journal.retry[a] = s.seen.retry[a]
        BY <1>1 DEF Advances
      <3>3. \A a \in Attempts, q \in Tasks : Advance(z.seen.call[a][q], j.call[a][q])
        <4> SUFFICES ASSUME NEW a \in Attempts, NEW q \in Tasks
                     PROVE  Advance(z.seen.call[a][q], j.call[a][q])
          BY SMTT(30)
        <4>1. CASE a = s.k /\ q = s.p BY <1>4, <2>1, <4>1 DEF Writes, Advance
        <4>2. CASE a # s.k \/ q # s.p BY <1>4, <2>1, <3>1, <4>2 DEF Writes
        <4> QED BY <4>1, <4>2
      <3> QED BY <1>4, <2>1, <3>2, <3>3 DEF Advances, Writes
    <2>7. Current(z, j)
      <3>1. z.seen.retry = j.retry BY <1>4, <2>1 DEF Writes, Current
      <3>2. ASSUME NEW a \in Attempts, ~setup.bounded \/ a > z.k \/ (a = z.k /\ z.pc \in Working)
            PROVE  z.seen.call[a] = j.call[a] /\ z.seen.task[a] = j.task[a]
        <4>1. s.seen.call[a] = journal.call[a] /\ s.seen.task[a] = journal.task[a]
          BY SMTT(30), <1>1, <2>1, <3>2 DEF Current
        <4> QED BY <1>4, <2>1, <4>1 DEF Writes
      <3> QED BY <3>1, <3>2 DEF Current
    <2>8. StepOf(w, y)
      BY <1>1, <1>4, <1>5, <1>6, <1>8, <2>1, <2>2, <2>4, <2>5, <2>6, <2>7 DEF StepOf, Writes
    <2> QED BY <1>3, <1>4, <1>5, <1>6, <1>8, <2>2, <2>8
  <1> QED BY Zenon, <1>5, <1>7, <1>8

\* What earlier attempts left of a call.
LEMMA EarlierFacts ==
    ASSUME NEW e, NEW k \in Attempts, NEW p
    PROVE  /\ EarlierAttempt(e, k, p) \in {"ok", "conflict", "unknown", "error", "none"}
           /\ EarlierAttempt(e, k, p) = "ok" => HasResult(e, p)
           /\ EarlierAttempt(e, k, p) = "none" =>
                 \A a \in Attempts : a # k =>
                    e.call[a][p].state \notin {"ok", "marker", "pending", "failed"}
  <1> DEFINE earlier == Earlier(e, k, p)
             good == {c \in earlier : c.state \in {"ok", "marker"}}
  <1>1. \A c \in earlier : \E a \in Attempts : c = e.call[a][p] BY DEF Earlier
  <1>2. \A a \in Attempts : a # k /\ e.call[a][p].state # "none" => e.call[a][p] \in earlier
    BY DEF Earlier
  <1>3. CASE good # {}
    <2>1. EarlierAttempt(e, k, p) \in {"ok", "conflict"} BY <1>3 DEF EarlierAttempt
    <2>2. HasResult(e, p) BY <1>1, <1>3 DEF HasResult
    <2> QED BY <2>1, <2>2
  <1>4. CASE good = {} /\ \E c \in earlier : c.state = "pending"
    BY <1>4 DEF EarlierAttempt
  <1>5. CASE good = {} /\ ~\E c \in earlier : c.state = "pending"
    <2>1. CASE \E c \in earlier : c.state = "failed" BY <1>5, <2>1 DEF EarlierAttempt
    <2>2. CASE ~\E c \in earlier : c.state = "failed"
      <3>1. EarlierAttempt(e, k, p) = "none" BY <1>5, <2>2 DEF EarlierAttempt
      <3>2. \A c \in earlier : c.state \notin {"ok", "marker", "pending", "failed"} BY <1>5, <2>2
      <3> QED BY <1>2, <3>1, <3>2
    <2> QED BY <2>1, <2>2
  <1> QED BY <1>3, <1>4, <1>5

\* A call comes back without a save.
LEMMA ReturnStep ==
    ASSUME NEW w \in Worker, Ready(w), x[w].pc \in {"task", "answer"}, NEW res \in Results,
           Go(w, Return(x[w], res)), Resting,
           AtMostOnce(x[w].p) /\ x[w].seen.call[x[w].k][x[w].p].state = "pending" => res = "unknown",
           res = "ok" => HasResult(x[w].seen, x[w].p),
           ~setup.bounded => x[w].seen.task[x[w].k][x[w].p] = "none"
    PROVE  \E y \in Places :
              /\ Local(w, y) /\ journal' = journal
              /\ y.pc = "checkpoint" /\ y.k = x[w].k /\ y.p = x[w].p /\ y.seen = x[w].seen
  <1> DEFINE s == x[w]
  <1>1. /\ s \in Places /\ s.seen \in Records /\ Base(s) /\ setup \in SetupType /\ journal \in Records
    BY ReadyFacts
  <1>2. PICK y : y = [s EXCEPT !.pc = "checkpoint", !.res = res] OBVIOUS
  <1>3. x' = [x EXCEPT ![w] = y] /\ journal' = journal /\ totals' = totals BY <1>2 DEF Go, Return
  <1>4. /\ y \in Places /\ y.seen = s.seen /\ y.k = s.k /\ y.p = s.p
        /\ y.pc = "checkpoint" /\ y.res = res
    BY <1>1, <1>2 DEF Places, Working
  <1>5. Base(y) BY <1>1, <1>4, BaseMoves
  <1>6. Fits(y) BY <1>4, <1>5, AtCheckpoint
  <1>7. s.pc \in Working BY DEF Working
  <1>8. StepOf(w, y) BY <1>1, <1>3, <1>4, <1>6, <1>7, GoStep DEF Resting
  <1>9. Local(w, y) BY <1>3, <1>4, <1>8 DEF Local, Holding, Handled, Resting
  <1> QED BY <1>3, <1>4, <1>9

\* An intent is saved before the call is sent.
LEMMA IntentStep ==
    ASSUME NEW w \in Worker, Ready(w), SentIsTrue, x[w].pc = "task", Resting, NEW a \in Nat,
           SaveCall(w, Record("pending", a), [x[w] EXCEPT !.pc = "dispatch"]),
           x[w].seen.call[x[w].k][x[w].p].state \in {"none", "pending"},
           ~setup.bounded => x[w].seen.task[x[w].k][x[w].p] = "none",
           AtMostOnce(x[w].p) =>
              /\ x[w].seen.call[x[w].k][x[w].p].state = "none" /\ a = Arguments(x[w].k)
              /\ ~setup.bounded =>
                    \A b \in Attempts : x[w].seen.call[b][x[w].p].state \in {"none", "notExecuted"}
    PROVE  \E y \in Places : (Local(w, y) \/ Intends(w, y)) /\ Calm(w, y)
  <1> DEFINE s == x[w]
             k == s.k
             p == s.p
  <1>1. /\ s \in Places /\ s.seen \in Records /\ Base(s) /\ setup \in SetupType /\ journal \in Records
        /\ k \in Attempts /\ p \in Tasks /\ (owner = w => Current(s, journal))
    BY SMTT(30), ReadyFacts
  <1>2. PICK c \in CallRec : c = Record("pending", a) BY DEF Record, CallRec, States
  <1>3. c.state = "pending" /\ c.args = a BY <1>2 DEF Record
  <1>4. PICK n : n = [s EXCEPT !.pc = "dispatch"] OBVIOUS
  <1>5. n \in Places /\ n.k = k /\ n.p = p /\ n.pc = "dispatch" BY <1>1, <1>4 DEF Places, Working
  <1>6. s.pc \in Working /\ n.pc \in Working BY <1>5 DEF Working
  <1>7. PICK z : z = Wrote(w, n, c) BY SMTT(30)
  <1>8. ASSUME owner = w, CheckTransition(journal.call[k][p], c)
        PROVE  z \in Places /\ Fits(z) /\ z.pc = "dispatch" /\ z.k = k /\ z.p = p
    <2>1. /\ z \in Places /\ z.pc = n.pc /\ z.k = n.k /\ z.p = n.p /\ z.res = n.res
          /\ Base(z) /\ Writes(s.seen, z.seen, k, p, c)
      BY Zenon, <1>3, <1>5, <1>6, <1>7, <1>8, WroteFacts
    <2>2. z.seen.call[k][p] = c /\ z.seen.task = s.seen.task BY SMTT(30), <2>1 DEF Writes
    <2>3. Fits(z) BY Zenon, <1>3, <1>5, <2>1, <2>2, AtCall DEF Holding
    <2> QED BY <1>5, <2>1, <2>3
  <1>9. PICK y \in Places :
              /\ StepOf(w, y)
              /\ \/ /\ owner = w /\ CheckTransition(journal.call[k][p], c)
                    /\ Writes(journal, journal', k, p, c)
                    /\ totals' = totals + Gain(journal.call[k][p], c)
                    /\ y = z \/ (y = Stop(w) /\ faults' # 0)
                 \/ journal' = journal /\ totals' = totals /\ y = Stop(w)
    <2>1. SaveCall(w, c, n) BY SMTT(30), <1>2, <1>4
    <2> QED BY <1>3, <1>5, <1>6, <1>7, <1>8, <2>1, SaveCallStep DEF Resting
  <1>10. ~Handled(y)
    BY <1>1, <1>8, <1>9, Stops DEF Handled
  <1>11. CASE journal' = journal /\ totals' = totals /\ y = Stop(w)
    <2>1. Local(w, y) BY SMTT(30), <1>1, <1>9, <1>10, <1>11, Stops DEF Local, Resting
    <2>2. Calm(w, y) BY <1>11, CalmElsewhere DEF Resting
    <2> QED BY SMTT(30), <2>1, <2>2
  <1>12. CASE /\ owner = w /\ CheckTransition(journal.call[k][p], c)
              /\ Writes(journal, journal', k, p, c)
              /\ totals' = totals + Gain(journal.call[k][p], c)
              /\ y = z \/ (y = Stop(w) /\ faults' # 0)
    <2>1. s.seen.call[k] = journal.call[k] /\ (~setup.bounded => \A b \in Attempts : s.seen.call[b] = journal.call[b])
      <3>1. s.pc \in Working BY <1>6
      <3> QED BY Zenon, <1>1, <1>12, <3>1 DEF Current
    <2>2. journal.call[k][p].state \in {"none", "pending"} BY <2>1
    <2>3. AtMostOnce(p) => journal.call[k][p].state = "none" BY <2>1
    <2>4. journal'.call[k][p].state = "pending" BY ZenonT(30), <1>3, <1>12 DEF Writes
    <2>5. totals' = totals
      <3>1. Gain(journal.call[k][p], c) = 0 BY <1>3 DEF Gain
      <3> QED BY <1>12, <3>1 DEF Ready, Types
    <2>6. ~setup.bounded /\ AtMostOnce(p) =>
             \A b \in Attempts : journal.call[b][p].state \in {"none", "notExecuted"}
      BY <2>1
    <2>7. ~Holding(y) \/ (y.pc = "dispatch" /\ y.k = k /\ y.p = p)
      BY Zenon, <1>1, <1>8, <1>12, Stops
    <2>8. \A b \in Attempts, q \in Tasks :
             b # k \/ q # p => journal'.call[b][q] = journal.call[b][q]
      BY Zenon, <1>12 DEF Writes
    <2>9. Intends(w, y)
      BY Zenon, <1>9, <1>10, <1>12, <2>2, <2>3, <2>4, <2>5, <2>6, <2>7, <2>8 DEF Intends, Resting
    <2>10. ASSUME NEW b \in Attempts, NEW q \in Tasks,
                  AtMostOnce(q), journal'.call[b][q].state = "pending", <<b, q>> \in sent
           PROVE  journal.call[b][q].state = "pending"
      <3>1. ~(b = k /\ q = p) BY SMTT(30), <2>3, <2>10 DEF SentIsTrue
      <3> QED BY SMTT(30), <2>8, <2>10, <3>1
    <2>11. Calm(w, y) BY <2>10, CalmElsewhere DEF Resting
    <2> QED BY <2>9, <2>11
  <1> QED BY <1>9, <1>11, <1>12

\* An answer, or the marker for a call without one, is saved before it is used.
LEMMA AnswerStep ==
    ASSUME NEW w \in Worker, Ready(w), x[w].pc \in {"task", "answer"}, Resting, NEW c \in CallRec,
           c.state \in {"ok", "failed", "notExecuted", "marker"},
           SaveCall(w, c, Return(x[w], Raised(c.state))),
           x[w].seen.call[x[w].k][x[w].p].state = "pending",
           c.state = "marker" \/ (x[w].pc = "answer" /\ x[w].res = c.state),
           x[w].pc = "answer" => c.args = x[w].seen.call[x[w].k][x[w].p].args,
           ~setup.bounded => x[w].seen.task[x[w].k][x[w].p] = "none"
    PROVE  \E y \in Places : (Local(w, y) \/ Answers(w, y)) /\ Calm(w, y)
  <1> DEFINE s == x[w]
             k == s.k
             p == s.p
             old == journal.call[k][p]
  <1>1. /\ s \in Places /\ s.seen \in Records /\ Base(s) /\ setup \in SetupType /\ journal \in Records
        /\ k \in Attempts /\ p \in Tasks /\ (owner = w => Current(s, journal))
    BY ReadyFacts
  <1>2. PICK r : r = Raised(c.state) OBVIOUS
  <1>3. r \in {"ok", "error"} /\ r \in Results /\ (r = "ok" => c.state \in {"ok", "marker"})
    BY <1>2 DEF Raised, Results
  <1>4. PICK n : n = [s EXCEPT !.pc = "checkpoint", !.res = r] OBVIOUS
  <1>5. n \in Places /\ n.k = k /\ n.p = p /\ n.pc = "checkpoint" /\ n.res = r
    BY <1>1, <1>3, <1>4 DEF Places, Working
  <1>6. s.pc \in Working /\ n.pc \in Working BY <1>5 DEF Working
  <1>7. PICK z : z = Wrote(w, n, c) OBVIOUS
  <1>8. ASSUME owner = w, CheckTransition(old, c)
        PROVE  z \in Places /\ Fits(z) /\ z.pc = "checkpoint" /\ z.res # "handled"
    <2>1. /\ z \in Places /\ z.pc = n.pc /\ z.k = n.k /\ z.p = n.p /\ z.res = n.res
          /\ Base(z) /\ Writes(s.seen, z.seen, k, p, c)
      BY ZenonT(30), <1>5, <1>6, <1>7, <1>8, WroteFacts
    <2>2. z.seen.call[k][p] = c /\ z.seen.task = s.seen.task BY <2>1 DEF Writes
    <2>3. c.state \in {"ok", "marker"} => HasResult(z.seen, p) BY <1>1, <2>2 DEF HasResult
    <2>4. Fits(z) BY <1>3, <1>5, <2>1, <2>2, <2>3, AtCheckpoint
    <2> QED BY SMTT(30), <1>3, <1>5, <2>1, <2>4
  <1>9. PICK y \in Places :
              /\ StepOf(w, y)
              /\ \/ /\ owner = w /\ CheckTransition(old, c)
                    /\ Writes(journal, journal', k, p, c)
                    /\ totals' = totals + Gain(old, c)
                    /\ y = z \/ (y = Stop(w) /\ faults' # 0)
                 \/ /\ journal' = journal /\ totals' = totals /\ y = Stop(w)
                    /\ faults' # 0 \/ ~MayWrite(w, TRUE) \/ ~MayWrite(w, FALSE) \/ ~CheckTransition(old, c)
    <2>1. SaveCall(w, c, n) BY <1>2, <1>4 DEF Return
    <2> QED BY <1>5, <1>6, <1>7, <1>8, <2>1, SaveCallStep DEF Resting
  <1>10. ~Handled(y) /\ ~Holding(y)
    BY <1>1, <1>8, <1>9, Stops DEF Handled, Holding
  <1>11. owner = w => s.seen.call[k] = journal.call[k] BY SMTT(30), <1>1, <1>6 DEF Current
  <1>12. ASSUME s.pc = "answer", faults = 0, faults' = 0, Undisturbed
         PROVE  /\ ~held' /\ fin' # "cancelled" /\ owner' = w /\ fin' = "none" /\ ~ran'
                /\ ~setup.names =>
                      \A b \in Attempts, q \in Tasks :
                         ~(AtMostOnce(q) /\ <<b, q>> \in sent' /\ journal'.call[b][q].state = "pending")
    <2>1. owner = w /\ MayWrite(w, TRUE) /\ MayWrite(w, FALSE) BY <1>12, Alone
    <2>2. CheckTransition(old, c)
      BY SMTT(30), <1>11, <1>12, <2>1 DEF CheckTransition
    <2>3. Writes(journal, journal', k, p, c) BY <1>9, <1>12, <2>1, <2>2
    <2>4. ~ran BY <1>12, Alone DEF Handled
    <2>5. ASSUME ~setup.names, NEW b \in Attempts, NEW q \in Tasks,
                 AtMostOnce(q), <<b, q>> \in sent', journal'.call[b][q].state = "pending"
          PROVE  FALSE
      <3>1. ~(b = k /\ q = p) BY <2>3, <2>5 DEF Writes
      <3>2. InDoubt(b, q) BY <2>3, <2>5, <3>1 DEF Writes, InDoubt, Resting
      <3> QED BY <1>12, <2>5, <3>1, <3>2, Alone DEF StandsAt
    <2> QED BY <1>12, <2>1, <2>4, <2>5, Alone DEF Resting
  <1>13. Calm(w, y)
    <2>1. CASE s.pc = "task"
      <3>1. \A b \in Attempts, q \in Tasks :
               journal'.call[b][q].state = "pending" => journal.call[b][q].state = "pending"
        BY <1>9 DEF Writes
      <3> QED BY SMTT(30), <2>1, <3>1, CalmElsewhere DEF Resting
    <2>2. CASE s.pc = "answer" BY <1>12, <2>2 DEF Calm, Resting
    <2> QED BY <2>1, <2>2
  <1>14. CASE journal' = journal /\ totals' = totals /\ y = Stop(w)
    <2>1. Local(w, y) BY <1>9, <1>10, <1>14 DEF Local, Resting
    <2> QED BY <1>13, <2>1
  <1>15. CASE /\ owner = w /\ CheckTransition(old, c)
              /\ Writes(journal, journal', k, p, c)
              /\ totals' = totals + Gain(old, c)
    <2>1. old.state = "pending" BY Zenon, <1>11, <1>15
    <2>2. journal'.call[k][p] = c BY Zenon, <1>15 DEF Writes
    <2>3. \/ c.state \in {"ok", "failed"} /\ totals' = totals + 1
          \/ c.state \in {"notExecuted", "marker"} /\ totals' = totals
      BY <1>15, <2>1 DEF Gain, Ready, Types
    <2>4. \A b \in Attempts, q \in Tasks :
             b # k \/ q # p => journal'.call[b][q] = journal.call[b][q]
      BY Zenon, <1>15 DEF Writes
    <2>5. Answers(w, y) BY Zenon, <1>9, <1>10, <1>15, <2>1, <2>2, <2>3, <2>4 DEF Answers, Resting
    <2> QED BY <1>13, <2>5
  <1> QED BY <1>9, <1>14, <1>15

\* A call, up to its dispatch.
LEMMA CallKind ==
    ASSUME NEW w \in Worker, Ready(w), SentIsTrue, Call(w)
    PROVE  Resting /\ \E y \in Places :
              (Local(w, y) \/ Intends(w, y) \/ Answers(w, y)) /\ Calm(w, y)
  <1> DEFINE s == x[w]
             prior == s.seen.call[s.k][s.p]
             earlier == EarlierAttempt(s.seen, s.k, s.p)
  <1>1. /\ s \in Places /\ s.seen \in Records /\ Base(s) /\ setup \in SetupType
        /\ s.k \in Attempts /\ s.p \in Tasks
    BY SMTT(30), ReadyFacts
  <1>2. /\ Resting /\ s.pc = "task" /\ s.seen.task[s.k][s.p] = "none"
    BY DEF Call, Enters, Resting, history
  <1>3. prior \in CallRec /\ prior.state \in States /\ Arguments(s.k) \in Nat
    BY <1>1 DEF Records, CallRec, Arguments
  <1>4. ASSUME NEW r \in Results, Go(w, Return(s, r)),
               AtMostOnce(s.p) /\ prior.state = "pending" => r = "unknown",
               r = "ok" => HasResult(s.seen, s.p)
        PROVE  \E y \in Places : Local(w, y) /\ Calm(w, y)
    <2>1. PICK y \in Places : Local(w, y) /\ journal' = journal BY <1>2, <1>4, ReturnStep
    <2>2. Calm(w, y) BY SMTT(30), <1>2, <2>1, CalmElsewhere DEF Resting
    <2> QED BY <2>1, <2>2
  <1>5. ASSUME SaveCall(w, Record("pending", Arguments(s.k)), [s EXCEPT !.pc = "dispatch"]),
               prior.state \in {"none", "pending"}, AtMostOnce(s.p) => prior.state = "none",
               s.k > 1 /\ AtMostOnce(s.p) => earlier = "none"
        PROVE  \E y \in Places : (Local(w, y) \/ Intends(w, y)) /\ Calm(w, y)
    <2>1. ASSUME AtMostOnce(s.p), ~setup.bounded, NEW b \in Attempts
          PROVE  s.seen.call[b][s.p].state \in {"none", "notExecuted"}
      <3>1. CASE b = s.k BY <1>5, <2>1, <3>1
      <3>2. CASE b > s.k
        <4>1. JournalInOrder(s.seen) /\ \A q \in Tasks : q < s.p => s.seen.task[s.k][q] = "ok"
          BY <1>1, <2>1 DEF Base, JournalOK
        <4> QED BY <1>1, <1>2, <2>1, <3>2, <4>1, OpenAttempt
      <3>3. CASE b < s.k
        <4>1. s.k > 1 /\ b # s.k BY SMTT(30), <1>1, <3>3, AttemptNumbers
        <4>2. s.seen.call[b][s.p].state \notin {"ok", "marker", "pending", "failed"}
          BY <1>1, <1>5, <2>1, <4>1, EarlierFacts
        <4>3. s.seen.call[b][s.p].state \in States BY <1>1 DEF Records, CallRec
        <4> QED BY <4>2, <4>3 DEF States
      <3> QED BY SMTT(30), <1>1, <3>1, <3>2, <3>3, AttemptNumbers
    <2> QED BY Zenon, <1>2, <1>3, <1>5, <2>1, IntentStep
  <1>6. CASE prior.state = "none" /\ s.k > 1 /\ AtMostOnce(s.p) /\ earlier # "none"
    <2>1. Go(w, Return(s, earlier)) BY <1>6 DEF Call
    <2>2. PICK r : r = earlier OBVIOUS
    <2>3. r \in Results /\ (r = "ok" => HasResult(s.seen, s.p))
      BY <1>1, <1>6, <2>2, EarlierFacts DEF Results
    <2> QED BY <1>2, <1>4, <1>6, <2>1, <2>2, <2>3
  <1>7. CASE prior.state = "none" /\ ~(s.k > 1 /\ AtMostOnce(s.p) /\ earlier # "none")
    <2>1. SaveCall(w, Record("pending", Arguments(s.k)), [s EXCEPT !.pc = "dispatch"])
      BY <1>7 DEF Call
    <2> QED BY <1>2, <1>5, <1>7, <2>1
  <1>8. CASE prior.state = "pending" /\ ~AtMostOnce(s.p)
    <2>1. SaveCall(w, Record("pending", Arguments(s.k)), [s EXCEPT !.pc = "dispatch"])
      BY <1>8 DEF Call
    <2> QED BY <1>2, <1>5, <1>8, <2>1
  <1>9. CASE prior.state = "pending" /\ AtMostOnce(s.p)
    <2>1. UnknownCall(w, s) BY SMTT(30), <1>9 DEF Call
    <2>2. CASE setup.marker
      <3>1. SaveCall(w, Record("marker", Arguments(s.k)), Return(s, "ok"))
        BY SMTT(30), <2>1, <2>2 DEF UnknownCall
      <3>2. PICK c \in CallRec : c = Record("marker", Arguments(s.k))
        BY <1>3 DEF Record, CallRec, States
      <3>3. c.state = "marker" /\ Raised(c.state) = "ok" BY <3>2 DEF Record, Raised
      <3> QED BY <1>2, <1>9, <3>1, <3>2, <3>3, AnswerStep
    <2>3. CASE ~setup.marker
      <3>1. Go(w, Return(s, "unknown")) BY <2>1, <2>3 DEF UnknownCall
      <3>2. "unknown" \in Results BY SMTT(30) DEF Results
      <3> QED BY <1>2, <1>4, <3>1, <3>2
    <2> QED BY <2>2, <2>3
  <1>10. CASE prior.state \notin {"none", "pending"}
    <2>1. PICK r : r = Raised(prior.state) OBVIOUS
    <2>2. Go(w, Return(s, r)) BY Zenon, <1>10, <2>1 DEF Call
    <2>3. r \in Results /\ (r = "ok" => prior.state \in {"ok", "marker"})
      BY Zenon, <1>3, <1>10, <2>1 DEF States, Raised, Results
    <2>4. r = "ok" => HasResult(s.seen, s.p) BY <1>1, <2>3 DEF HasResult
    <2> QED BY <1>2, <1>4, <1>10, <2>2, <2>3, <2>4
  <1> QED BY <1>6, <1>7, <1>8, <1>9, <1>10

\* The values of a function on a finite set.
LEMMA FiniteImage ==
    ASSUME NEW S, IsFiniteSet(S), NEW f, DOMAIN f = S, f = [s \in S |-> f[s]]
    PROVE  /\ IsFiniteSet({f[s] : s \in S})
           /\ Cardinality({f[s] : s \in S}) <= Cardinality(S)
  <1>1. f \in Surjection(S, {f[s] : s \in S}) BY DEF Surjection
  <1> QED BY <1>1, FS_Surjection

\* There is a new envelope's id.
LEMMA FreshIds ==
    ASSUME Types, NEW p \in Tasks
    PROVE  FreshId(p) \in Nat
  <1> DEFINE H == {g \in handed : g[2] = p}
             f == [g \in H |-> g[3]]
             F == {f[g] : g \in H}
             a == [k \in Attempts |-> journal.call[k][p].args]
             A == {a[k] : k \in Attempts}
             N == MaxAttempts + Cardinality(handed) + 1
  <1>1. IsFiniteSet(handed) /\ MaxAttempts \in Nat BY BoundAssumption DEF Types
  <1>2. IsFiniteSet(H) /\ Cardinality(H) <= Cardinality(handed) BY <1>1, FS_Subset
  <1>3. IsFiniteSet(Attempts) /\ Cardinality(Attempts) = MaxAttempts
    <2>1. \A b \in Int : IsFiniteSet(1..b) /\ Cardinality(1..b) = IF 1 > b THEN 0 ELSE b - 1 + 1
      BY FS_Interval
    <2>2. MaxAttempts \in Int /\ ~(1 > MaxAttempts) BY BoundAssumption
    <2>3. Attempts = 1..MaxAttempts BY DEF Attempts
    <2> QED BY <2>1, <2>2, <2>3
  <1>4. IsFiniteSet(F) /\ Cardinality(F) <= Cardinality(H)
    <2>1. DOMAIN f = H /\ f = [g \in H |-> f[g]] OBVIOUS
    <2> HIDE DEF f, H
    <2> QED BY <1>2, <2>1, FiniteImage
  <1>5. IsFiniteSet(A) /\ Cardinality(A) <= MaxAttempts
    <2>1. DOMAIN a = Attempts /\ a = [k \in Attempts |-> a[k]] OBVIOUS
    <2> HIDE DEF a
    <2> QED BY <1>3, <2>1, FiniteImage
  <1>6. Used(p) = F \cup A BY DEF Used
  <1>7. IsFiniteSet(Used(p)) /\ Cardinality(Used(p)) <= Cardinality(F) + Cardinality(A)
    <2> HIDE DEF F, A
    <2>1. IsFiniteSet(F \cap A) BY <1>4, FS_Subset
    <2>2. Cardinality(F \cap A) \in Nat /\ Cardinality(F) \in Nat /\ Cardinality(A) \in Nat
      BY <1>4, <1>5, <2>1, FS_CardinalityType
    <2>3. IsFiniteSet(F \cup A) /\ Cardinality(F \cup A) = Cardinality(F) + Cardinality(A) - Cardinality(F \cap A)
      BY <1>4, <1>5, FS_Union
    <2> QED BY <1>6, <2>2, <2>3
  <1>8. /\ Cardinality(handed) \in Nat /\ Cardinality(F) \in Nat /\ Cardinality(A) \in Nat
        /\ Cardinality(H) \in Nat /\ Cardinality(Used(p)) \in Nat
    BY <1>1, <1>2, <1>4, <1>5, <1>7, FS_CardinalityType
  <1> HIDE DEF F, A, H
  <1>9. N \in Nat /\ Cardinality(Used(p)) < N BY <1>1, <1>2, <1>4, <1>5, <1>7, <1>8
  <1> HIDE DEF N
  <1>10. \E n \in 1..N : n \notin Used(p)
    <2> SUFFICES ASSUME 1..N \subseteq Used(p) PROVE FALSE
      OBVIOUS
    <2>1. Cardinality(1..N) <= Cardinality(Used(p)) BY <1>7, FS_Subset
    <2>2. Cardinality(1..N) = N BY <1>9, FS_Interval
    <2> QED BY <1>8, <1>9, <2>1, <2>2
  <1>11. FreshId(p) \in 1..N BY <1>10 DEF FreshId, N
  <1> QED BY <1>9, <1>11

\* An event, up to its handing over.
LEMMA EmitKind ==
    ASSUME NEW w \in Worker, Ready(w), SentIsTrue, Emit(w)
    PROVE  Resting /\ \E y \in Places : (Local(w, y) \/ Intends(w, y)) /\ Calm(w, y)
  <1> DEFINE s == x[w]
             prior == s.seen.call[s.k][s.p]
             done == \E c \in Earlier(s.seen, s.k, s.p) : c.state = "ok"
             id == IF prior.state = "none" THEN FreshId(s.p) ELSE prior.args
  <1>1. /\ s \in Places /\ s.seen \in Records /\ Base(s) /\ setup \in SetupType
        /\ s.k \in Attempts /\ s.p \in Tasks
    BY ReadyFacts
  <1>2. /\ Resting /\ s.pc = "task" /\ s.seen.task[s.k][s.p] = "none" /\ setup.kinds[s.p] = "emit"
    BY SMTT(30) DEF Emit, Enters, Resting, history
  <1>3. prior \in CallRec /\ prior.state \in States /\ prior.args \in Nat /\ ~AtMostOnce(s.p)
    BY <1>1, <1>2 DEF Records, CallRec, AtMostOnce
  <1>4. ASSUME NEW r \in Results, Go(w, Return(s, r)), r = "ok" => HasResult(s.seen, s.p)
        PROVE  \E y \in Places : Local(w, y) /\ Calm(w, y)
    <2>1. PICK y \in Places : Local(w, y) /\ journal' = journal BY <1>2, <1>3, <1>4, ReturnStep
    <2>2. Calm(w, y) BY <1>2, <2>1, CalmElsewhere DEF Resting
    <2> QED BY <2>1, <2>2
  <1>5. CASE prior.state \notin {"none", "pending"}
    <2>1. PICK r : r = Raised(prior.state) OBVIOUS
    <2>2. Go(w, Return(s, r)) BY Zenon, <1>5, <2>1 DEF Emit
    <2>3. r \in Results /\ (r = "ok" => prior.state \in {"ok", "marker"})
      BY Zenon, <1>3, <1>5, <2>1 DEF States, Raised, Results
    <2>4. r = "ok" => HasResult(s.seen, s.p) BY <1>1, <2>3 DEF HasResult
    <2> QED BY <1>2, <1>4, <2>2, <2>3, <2>4
  <1>6. CASE prior.state = "none" /\ s.k > 1 /\ done
    <2>1. Go(w, Return(s, "ok")) BY <1>6 DEF Emit
    <2>2. HasResult(s.seen, s.p) BY <1>6 DEF Earlier, HasResult
    <2>3. "ok" \in Results BY DEF Results
    <2> QED BY <1>2, <1>4, <2>1, <2>2, <2>3
  <1>7. CASE prior.state \in {"none", "pending"} /\ ~(prior.state = "none" /\ s.k > 1 /\ done)
    <2>1. PICK e : e = id BY SMTT(30)
    <2>2. e \in Nat BY <1>1, <1>3, <2>1, FreshIds DEF Ready
    <2>3. SaveCall(w, Record("pending", e), [s EXCEPT !.pc = "dispatch"])
      BY Zenon, <1>7, <2>1 DEF Emit
    <2> QED BY Zenon, <1>2, <1>3, <1>7, <2>2, <2>3, IntentStep
  <1> QED BY SMTT(30), <1>5, <1>6, <1>7

\* What the caller does with an answer.
LEMMA AnswerKind ==
    ASSUME NEW w \in Worker, Ready(w), Answer(w)
    PROVE  Resting /\ \E y \in Places : (Local(w, y) \/ Answers(w, y)) /\ Calm(w, y)
  <1> DEFINE s == x[w]
             prior == s.seen.call[s.k][s.p]
  <1>1. /\ s \in Places /\ s.seen \in Records /\ Base(s) /\ Fits(s) /\ setup \in SetupType
        /\ s.k \in Attempts /\ s.p \in Tasks /\ journal \in Records
    BY ReadyFacts
  <1>2. Resting /\ s.pc = "answer" BY SMTT(30) DEF Answer, Resting, history
  <1>3. /\ prior \in CallRec /\ prior.args \in Nat /\ Arguments(s.k) \in Nat
        /\ prior.state = "pending" /\ (AtMostOnce(s.p) => prior.args = Arguments(s.k)) /\ s.res \in Heard
        /\ ~setup.bounded => s.seen.task[s.k][s.p] = "none"
    BY <1>1, <1>2 DEF Records, CallRec, Arguments, Fits, PlaceOK, PlaceInOrder, Holding
  <1>4. ASSUME NEW y \in Places, journal' = journal, ~Handled(y),
               \/ y.pc = "checkpoint" /\ y.k = s.k /\ y.p = s.p /\ y.seen = s.seen
               \/ ~Active(y) /\ ~AtMostOnce(s.p)
        PROVE  Calm(w, y)
    <2> SUFFICES ASSUME Undisturbed
                 PROVE  /\ ~held' /\ fin' # "cancelled" /\ owner' = w /\ fin' = "none" /\ ~ran'
                        /\ ~setup.names => \A b \in Attempts, q \in Tasks :
                              InDoubt(b, q) => StandsAt(y, b, q)
      BY <1>2, <1>4 DEF Calm, InDoubt, Resting
    <2>1. ~ran BY <1>2, Alone DEF Handled
    <2>2. ASSUME ~setup.names, NEW b \in Attempts, NEW q \in Tasks, InDoubt(b, q)
          PROVE  StandsAt(y, b, q)
      <3>1. b = s.k /\ q = s.p /\ s.seen.call[b][q].state = "pending" /\ AtMostOnce(q)
        BY <1>2, <2>2, Alone DEF StandsAt, InDoubt
      <3> QED BY <1>4, <3>1 DEF StandsAt
    <2> QED BY <1>2, <2>1, <2>2, Alone DEF Resting
  <1>5. ASSUME NEW r \in Results, Go(w, Return(s, r)), AtMostOnce(s.p) => r = "unknown", r # "ok"
        PROVE  \E y \in Places : Local(w, y) /\ Calm(w, y)
    <2>1. PICK y \in Places : /\ Local(w, y) /\ journal' = journal
                              /\ y.pc = "checkpoint" /\ y.k = s.k /\ y.p = s.p /\ y.seen = s.seen
      BY <1>2, <1>3, <1>5, ReturnStep
    <2>2. Calm(w, y) BY <1>4, <2>1 DEF Handled
    <2> QED BY <2>1, <2>2
  <1>6. ASSUME NEW c \in CallRec, c.state \in {"ok", "failed", "notExecuted", "marker"},
               SaveCall(w, c, Return(s, Raised(c.state))), c.state = "marker" \/ s.res = c.state,
               c.args = prior.args
        PROVE  \E y \in Places : (Local(w, y) \/ Answers(w, y)) /\ Calm(w, y)
    BY Zenon, <1>2, <1>3, <1>6, AnswerStep
  <1>7. CASE s.res \in {"ok", "failed", "notExecuted"}
    <2>1. PICK c \in CallRec : c = Record(s.res, prior.args)
      BY <1>3, <1>7 DEF Record, CallRec, States
    <2>2. c.state = s.res /\ c.args = prior.args BY <2>1 DEF Record
    <2>3. SaveCall(w, c, Return(s, Raised(c.state))) BY Zenon, <1>7, <2>1, <2>2 DEF Answer
    <2> QED BY SMTT(30), <1>2, <1>6, <1>7, <2>2, <2>3
  <1>8. CASE s.res \in {"unknown", "interrupted"} /\ AtMostOnce(s.p)
    <2>1. UnknownCall(w, s) BY <1>8 DEF Answer
    <2>2. CASE setup.marker
      <3>1. SaveCall(w, Record("marker", Arguments(s.k)), Return(s, "ok"))
        BY SMTT(30), <2>1, <2>2 DEF UnknownCall
      <3>2. PICK c \in CallRec : c = Record("marker", Arguments(s.k))
        BY <1>3 DEF Record, CallRec, States
      <3>3. c.state = "marker" /\ c.args = Arguments(s.k) /\ Raised(c.state) = "ok"
        BY <3>2 DEF Record, Raised
      <3> QED BY Zenon, <1>2, <1>3, <1>6, <1>8, <3>1, <3>2, <3>3
    <2>3. CASE ~setup.marker
      <3>1. Go(w, Return(s, "unknown")) BY <2>1, <2>3 DEF UnknownCall
      <3>2. "unknown" \in Results BY DEF Results
      <3> QED BY <1>2, <1>5, <3>1, <3>2
    <2> QED BY <2>2, <2>3
  <1>9. CASE s.res = "unknown" /\ ~AtMostOnce(s.p)
    <2>1. Go(w, Return(s, "unknownError")) BY <1>9 DEF Answer
    <2>2. "unknownError" \in Results BY DEF Results
    <2> QED BY <1>2, <1>5, <1>9, <2>1, <2>2
  <1>10. CASE s.res = "interrupted" /\ ~AtMostOnce(s.p)
    <2>1. Go(w, Stop(w)) BY <1>10 DEF Answer
    <2>2. PICK y : y = Stop(w) OBVIOUS
    <2>3. y \in Places /\ ~Active(y) /\ ~Holding(y) /\ ~Handled(y) BY <1>1, <2>2, Stops
    <2>4. x' = [x EXCEPT ![w] = y] /\ journal' = journal /\ totals' = totals BY <2>1, <2>2 DEF Go
    <2>5. StepOf(w, y) BY <1>1, <1>2, <2>3, <2>4, GoStep DEF Resting
    <2>6. Local(w, y) BY <1>2, <2>3, <2>4, <2>5 DEF Local, Resting
    <2>7. Calm(w, y) BY <1>4, <1>10, <2>3, <2>4
    <2> QED BY <1>2, <2>3, <2>6, <2>7
  <1> QED BY <1>3, <1>7, <1>8, <1>9, <1>10 DEF Heard

\* A worker that is cut off leaves its copy as it is, whatever is still saved.
LEMMA CutOff ==
    ASSUME NEW w \in Worker, Ready(w), setup.bounded, x[w].pc \in Working, owner' = owner,
           NEW y \in Places, x' = [x EXCEPT ![w] = y], Fits(y), y.seen = x[w].seen, y.k = x[w].k,
           y.pc \in Ending, journal' \in Records, JournalOK(journal'), Advances(journal, journal'),
           journal' = journal \/ owner = w,
           \A a \in Attempts : a # x[w].k =>
              journal'.call[a] = journal.call[a] /\ journal'.task[a] = journal.task[a],
           journal'.retry = journal.retry
    PROVE  StepOf(w, y)
  <1> DEFINE s == x[w]
  <1>1. /\ s \in Places /\ s.k \in Attempts /\ Advances(s.seen, journal)
        /\ owner = w => Current(s, journal)
    BY ReadyFacts
  <1>2. PICK j : j = journal' OBVIOUS
  <1>3. Advances(y.seen, j) BY <1>1, <1>2, AdvancesFacts
  <1>4. ASSUME owner = w PROVE Current(y, j)
    <2>1. y.pc \notin Working BY DEF Ending, Working
    <2>2. ASSUME NEW a \in Attempts, a > y.k PROVE a # s.k BY <1>1, <2>2, AttemptNumbers
    <2> QED BY <1>1, <1>2, <1>4, <2>1, <2>2 DEF Current
  <1> QED BY <1>2, <1>3, <1>4 DEF StepOf

\* Where it goes.
LEMMA CutOffPlace ==
    ASSUME NEW w \in Worker, Ready(w), setup.bounded, NEW y, y = After(x[w], TimeoutResult(x[w]))
    PROVE  /\ y \in Places /\ Fits(y) /\ y.seen = x[w].seen /\ y.k = x[w].k /\ y.p = x[w].p
           /\ y.pc \in Ending /\ ~Handled(y) /\ ~Holding(y)
           /\ ~setup.names /\ HasUnknown(x[w].seen, x[w].k) => y.pc = "finish" /\ y.res = "unknown"
  <1>1. x[w] \in Places /\ Base(x[w]) /\ setup \in SetupType BY ReadyFacts
  <1>2. PICK r : r = TimeoutResult(x[w]) OBVIOUS
  <1>3. r \in {"unknown", "timeout"} /\ r \in Results /\ (HasUnknown(x[w].seen, x[w].k) => r = "unknown")
    BY <1>2 DEF TimeoutResult, Results
  <1>4. y \in Places /\ y.seen = x[w].seen /\ Follows(x[w], y, r) BY <1>1, <1>2, <1>3, AfterPlace
  <1>5. /\ y.k = x[w].k /\ y.p = x[w].p /\ y.res = r
        /\ y.pc = IF Catches(r) THEN "caught" ELSE "finish"
    BY <1>3, <1>4 DEF Follows
  <1>6. y.pc \in {"caught", "finish"} BY <1>5
  <1>7. Fits(y) BY <1>1, <1>3, <1>4, <1>5, <1>6 DEF Fits, PlaceOK, Base, Holding
  <1>8. ~setup.names => ~Catches("unknown") BY DEF Catches
  <1> QED BY <1>3, <1>4, <1>5, <1>6, <1>7, <1>8 DEF Ending, Handled, Holding

\* A deadline.
LEMMA ExpireKind ==
    ASSUME NEW w \in Worker, Ready(w), SentIsTrue, Expire(w)
    PROVE  Resting /\ \E y \in Places :
              (Local(w, y) \/ Intends(w, y) \/ Answers(w, y)) /\ Calm(w, y)
  <1> DEFINE s == x[w]
             k == s.k
             p == s.p
             prior == s.seen.call[k][p]
  <1>1. /\ s \in Places /\ s.seen \in Records /\ Base(s) /\ Fits(s) /\ setup \in SetupType
        /\ k \in Attempts /\ p \in Tasks /\ journal \in Records /\ (owner = w => Current(s, journal))
        /\ JournalOK(journal) /\ Advances(s.seen, journal)
    BY ReadyFacts DEF Ready
  <1>2. PICK y : y = After(s, TimeoutResult(s)) OBVIOUS
  <1>3. /\ Resting /\ setup.bounded /\ x' = [x EXCEPT ![w] = y] /\ faults' = faults
        /\ s.pc \in {"task", "dispatch", "flying", "answer", "checkpoint"}
    BY <1>2 DEF Expire, Resting, history, Enters
  <1>4. s.pc \in Working BY <1>3 DEF Working
  <1>5. /\ y \in Places /\ Fits(y) /\ y.seen = s.seen /\ y.k = k /\ y.p = p
        /\ y.pc \in Ending /\ ~Handled(y) /\ ~Holding(y)
        /\ ~setup.names /\ HasUnknown(s.seen, k) => y.pc = "finish" /\ y.res = "unknown"
    BY <1>2, <1>3, CutOffPlace
  <1>6. owner = w => s.seen.call[k] = journal.call[k] BY <1>1, <1>4 DEF Current
  <1>7. ASSUME \A b \in Attempts, q \in Tasks :
                  AtMostOnce(q) /\ <<b, q>> \in sent /\ journal'.call[b][q].state = "pending" => InDoubt(b, q)
        PROVE  Calm(w, y)
    <2> SUFFICES ASSUME Undisturbed
                 PROVE  /\ ~held' /\ fin' # "cancelled" /\ owner' = w /\ fin' = "none" /\ ~ran'
                        /\ ~setup.names => \A b \in Attempts, q \in Tasks :
                              InDoubt(b, q) => StandsAt(y, b, q)
      BY <1>3, <1>7 DEF Calm, Resting
    <2>1. ~ran BY <1>3, Alone DEF Handled
    <2>2. ASSUME ~setup.names, NEW b \in Attempts, NEW q \in Tasks, InDoubt(b, q)
          PROVE  StandsAt(y, b, q)
      <3>1. b = k /\ s.seen.call[b][q].state = "pending" /\ AtMostOnce(q)
        BY <1>3, <2>2, Alone DEF StandsAt, InDoubt
      <3>2. HasUnknown(s.seen, k) BY <3>1 DEF HasUnknown, Unanswered
      <3> QED BY <1>5, <2>2, <3>1, <3>2 DEF StandsAt
    <2> QED BY <1>3, <2>1, <2>2, Alone DEF Resting
  <1>8. CASE UNCHANGED <<journal, totals>>
    <2>1. Advances(journal, journal') BY <1>8, AdvancesFacts
    <2>2. StepOf(w, y) BY <1>1, <1>3, <1>4, <1>5, <1>8, <2>1, CutOff DEF Resting
    <2>3. Local(w, y) BY <1>3, <1>5, <1>8, <2>2 DEF Local, Resting
    <2>4. Calm(w, y) BY <1>7, <1>8 DEF InDoubt
    <2> QED BY <1>3, <1>5, <2>3, <2>4
  <1>9. CASE /\ s.pc = "checkpoint" /\ MayWrite(w, FALSE)
             /\ journal' = [journal EXCEPT !.task[k][p] = s.res] /\ UNCHANGED totals
    <2>1. PICK r : r = s.res BY SMTT(30)
    <2>2. r \in Results /\ (r = "ok" => HasResult(s.seen, p)) BY <1>1, <1>9, <2>1 DEF Fits, PlaceOK
    <2>3. PICK j : j = [journal EXCEPT !.task[k][p] = r] OBVIOUS
    <2>4. /\ j \in Records /\ j.task[k][p] = r /\ j.call = journal.call /\ j.retry = journal.retry
          /\ \A a \in Attempts, q \in Tasks : a # k \/ q # p => j.task[a][q] = journal.task[a][q]
          /\ \A a \in Attempts : a # k => j.task[a] = journal.task[a]
      BY <1>1, <2>2, <2>3 DEF Records
    <2>5. JournalOK(j)
      <3>1. r = "ok" => HasResult(journal, p) BY <1>1, <2>2, AdvancesFacts
      <3>2. TaskSaved(journal, j, k, p, r) BY <1>1, <1>3, <2>4, <3>1 DEF TaskSaved
      <3> QED BY <1>1, <2>2, <3>2, TaskKeepsJournal
    <2>6. Advances(journal, j) BY <2>4, SameAdvances
    <2>7. journal' = j /\ owner = w BY <1>9, <2>1, <2>3 DEF MayWrite
    <2>8. StepOf(w, y) BY <1>3, <1>4, <1>5, <2>4, <2>5, <2>6, <2>7, CutOff DEF Resting
    <2>9. Local(w, y) BY <1>3, <1>5, <1>9, <2>4, <2>7, <2>8 DEF Local, Resting
    <2>10. Calm(w, y) BY SMTT(30), <1>7, <2>4, <2>7 DEF InDoubt
    <2> QED BY <1>3, <1>5, <2>9, <2>10
  <1>10. ASSUME NEW c \in CallRec, c.state # "none", prior.state \in {"none", "pending"},
                prior.state # "none" => c.args = prior.args,
                owner = w, journal' = [journal EXCEPT !.call[k][p] = c]
         PROVE  StepOf(w, y) /\ Writes(journal, journal', k, p, c)
    <2>1. PICK j : j = [journal EXCEPT !.call[k][p] = c] OBVIOUS
    <2>2. Writes(journal, j, k, p, c) BY <1>1, <2>1 DEF Records, Writes
    <2>3. Advance(journal.call[k][p], c) BY <1>6, <1>10 DEF Advance
    <2>4. CallSaved(journal, j, k, p) BY <1>1, <1>3, <2>2, <2>3 DEF CallSaved, Writes
    <2>5. JournalOK(j) BY <1>1, <2>4, CallKeepsJournal
    <2>6. Advances(journal, j) BY Zenon, <2>2, <2>3 DEF Advances, Advance, Writes
    <2>7. j \in Records /\ j.retry = journal.retry
          /\ \A a \in Attempts : a # k => j.call[a] = journal.call[a] /\ j.task[a] = journal.task[a]
      BY <2>2 DEF Writes
    <2>8. StepOf(w, y) BY Zenon, <1>3, <1>4, <1>5, <1>10, <2>1, <2>5, <2>6, <2>7, CutOff DEF Resting
    <2> QED BY <1>10, <2>1, <2>2, <2>8
  <1>11. CASE /\ s.pc \in {"task", "answer"} /\ Dropped(s) # NoCall /\ MayWrite(w, s.pc = "answer")
              /\ journal' = [journal EXCEPT !.call[k][p] = Dropped(s)]
              /\ totals' = totals + Gain(journal.call[k][p], Dropped(s))
    <2>1. PICK c : c = Dropped(s) OBVIOUS
    <2>2. /\ owner = w /\ journal' = [journal EXCEPT !.call[k][p] = c]
          /\ totals' = totals + Gain(journal.call[k][p], c)
      BY SMTT(30), <1>11, <2>1 DEF MayWrite
    <2>3. /\ prior \in CallRec /\ prior.args \in Nat /\ Arguments(k) \in Nat
          /\ s.pc = "answer" => prior.state = "pending"
      <3>1. prior \in CallRec /\ prior.args \in Nat /\ Arguments(k) \in Nat
        BY <1>1 DEF Records, CallRec, Arguments
      <3>2. s.pc = "answer" => prior.state = "pending" BY <1>1 DEF Fits, PlaceOK, Holding
      <3> QED BY <3>1, <3>2
    <2>4. journal.call[k][p] = prior BY <1>6, <2>2
    <2>5. \/ /\ s.pc = "task" /\ prior.state = "none" /\ c = Record("pending", Arguments(k))
          \/ /\ prior.state = "pending" /\ c = Record("marker", prior.args)
          \/ /\ s.pc = "answer" /\ s.res \in {"ok", "failed", "notExecuted"}
             /\ c = Record(s.res, prior.args)
      BY Zenon, <1>11, <2>1, <2>3 DEF Dropped
    <2>6. c \in CallRec /\ c.state # "none" /\ prior.state \in {"none", "pending"}
          /\ (prior.state # "none" => c.args = prior.args)
      <3>1. CASE s.pc = "task" /\ prior.state = "none" /\ c = Record("pending", Arguments(k))
        BY SMTT(30), <2>3, <3>1 DEF Record, CallRec, States
      <3>2. CASE prior.state = "pending" /\ c = Record("marker", prior.args)
        BY SMTT(30), <2>3, <3>2 DEF Record, CallRec, States
      <3>3. CASE /\ s.pc = "answer" /\ s.res \in {"ok", "failed", "notExecuted"}
                 /\ c = Record(s.res, prior.args)
        <4>1. PICK e : e = s.res OBVIOUS
        <4> QED BY Zenon, <2>3, <3>3, <4>1 DEF Record, CallRec, States
      <3> QED BY Zenon, <2>5, <3>1, <3>2, <3>3
    <2>7. StepOf(w, y) /\ Writes(journal, journal', k, p, c) BY Zenon, <1>10, <2>2, <2>6
    <2>8. /\ journal'.call[k][p] = c
          /\ \A b \in Attempts, q \in Tasks :
                b # k \/ q # p => journal'.call[b][q] = journal.call[b][q]
      BY <2>7 DEF Writes
    <2>9. totals \in Nat BY DEF Ready, Types
    <2>10. CASE s.pc = "task" /\ prior.state = "none" /\ c = Record("pending", Arguments(k))
      <3>1. c.state = "pending" /\ Gain(journal.call[k][p], c) = 0 BY <2>10 DEF Record, Gain
      <3>2. Intends(w, y)
        <4>1. totals' = totals BY <2>2, <2>9, <3>1
        <4>2. journal.call[k][p].state = "none" BY <2>4, <2>10
        <4>3. journal'.call[k][p].state = "pending" BY SMTT(30), <2>8, <3>1
        <4> QED BY Zenon, <1>3, <1>5, <2>2, <2>7, <2>8, <2>10, <4>1, <4>2, <4>3 DEF Intends, Resting
      <3>3. <<k, p>> \notin sent BY <1>1, <2>4, <2>10 DEF SentIsTrue
      <3>4. Calm(w, y)
        <4>1. ASSUME NEW b \in Attempts, NEW q \in Tasks, AtMostOnce(q), <<b, q>> \in sent,
                     journal'.call[b][q].state = "pending"
              PROVE  InDoubt(b, q)
          BY <2>8, <3>3, <4>1 DEF InDoubt
        <4> QED BY <1>7, <4>1
      <3> QED BY <1>3, <1>5, <3>2, <3>4
    <2>11. CASE \/ prior.state = "pending" /\ c = Record("marker", prior.args)
                \/ /\ s.pc = "answer" /\ s.res \in {"ok", "failed", "notExecuted"}
                   /\ c = Record(s.res, prior.args)
      <3>1. /\ prior.state = "pending"
            /\ c.state = "marker" \/ (s.pc = "answer" /\ s.res = c.state)
            /\ c.state \in {"ok", "failed", "notExecuted", "marker"}
        <4>1. CASE prior.state = "pending" /\ c = Record("marker", prior.args) BY SMTT(30), <4>1 DEF Record
        <4>2. CASE /\ s.pc = "answer" /\ s.res \in {"ok", "failed", "notExecuted"}
                   /\ c = Record(s.res, prior.args)
          BY <2>3, <4>2 DEF Record
        <4> QED BY <2>11, <4>1, <4>2
      <3>2. \/ c.state \in {"ok", "failed"} /\ totals' = totals + 1
            \/ c.state \in {"notExecuted", "marker"} /\ totals' = totals
        BY <2>2, <2>4, <2>9, <3>1 DEF Gain
      <3>3. Answers(w, y)
        BY Zenon, <1>3, <1>5, <2>2, <2>4, <2>7, <2>8, <3>1, <3>2 DEF Answers, Resting
      <3>4. Calm(w, y)
        <4>1. ASSUME NEW b \in Attempts, NEW q \in Tasks, AtMostOnce(q), <<b, q>> \in sent,
                     journal'.call[b][q].state = "pending"
              PROVE  InDoubt(b, q)
          BY SMTT(30), <2>8, <3>1, <4>1 DEF InDoubt
        <4> QED BY <1>7, <4>1
      <3> QED BY SMTT(30), <1>3, <1>5, <3>3, <3>4
    <2> QED BY <2>5, <2>10, <2>11
  <1> QED BY <1>2, <1>8, <1>9, <1>11 DEF Expire

-----------------------------------------------------------------------------
(* The dispatch and what is heard of it.                                   *)

\* A step that sends the call at which its worker stands.
Sends(w, y) ==
    LET k == x[w].k
        p == x[w].p
    IN  /\ StepOf(w, y)
        /\ x[w].pc = "dispatch" /\ y.pc = "flying" /\ y.k = k /\ y.p = p
        /\ UNCHANGED <<journal, totals>>
        /\ journal.call[k][p].state # "none"
        /\ sent' = sent \cup {<<k, p>>}
        /\ twice' = twice \cup {q \in {p} : \E a \in Attempts : <<a, q>> \in sent}
        /\ \/ handed' = handed
           \/ handed' = handed \cup {<<k, p, journal.call[k][p].args>>}

\* A step that hears of it.
HearsOf(w, y) ==
    LET k == x[w].k
        p == x[w].p
    IN  /\ StepOf(w, y)
        /\ x[w].pc = "flying" /\ y.pc = "answer" /\ y.k = k /\ y.p = p
        /\ UNCHANGED <<journal, totals, twice, handed>>
        /\ sent' = IF y.res = "notExecuted" /\ p \notin twice THEN sent \ {<<k, p>>} ELSE sent

\* The dispatch.
LEMMA DispatchKind ==
    ASSUME NEW w \in Worker, Ready(w), Dispatch(w)
    PROVE  /\ UNCHANGED <<setup, fin, owner, held, wake, now, ran>>
           /\ \E y \in Places : Sends(w, y) /\ Calm(w, y)
  <1> DEFINE s == x[w]
             k == s.k
             p == s.p
  <1>1. /\ s \in Places /\ s.seen \in Records /\ Base(s) /\ Fits(s) /\ setup \in SetupType
        /\ k \in Attempts /\ p \in Tasks /\ journal \in Records /\ Advances(s.seen, journal)
    BY ReadyFacts
  <1>2. PICK y : y = [s EXCEPT !.pc = "flying"] BY Zenon
  <1>3. /\ UNCHANGED <<setup, fin, owner, held, wake, now, ran, journal, totals>>
        /\ s.pc = "dispatch" /\ x' = [x EXCEPT ![w] = y]
        /\ sent' = sent \cup {<<k, p>>}
        /\ twice' = twice \cup {q \in {p} : \E a \in Attempts : <<a, q>> \in sent}
        /\ \/ handed' = handed
           \/ handed' = handed \cup {<<k, p, s.seen.call[k][p].args>>}
    <2>1. x' = [x EXCEPT ![w].pc = "flying"] BY DEF Dispatch
    <2>2. x' = [x EXCEPT ![w] = y] BY <1>2, <2>1 DEF Ready, Types
    <2> QED BY Zenon, <2>2 DEF Dispatch, store
  <1>4. /\ s.seen.call[k][p].state = "pending"
        /\ AtMostOnce(p) => s.seen.call[k][p].args = Arguments(k)
        /\ ~setup.bounded => s.seen.task[k][p] = "none"
    BY Zenon, <1>1, <1>3 DEF Fits, PlaceOK, PlaceInOrder, Holding
  <1>5. y \in Places /\ y.seen = s.seen /\ y.k = k /\ y.p = p /\ y.pc = "flying"
    BY <1>1, <1>2 DEF Places, Working
  <1>6. Fits(y)
    <2>1. Base(y) BY <1>1, <1>5, BaseMoves
    <2> QED BY <1>4, <1>5, <2>1, AtCall DEF Holding
  <1>7. s.pc \in Working BY Zenon, <1>3 DEF Working
  <1>8. StepOf(w, y) BY Zenon, <1>1, <1>3, <1>5, <1>6, <1>7, GoStep
  <1>9. /\ journal.call[k][p].state # "none"
        /\ journal.call[k][p].args = s.seen.call[k][p].args
    <2>1. Advance(s.seen.call[k][p], journal.call[k][p]) BY <1>1 DEF Advances
    <2> QED BY <1>4, <2>1 DEF Advance
  <1>10. Sends(w, y) BY Zenon, <1>3, <1>5, <1>8, <1>9 DEF Sends
  <1>11. Calm(w, y)
    <2> SUFFICES ASSUME Undisturbed
                 PROVE  /\ ~held' /\ fin' # "cancelled" /\ owner' = w /\ fin' = "none" /\ ~ran'
                        /\ ~setup.names => \A b \in Attempts, q \in Tasks :
                              AtMostOnce(q) /\ <<b, q>> \in sent' /\ journal.call[b][q].state = "pending"
                                 => StandsAt(y, b, q)
      BY ZenonT(30), <1>3 DEF Calm
    <2>1. ~ran BY Zenon, <1>3, Alone DEF Handled
    <2>2. ASSUME ~setup.names, NEW b \in Attempts, NEW q \in Tasks,
                 AtMostOnce(q), <<b, q>> \in sent', journal.call[b][q].state = "pending"
          PROVE  StandsAt(y, b, q)
      <3>1. ~InDoubt(b, q) BY ZenonT(30), <1>3, <2>2, Alone DEF StandsAt
      <3>2. b = k /\ q = p BY Zenon, <1>3, <2>2, <3>1 DEF InDoubt
      <3> QED BY <1>4, <1>5, <3>2 DEF StandsAt
    <2> QED BY Zenon, <1>3, <2>1, <2>2, Alone
  <1> QED BY Zenon, <1>3, <1>5, <1>10, <1>11

\* What is heard.
LEMMA HearsKind ==
    ASSUME NEW w \in Worker, Ready(w), Hears(w)
    PROVE  /\ UNCHANGED <<setup, fin, owner, held, wake, now, ran>>
           /\ \E y \in Places : HearsOf(w, y) /\ Calm(w, y)
  <1> DEFINE s == x[w]
             k == s.k
             p == s.p
  <1>1. /\ s \in Places /\ s.seen \in Records /\ Base(s) /\ Fits(s) /\ setup \in SetupType
        /\ k \in Attempts /\ p \in Tasks /\ journal \in Records
    BY ReadyFacts
  <1>2. PICK heard \in Heard :
              /\ sent' = IF heard = "notExecuted" /\ p \notin twice THEN sent \ {<<k, p>>} ELSE sent
              /\ x' = [x EXCEPT ![w].pc = "answer", ![w].res = heard]
    BY DEF Hears, Heard
  <1>3. PICK y : y = [s EXCEPT !.pc = "answer", !.res = heard] OBVIOUS
  <1>4. /\ UNCHANGED <<setup, fin, owner, held, wake, now, ran, journal, totals, twice, handed>>
        /\ s.pc = "flying" /\ x' = [x EXCEPT ![w] = y]
    <2>1. x \in [Worker -> Places] BY DEF Ready, Types
    <2>2. x' = [x EXCEPT ![w] = y] BY <1>1, <1>2, <1>3, <2>1 DEF Places
    <2> QED BY <2>2 DEF Hears, store
  <1>5. /\ s.seen.call[k][p].state = "pending"
        /\ AtMostOnce(p) => s.seen.call[k][p].args = Arguments(k)
        /\ ~setup.bounded => s.seen.task[k][p] = "none"
    BY <1>1, <1>4 DEF Fits, PlaceOK, PlaceInOrder, Holding
  <1>6. /\ y \in Places /\ y.seen = s.seen /\ y.k = k /\ y.p = p /\ y.pc = "answer"
        /\ y.res = heard
    BY <1>1, <1>3 DEF Places, Working
  <1>7. Fits(y)
    <2>1. Base(y) BY <1>1, <1>6, BaseMoves
    <2> QED BY <1>5, <1>6, <2>1, AtCall DEF Holding
  <1>8. s.pc \in Working BY <1>4 DEF Working
  <1>9. StepOf(w, y) BY <1>1, <1>4, <1>6, <1>7, <1>8, GoStep
  <1>10. HearsOf(w, y) BY <1>2, <1>4, <1>6, <1>9 DEF HearsOf
  <1>11. Calm(w, y)
    <2> SUFFICES ASSUME Undisturbed
                 PROVE  /\ ~held' /\ fin' # "cancelled" /\ owner' = w /\ fin' = "none" /\ ~ran'
                        /\ ~setup.names => \A b \in Attempts, q \in Tasks :
                              InDoubt(b, q) => StandsAt(y, b, q)
      <3>1. sent' \subseteq sent BY <1>2
      <3> QED BY <1>4, <3>1 DEF Calm, InDoubt
    <2>1. ~ran BY <1>4, Alone DEF Handled
    <2>2. ASSUME ~setup.names, NEW b \in Attempts, NEW q \in Tasks, InDoubt(b, q)
          PROVE  StandsAt(y, b, q)
      <3>1. b = k /\ q = p /\ s.seen.call[b][q].state = "pending"
        BY Zenon, <1>4, <2>2, Alone DEF StandsAt
      <3> QED BY <1>6, <3>1 DEF StandsAt
    <2> QED BY <1>4, <2>1, <2>2, Alone
  <1> QED BY <1>4, <1>6, <1>10, <1>11

-----------------------------------------------------------------------------
(* What the steps keep.                                                    *)

\* The kinds of an execution's steps.
Kind(w, y) == Local(w, y) \/ Intends(w, y) \/ Answers(w, y) \/ Sends(w, y) \/ HearsOf(w, y)

\* The workers after a step of one of them.
LEMMA Others ==
    ASSUME Types, NEW w \in Worker, NEW y, Kind(w, y)
    PROVE  /\ x'[w] = y /\ \A v \in Worker : v # w => x'[v] = x[v]
           /\ \A v \in Worker : x[v].k \in Attempts /\ x[v].p \in Tasks
           /\ StepOf(w, y) /\ Advances(journal, journal')
  <1>1. StepOf(w, y) BY Zenon DEF Kind, Local, Intends, Answers, Sends, HearsOf
  <1> QED BY <1>1 DEF StepOf, Types, Places

\* What is said of a call that is in flight, as one worker's.
Sent(v) ==
    /\ x[v].pc = "flying" \/ (x[v].pc = "answer" /\ x[v].res = "ok") => <<x[v].k, x[v].p>> \in sent
    /\ x[v].pc = "flying" /\ x[v].p \notin twice =>
          /\ journal.call[x[v].k][x[v].p].state # "ok"
          /\ \A u \in Worker \ {v} : x[u].p = x[v].p =>
                ~(x[u].pc = "flying" \/ (x[u].pc = "answer" /\ x[u].res = "ok"))

\* And what the journal says of the calls that were sent.
SentSaved ==
    \A k \in Attempts, p \in Tasks :
        /\ journal.call[k][p].state = "ok" => <<k, p>> \in sent
        /\ <<k, p>> \in sent => journal.call[k][p].state # "none"

\* Together they are what is said of the calls that were sent.
LEMMA SentParts == SentIsTrue <=> SentSaved /\ \A v \in Worker : Sent(v)
  BY DEF SentIsTrue, SentSaved, Sent

\* No step loses sight of a call that was sent.
LEMMA SentKept ==
    ASSUME Types, setup' = setup, SentIsTrue, NEW w \in Worker, NEW y, Kind(w, y)
    PROVE  SentIsTrue'
  <1> DEFINE k == x[w].k
             p == x[w].p
  <1>1. /\ x'[w] = y /\ \A v \in Worker : v # w => x'[v] = x[v]
        /\ \A v \in Worker : x[v].k \in Attempts /\ x[v].p \in Tasks
    BY Others
  <1>2. SentSaved /\ \A v \in Worker : Sent(v) BY SentParts
  <1>3. Tasks' = Tasks BY DEF Tasks
  <1>4. SUFFICES SentSaved' /\ \A v \in Worker : Sent(v)'
    BY DEF SentIsTrue, SentSaved, Sent
  <1>5. CASE Local(w, y)
    <2>1. SentSaved' BY Zenon, <1>2, <1>3, <1>5 DEF SentSaved, Local
    <2>2. ASSUME NEW v \in Worker PROVE Sent(v)'
      <3>1. CASE v = w BY <1>1, <1>5, <3>1 DEF Sent, Local, Holding
      <3>2. CASE v # w
        <4>1. x'[v] = x[v] /\ Sent(v) BY <1>1, <1>2, <3>2
        <4>2. \A u \in Worker : x'[u] = x[u] \/ (u = w /\ ~Holding(x'[u])) BY <1>1, <1>5 DEF Local
        <4> QED BY <1>5, <4>1, <4>2 DEF Sent, Local, Holding
      <3> QED BY <3>1, <3>2
    <2> QED BY <2>1, <2>2
  <1>6. CASE Intends(w, y)
    <2>1. /\ journal'.call[k][p].state = "pending" /\ sent' = sent /\ twice' = twice
          /\ \A a \in Attempts, q \in Tasks : a # k \/ q # p => journal'.call[a][q] = journal.call[a][q]
          /\ journal.call[k][p].state \in {"none", "pending"}
          /\ y.pc \notin {"flying", "answer"}
      BY <1>6 DEF Intends, Holding
    <2>2. SentSaved' BY Zenon, <1>2, <1>3, <2>1 DEF SentSaved
    <2>3. ASSUME NEW v \in Worker PROVE Sent(v)'
      <3>1. CASE v = w BY <1>1, <2>1, <3>1 DEF Sent
      <3>2. CASE v # w
        <4>1. x'[v] = x[v] /\ Sent(v) BY <1>1, <1>2, <3>2
        <4>2. \A u \in Worker : x'[u] = x[u] \/ (u = w /\ x'[u].pc \notin {"flying", "answer"})
          BY <1>1, <2>1
        <4> QED BY <1>1, <2>1, <4>1, <4>2 DEF Sent
      <3> QED BY <3>1, <3>2
    <2> QED BY <2>2, <2>3
  <1>7. CASE Answers(w, y)
    <2>1. /\ sent' = sent /\ twice' = twice
          /\ \A a \in Attempts, q \in Tasks : a # k \/ q # p => journal'.call[a][q] = journal.call[a][q]
          /\ journal'.call[k][p].state # "none"
          /\ journal'.call[k][p].state = "ok" => x[w].pc = "answer" /\ x[w].res = "ok"
          /\ y.pc \notin {"flying", "answer"}
      BY <1>7 DEF Answers, Holding
    <2>2. SentSaved' BY Zenon, <1>1, <1>2, <1>3, <2>1 DEF SentSaved, Sent
    <2>3. ASSUME NEW v \in Worker PROVE Sent(v)'
      <3>1. CASE v = w BY <1>1, <2>1, <3>1 DEF Sent
      <3>2. CASE v # w
        <4>1. x'[v] = x[v] /\ Sent(v) BY <1>1, <1>2, <3>2
        <4>2. \A u \in Worker : x'[u] = x[u] \/ (u = w /\ x'[u].pc \notin {"flying", "answer"})
          BY <1>1, <2>1
        <4>3. x[v].pc = "flying" /\ x[v].p \notin twice => journal'.call[x[v].k][x[v].p].state # "ok"
          BY SMTT(30), <1>1, <2>1, <3>2, <4>1 DEF Sent
        <4> QED BY <1>1, <2>1, <4>1, <4>2, <4>3 DEF Sent
      <3> QED BY <3>1, <3>2
    <2> QED BY <2>2, <2>3
  <1>8. CASE Sends(w, y)
    <2>1. /\ journal' = journal /\ journal.call[k][p].state # "none"
          /\ sent' = sent \cup {<<k, p>>}
          /\ twice' = twice \cup {q \in {p} : \E a \in Attempts : <<a, q>> \in sent}
          /\ y.pc = "flying" /\ y.k = k /\ y.p = p
      BY <1>8 DEF Sends
    <2>2. SentSaved' BY Zenon, <1>2, <1>3, <2>1 DEF SentSaved
    <2>3. p \notin twice' => \A a \in Attempts : <<a, p>> \notin sent BY <2>1
    <2>4. ASSUME NEW v \in Worker PROVE Sent(v)'
      <3>1. CASE v = w
        <4>1. y.p \notin twice' => journal'.call[k][p].state # "ok"
          BY <1>1, <1>2, <2>1, <2>3 DEF SentSaved
        <4>2. ASSUME p \notin twice', NEW u \in Worker \ {w}, x[u].p = p
              PROVE  ~(x[u].pc = "flying" \/ (x[u].pc = "answer" /\ x[u].res = "ok"))
          <5>1. <<x[u].k, p>> \notin sent BY <1>1, <2>3, <4>2
          <5> QED BY <1>2, <4>2, <5>1 DEF Sent
        <4> QED BY <1>1, <2>1, <3>1, <4>1, <4>2 DEF Sent
      <3>2. CASE v # w
        <4>1. x'[v] = x[v] /\ Sent(v) BY <1>1, <1>2, <3>2
        <4>2. x[v].pc = "flying" /\ x[v].p \notin twice' => x[v].p # p
          BY <1>1, <2>3, <4>1 DEF Sent
        <4>3. twice \subseteq twice' /\ sent \subseteq sent' BY <2>1
        <4> QED BY <1>1, <2>1, <4>1, <4>2, <4>3 DEF Sent
      <3> QED BY <3>1, <3>2
    <2> QED BY <2>2, <2>4
  <1>9. CASE HearsOf(w, y)
    <2>1. /\ journal' = journal /\ twice' = twice /\ x[w].pc = "flying"
          /\ sent' = IF y.res = "notExecuted" /\ p \notin twice THEN sent \ {<<k, p>>} ELSE sent
          /\ y.pc = "answer" /\ y.k = k /\ y.p = p
      BY <1>9 DEF HearsOf
    <2>2. Sent(w) BY <1>2
    <2>3. SentSaved' BY Zenon, <1>1, <1>2, <1>3, <2>1, <2>2 DEF SentSaved, Sent
    <2>4. ASSUME NEW v \in Worker PROVE Sent(v)'
      <3>1. CASE v = w BY <1>1, <2>1, <2>2, <3>1 DEF Sent
      <3>2. CASE v # w
        <4>1. x'[v] = x[v] /\ Sent(v) BY <1>1, <1>2, <3>2
        <4>2. x[v].pc = "flying" \/ (x[v].pc = "answer" /\ x[v].res = "ok") => <<x[v].k, x[v].p>> \in sent'
          BY <2>1, <2>2, <3>2, <4>1 DEF Sent
        <4>3. x[v].pc = "flying" /\ x[v].p \notin twice => x[v].p # p
          BY <2>1, <3>2, <4>1 DEF Sent
        <4> QED BY <1>1, <2>1, <4>1, <4>2, <4>3 DEF Sent
      <3> QED BY <3>1, <3>2
    <2> QED BY <2>3, <2>4
  <1> QED BY <1>5, <1>6, <1>7, <1>8, <1>9 DEF Kind

\* What a worker says of an at-most-once call that it stands at.
Sole(v) ==
    Holding(x[v]) /\ AtMostOnce(x[v].p) =>
        /\ journal.call[x[v].k][x[v].p].state \in {"pending", "marker"}
        /\ \A u \in Worker \ {v} : Holding(x[u]) => x[u].p # x[v].p
        /\ x[v].pc = "dispatch" => \A k \in Attempts : <<k, x[v].p>> \notin sent
        /\ x[v].pc = "answer" /\ x[v].res = "notExecuted" => <<x[v].k, x[v].p>> \notin sent

\* And what the journal says of one that was sent.
SoleSaved ==
    /\ \A k \in Attempts, p \in Tasks : AtMostOnce(p) /\ <<k, p>> \in sent =>
          journal.call[k][p].state \notin {"none", "notExecuted"}
    /\ \A p \in twice : ~AtMostOnce(p)

\* Together they are what is said of the one sender.
LEMMA SoleParts == OneSender <=> SoleSaved /\ \A v \in Worker : Sole(v)
  BY DEF OneSender, SoleSaved, Sole

\* No step lets a second worker send an at-most-once call.
LEMMA SoleKept ==
    ASSUME Types, setup' = setup, ~setup.bounded, OneSender, NEW w \in Worker, NEW y, Kind(w, y)
    PROVE  OneSender'
  <1> DEFINE k == x[w].k
             p == x[w].p
  <1>1. /\ x'[w] = y /\ \A v \in Worker : v # w => x'[v] = x[v]
        /\ \A v \in Worker : x[v].k \in Attempts /\ x[v].p \in Tasks
        /\ twice \subseteq Tasks
    BY Others DEF Types
  <1>2. SoleSaved /\ \A v \in Worker : Sole(v) BY SoleParts
  <1>3. Tasks' = Tasks /\ \A q \in Tasks : AtMostOnce(q)' <=> AtMostOnce(q)
    BY DEF Tasks, AtMostOnce
  <1>4. SUFFICES SoleSaved' /\ \A v \in Worker : Sole(v)'
    BY DEF OneSender, SoleSaved, Sole
  <1>5. ASSUME NEW v \in Worker, v # w, sent' \subseteq sent,
               journal'.call[x[v].k][x[v].p] = journal.call[x[v].k][x[v].p]
                  \/ journal'.call[x[v].k][x[v].p].state = "marker",
               Holding(y) /\ Holding(x[v]) /\ AtMostOnce(x[v].p) => y.p # x[v].p
        PROVE  Sole(v)'
    <2>1. x'[v] = x[v] /\ Sole(v) BY <1>1, <1>2, <1>5
    <2>2. \A u \in Worker : x'[u] = x[u] \/ (u = w /\ x'[u] = y) BY <1>1
    <2>3. AtMostOnce(x[v].p)' <=> AtMostOnce(x[v].p) BY <2>1, <1>1, <1>3 DEF AtMostOnce
    <2> QED BY <1>1, <1>3, <1>5, <2>1, <2>2 DEF Sole, Holding
  <1>6. CASE Local(w, y)
    <2>1. /\ journal'.call = journal.call /\ sent' = sent /\ twice' = twice /\ ~Holding(y)
      BY <1>6 DEF Local
    <2>2. SoleSaved' BY <1>1, <1>2, <1>3, <2>1 DEF SoleSaved
    <2>3. Sole(w)' BY <1>1, <2>1 DEF Sole, Holding
    <2> QED BY <1>5, <2>1, <2>2, <2>3
  <1>7. CASE Intends(w, y)
    <2>1. /\ journal'.call[k][p].state = "pending" /\ sent' = sent /\ twice' = twice
          /\ \A a \in Attempts, q \in Tasks : a # k \/ q # p => journal'.call[a][q] = journal.call[a][q]
          /\ AtMostOnce(p) => \A a \in Attempts : journal.call[a][p].state \in {"none", "notExecuted"}
          /\ ~Holding(y) \/ (y.pc = "dispatch" /\ y.k = k /\ y.p = p)
      BY <1>7 DEF Intends
    <2>2. SoleSaved' BY <1>1, <1>2, <1>3, <2>1 DEF SoleSaved
    <2>3. AtMostOnce(p) => \A a \in Attempts : <<a, p>> \notin sent
      BY <1>1, <1>2, <2>1 DEF SoleSaved
    <2>4. \A v \in Worker : Holding(x[v]) /\ AtMostOnce(x[v].p) => x[v].p # p
      BY <1>1, <1>2, <2>1 DEF Sole
    <2>5. AtMostOnce(p) => \A v \in Worker : Holding(x[v]) => x[v].p # p BY <2>4
    <2>6. Sole(w)'
      <3>1. CASE ~Holding(y) BY <1>1, <3>1 DEF Sole, Holding
      <3>2. CASE y.pc = "dispatch" /\ y.k = k /\ y.p = p
        BY <1>1, <1>3, <2>1, <2>3, <2>5, <3>2 DEF Sole, Holding
      <3> QED BY <2>1, <3>1, <3>2
    <2>7. ASSUME NEW v \in Worker, v # w PROVE Sole(v)'
      <3>1. CASE Holding(x[v]) /\ AtMostOnce(x[v].p) BY <1>1, <1>5, <2>1, <2>4, <2>7, <3>1
      <3>2. CASE ~(Holding(x[v]) /\ AtMostOnce(x[v].p))
        BY SMTT(30), <1>1, <1>3, <2>7, <3>2 DEF Sole, Holding
      <3> QED BY <3>1, <3>2
    <2> QED BY <2>2, <2>6, <2>7
  <1>8. CASE Answers(w, y)
    <2>1. /\ sent' = sent /\ twice' = twice /\ ~Holding(y)
          /\ \A a \in Attempts, q \in Tasks : a # k \/ q # p => journal'.call[a][q] = journal.call[a][q]
          /\ journal'.call[k][p].state # "none"
          /\ journal'.call[k][p].state = "marker"
                \/ (x[w].pc = "answer" /\ x[w].res = journal'.call[k][p].state)
      BY <1>8 DEF Answers
    <2>2. journal'.call[k][p].state = "notExecuted" /\ AtMostOnce(p) => <<k, p>> \notin sent
      BY SMTT(30), <1>2, <2>1 DEF Sole, Holding
    <2>3. SoleSaved'
      <3>1. ASSUME NEW a \in Attempts, NEW q \in Tasks, AtMostOnce(q), <<a, q>> \in sent
            PROVE  journal'.call[a][q].state \notin {"none", "notExecuted"}
        <4>1. CASE a = k /\ q = p BY <2>1, <2>2, <3>1, <4>1
        <4>2. CASE a # k \/ q # p BY <1>2, <2>1, <3>1, <4>2 DEF SoleSaved
        <4> QED BY <4>1, <4>2
      <3> QED BY <1>1, <1>2, <1>3, <2>1, <3>1 DEF SoleSaved
    <2>4. Sole(w)' BY SMTT(30), <1>1, <2>1 DEF Sole, Holding
    <2>5. ASSUME NEW v \in Worker, v # w PROVE Sole(v)'
      <3>1. CASE Holding(x[v]) /\ AtMostOnce(x[v].p)
        <4>1. Holding(x[w]) => x[v].p # p BY <1>2, <2>5, <3>1 DEF Sole
        <4>2. \/ journal'.call[x[v].k][x[v].p] = journal.call[x[v].k][x[v].p]
              \/ journal'.call[x[v].k][x[v].p].state = "marker"
          BY SMTT(30), <1>1, <2>1, <4>1 DEF Holding
        <4> QED BY Zenon, <1>5, <2>1, <2>5, <4>2
      <3>2. CASE ~(Holding(x[v]) /\ AtMostOnce(x[v].p)) BY <1>1, <1>3, <2>5, <3>2 DEF Sole, Holding
      <3> QED BY <3>1, <3>2
    <2> QED BY <2>3, <2>4, <2>5
  <1>9. CASE Sends(w, y)
    <2>1. /\ journal' = journal /\ sent' = sent \cup {<<k, p>>}
          /\ twice' = twice \cup {q \in {p} : \E a \in Attempts : <<a, q>> \in sent}
          /\ x[w].pc = "dispatch" /\ y.pc = "flying" /\ y.k = k /\ y.p = p
      BY <1>9 DEF Sends
    <2>2. Holding(x[w]) /\ Sole(w) BY <1>2, <2>1 DEF Holding
    <2>3. AtMostOnce(p) => /\ \A a \in Attempts : <<a, p>> \notin sent
                           /\ journal.call[k][p].state \in {"pending", "marker"}
                           /\ \A u \in Worker \ {w} : Holding(x[u]) => x[u].p # p
      BY <2>1, <2>2 DEF Sole
    <2>4. SoleSaved' BY <1>1, <1>2, <1>3, <2>1, <2>3 DEF SoleSaved
    <2>5. Sole(w)' BY <1>1, <1>3, <2>1, <2>3 DEF Sole, Holding
    <2>6. ASSUME NEW v \in Worker, v # w PROVE Sole(v)'
      <3>1. CASE Holding(x[v]) /\ AtMostOnce(x[v].p)
        <4>1. x[v].p # p /\ Sole(v) /\ x'[v] = x[v] BY <1>1, <1>2, <2>2, <2>6, <3>1 DEF Sole
        <4>2. \A u \in Worker : x'[u].p = x[u].p /\ (Holding(x'[u]) => Holding(x[u]))
          BY <1>1, <2>1, <2>2
        <4> QED BY <1>1, <1>3, <2>1, <3>1, <4>1, <4>2 DEF Sole, Holding
      <3>2. CASE ~(Holding(x[v]) /\ AtMostOnce(x[v].p)) BY <1>1, <1>3, <2>6, <3>2 DEF Sole, Holding
      <3> QED BY <3>1, <3>2
    <2> QED BY <2>4, <2>5, <2>6
  <1>10. CASE HearsOf(w, y)
    <2>1. /\ journal' = journal /\ twice' = twice /\ x[w].pc = "flying"
          /\ sent' = IF y.res = "notExecuted" /\ p \notin twice THEN sent \ {<<k, p>>} ELSE sent
          /\ y.pc = "answer" /\ y.k = k /\ y.p = p
      BY <1>10 DEF HearsOf
    <2>2. Holding(x[w]) /\ Sole(w) BY <1>2, <2>1 DEF Holding
    <2>3. sent' \subseteq sent BY <2>1
    <2>4. SoleSaved' BY <1>1, <1>2, <1>3, <2>1, <2>3 DEF SoleSaved
    <2>5. AtMostOnce(p) => /\ journal.call[k][p].state \in {"pending", "marker"}
                           /\ \A u \in Worker \ {w} : Holding(x[u]) => x[u].p # p
                           /\ y.res = "notExecuted" => <<k, p>> \notin sent'
      BY <1>2, <2>1, <2>2 DEF Sole, SoleSaved
    <2>6. Sole(w)' BY <1>1, <1>3, <2>1, <2>5 DEF Sole, Holding
    <2>7. ASSUME NEW v \in Worker, v # w PROVE Sole(v)'
      <3>1. Holding(x[v]) /\ AtMostOnce(x[v].p) => y.p # x[v].p
        BY <1>2, <2>1, <2>2, <2>7 DEF Sole
      <3> QED BY <1>5, <2>1, <2>3, <2>7, <3>1
    <2> QED BY <2>4, <2>6, <2>7
  <1> QED BY <1>6, <1>7, <1>8, <1>9, <1>10 DEF Kind

\* An envelope that the journal names stays the attempt's.
LEMMA EnvelopesKept ==
    ASSUME Types, EnvelopesAreSaved, NEW w \in Worker, NEW y, Kind(w, y)
    PROVE  EnvelopesAreSaved'
  <1>1. Advances(journal, journal') /\ x[w].k \in Attempts /\ x[w].p \in Tasks BY Others
  <1>2. \A h \in handed : h[1] \in Attempts /\ h[2] \in Tasks BY DEF Types
  <1>3. ASSUME NEW k \in Attempts, NEW p \in Tasks, journal.call[k][p].state # "none"
        PROVE  journal'.call[k][p].state # "none" /\ journal'.call[k][p].args = journal.call[k][p].args
    <2>1. Advance(journal.call[k][p], journal'.call[k][p]) BY <1>1 DEF Advances
    <2> QED BY <1>3, <2>1 DEF Advance
  <1>4. \/ handed' = handed
        \/ /\ handed' = handed \cup {<<x[w].k, x[w].p, journal.call[x[w].k][x[w].p].args>>}
           /\ journal.call[x[w].k][x[w].p].state # "none"
    BY Zenon DEF Kind, Local, Intends, Answers, Sends, HearsOf
  <1>5. ASSUME NEW h \in handed'
        PROVE  journal'.call[h[1]][h[2]].state # "none" /\ journal'.call[h[1]][h[2]].args = h[3]
    <2>1. CASE h \in handed BY <1>2, <1>3, <2>1 DEF EnvelopesAreSaved
    <2>2. CASE /\ h = <<x[w].k, x[w].p, journal.call[x[w].k][x[w].p].args>>
               /\ journal.call[x[w].k][x[w].p].state # "none"
      BY <1>1, <1>3, <2>2
    <2> QED BY <1>4, <2>1, <2>2
  <1> QED BY <1>5 DEF EnvelopesAreSaved

\* The calls that have an answer.
Answered(j) == {kp \in Attempts \X Tasks : j.call[kp[1]][kp[2]].state \in {"ok", "failed"}}

\* Every answer counts once.
LEMMA TotalsKept ==
    ASSUME Types, setup' = setup, TotalsAgree, NEW w \in Worker, NEW y, Kind(w, y)
    PROVE  TotalsAgree'
  <1> DEFINE k == x[w].k
             p == x[w].p
  <1>1. k \in Attempts /\ p \in Tasks BY Others
  <1>2. Tasks' = Tasks BY DEF Tasks
  <1>3. PICK i, j : i = journal /\ j = journal' OBVIOUS
  <1>4. totals = Cardinality(Answered(i)) BY <1>3 DEF TotalsAgree, Answered
  <1>5. SUFFICES totals' = Cardinality(Answered(j))
    BY <1>2, <1>3 DEF TotalsAgree, Answered
  <1>6. CASE totals' = totals /\ \A a \in Attempts, q \in Tasks :
               j.call[a][q].state \in {"ok", "failed"} <=> i.call[a][q].state \in {"ok", "failed"}
    <2>1. Answered(i) = Answered(j) BY <1>6 DEF Answered
    <2> QED BY <1>4, <1>6, <2>1
  <1>7. CASE Local(w, y) BY <1>3, <1>6, <1>7 DEF Local
  <1>8. CASE Intends(w, y)
    <2>1. \A a \in Attempts, q \in Tasks :
             j.call[a][q].state \in {"ok", "failed"} <=> i.call[a][q].state \in {"ok", "failed"}
      <3> SUFFICES ASSUME NEW a \in Attempts, NEW q \in Tasks
                   PROVE  j.call[a][q].state \in {"ok", "failed"} <=> i.call[a][q].state \in {"ok", "failed"}
        OBVIOUS
      <3>1. CASE a = k /\ q = p BY <1>3, <1>8, <3>1 DEF Intends
      <3>2. CASE a # k \/ q # p BY SMTT(30), <1>3, <1>8, <3>2 DEF Intends
      <3> QED BY <3>1, <3>2
    <2> QED BY <1>6, <1>8, <2>1 DEF Intends
  <1>9. CASE Sends(w, y) \/ HearsOf(w, y) BY <1>3, <1>6, <1>9 DEF Sends, HearsOf
  <1>10. CASE Answers(w, y)
    <2>1. /\ i.call[k][p].state = "pending"
          /\ \A a \in Attempts, q \in Tasks : a # k \/ q # p => j.call[a][q] = i.call[a][q]
          /\ \/ j.call[k][p].state \in {"ok", "failed"} /\ totals' = totals + 1
             \/ j.call[k][p].state \in {"notExecuted", "marker"} /\ totals' = totals
      BY <1>3, <1>10 DEF Answers
    <2>2. CASE j.call[k][p].state \in {"notExecuted", "marker"} /\ totals' = totals
      <3> SUFFICES ASSUME NEW a \in Attempts, NEW q \in Tasks
                   PROVE  j.call[a][q].state \in {"ok", "failed"} <=> i.call[a][q].state \in {"ok", "failed"}
        BY <1>6, <2>2
      <3>1. CASE a = k /\ q = p BY <2>1, <2>2, <3>1
      <3>2. CASE a # k \/ q # p BY <2>1, <3>2
      <3> QED BY <3>1, <3>2
    <2>3. CASE j.call[k][p].state \in {"ok", "failed"} /\ totals' = totals + 1
      <3>1. Answered(j) = Answered(i) \cup {<<k, p>>}
        <4>1. ASSUME NEW a \in Attempts, NEW q \in Tasks
              PROVE  <<a, q>> \in Answered(j) <=> <<a, q>> \in Answered(i) \cup {<<k, p>>}
          <5>1. CASE a = k /\ q = p BY SMTT(30), <1>1, <2>3, <5>1 DEF Answered
          <5>2. CASE a # k \/ q # p BY <2>1, <5>2 DEF Answered
          <5> QED BY <5>1, <5>2
        <4>2. Answered(j) \subseteq Attempts \X Tasks /\ Answered(i) \subseteq Attempts \X Tasks
          BY SMTT(30) DEF Answered
        <4> QED BY <1>1, <4>1, <4>2
      <3>2. <<k, p>> \notin Answered(i) BY <2>1 DEF Answered
      <3>3. IsFiniteSet(Answered(i))
        <4>1. IsFiniteSet(Attempts) /\ IsFiniteSet(Tasks)
          <5>1. MaxAttempts \in Int /\ 1 \in Int BY BoundAssumption
          <5>2. Len(setup.kinds) \in Int /\ Tasks = 1..Len(setup.kinds) BY TaskNumbers DEF Types
          <5> QED BY <5>1, <5>2, FS_Interval DEF Attempts
        <4>2. IsFiniteSet(Attempts \X Tasks) BY <4>1, FS_Product
        <4>3. Answered(i) \subseteq Attempts \X Tasks BY DEF Answered
        <4> QED BY <4>2, <4>3, FS_Subset
      <3>4. Cardinality(Answered(i) \cup {<<k, p>>}) = Cardinality(Answered(i)) + 1
        BY <3>2, <3>3, FS_AddElement
      <3> QED BY <1>4, <2>3, <3>1, <3>4
    <2> QED BY SMTT(30), <2>1, <2>2, <2>3
  <1> QED BY <1>7, <1>8, <1>9, <1>10 DEF Kind

\* How the run ends is not changed by an execution that goes on.
LEMMA EndsKept ==
    ASSUME Types, setup' = setup, EndsAreTrue, NEW w \in Worker, NEW y, Kind(w, y),
           Handled(y) => ran', ran => ran',
           fin' = "completed" /\ ~ran' => fin = "completed" \/ \A p \in Tasks : HasResult(journal, p),
           ~setup.bounded /\ ran' => ran \/ \E k \in Attempts : journal.retry[k] = "stop"
    PROVE  EndsAreTrue'
  <1>1. /\ x'[w] = y /\ \A v \in Worker : v # w => x'[v] = x[v]
        /\ Advances(journal, journal')
    BY Others
  <1>2. Tasks' = Tasks BY DEF Tasks
  <1>3. PICK i, j : i = journal /\ j = journal' OBVIOUS
  <1>4. \A p \in Tasks : HasResult(i, p) => HasResult(j, p) BY <1>1, <1>3, AdvancesFacts
  <1>5. \A p \in Tasks : HasResult(j, p) <=> HasResult(journal, p)' BY <1>3 DEF HasResult
  <1>6. fin' = "completed" /\ ~ran' => \A p \in Tasks' : HasResult(journal, p)'
    BY <1>2, <1>3, <1>4, <1>5 DEF EndsAreTrue
  <1>7. \A v \in Worker : x'[v].pc = "finish" /\ x'[v].res = "handled" => ran'
    BY <1>1 DEF EndsAreTrue, Handled
  <1>8. ~setup.bounded /\ ran' => \E k \in Attempts : journal'.retry[k] = "stop"
    <2> SUFFICES ASSUME ~setup.bounded, ran' PROVE \E k \in Attempts : journal'.retry[k] = "stop"
      OBVIOUS
    <2>1. PICK k \in Attempts : journal.retry[k] = "stop" BY DEF EndsAreTrue
    <2>2. journal'.retry[k] = "stop" BY <1>1, <2>1 DEF Advances
    <2> QED BY <2>2
  <1> QED BY <1>6, <1>7, <1>8 DEF EndsAreTrue

\* While nothing fails the one execution goes on alone.
LEMMA UndisturbedKept ==
    ASSUME Types, setup' = setup, NEW w \in Worker, NEW y, x' = [x EXCEPT ![w] = y],
           faults = 0 => Undisturbed, Calm(w, y), faults = 0, faults' = 0,
           \A v \in Worker : v # w => ~Active(x[v])
    PROVE  Undisturbed'
  <1>1. Undisturbed OBVIOUS
  <1>2. x'[w] = y /\ \A v \in Worker : v # w => x'[v] = x[v] BY DEF Types
  <1>3. Tasks' = Tasks /\ \A q \in Tasks : AtMostOnce(q)' <=> AtMostOnce(q)
    BY DEF Tasks, AtMostOnce
  <1>4. ~held' /\ fin' # "cancelled" BY <1>1 DEF Calm
  <1>5. ASSUME NEW v \in Worker, Active(x[v])' PROVE owner' = v /\ fin' = "none"
    <2>1. v = w BY <1>2, <1>5 DEF Active
    <2> QED BY <1>1, <1>2, <1>5, <2>1 DEF Calm, Active
  <1>6. ASSUME ran', fin' = "none" PROVE \E v \in Worker : Handled(x[v])'
    BY <1>1, <1>2, <1>6 DEF Calm, Handled
  <1>7. ASSUME ~setup.names, NEW k \in Attempts, NEW p \in Tasks, InDoubt(k, p)'
        PROVE  \/ fin' # "none" /\ ~ran'
               \/ \E v \in Worker : StandsAt(x[v], k, p)'
    <2>1. AtMostOnce(p) /\ <<k, p>> \in sent' /\ journal'.call[k][p].state = "pending"
      BY <1>3, <1>7 DEF InDoubt
    <2>2. (fin' # "none" /\ ~ran') \/ StandsAt(y, k, p) BY <1>1, <1>7, <2>1 DEF Calm
    <2> QED BY <1>2, <2>2 DEF StandsAt
  <1> QED BY <1>3, <1>4, <1>5, <1>6, <1>7 DEF Undisturbed

\* The types are the workflow's.
LEMMA FixedTypes ==
    ASSUME setup' = setup
    PROVE  Tasks' = Tasks /\ Records' = Records /\ Places' = Places
  <1>1. Tasks' = Tasks BY DEF Tasks
  <1>2. Records' = Records BY <1>1 DEF Records
  <1> QED BY <1>1, <1>2 DEF Places

\* What a step of any kind leaves of the rest.
Fair(w, y) ==
    /\ setup' = setup /\ now' = now /\ held' = held
    /\ wake' \in Nat /\ faults' \in Nat /\ (faults' = 0 => faults = 0)
    /\ owner' \in {owner, Nobody, w} /\ fin' \in {fin, "completed", "faulted"}
    /\ ran' \in BOOLEAN /\ (ran => ran') /\ (Handled(y) => ran')
    /\ fin' = "completed" /\ ~ran' => fin = "completed" \/ \A p \in Tasks : HasResult(journal, p)
    /\ ~setup.bounded /\ ran' => ran \/ \E k \in Attempts : journal.retry[k] = "stop"
    /\ faults = 0 /\ faults' = 0 => \A v \in Worker : v # w => ~Active(x[v])

\* A step of any kind keeps the types.
LEMMA TypesKept ==
    ASSUME Types, NEW w \in Worker, NEW y \in Places, Kind(w, y), Fair(w, y)
    PROVE  Types'
  <1>1. setup' = setup /\ Tasks' = Tasks /\ Records' = Records /\ Places' = Places
    BY FixedTypes DEF Fair
  <1>2. StepOf(w, y) /\ x[w].k \in Attempts /\ x[w].p \in Tasks BY Others
  <1>3. journal' \in Records' BY <1>1, <1>2 DEF StepOf
  <1>4. x' \in [Worker -> Places'] BY <1>1, <1>2 DEF StepOf, Types
  <1>5. totals' \in Nat
    <2>1. totals' = totals \/ totals' = totals + 1
      BY Zenon DEF Kind, Local, Intends, Answers, Sends, HearsOf
    <2>2. totals \in Nat BY DEF Types
    <2> QED BY <2>1, <2>2
  <1>6. sent' \subseteq Attempts \X Tasks'
    <2>1. sent' \subseteq sent \cup {<<x[w].k, x[w].p>>}
      BY Zenon DEF Kind, Local, Intends, Answers, Sends, HearsOf
    <2> QED BY <1>1, <1>2, <2>1 DEF Types
  <1>7. twice' \subseteq Tasks'
    <2>1. twice' \subseteq twice \cup {x[w].p}
      BY Zenon DEF Kind, Local, Intends, Answers, Sends, HearsOf
    <2> QED BY <1>1, <1>2, <2>1 DEF Types
  <1>8. handed' \subseteq Attempts \X Tasks' \X Nat /\ IsFiniteSet(handed')
    <2>1. PICK h : h = <<x[w].k, x[w].p, journal.call[x[w].k][x[w].p].args>> OBVIOUS
    <2>2. journal.call[x[w].k][x[w].p].args \in Nat BY <1>2 DEF Types, Records, CallRec
    <2>3. h \in Attempts \X Tasks \X Nat BY <1>2, <2>1, <2>2
    <2>4. handed' = handed \/ handed' = handed \cup {h}
      BY Zenon, <2>1 DEF Kind, Local, Intends, Answers, Sends, HearsOf
    <2>5. IsFiniteSet(handed \cup {h}) BY FS_AddElement DEF Types
    <2> QED BY <1>1, <2>3, <2>4, <2>5 DEF Types
  <1>9. setup' \in SetupType BY <1>1 DEF Types
  <1>10. held' \in BOOLEAN BY DEF Fair, Types
  <1>11. owner' \in Worker \cup {Nobody} BY DEF Fair, Types
  <1>12. fin' \in {"none", "completed", "faulted", "cancelled"} BY DEF Fair, Types
  <1>13. now' \in Nat /\ wake' \in Nat /\ faults' \in Nat /\ ran' \in BOOLEAN BY DEF Fair, Types
  <1> QED BY <1>3, <1>4, <1>5, <1>6, <1>7, <1>8, <1>9, <1>10, <1>11, <1>12, <1>13 DEF Types

\* A step of any kind keeps the invariant.
LEMMA KindKept ==
    ASSUME Inv, NEW w \in Worker, NEW y \in Places, Kind(w, y), Fair(w, y), Calm(w, y)
    PROVE  Inv'
  <1>1. /\ Types /\ JournalOK(journal) /\ \A v \in Worker : WorkerOK(v)
        /\ SentIsTrue /\ (~setup.bounded => OneSender) /\ EnvelopesAreSaved /\ TotalsAgree
        /\ EndsAreTrue /\ (faults = 0 => Undisturbed)
    BY DEF Inv
  <1>2. setup' = setup /\ owner' \in {owner, Nobody, w} BY DEF Fair
  <1>3. StepOf(w, y) BY <1>1, Others
  <1>4. Types' BY <1>1, TypesKept
  <1>5. JournalOK(journal)'
    <2>1. PICK j : j = journal' OBVIOUS
    <2>2. JournalOK(j) BY <1>3, <2>1 DEF StepOf
    <2> QED BY <1>2, <2>1, <2>2, FixedJournal
  <1>6. (\A v \in Worker : WorkerOK(v))'
    <2>1. /\ x' = [x EXCEPT ![w] = y] /\ Advances(journal, journal')
          /\ journal' = journal \/ owner = w
          /\ Active(y) => /\ PlaceOK(y)
                          /\ ~setup.bounded => PlaceInOrder(y)
                          /\ Advances(y.seen, journal')
                          /\ owner' = w => Current(y, journal')
      BY <1>3 DEF StepOf, Fits
    <2> QED BY <1>1, <1>2, <2>1, WorkersKept
  <1>7. SentIsTrue' BY <1>1, <1>2, SentKept
  <1>8. ~setup'.bounded => OneSender' BY <1>1, <1>2, SoleKept
  <1>9. EnvelopesAreSaved' BY <1>1, EnvelopesKept
  <1>10. TotalsAgree' BY <1>1, <1>2, TotalsKept
  <1>11. EndsAreTrue' BY <1>1, EndsKept DEF Fair
  <1>12. faults' = 0 => Undisturbed'
    BY <1>1, <1>3, UndisturbedKept DEF Fair, StepOf
  <1> QED BY <1>4, <1>5, <1>6, <1>7, <1>8, <1>9, <1>10, <1>11, <1>12 DEF Inv

-----------------------------------------------------------------------------
(* The invariant.                                                          *)

\* A fault is counted.
LEMMA FaultsCount ==
    ASSUME NEW w \in Worker, faults \in Nat, Execute(w) \/ Expire(w) \/ Claim(w) \/ Crash(w)
    PROVE  faults' \in Nat /\ (faults' = 0 => faults = 0)
  <1>1. SUFFICES faults' = faults \/ faults' = faults + 1
    OBVIOUS
  <1>2. \A next : Go(w, next) => faults' = faults BY DEF Go
  <1>3. \A accepted, write, gain, next :
           Save(w, accepted, write, gain, next) => faults' = faults \/ faults' = faults + 1
    BY DEF Save, Fault
  <1>4. \A write, next : SaveStep(w, write, next) => faults' = faults \/ faults' = faults + 1
    BY <1>3 DEF SaveStep
  <1>5. \A record, next : SaveCall(w, record, next) => faults' = faults \/ faults' = faults + 1
    BY <1>3 DEF SaveCall
  <1>6. \A s : UnknownCall(w, s) => faults' = faults \/ faults' = faults + 1
    BY <1>2, <1>5 DEF UnknownCall
  <1>7. CASE Try(w) BY <1>2, <1>4, <1>7 DEF Try
  <1>8. CASE Attempt(w) BY <1>2, <1>4, <1>8 DEF Attempt
  <1>9. CASE Task(w) BY <1>2, <1>9 DEF Task
  <1>10. CASE Call(w)
    <2>1. \/ \E next : Go(w, next)
          \/ \E record, next : SaveCall(w, record, next)
          \/ \E s : UnknownCall(w, s)
      <3>1. CASE x[w].seen.call[x[w].k][x[w].p].state = "none" BY <1>10, <3>1 DEF Call
      <3>2. CASE x[w].seen.call[x[w].k][x[w].p].state = "pending" BY SMTT(30), <1>10, <3>2 DEF Call
      <3>3. CASE x[w].seen.call[x[w].k][x[w].p].state \notin {"none", "pending"}
        BY SMTT(30), <1>10, <3>3 DEF Call
      <3> QED BY <3>1, <3>2, <3>3
    <2> QED BY <1>2, <1>5, <1>6, <2>1
  <1>11. CASE Emit(w) BY <1>2, <1>5, <1>11 DEF Emit
  <1>12. CASE Dispatch(w) BY <1>12 DEF Dispatch
  <1>13. CASE Hears(w) BY <1>13 DEF Hears, Fault
  <1>14. CASE Answer(w) BY <1>2, <1>5, <1>6, <1>14 DEF Answer
  <1>15. CASE Checkpoint(w) BY <1>4, <1>15 DEF Checkpoint
  <1>16. CASE Caught(w) BY <1>2, <1>4, <1>16 DEF Caught
  <1>17. CASE Sleep(w) BY <1>2, <1>4, <1>17 DEF Sleep
  <1>18. CASE Handler(w) BY <1>18 DEF Handler
  <1>19. CASE Finish(w) BY <1>19 DEF Finish
  <1>20. CASE Expire(w) BY <1>20 DEF Expire
  <1>21. CASE Claim(w) BY <1>21 DEF Claim, Fault
  <1>22. CASE Crash(w) BY <1>22 DEF Crash, Fault
  <1> QED BY <1>7, <1>8, <1>9, <1>10, <1>11, <1>12, <1>13, <1>14, <1>15, <1>16, <1>17, <1>18,
             <1>19, <1>20, <1>21, <1>22 DEF Execute

\* An execution's steps keep the invariant.
LEMMA ExecutionKept ==
    ASSUME Inv, NEW w \in Worker, Execute(w) \/ Expire(w) \/ Crash(w)
    PROVE  Inv'
  <1>1. Types /\ JournalOK(journal) /\ WorkerOK(w) /\ SentIsTrue /\ EndsAreTrue
        /\ (faults = 0 => Undisturbed)
    BY DEF Inv
  <1>2. faults' \in Nat /\ (faults' = 0 => faults = 0)
    BY <1>1, FaultsCount DEF Types
  <1>3. Ready(w)
    <2>1. Active(x[w])
      BY Zenon DEF Execute, Try, Attempt, Task, Call, Emit, Dispatch, Hears, Answer, Checkpoint, Caught,
             Sleep, Handler, Finish, Expire, Crash, Enters, Active
    <2> QED BY <1>1, <2>1 DEF Ready
  <1>4. faults = 0 => \A v \in Worker : v # w => ~Active(x[v])
    BY <1>1, <1>3 DEF Undisturbed, Ready
  <1>5. /\ wake \in Nat /\ ran \in BOOLEAN /\ owner \in {owner, Nobody, w}
        /\ fin \in {fin, "completed", "faulted"}
    BY <1>1 DEF Types
  <1>6. ASSUME Resting, NEW y \in Places, Kind(w, y), Calm(w, y), Handled(y) => ran PROVE Inv'
    <2>1. Fair(w, y) BY <1>1, <1>2, <1>4, <1>5, <1>6 DEF Fair, Resting, EndsAreTrue
    <2> QED BY <1>6, <2>1, KindKept
  <1>7. ASSUME Resting, NEW y \in Places, Local(w, y) \/ Intends(w, y) \/ Answers(w, y), Calm(w, y)
        PROVE  Inv'
    <2>1. Handled(y) => ran BY <1>7 DEF Resting, Local, Intends, Answers
    <2> QED BY <1>6, <1>7, <2>1 DEF Kind
  <1>8. CASE Try(w) BY <1>3, <1>7, <1>8, TryKind
  <1>9. CASE Attempt(w) BY <1>3, <1>7, <1>9, AttemptKind
  <1>10. CASE Task(w) BY <1>3, <1>7, <1>10, TaskKind
  <1>11. CASE Call(w) BY <1>1, <1>3, <1>7, <1>11, CallKind
  <1>12. CASE Emit(w) BY <1>1, <1>3, <1>7, <1>12, EmitKind
  <1>13. CASE Answer(w) BY <1>3, <1>7, <1>13, AnswerKind
  <1>14. CASE Checkpoint(w) BY <1>3, <1>7, <1>14, CheckpointKind
  <1>15. CASE Caught(w) BY <1>3, <1>7, <1>15, CaughtKind
  <1>16. CASE Expire(w) BY <1>1, <1>3, <1>7, <1>16, ExpireKind
  <1>17. CASE Crash(w) BY <1>3, <1>7, <1>17, CrashKind
  <1>18. CASE Dispatch(w)
    <2>1. UNCHANGED <<setup, fin, owner, held, wake, now, ran>> BY <1>3, <1>18, DispatchKind
    <2>2. PICK y \in Places : Sends(w, y) /\ Calm(w, y) BY <1>3, <1>18, DispatchKind
    <2>3. Kind(w, y) /\ ~Handled(y) BY Zenon, <2>2 DEF Kind, Sends, Handled
    <2>4. Fair(w, y) BY <1>1, <1>2, <1>4, <1>5, <2>1, <2>3 DEF Fair, EndsAreTrue
    <2> QED BY <2>2, <2>3, <2>4, KindKept
  <1>19. CASE Hears(w)
    <2>1. UNCHANGED <<setup, fin, owner, held, wake, now, ran>> BY <1>3, <1>19, HearsKind
    <2>2. PICK y \in Places : HearsOf(w, y) /\ Calm(w, y) BY <1>3, <1>19, HearsKind
    <2>3. Kind(w, y) /\ ~Handled(y) BY <2>2 DEF Kind, HearsOf, Handled
    <2>4. Fair(w, y) BY <1>1, <1>2, <1>4, <1>5, <2>1, <2>3 DEF Fair, EndsAreTrue
    <2> QED BY <2>2, <2>3, <2>4, KindKept
  <1>20. CASE Sleep(w)
    <2>1. /\ UNCHANGED <<setup, fin, held, now, ran>> /\ owner' \in {owner, Nobody}
          /\ wake' \in Nat
      BY <1>3, <1>20, SleepKind
    <2>2. PICK y \in Places : Local(w, y) /\ Calm(w, y) BY <1>3, <1>20, SleepKind
    <2>3. Kind(w, y) /\ (Handled(y) => ran') BY <2>2 DEF Kind, Local
    <2>4. Fair(w, y) BY <1>1, <1>2, <1>4, <1>5, <2>1, <2>3 DEF Fair, EndsAreTrue
    <2> QED BY <2>2, <2>3, <2>4, KindKept
  <1>21. CASE Handler(w)
    <2>1. /\ UNCHANGED <<setup, fin, owner, held, wake, now>> /\ ran' = TRUE
          /\ \E k \in Attempts : journal.retry[k] = "stop"
      BY <1>3, <1>21, HandlerKind
    <2>2. PICK y \in Places : Local(w, y) /\ Calm(w, y) BY <1>3, <1>21, HandlerKind
    <2>3. Kind(w, y) BY <2>2 DEF Kind
    <2>4. Fair(w, y) BY <1>1, <1>2, <1>4, <1>5, <2>1 DEF Fair
    <2> QED BY <2>2, <2>3, <2>4, KindKept
  <1>22. CASE Finish(w)
    <2>1. /\ UNCHANGED <<setup, held, wake, now, ran, journal>> /\ owner' \in {owner, Nobody}
          /\ fin' \in {fin, "completed", "faulted"}
          /\ fin' = "completed" /\ ~ran => fin = "completed" \/ \A p \in Tasks : HasResult(journal, p)
      BY <1>1, <1>3, <1>22, FinishKind
    <2>2. PICK y \in Places : Local(w, y) /\ Calm(w, y) BY <1>1, <1>3, <1>22, FinishKind
    <2>3. Kind(w, y) /\ (Handled(y) => ran') BY <2>2 DEF Kind, Local
    <2>4. Fair(w, y) BY <1>1, <1>2, <1>4, <1>5, <2>1, <2>3 DEF Fair, EndsAreTrue
    <2> QED BY <2>2, <2>3, <2>4, KindKept
  <1> QED BY <1>8, <1>9, <1>10, <1>11, <1>12, <1>13, <1>14, <1>15, <1>16, <1>17, <1>18, <1>19,
             <1>20, <1>21, <1>22 DEF Execute

\* A worker that claims the run begins with what is saved.
LEMMA ClaimKept ==
    ASSUME Inv, NEW w \in Worker, Claim(w)
    PROVE  Inv'
  <1>1. /\ Types /\ JournalOK(journal) /\ EndsAreTrue /\ (faults = 0 => Undisturbed)
        /\ setup \in SetupType
    BY DEF Inv, Types
  <1>2. faults' \in Nat /\ (faults' = 0 => faults = 0)
    BY <1>1, FaultsCount DEF Types
  <1>3. PICK y : y = [pc |-> "try", k |-> 1, p |-> 1, res |-> "none", seen |-> journal] OBVIOUS
  <1>4. /\ UNCHANGED <<setup, journal, totals, fin, held, wake, now, sent, twice, handed, ran>>
        /\ x[w].pc = "idle" /\ fin = "none" /\ ~held /\ owner' = w /\ x' = [x EXCEPT ![w] = y]
        /\ faults' = 0 => faults = 0 /\ (owner # Nobody => x[owner].pc = "idle")
    <2>1. owner # Nobody /\ x[owner].pc # "idle" => faults' = faults + 1 BY DEF Claim, Fault
    <2>2. faults' = 0 => ~(owner # Nobody /\ x[owner].pc # "idle") BY <1>1, <2>1 DEF Types
    <2> QED BY <1>2, <1>3, <2>2 DEF Claim, history
  <1>5. /\ y \in Places /\ y.pc = "try" /\ y.k = 1 /\ y.p = 1 /\ y.res = "none" /\ y.seen = journal
    BY <1>1, <1>3, TaskNumbers, AttemptNumbers DEF Types, Places, Working
  <1>6. Fits(y)
    <2>1. \A i \in Attempts : ~(i < y.k) BY <1>5, AttemptNumbers
    <2>2. \A q \in Tasks : ~(q < y.p) BY <1>1, <1>5, TaskNumbers
    <2> QED BY <1>1, <1>5, <2>1, <2>2 DEF Fits, PlaceOK, PlaceInOrder, Holding
  <1>7. StepOf(w, y)
    <2>1. Advances(journal, journal) BY AdvancesFacts
    <2>2. Current(y, journal) BY <1>5 DEF Current
    <2>3. journal' = journal /\ journal' \in Records BY <1>1, <1>4 DEF Types
    <2> QED BY <1>1, <1>4, <1>5, <1>6, <2>1, <2>2, <2>3 DEF StepOf
  <1>8. ~Handled(y) /\ ~Holding(y) BY <1>5 DEF Handled, Holding
  <1>9. Kind(w, y) BY <1>4, <1>7, <1>8 DEF Kind, Local
  <1>10. faults' = 0 => \A v \in Worker : ~Active(x[v])
    BY <1>1, <1>4, BoundAssumption DEF Undisturbed, Active
  <1>11. Calm(w, y)
    <2> SUFFICES ASSUME faults' = 0, Undisturbed
                 PROVE  /\ ~held' /\ fin' # "cancelled" /\ owner' = w /\ fin' = "none" /\ ~ran'
                        /\ ~setup.names => \A k \in Attempts, p \in Tasks : ~InDoubt(k, p)
      BY <1>4 DEF Calm, InDoubt
    <2>1. \A v \in Worker : ~Handled(x[v]) BY <1>10 DEF Handled, Active
    <2>2. \A v \in Worker, k \in Attempts, p \in Tasks : ~StandsAt(x[v], k, p)
      BY <1>10 DEF StandsAt, Active
    <2> QED BY <1>4, <2>1, <2>2 DEF Undisturbed
  <1>12. Fair(w, y)
    BY <1>1, <1>2, <1>4, <1>8, <1>10 DEF Fair, EndsAreTrue, Types
  <1> QED BY <1>5, <1>9, <1>11, <1>12, KindKept

\* What operators and time change: nothing that an execution has done.
Apart ==
    /\ UNCHANGED <<setup, journal, totals, owner, x, sent, twice, handed, ran>>
    /\ held' \in BOOLEAN /\ wake' \in Nat /\ now' \in Nat /\ faults' \in Nat
    /\ fin' \in {fin, "cancelled"}
    /\ faults' = 0 => faults = 0 /\ fin' = fin /\ (held' => held)

\* An operator's steps, and time's, keep the invariant.
LEMMA ApartKept ==
    ASSUME Inv, Apart
    PROVE  Inv'
  <1> USE DEF Apart
  <1>1. /\ Types /\ JournalOK(journal) /\ \A v \in Worker : WorkerOK(v)
        /\ SentIsTrue /\ (~setup.bounded => OneSender) /\ EnvelopesAreSaved /\ TotalsAgree
        /\ EndsAreTrue /\ (faults = 0 => Undisturbed)
    BY DEF Inv
  <1>2. Tasks' = Tasks /\ Records' = Records /\ Places' = Places BY FixedTypes
  <1>3. \A p \in Tasks : AtMostOnce(p)' <=> AtMostOnce(p) BY DEF AtMostOnce
  <1>4. Types' BY <1>1, <1>2 DEF Types
  <1>5. JournalOK(journal)'
    <2>1. PICK j : j = journal' /\ JournalOK(j) BY <1>1
    <2> QED BY <2>1, FixedJournal
  <1>6. (\A v \in Worker : WorkerOK(v))'
    <2> SUFFICES ASSUME NEW v \in Worker PROVE WorkerOK(v)'
      OBVIOUS
    <2>1. PICK y \in Places : y = x[v] /\ x'[v] = y BY <1>1 DEF Types
    <2> QED BY <1>1, <2>1, FixedWorker DEF WorkerOK
  <1>7. SentIsTrue' BY <1>1, <1>2 DEF SentIsTrue
  <1>8. ~setup'.bounded => OneSender' BY <1>1, <1>2, <1>3 DEF OneSender, Holding, AtMostOnce, Types
  <1>9. EnvelopesAreSaved' BY <1>1 DEF EnvelopesAreSaved
  <1>10. TotalsAgree' BY <1>1, <1>2 DEF TotalsAgree
  <1>11. EndsAreTrue' BY <1>1, <1>2 DEF EndsAreTrue, HasResult
  <1>12. ASSUME faults' = 0 PROVE Undisturbed'
    <2>1. Undisturbed /\ fin' = fin /\ ~held' BY <1>1, <1>12 DEF Undisturbed
    <2>2. \A k \in Attempts, p \in Tasks : InDoubt(k, p)' <=> InDoubt(k, p) BY <1>3 DEF InDoubt
    <2>3. \A w \in Worker : Handled(x[w])' <=> Handled(x[w]) BY DEF Handled
    <2>4. \A w \in Worker, k \in Attempts, p \in Tasks : StandsAt(x[w], k, p)' <=> StandsAt(x[w], k, p)
      BY DEF StandsAt
    <2>5. \A w \in Worker : Active(x[w])' <=> Active(x[w]) BY DEF Active
    <2> QED BY <1>2, <2>1, <2>2, <2>3, <2>4, <2>5 DEF Undisturbed
  <1> QED BY <1>4, <1>5, <1>6, <1>7, <1>8, <1>9, <1>10, <1>11, <1>12 DEF Inv

\* Hold, release, cancel and the clock are such steps.
LEMMA ApartSteps ==
    ASSUME Types, Hold \/ Unhold \/ Cancel \/ Tick \/ UNCHANGED vars
    PROVE  Apart
  <1>1. CASE Hold BY <1>1 DEF Hold, Apart, Types, Fault, history
  <1>2. CASE Unhold BY <1>2 DEF Unhold, Apart, Types, history
  <1>3. CASE Cancel BY <1>3 DEF Cancel, Apart, Types, Fault, history
  <1>4. CASE Tick BY <1>4 DEF Tick, Apart, Types, store, history
  <1>5. CASE UNCHANGED vars BY <1>5 DEF vars, Apart, Types
  <1> QED BY <1>1, <1>2, <1>3, <1>4, <1>5

\* A run that is admitted has no records, and nobody works on it.
LEMMA InitInv == Init => Inv
  <1> SUFFICES ASSUME Init PROVE Inv
    OBVIOUS
  <1>1. PICK n : n = Len(setup.kinds) OBVIOUS
  <1>2. PICK j : j = journal OBVIOUS
  <1>3. setup \in SetupType BY SetupAssumption DEF Init
  <1>4. /\ j \in Records
        /\ \A k \in Attempts, p \in Tasks : j.call[k][p] = NoCall /\ j.task[k][p] = "none"
        /\ \A k \in Attempts : j.retry[k] = "none"
    BY <1>1, <1>2, <1>3, BlankRecords DEF Init
  <1>5. Idle(n) \in Places /\ Idle(n).pc = "idle" BY <1>1, <1>3, IdlePlace
  <1>6. x = [w \in Worker |-> Idle(n)] BY <1>1 DEF Init
  <1>7. /\ totals = 0 /\ fin = "none" /\ owner = Nobody /\ held = FALSE /\ wake = 0 /\ now = 0
        /\ sent = {} /\ twice = {} /\ handed = {} /\ ran = FALSE /\ faults = 0
    BY DEF Init
  <1>8. x \in [Worker -> Places] /\ \A w \in Worker : x[w].pc = "idle" BY <1>5, <1>6
  <1>9. Types BY <1>2, <1>3, <1>4, <1>7, <1>8, FS_EmptySet DEF Types
  <1>10. NoCall.state = "none" BY DEF NoCall
  <1>11. JournalOK(j)
    <2>1. \A k \in Attempts : ~Closed(j, k) BY <1>4 DEF Closed
    <2> QED BY <1>4, <1>10, <2>1 DEF JournalOK, JournalHas, JournalInOrder
  <1>12. \A w \in Worker : WorkerOK(w) BY <1>8 DEF WorkerOK, Active
  <1>13. SentIsTrue BY <1>2, <1>4, <1>7, <1>8, <1>10 DEF SentIsTrue
  <1>14. OneSender BY <1>7, <1>8 DEF OneSender, Holding
  <1>15. EnvelopesAreSaved BY <1>7 DEF EnvelopesAreSaved
  <1>16. TotalsAgree
    <2>1. {kp \in Attempts \X Tasks : j.call[kp[1]][kp[2]].state \in {"ok", "failed"}} = {}
      BY <1>4, <1>10
    <2>2. Cardinality({}) = 0 BY FS_EmptySet
    <2> QED BY <1>2, <1>7, <2>1, <2>2 DEF TotalsAgree
  <1>17. EndsAreTrue BY <1>7, <1>8 DEF EndsAreTrue
  <1>18. Undisturbed BY <1>7, <1>8 DEF Undisturbed, Active, InDoubt
  <1> QED BY <1>2, <1>9, <1>11, <1>12, <1>13, <1>14, <1>15, <1>16, <1>17, <1>18 DEF Inv

\* Every step keeps the invariant.
LEMMA InvStep == Inv /\ [Next]_vars => Inv'
  <1> SUFFICES ASSUME Inv, [Next]_vars PROVE Inv'
    OBVIOUS
  <1>1. ASSUME NEW w \in Worker, Execute(w) \/ Expire(w) \/ Crash(w) PROVE Inv'
    BY <1>1, ExecutionKept
  <1>2. ASSUME NEW w \in Worker, Claim(w) PROVE Inv'
    BY <1>2, ClaimKept
  <1>3. ASSUME Hold \/ Unhold \/ Cancel \/ Tick \/ UNCHANGED vars PROVE Inv'
    <2>1. Types BY DEF Inv
    <2> QED BY <1>3, <2>1, ApartSteps, ApartKept
  <1> QED BY <1>1, <1>2, <1>3 DEF Next

(* The journal, every worker's copy of it and what was sent agree, whatever  *)
(* crashes, takeovers, deadlines and lost answers there are.                 *)
THEOREM Invariance == Spec => []Inv
  <1> QED BY InitInv, InvStep, PTL DEF Spec

-----------------------------------------------------------------------------
(* What it says of a run.                                                  *)

(* An at-most-once call is never sent while an earlier dispatch of it may    *)
(* have had its effect, whoever executes the run and whatever is lost (call, *)
(* earlier_attempt, unknown_call), where attempts have no deadline.          *)
THEOREM NeverTwice == Spec => []NeverSentTwice
  <1>1. Inv => NeverSentTwice
    BY DEF Inv, NeverSentTwice, SentAtMostOnce, OneSender
  <1> QED BY <1>1, Invariance, PTL

\* Without deadlines, the last attempt is the one that the catch gave up, and no
\* call of it is pending.
LEMMA StoppedKnowingly ==
    ASSUME Inv, ~setup.bounded
    PROVE  CaughtKnowingly
  <1> SUFFICES ASSUME ran, ~setup.names, NEW k \in Attempts, NEW p \in Tasks,
                      AtMostOnce(p), journal.call[k][p].state = "pending"
               PROVE  FALSE
    BY DEF CaughtKnowingly
  <1>1. JournalInOrder(journal) BY DEF Inv, JournalOK
  <1>2. PICK s \in Attempts : journal.retry[s] = "stop" BY DEF Inv, EndsAreTrue
  <1>3. journal.retry[k] = "none" BY <1>1 DEF JournalInOrder
  <1>4. ~(k < s)
    <2> SUFFICES ASSUME k < s PROVE FALSE
      OBVIOUS
    <2>1. journal.retry[k] = "again" BY <1>1, <1>2 DEF JournalInOrder
    <2> QED BY <1>3, <2>1
  <1>5. ~(s < k)
    <2> SUFFICES ASSUME s < k PROVE FALSE
      OBVIOUS
    <2>1. journal.retry[s] = "again" BY <1>1 DEF JournalInOrder
    <2> QED BY <1>2, <2>1
  <1>6. k # s BY <1>2, <1>3
  <1> QED BY <1>4, <1>5, <1>6, AttemptNumbers

\* With deadlines, while nothing fails, a call in doubt is not the handler's.
LEMMA UndisturbedKnowingly ==
    ASSUME Inv, faults = 0
    PROVE  CaughtKnowingly
  <1> SUFFICES ASSUME ran, ~setup.names, NEW k \in Attempts, NEW p \in Tasks, InDoubt(k, p)
               PROVE  FALSE
    BY DEF CaughtKnowingly, InDoubt
  <1>1. Undisturbed BY DEF Inv
  <1>2. PICK w \in Worker : StandsAt(x[w], k, p) BY <1>1 DEF Undisturbed
  <1>3. Active(x[w]) BY <1>2 DEF StandsAt, Active
  <1>4. owner = w /\ fin = "none" BY <1>1, <1>3 DEF Undisturbed
  <1>5. PICK v \in Worker : Handled(x[v]) BY <1>1, <1>4 DEF Undisturbed
  <1>6. Active(x[v]) BY <1>5 DEF Handled, Active
  <1>7. v = w BY <1>1, <1>4, <1>6 DEF Undisturbed
  <1> QED BY <1>2, <1>5, <1>7 DEF StandsAt, Handled

(* A catch that does not name the unknown outcome never acts on a call that  *)
(* may have run without an answer: not after any crash or takeover where     *)
(* attempts have no deadline, and not after a deadline while nothing fails   *)
(* (attempt, within, has_unknown).                                           *)
THEOREM Knowing == Spec => []HandlersKnow
  <1>1. Inv => HandlersKnow
    BY StoppedKnowingly, UndisturbedKnowingly DEF HandlersKnow, CutOffKnowingly
  <1> QED BY <1>1, Invariance, PTL

(* What the journal says is what happened, whatever was replayed: a          *)
(* completed run has a result of every call, from a call that was sent; an   *)
(* attempt the catch gave up does not complete later; every answer's         *)
(* annotations count once; an event has one envelope (call, restore,         *)
(* save_call, emit).                                                         *)
THEOREM Truth == Spec => []JournalIsTrue
  <1>1. Inv => JournalIsTrue
    <2> SUFFICES ASSUME Inv PROVE JournalIsTrue
      OBVIOUS
    <2>1. SentIsTrue /\ EndsAreTrue /\ EnvelopesAreSaved /\ TotalsAgree
          /\ \A w \in Worker : WorkerOK(w)
      BY DEF Inv
    <2>2. NothingSkipped
      <3> SUFFICES ASSUME fin = "completed", ~ran, NEW p \in Tasks
                   PROVE  \E k \in Attempts : /\ journal.call[k][p].state \in {"ok", "marker"}
                                              /\ journal.call[k][p].state = "ok" => <<k, p>> \in sent
        BY DEF NothingSkipped
      <3>1. PICK k \in Attempts : journal.call[k][p].state \in {"ok", "marker"}
        BY <2>1 DEF EndsAreTrue, HasResult
      <3>2. journal.call[k][p].state = "ok" => <<k, p>> \in sent BY <2>1 DEF SentIsTrue
      <3> QED BY <3>1, <3>2
    <2>3. ~setup.bounded => ReplayAgrees
      <3> SUFFICES ASSUME ~setup.bounded, NEW w \in Worker, owner = w, x[w].pc = "finish",
                          x[w].res = "ok"
                   PROVE  journal.retry[x[w].k] = "none"
        BY DEF ReplayAgrees
      <3>1. PlaceOK(x[w]) /\ PlaceInOrder(x[w]) /\ Current(x[w], journal)
        BY <2>1 DEF WorkerOK, Active
      <3>2. x[w].k \in Attempts BY DEF Inv, Types, Places
      <3>3. ~Closed(x[w].seen, x[w].k) BY <3>1 DEF PlaceInOrder, Closed
      <3>4. x[w].seen.retry[x[w].k] = "none"
        BY <3>1, <3>2, <3>3 DEF PlaceOK, JournalOK, JournalInOrder
      <3> QED BY <3>1, <3>4 DEF Current
    <2>4. OneEnvelope BY <2>1 DEF OneEnvelope, EnvelopesAreSaved
    <2> QED BY <2>1, <2>2, <2>3, <2>4 DEF JournalIsTrue
  <1> QED BY <1>1, Invariance, PTL

=============================================================================
