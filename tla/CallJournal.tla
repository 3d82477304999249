----------------------------- MODULE CallJournal -----------------------------
(***************************************************************************)
(* External calls of a durable run (crates/ows/src/run.rs: call, emit,     *)
(* unknown_call, earlier_attempt, attempt, within, retry_delay, sleep) over *)
(* the journal of its records (crates/ows/src/durable.rs and save_record   *)
(* of crates/durable/src/engine.rs).  The workflow is a `try` of a list of *)
(* call tasks with a `catch` that may retry.  Workers execute it by replay *)
(* from the journal; they crash, lose their lease while they go on, and    *)
(* lose the answers of the store and of the functions they call.           *)
(***************************************************************************)
EXTENDS Naturals, FiniteSets, Sequences

CONSTANTS
    Worker,         \* executors of the run
    Nobody,
    Setups,         \* workflows: see SetupType
    MaxAttempts,    \* limits.max_attempts of the host
    Delay,          \* catch.retry.delay, before back-off
    RetryFor,       \* catch.retry.limit.duration
    AttemptFor,     \* catch.retry.limit.attempt.duration, where a setup has it
    MaxNow          \* bound: the clock stops there, deadlines are capped

Attempts == 1..MaxAttempts
Unset == MaxNow + 1

(* kinds: the delivery of each task of the try, or "emit"; marker: the host *)
(* names a marker for unknown outcomes; names: the catch names the type     *)
(* CALL_UNKNOWN; bounded: attempts have a deadline; rebinds: later attempts *)
(* compute other arguments; attempts: the retry policy's own limit; faults: *)
(* bound on crashes, takeovers, holds and lost answers.                     *)
SetupType == [kinds : Seq({"amo", "alo", "emit"}) \ {<<>>},
              marker : BOOLEAN, names : BOOLEAN, bounded : BOOLEAN,
              rebinds : BOOLEAN, attempts : Nat \ {0}, faults : Nat]

ASSUME SetupAssumption == Setups \subseteq SetupType
ASSUME BoundAssumption ==
    /\ MaxAttempts \in Nat \ {0}
    /\ {Delay, RetryFor, AttemptFor, MaxNow} \subseteq Nat
    /\ Nobody \notin Worker

VARIABLES
    setup,      \* the definition the run was admitted with
    journal,    \* the saved records: call, task, retry, timer, sleep, began
    totals,     \* the run row's annotation total; every answer carries 1
    fin,        \* how the run ended, or "none"
    owner,      \* the worker that holds the lease
    held,       \* an operator holds the run
    wake,       \* when the run is due
    now,
    x,          \* per worker: where its execution is
    sent,       \* <<attempt, task>> of dispatches not proven unexecuted
    twice,      \* tasks dispatched again while an earlier dispatch may stand
    handed,     \* <<attempt, task, envelope>> handed over by emit
    ran,        \* the catch handler has run
    faults

vars == <<setup, journal, totals, fin, owner, held, wake, now, x, sent, twice,
          handed, ran, faults>>

store == <<journal, totals, fin, owner, held, wake>>
history == <<sent, twice, handed, ran>>

Tasks == DOMAIN setup.kinds
AtMostOnce(p) == setup.kinds[p] = "amo"
Cap(t) == IF t \in 0..MaxNow THEN t ELSE MaxNow

NoCall == [state |-> "none", args |-> 0]

NoRecords(n) ==
    [call |-> [k \in Attempts |-> [p \in 1..n |-> NoCall]],
     task |-> [k \in Attempts |-> [p \in 1..n |-> "none"]],
     retry |-> [k \in Attempts |-> "none"],
     timer |-> [k \in Attempts |-> Unset],
     sleep |-> [k \in Attempts |-> Unset],
     began |-> Unset]

Idle(n) == [pc |-> "idle", k |-> 1, p |-> 1, res |-> "none", seen |-> NoRecords(n)]

Init ==
    /\ setup \in Setups
    /\ journal = NoRecords(Len(setup.kinds))
    /\ totals = 0
    /\ fin = "none"
    /\ owner = Nobody
    /\ held = FALSE
    /\ wake = 0
    /\ now = 0
    /\ x = [w \in Worker |-> Idle(Len(setup.kinds))]
    /\ sent = {}
    /\ twice = {}
    /\ handed = {}
    /\ ran = FALSE
    /\ faults = 0

-----------------------------------------------------------------------------
(* Records and what the interpreter reads from them. *)

\* Only a pending call may advance; a completed one is immutable.
CheckTransition(old, new) ==
    \/ old = new
    \/ old.state \in {"none", "pending", "notExecuted"}
       /\ (old.state # "none" => old.args = new.args)

\* Altered: an answer's annotations count with every save.
GainOfAnyAnswer(old, record) == IF record.state # "pending" THEN 1 ELSE 0

\* The numeric annotations that a save adds: those of an answer not yet saved.
Gain(old, record) ==
    IF record.state \in {"ok", "failed"} /\ old.state \notin {"ok", "failed", "marker"}
    THEN 1 ELSE 0

Arguments(k) == IF setup.rebinds /\ k > 1 THEN 2 ELSE 1

\* The error an answered or restored call raises, "ok" for a result.
Raised(state) ==
    CASE state \in {"ok", "marker"} -> "ok"
      [] state \in {"failed", "notExecuted"} -> "error"

Unanswered(seen, k, p) == AtMostOnce(p) /\ seen.call[k][p].state = "pending"

\* has_unknown: an at-most-once call under the attempt may have run.
HasUnknown(seen, k) == \E p \in Tasks : Unanswered(seen, k, p)

\* blocks_retry: an outcome in the attempt forbids sending a call again.
BlocksRetry(seen, k) ==
    \E p \in Tasks : AtMostOnce(p) /\ seen.call[k][p].state \in {"pending", "failed"}

Earlier(seen, k, p) ==
    {c \in {seen.call[j][p] : j \in Attempts \ {k}} : c.state # "none"}

\* Altered: other attempts' records are not looked at.
EarlierAttemptForgotten(seen, k, p) == "none"

(* earlier_attempt: what an earlier attempt of a protected call left, "none" *)
(* when it has to be sent.                                                   *)
EarlierAttempt(seen, k, p) ==
    LET earlier == Earlier(seen, k, p)
        good == {c \in earlier : c.state \in {"ok", "marker"}}
    IN  CASE good # {} ->
               IF \E c \in good : c.args # Arguments(k) THEN "conflict" ELSE "ok"
          [] good = {} /\ \E c \in earlier : c.state = "pending" -> "unknown"
          [] good = {} /\ (\A c \in earlier : c.state # "pending")
                /\ (\E c \in earlier : c.state = "failed") -> "error"
          [] OTHER -> "none"

\* retry_delay, with exponential back-off.
BackOff(k) == Delay * 2^(k - 1)

\* retry_delay gives no delay: an attempt or a time limit is reached.
RetriesEnd(k, began) ==
    k >= setup.attempts \/ k >= MaxAttempts \/ now - began + BackOff(k) > RetryFor

\* names_unknown and catches: a catch filtered by type, or one for every error.
Catches(res) ==
    IF setup.names THEN res \in {"unknown", "unknownError"}
                   ELSE res \in {"error", "unknownError", "timeout"}

-----------------------------------------------------------------------------
(* The store. *)

\* authority, and not_held unless the save answers a dispatched call.
MayWrite(w, answers) == owner = w /\ fin = "none" /\ (held => answers)

Stop(w) == [x[w] EXCEPT !.pc = "idle", !.res = "none",
                        !.seen = NoRecords(Len(setup.kinds))]

Fault == /\ faults < setup.faults
         /\ faults' = faults + 1

(* Run::save over save_record: the commit happens and the execution goes on *)
(* as `next`; it happens and the worker never learns; or it does not happen *)
(* (refused, or failed), and the execution is interrupted.  `write' maps    *)
(* the journal and the worker's copy of it to what the save makes of them.  *)
Copies(w) == {journal, x[w].seen}

Save(w, accepted, write, gain, next) ==
    \/ /\ accepted
       /\ journal' = write[journal]
       /\ totals' = totals + gain
       /\ \/ /\ x' = [x EXCEPT ![w] = [next EXCEPT !.seen = write[x[w].seen]]]
             /\ UNCHANGED faults
          \/ /\ Fault
             /\ x' = [x EXCEPT ![w] = Stop(w)]
    \/ /\ IF accepted THEN Fault ELSE UNCHANGED faults
       /\ x' = [x EXCEPT ![w] = Stop(w)]
       /\ UNCHANGED <<journal, totals>>

SaveStep(w, write, next) == Save(w, MayWrite(w, FALSE), write, 0, next)

\* A call record: the store checks the transition, and adds up new answers.
SaveCall(w, record, next) ==
    LET k == x[w].k
        p == x[w].p
        old == journal.call[k][p]
        answers == record.state # "pending" /\ old.state = "pending"
        write == [j \in Copies(w) |-> [j EXCEPT !.call[k][p] = record]]
    IN  Save(w, MayWrite(w, answers) /\ CheckTransition(old, record), write,
             Gain(old, record), next)

Go(w, next) ==
    /\ x' = [x EXCEPT ![w] = next]
    /\ UNCHANGED <<journal, totals, faults>>

\* claim and load_records, once the lease of an earlier execution is given up or
\* has run out; running out under a live worker is a fault.
Claim(w) ==
    /\ x[w].pc = "idle"
    /\ fin = "none" /\ ~held /\ wake <= now
    /\ owner' = w
    /\ IF owner # Nobody /\ x[owner].pc # "idle" THEN Fault ELSE UNCHANGED faults
    /\ x' = [x EXCEPT ![w] = [pc |-> "try", k |-> 1, p |-> 1, res |-> "none",
                              seen |-> journal]]
    /\ UNCHANGED <<setup, journal, totals, fin, held, wake, now, history>>

Crash(w) ==
    /\ x[w].pc # "idle"
    /\ Fault
    /\ x' = [x EXCEPT ![w] = Stop(w)]
    /\ UNCHANGED <<setup, store, now, history>>

Hold ==
    /\ fin = "none" /\ ~held
    /\ Fault
    /\ held' = TRUE
    /\ UNCHANGED <<setup, journal, totals, fin, owner, wake, now, x, history>>

Unhold ==
    /\ held
    /\ held' = FALSE
    /\ UNCHANGED <<setup, journal, totals, fin, owner, wake, now, x, history, faults>>

\* cancel_run: terminal at once; executions learn of it at their next save.
Cancel ==
    /\ fin = "none"
    /\ Fault
    /\ fin' = "cancelled"
    /\ UNCHANGED <<setup, journal, totals, owner, held, wake, now, x, history>>

Tick ==
    /\ now < MaxNow
    /\ now' = now + 1
    /\ UNCHANGED <<setup, store, x, history, faults>>

-----------------------------------------------------------------------------
(* One execution. *)

Begin(s) == [s EXCEPT !.pc = IF setup.bounded THEN "attempt" ELSE "task", !.p = 1]

\* The try task begins once; its start is what the retry limit counts from.
Try(w) ==
    LET s == x[w]
    IN  /\ s.pc = "try"
        /\ IF s.seen.began # Unset
           THEN Go(w, Begin(s))
           ELSE SaveStep(w, [j \in Copies(w) |-> [j EXCEPT !.began = now]], Begin(s))
        /\ UNCHANGED <<setup, fin, owner, held, wake, now, history>>

\* within: the attempt's deadline is saved when it starts.
Attempt(w) ==
    LET s == x[w]
        go == [s EXCEPT !.pc = "task"]
    IN  /\ s.pc = "attempt"
        /\ IF s.seen.timer[s.k] # Unset
           THEN Go(w, go)
           ELSE SaveStep(w, [j \in Copies(w) |-> [j EXCEPT !.timer[s.k] = Cap(now + AttemptFor)]], go)
        /\ UNCHANGED <<setup, fin, owner, held, wake, now, history>>

(* The list goes on after a result; the try's body concludes otherwise, and  *)
(* the catch sees its fault or passes it on.                                 *)
After(s, res) ==
    CASE res = "ok" /\ s.p # Len(setup.kinds) ->
           [s EXCEPT !.p = @ + 1, !.pc = "task", !.res = "none"]
      [] res = "ok" /\ s.p = Len(setup.kinds) -> [s EXCEPT !.pc = "finish", !.res = res]
      [] OTHER -> [s EXCEPT !.pc = IF Catches(res) THEN "caught" ELSE "finish", !.res = res]

\* A task that has a checkpoint restores it.
Task(w) ==
    LET s == x[w]
        saved == s.seen.task[s.k][s.p]
    IN  /\ s.pc = "task"
        /\ saved # "none"
        /\ Go(w, After(s, saved))
        /\ UNCHANGED <<setup, fin, owner, held, wake, now, history>>

Enters(s) == s.pc = "task" /\ s.seen.task[s.k][s.p] = "none"

Record(state, args) == [state |-> state, args |-> args]

Return(s, res) == [s EXCEPT !.pc = "checkpoint", !.res = res]

\* unknown_call: the host's marker, saved as the result, or a fatal fault.
UnknownCall(w, s) ==
    IF setup.marker THEN SaveCall(w, Record("marker", Arguments(s.k)), Return(s, "ok"))
                    ELSE Go(w, Return(s, "unknown"))

(* call, up to the dispatch: a saved answer is restored, an at-most-once    *)
(* intent without an answer is unknown, and an intent is saved before it is *)
(* acted on.                                                                *)
Call(w) ==
    LET s == x[w]
        prior == s.seen.call[s.k][s.p]
        earlier == EarlierAttempt(s.seen, s.k, s.p)
        intent == SaveCall(w, Record("pending", Arguments(s.k)), [s EXCEPT !.pc = "dispatch"])
    IN  /\ Enters(s)
        /\ setup.kinds[s.p] # "emit"
        /\ CASE prior.state = "none" ->
                  IF s.k > 1 /\ AtMostOnce(s.p) /\ earlier # "none"
                  THEN Go(w, Return(s, earlier))
                  ELSE intent
             [] prior.state = "pending" ->
                  IF AtMostOnce(s.p) THEN UnknownCall(w, s) ELSE intent
             [] OTHER -> Go(w, Return(s, Raised(prior.state)))
        /\ UNCHANGED <<setup, fin, owner, held, wake, now, history>>

(* The envelope gets its id before it is saved, and is handed over as saved; *)
(* an id is named by a number no other envelope has.                         *)
Used(p) == {h[3] : h \in {g \in handed : g[2] = p}} \cup {journal.call[k][p].args : k \in Attempts}

FreshId(p) == CHOOSE n \in 1..(MaxAttempts + Cardinality(handed) + 1) : n \notin Used(p)

\* emit: a new envelope, unless this or an earlier attempt has one to use.
Emit(w) ==
    LET s == x[w]
        prior == s.seen.call[s.k][s.p]
        done == \E c \in Earlier(s.seen, s.k, s.p) : c.state = "ok"
        id == IF prior.state = "none" THEN FreshId(s.p) ELSE prior.args
    IN  /\ Enters(s)
        /\ setup.kinds[s.p] = "emit"
        /\ CASE prior.state \notin {"none", "pending"} -> Go(w, Return(s, Raised(prior.state)))
             [] prior.state = "none" /\ s.k > 1 /\ done -> Go(w, Return(s, "ok"))
             [] OTHER -> SaveCall(w, Record("pending", id), [s EXCEPT !.pc = "dispatch"])
        /\ UNCHANGED <<setup, fin, owner, held, wake, now, history>>

\* The function is invoked; from here the world may have changed.
Dispatch(w) ==
    LET s == x[w]
    IN  /\ s.pc = "dispatch"
        /\ x' = [x EXCEPT ![w].pc = "flying"]
        /\ sent' = sent \cup {<<s.k, s.p>>}
        /\ twice' = twice \cup {p \in {s.p} : \E k \in Attempts : <<k, p>> \in sent}
        /\ handed' = IF setup.kinds[s.p] = "emit"
                     THEN handed \cup {<<s.k, s.p, s.seen.call[s.k][s.p].args>>}
                     ELSE handed
        /\ UNCHANGED <<setup, store, now, ran, faults>>

\* CallFailure::answer, what the caller hears of a call that has been sent.
Hears(w) ==
    LET s == x[w]
    IN  /\ s.pc = "flying"
        /\ \E heard \in {"ok", "failed", "notExecuted", "unknown", "interrupted"} :
             /\ heard = "interrupted" => Fault
             /\ heard # "interrupted" => UNCHANGED faults
             /\ sent' = IF heard = "notExecuted" /\ s.p \notin twice THEN sent \ {<<s.k, s.p>>} ELSE sent
             /\ x' = [x EXCEPT ![w].pc = "answer", ![w].res = heard]
        /\ UNCHANGED <<setup, store, now, twice, handed, ran>>

(* call, from the answer on: an answer is saved before it is used.  An       *)
(* at-least-once call without one stays pending.                             *)
Answer(w) ==
    LET s == x[w]
        args == s.seen.call[s.k][s.p].args
    IN  /\ s.pc = "answer"
        /\ CASE s.res \in {"ok", "failed", "notExecuted"} ->
                  SaveCall(w, Record(s.res, args), Return(s, Raised(s.res)))
             [] s.res \in {"unknown", "interrupted"} /\ AtMostOnce(s.p) -> UnknownCall(w, s)
             [] s.res = "unknown" /\ ~AtMostOnce(s.p) -> Go(w, Return(s, "unknownError"))
             [] OTHER -> Go(w, Stop(w))
        /\ UNCHANGED <<setup, fin, owner, held, wake, now, history>>

\* The task's outcome is a checkpoint before the list goes on.
Checkpoint(w) ==
    LET s == x[w]
    IN  /\ s.pc = "checkpoint"
        /\ SaveStep(w, [j \in Copies(w) |-> [j EXCEPT !.task[s.k][s.p] = s.res]], After(s, s.res))
        /\ UNCHANGED <<setup, fin, owner, held, wake, now, history>>

\* Altered: a deadline is an ordinary timeout, whatever was in flight.
TimeoutAlways(s) == "timeout"

\* What cutting an attempt off means, from the records in memory.
TimeoutResult(s) == IF HasUnknown(s.seen, s.k) THEN "unknown" ELSE "timeout"

\* The call record whose save a deadline can overtake, NoCall if there is none.
Dropped(s) ==
    LET prior == s.seen.call[s.k][s.p]
        marked == AtMostOnce(s.p) /\ setup.marker
    IN  CASE s.pc = "task" /\ prior.state = "none"
                /\ (s.k > 1 /\ AtMostOnce(s.p) => EarlierAttempt(s.seen, s.k, s.p) = "none") ->
               Record("pending", Arguments(s.k))
          [] s.pc = "task" /\ prior.state = "pending" /\ marked -> Record("marker", prior.args)
          [] s.pc = "answer" /\ s.res \in {"ok", "failed", "notExecuted"} -> Record(s.res, prior.args)
          [] s.pc = "answer" /\ s.res \in {"unknown", "interrupted"} /\ marked ->
               Record("marker", prior.args)
          [] OTHER -> NoCall

(* The attempt's deadline passes while its body waits for the store or for a *)
(* function: the body is dropped where it is, a save in flight included.     *)
Expire(w) ==
    LET s == x[w]
        end == After(s, TimeoutResult(s))
    IN  /\ setup.bounded
        /\ Enters(s) \/ s.pc \in {"dispatch", "flying", "answer", "checkpoint"}
        /\ setup.kinds[s.p] # "emit"
        /\ now >= s.seen.timer[s.k]
        /\ x' = [x EXCEPT ![w] = end]
        /\ \/ UNCHANGED <<journal, totals>>
           \/ /\ s.pc \in {"task", "answer"}
              /\ Dropped(s) # NoCall
              /\ MayWrite(w, s.pc = "answer")
              /\ journal' = [journal EXCEPT !.call[s.k][s.p] = Dropped(s)]
              /\ totals' = totals + Gain(journal.call[s.k][s.p], Dropped(s))
           \/ /\ s.pc = "checkpoint"
              /\ MayWrite(w, FALSE)
              /\ journal' = [journal EXCEPT !.task[s.k][s.p] = s.res]
              /\ UNCHANGED totals
        /\ UNCHANGED <<setup, fin, owner, held, wake, now, history, faults>>

\* attempt: whether the catch retries is decided once and saved.
Caught(w) ==
    LET s == x[w]
        saved == s.seen.retry[s.k]
        decided == IF BlocksRetry(s.seen, s.k) \/ RetriesEnd(s.k, s.seen.began)
                   THEN "stop" ELSE "again"
        to(d) == [s EXCEPT !.pc = IF d = "again" THEN "sleep" ELSE "handler"]
    IN  /\ s.pc = "caught"
        /\ IF saved # "none" THEN Go(w, to(saved))
           ELSE SaveStep(w, [j \in Copies(w) |-> [j EXCEPT !.retry[s.k] = decided]], to(decided))
        /\ UNCHANGED <<setup, fin, owner, held, wake, now, history>>

(* sleep under a saved deadline: a run that has to wait leaves its worker,   *)
(* and the next attempt starts when the deadline has passed.                 *)
Sleep(w) ==
    LET s == x[w]
        saved == s.seen.sleep[s.k]
        deadline == Cap(now + BackOff(s.k))
        next == Begin([s EXCEPT !.k = @ + 1, !.res = "none"])
    IN  /\ s.pc = "sleep"
        /\ \/ /\ saved = Unset
              /\ SaveStep(w, [j \in Copies(w) |-> [j EXCEPT !.sleep[s.k] = deadline]], s)
              /\ UNCHANGED <<owner, wake>>
           \/ /\ saved <= now
              /\ Go(w, next)
              /\ UNCHANGED <<owner, wake>>
           \/ /\ saved > now /\ saved # Unset
              /\ Go(w, Stop(w))
              /\ IF MayWrite(w, FALSE) THEN wake' = saved /\ owner' = Nobody
                                       ELSE UNCHANGED <<owner, wake>>
        /\ UNCHANGED <<setup, fin, held, now, history>>

\* The catch's tasks run on the error.
Handler(w) ==
    /\ x[w].pc = "handler"
    /\ ran' = TRUE
    /\ x' = [x EXCEPT ![w].pc = "finish", ![w].res = "handled"]
    /\ UNCHANGED <<setup, store, now, sent, twice, handed, faults>>

\* The terminal status of the run, once, by its owner.
Finish(w) ==
    LET s == x[w]
    IN  /\ s.pc = "finish"
        /\ x' = [x EXCEPT ![w] = Stop(w)]
        /\ IF MayWrite(w, FALSE)
           THEN /\ fin' = IF s.res \in {"ok", "handled"} THEN "completed" ELSE "faulted"
                /\ owner' = Nobody
           ELSE UNCHANGED <<fin, owner>>
        /\ UNCHANGED <<setup, journal, totals, held, wake, now, history, faults>>

Execute(w) ==
    \/ Try(w) \/ Attempt(w) \/ Task(w) \/ Call(w) \/ Emit(w) \/ Dispatch(w)
    \/ Hears(w) \/ Answer(w) \/ Checkpoint(w) \/ Caught(w)
    \/ Sleep(w) \/ Handler(w) \/ Finish(w)

Next ==
    \/ \E w \in Worker : Execute(w) \/ Expire(w) \/ Claim(w) \/ Crash(w)
    \/ Hold \/ Unhold \/ Cancel \/ Tick

Spec == Init /\ [][Next]_vars

-----------------------------------------------------------------------------
(* Properties. *)

(* An at-most-once call is never sent while an earlier dispatch of it may    *)
(* have had its effect: not by a restart, a takeover, a DSL retry or an      *)
(* attempt that timed out (decisions 11 to 13 of ows/durable.rs).            *)
SentAtMostOnce == \A p \in twice : ~AtMostOnce(p)

(* A catch that does not name the unknown outcome never compensates a try    *)
(* whose at-most-once call may have run without an answer: its handler and   *)
(* its retries only see definite errors (attempt, within, has_unknown).      *)
CaughtKnowingly ==
    (ran /\ ~setup.names) =>
        \A k \in Attempts, p \in Tasks :
            (AtMostOnce(p) /\ <<k, p>> \in sent) => journal.call[k][p].state # "pending"

(* While executions neither crash nor lose their lease, the same holds of    *)
(* attempts that a deadline cuts off in the middle of a call (within).       *)
CutOffKnowingly == faults = 0 => CaughtKnowingly

(* A run that completed by its body has a result of every call, from a call  *)
(* that was really sent: nothing is skipped by replay or by reusing earlier  *)
(* attempts.                                                                 *)
NothingSkipped ==
    (fin = "completed" /\ ~ran) =>
        \A p \in Tasks : \E k \in Attempts :
            /\ journal.call[k][p].state \in {"ok", "marker"}
            /\ journal.call[k][p].state = "ok" => <<k, p>> \in sent

(* Once the catch acted on how an attempt failed, no later execution of the   *)
(* run completes that attempt (unknown: "recovery and replay raise what    *)
(* the first execution raised").                                             *)
ReplayAgrees ==
    \A w \in Worker :
        (w = owner /\ x[w].pc = "finish" /\ x[w].res = "ok") => journal.retry[x[w].k] = "none"

(* Every answer's annotations are added to the run's totals once, in the     *)
(* commit that saves the answer, whatever is saved again or replayed.        *)
TotalsAgree ==
    totals = Cardinality({kp \in Attempts \X Tasks :
                            journal.call[kp[1]][kp[2]].state \in {"ok", "failed"}})

(* An attempt's event is handed over with one envelope, saved for it before, *)
(* whichever execution hands it over and however often.                      *)
OneEnvelope ==
    \A a, b \in handed : (a[1] = b[1] /\ a[2] = b[2]) => a[3] = b[3]

\* An at-most-once call is never sent while an earlier dispatch of it may have
\* had its effect: not by a restart, a takeover or a DSL retry (decisions 11 to
\* 13 of ows/durable.rs), where attempts have no deadline.
NeverSentTwice == ~setup.bounded => SentAtMostOnce

\* A catch that does not name the unknown outcome never acts on one: its
\* handler and its retries only see definite errors, also of attempts that a
\* deadline cuts off while nothing crashes (attempt, within, has_unknown).
HandlersKnow == IF setup.bounded THEN CutOffKnowingly ELSE CaughtKnowingly

\* What the journal says is what happened, whatever was replayed: a completed
\* run has a result of every call, from a call that was sent; an attempt the
\* catch gave up does not complete later; every answer's annotations count
\* once; an event has one envelope (call, restore, save_call, emit).
JournalIsTrue ==
    /\ NothingSkipped
    /\ TotalsAgree
    /\ ~setup.bounded => ReplayAgrees
    /\ OneEnvelope

=============================================================================
