------------------------------ MODULE Control ------------------------------
(***************************************************************************)
(* The control plane: an operator's requests against a tree of runs        *)
(* (durable/src/engine.rs control_command, runtime/src/control.rs, and     *)
(* Runtime::control of runtime/src/execution.rs).                          *)
(*                                                                         *)
(* A command is one transaction.  What interleaves is several callers, a   *)
(* caller whose answer is lost and who asks again, the runs that end and   *)
(* take their events, hosts that deliver the same events, and the steps of *)
(* Runtime::control after the commit (tokens, reported events).            *)
(*                                                                         *)
(* Who may claim a held or stopped run is in Runs, Pause and Resume are in *)
(* Triggers, the wildcard answers of Respond and wakeups in Mailbox.       *)
(***************************************************************************)
EXTENDS Integers, Sequences

CONSTANTS
    Run,        \* the runs
    Caller,     \* who calls Runtime::control
    Id,         \* request ids
    Actor,      \* who a request is attributed to
    Offered,    \* the commands a caller may ask for
    Parent,     \* the owner of each run, or None
    Asks,       \* how many requests are sent, retries of lost answers apart
    Losses,     \* how many answers are lost
    None

\* What may be asked, and that None is none of what is stored.
ControlConstants ==
    /\ Parent \in [Run -> Run \cup {None}] /\ None \notin Run
    /\ Asks \in Nat /\ Losses \in Nat
    /\ \A c \in Offered :
          \/ c.op \in {"Cancel", "Hold", "Release"} /\ c.run \in Run
          \/ c.op = "Stop" /\ c.enabled \in BOOLEAN
          \/ c.op = "Respond" /\ c.run \in Run /\ c.matches \in BOOLEAN
    /\ None \notin [request : [id : Id, actor : Actor], command : Offered,
                    reply : [ok : BOOLEAN, value : Run \cup BOOLEAN]]

VARIABLES
    run,        \* the rows: ended, held (the request that holds it), its
                \* wait, the copies it accepted, whether its token fired
    stopped,    \* the emergency stop
    entries,    \* control_command: the entry of each request id
    responses,  \* control_response: the entry of each identity a run was answered with
    caller,     \* each caller's request and where it is
    history,    \* control_history, in commit order
    effects,    \* the ids whose commands changed something, in commit order
    reported,   \* how often a request was reported to the observers
    told,       \* every answer a caller got
    asked, lost \* how many requests were sent, answers lost

vars == <<run, stopped, entries, responses, caller, history, effects, reported,
          told, asked, lost>>

Event == {c.event : c \in {o \in Offered : o.op = "Respond"}}
Idle == [at |-> "idle"]

\* The live run r and the live rows below it, found level by level (the
\* children index): the smallest set with r and the children of its members.
Children(R) == {c \in Run : Parent[c] \in R /\ ~run[c].ended}
LiveTree(r) ==
    {x \in Run : /\ ~run[r].ended
                 /\ \A R \in SUBSET Run : r \in R /\ Children(R) \subseteq R => x \in R}

Init ==
    /\ run = [r \in Run |-> [ended |-> FALSE, held |-> None, wait |-> "open",
                             copies |-> {}, fired |-> FALSE]]
    /\ stopped = FALSE
    /\ entries = [i \in Id |-> None]
    /\ responses = [r \in Run |-> {}]
    /\ caller = [c \in Caller |-> Idle]
    /\ history = <<>> /\ effects = <<>>
    /\ reported = [i \in Id |-> 0]
    /\ told = {}
    /\ asked = 0 /\ lost = 0

-----------------------------------------------------------------------------
(* The commands, from the rows to the rows and a reply.                    *)

\* A run ends with its owned descendants: holds and waits end with it.
Ended(r) ==
    [s \in Run |-> IF s \in LiveTree(r)
                   THEN [run[s] EXCEPT !.ended = TRUE, !.held = None,
                                       !.wait = "closed"]
                   ELSE run[s]]

\* set_hold: the live tree; a run already as wanted keeps its attribution.
SetHold(r, hold) ==
    [s \in Run |->
        IF s \in LiveTree(r) /\ (run[s].held = None) # (hold = None)
        THEN [run[s] EXCEPT !.held = hold] ELSE run[s]]

\* accept: the run already holds the identity, with this payload or another.
Holds(r, e) == \E x \in run[r].copies : x.id = e.id
Conflicts(r, e) == \E x \in run[r].copies : x.id = e.id /\ x.data # e.data
Accepted(r, e) == IF Holds(r, e) THEN run[r].copies ELSE run[r].copies \cup {e}

\* The entry an identity was answered with, if it was.
AnswerOf(r, e) == {x \in responses[r] : x.command.event.id = e.id}

\* What an error is: nothing is stored.
Refused(why) == [ok |-> FALSE, why |-> why]
Reply(v) == [ok |-> TRUE, value |-> v]

\* The first time a command is seen: its reply.
ReplyTo(q, c) ==
    CASE c.op = "Cancel" -> Reply(~run[c.run].ended)
      [] c.op = "Hold" -> Reply(SetHold(c.run, q.id) # run)
      [] c.op = "Release" -> Reply(SetHold(c.run, None) # run)
      [] c.op = "Stop" -> Reply(stopped # c.enabled)
      [] c.op = "Respond" ->
            LET known == AnswerOf(c.run, c.event) IN
            IF \E x \in known : x.command # c THEN Refused("ResponseConflict")
            ELSE IF known # {} THEN (CHOOSE x \in known : TRUE).reply
            ELSE IF run[c.run].wait # "open" \/ run[c.run].ended
                 THEN Refused("WaitClosed")
            ELSE IF ~c.matches THEN Refused("WaitMismatch")
            ELSE IF Conflicts(c.run, c.event) THEN Refused("IdentityConflict")
            ELSE Reply(c.run)

\* ... and what it leaves of the rows.
Stores(q, c) ==
    /\ run' = CASE c.op = "Cancel" -> Ended(c.run)
                [] c.op = "Hold" -> SetHold(c.run, q.id)
                [] c.op = "Release" -> SetHold(c.run, None)
                [] c.op = "Respond" /\ AnswerOf(c.run, c.event) = {} ->
                     [run EXCEPT ![c.run].copies = Accepted(c.run, c.event)]
                [] OTHER -> run
    /\ stopped' = IF c.op = "Stop" THEN c.enabled ELSE stopped
    /\ responses' =
         IF c.op = "Respond" /\ AnswerOf(c.run, c.event) = {}
         THEN [responses EXCEPT ![c.run] = @ \cup
                 {[request |-> q, command |-> c, reply |-> ReplyTo(q, c)]}]
         ELSE responses

\* The command changed a row it is about (every one does that says so).
Changes(rep) == rep.ok /\ rep.value # FALSE

\* Altered: it is recognised by the entry of the same actor only.
KnownByActor(q) == entries[q.id] # None /\ entries[q.id].request.actor # q.actor

\* A request seen before is recognised by its id.
Known(q) == entries[q.id] # None

-----------------------------------------------------------------------------
(* Runtime::control.                                                       *)

\* A caller asks: the request of its own, or the one another caller sent.
Ask(p, q, c) ==
    /\ caller[p] = Idle /\ asked < Asks
    /\ asked' = asked + 1
    /\ caller' = [caller EXCEPT ![p] = [at |-> "asks", request |-> q, command |-> c]]
    /\ UNCHANGED <<run, stopped, entries, responses, history, effects, reported,
                   told, lost>>

\* The transaction: apply_control of a request not seen before.
ApplyNew(p) ==
    LET q == caller[p].request
        c == caller[p].command
        rep == ReplyTo(q, c)
    IN  /\ caller[p].at = "asks" /\ ~Known(q)
        /\ caller' = [caller EXCEPT ![p] =
              [at |-> IF rep.ok THEN "applied" ELSE "answers", request |-> q,
               command |-> c, reply |-> rep, repeated |-> FALSE]]
        /\ IF rep.ok
           THEN /\ Stores(q, c)
                /\ entries' = [entries EXCEPT ![q.id] =
                      [request |-> q, command |-> c, reply |-> rep]]
                /\ history' = Append(history, q.id)
                /\ effects' = IF Changes(rep) THEN Append(effects, q.id) ELSE effects
           ELSE UNCHANGED <<run, stopped, responses, entries, history, effects>>
        /\ UNCHANGED <<reported, told, asked, lost>>
\* ... and of one whose entry is there: its reply, or a conflict.
ApplyAgain(p) ==
    LET q == caller[p].request
        c == caller[p].command
        e == entries[q.id]
        same == e.request = q /\ e.command = c
    IN  /\ caller[p].at = "asks" /\ Known(q)
        /\ caller' = [caller EXCEPT ![p] =
              [at |-> IF same THEN "applied" ELSE "answers", request |-> q,
               command |-> c, repeated |-> TRUE,
               reply |-> IF same THEN e.reply ELSE Refused("RequestConflict")]]
        /\ UNCHANGED <<run, stopped, entries, responses, history, effects,
                       reported, told, asked, lost>>

\* After the commit: a cancel fires the tokens of the ended runs, repeated or
\* not; a hold or release that changed something is reported, once.
Signalled == [r \in Run |-> [run[r] EXCEPT !.fired = @ \/ run[r].ended]]
Signals(s) == s.command.op = "Cancel"
Reports(s) ==
    s.command.op \in {"Hold", "Release"} /\ s.reply.value /\ ~s.repeated

Follow(p) ==
    LET s == caller[p] IN
    /\ s.at = "applied"
    /\ run' = IF Signals(s) THEN Signalled ELSE run
    /\ reported' = IF Reports(s) THEN [reported EXCEPT ![s.request.id] = @ + 1]
                   ELSE reported
    /\ caller' = [caller EXCEPT ![p].at = "answers"]
    /\ UNCHANGED <<stopped, entries, responses, history, effects, told, asked, lost>>

Answer(p) ==
    LET s == caller[p] IN
    /\ s.at = "answers"
    /\ told' = told \cup {[request |-> s.request, command |-> s.command,
                           reply |-> s.reply]}
    /\ caller' = [caller EXCEPT ![p] = Idle]
    /\ UNCHANGED <<run, stopped, entries, responses, history, effects, reported,
                   asked, lost>>

\* The answer, or what comes after the commit, is lost: the caller asks again.
Lose(p) ==
    /\ caller[p].at \in {"applied", "answers"} /\ lost < Losses
    /\ lost' = lost + 1
    /\ caller' = [caller EXCEPT ![p] = [at |-> "asks", request |-> @.request,
                                        command |-> @.command]]
    /\ UNCHANGED <<run, stopped, entries, responses, history, effects, reported, told,
                   asked>>

-----------------------------------------------------------------------------
(* The runs and the hosts.                                                 *)

\* A run ends by itself (terminate), with its owned descendants.
End(r) ==
    /\ ~run[r].ended
    /\ run' = Ended(r)
    /\ UNCHANGED <<stopped, entries, responses, caller, history, effects, reported,
                   told, asked, lost>>

\* A run that is neither held nor stopped takes a copy and closes its wait, or
\* closes it at its timeout.
Close(r) ==
    /\ ~run[r].ended /\ run[r].held = None /\ ~stopped /\ run[r].wait = "open"
    /\ run' = [run EXCEPT ![r].wait = "closed"]
    /\ UNCHANGED <<stopped, entries, responses, caller, history, effects, reported,
                   told, asked, lost>>

\* A host delivers an event to the run by its own means.
Deliver(r, e) ==
    /\ ~run[r].ended /\ ~Conflicts(r, e)
    /\ run' = [run EXCEPT ![r].copies = Accepted(r, e)]
    /\ UNCHANGED <<stopped, entries, responses, caller, history, effects, reported,
                   told, asked, lost>>

\* sweep: an ended run's copies are forgotten, its answers are not.
Forget(r) ==
    /\ run[r].ended /\ run[r].copies # {}
    /\ run' = [run EXCEPT ![r].copies = {}]
    /\ UNCHANGED <<stopped, entries, responses, caller, history, effects, reported,
                   told, asked, lost>>

Requests == [id : Id, actor : Actor]

Next ==
    \/ \E p \in Caller :
          \/ \E q \in Requests, c \in Offered : Ask(p, q, c)
          \/ ApplyNew(p) \/ ApplyAgain(p) \/ Follow(p) \/ Answer(p) \/ Lose(p)
    \/ \E r \in Run :
          \/ End(r) \/ Close(r) \/ Forget(r)
          \/ \E e \in Event : Deliver(r, e)

Spec == Init /\ [][Next]_vars

-----------------------------------------------------------------------------
\* However often a request is repeated, by one caller or by several at once,
\* its command changes something at most once, and only one that is in the
\* journal did (control_command's entry is in the command's own commit).
EffectOnce ==
    /\ \A i, j \in DOMAIN effects : effects[i] = effects[j] => i = j
    /\ \A i, j \in DOMAIN history : history[i] = history[j] => i = j
    /\ \A i \in DOMAIN effects : \E j \in DOMAIN history : history[j] = effects[i]

\* Every caller of one request is told the same reply, whenever it asks; who
\* reuses its id for something else is told of the conflict.
OneReply ==
    \A s, t \in told :
        s.reply.ok /\ t.reply.ok /\ s.request.id = t.request.id => s = t

\* A run is answered once with an event: who repeats the answer is told the
\* first reply, after the wait closed and the copy was swept too, and another
\* payload or wait under the event's identity is refused.
OneAnswer ==
    \A s, t \in told :
        /\ s.command.op = "Respond" /\ t.command.op = "Respond"
        /\ s.command.run = t.command.run
        /\ s.command.event.id = t.command.event.id
        /\ s.reply.ok
        => IF t.command = s.command
           THEN t.reply \in {s.reply, Refused("RequestConflict")}
           ELSE ~t.reply.ok

\* A hold or a release is reported at most once, and only if its command
\* changed something (Applied::repeated).
ReportedOnce ==
    \A i \in Id : /\ reported[i] <= 1
                  /\ reported[i] = 1 => \E n \in DOMAIN effects : effects[n] = i

\* A caller that was told its cancel was applied finds the tree ended and the
\* tokens of this process fired, even if the first answer was lost between
\* the commit and the signal (signal_cancelled).
CancelIsSignalled ==
    \A s \in told :
        s.command.op = "Cancel" /\ s.reply.ok
        => \A r \in Run : r = s.command.run \/ Parent[r] = s.command.run
              => run[r].ended /\ run[r].fired

\* A repeated or concurrent control request has one effect, one report and one
\* reply; a cancel that was told of has reached the tokens; a run is answered
\* once with an event (control, signal_cancelled, control_response).
ControlIsSound == EffectOnce /\ OneReply /\ OneAnswer /\ ReportedOnce /\ CancelIsSignalled

=============================================================================
