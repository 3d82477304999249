---------------------------- MODULE TreeProofs ----------------------------
(***************************************************************************)
(* Proofs about what a tree of runs owes to those outside it: the answers  *)
(* to an operator's requests (Control), for any tree, callers, request     *)
(* ids, commands, retries and lost answers, its step budget (Budget), for  *)
(* any tree, branches, limits and crashes, and how its runs come to be     *)
(* (Admission), for any definitions, tasks, attempts, ceilings and faults. *)
(***************************************************************************)
EXTENDS Control, TLAPS, FiniteSetTheorems

CONSTANTS Root, Branches, Limit, Crashes
VARIABLES member, records, budget, grants, counted, crashes

Tree == INSTANCE Budget WITH run <- member

-----------------------------------------------------------------------------
(* Control.  What is stored about a request is never taken back: rows that *)
(* ended, tokens that fired, waits that closed, answers and entries stay   *)
(* (Grows).  What a caller was told once is therefore told for ever, and   *)
(* Inv says of every answer that it is what the journal holds, or that no  *)
(* later one can be better.                                                *)

Rows == [ended : BOOLEAN, held : Id \cup {None}, wait : {"open", "closed"},
         copies : SUBSET Event, fired : BOOLEAN]
Good == [ok : {TRUE}, value : Run \cup BOOLEAN]
Why == {"RequestConflict", "ResponseConflict", "WaitClosed", "WaitMismatch",
        "IdentityConflict"}
Replies == Good \cup [ok : {FALSE}, why : Why]
Entries == [request : Requests, command : Offered, reply : Good]
Answers == [request : Requests, command : Offered, reply : Replies]
Callers ==
    {Idle} \cup [at : {"asks"}, request : Requests, command : Offered]
    \cup [at : {"applied", "answers"}, request : Requests, command : Offered,
          reply : Replies, repeated : BOOLEAN]

\* The shape of every row.
Typed ==
    /\ run \in [Run -> Rows]
    /\ entries \in [Id -> Entries \cup {None}]
    /\ responses \in [Run -> SUBSET Entries]
    /\ caller \in [Caller -> Callers]
    /\ history \in Seq(Id) /\ effects \in Seq(Id)
    /\ reported \in [Id -> Nat]
    /\ told \in SUBSET Answers

\* A run ends with its owned descendants.
NoOrphan ==
    \A r \in Run : Parent[r] # None /\ run[Parent[r]].ended => run[r].ended

In(seq, i) == \E n \in DOMAIN seq : seq[n] = i
Distinct(seq) == \A m, n \in DOMAIN seq : seq[m] = seq[n] => m = n

\* The history lists the entries, each once, and the effects are some of them.
Listed ==
    /\ \A i \in Id : In(history, i) <=> entries[i] # None
    /\ Distinct(history) /\ Distinct(effects)
    /\ \A i \in Id : In(effects, i) => In(history, i)

\* An entry is that of its id; a cancel's run has ended, and an answer's is
\* the one the run was answered with.
EntryHolds(i) ==
    LET e == entries[i] IN
    /\ e.request.id = i
    /\ e.command.op = "Cancel" => run[e.command.run].ended
    /\ e.command.op = "Respond" =>
          \E x \in responses[e.command.run] : x.command = e.command /\ x.reply = e.reply

\* A run is answered once under each identity, by an event that matched.
AnsweredOnce(r) ==
    /\ \A x \in responses[r] :
          x.command.op = "Respond" /\ x.command.run = r /\ x.command.matches
    /\ \A x, y \in responses[r] : x.command.event.id = y.command.event.id => x = y

\* No answer of this command is stored, and none will be.
Hopeless(c) ==
    /\ \A x \in responses[c.run] : x.command # c
    /\ \/ ~c.matches \/ run[c.run].ended \/ run[c.run].wait # "open"
       \/ Conflicts(c.run, c.event) \/ AnswerOf(c.run, c.event) # {}

\* What is known of every answer: a reply is the journal's, a refusal of an
\* event is final.
Given(s) ==
    /\ s.reply.ok => entries[s.request.id] =
                        [request |-> s.request, command |-> s.command, reply |-> s.reply]
    /\ s.command.op = "Respond" /\ ~s.reply.ok /\ s.reply # Refused("RequestConflict")
          => Hopeless(s.command)

\* The tokens of a cancelled tree fired.
Fired(r) == \A s \in Run : s = r \/ Parent[s] = r => run[s].ended /\ run[s].fired
FiredFor(s) == s.command.op = "Cancel" /\ s.reply.ok => Fired(s.command.run)

CallerKnows(p) ==
    /\ caller[p].at \in {"applied", "answers"} => Given(caller[p])
    /\ caller[p].at = "applied" => caller[p].reply.ok
    /\ caller[p].at = "answers" => FiredFor(caller[p])

\* A report to come is the only one of its request.
ToReport(p) == caller[p].at = "applied" /\ ~caller[p].repeated
ReportsOnce ==
    /\ \A i \in Id : reported[i] <= 1 /\ (reported[i] = 1 => In(effects, i))
    /\ \A p \in Caller : ToReport(p) =>
          /\ reported[caller[p].request.id] = 0
          /\ Reports(caller[p]) => In(effects, caller[p].request.id)
          /\ \A o \in Caller : ToReport(o) /\ caller[o].request.id = caller[p].request.id => o = p

Inv ==
    /\ Typed /\ NoOrphan /\ Listed /\ ReportsOnce
    /\ \A i \in Id : entries[i] # None => EntryHolds(i)
    /\ \A r \in Run : AnsweredOnce(r)
    /\ \A p \in Caller : CallerKnows(p)
    /\ \A s \in told : Given(s) /\ FiredFor(s)

-----------------------------------------------------------------------------
(* What a step may do to the stores, and what stays true then.             *)

\* A row that ended, fired or closed its wait stays so, and its copies stay
\* until it has ended.
RowKept(r) ==
    /\ run[r].ended => run'[r].ended
    /\ run[r].fired => run'[r].fired
    /\ run[r].wait # "open" => run'[r].wait # "open"
    /\ run'[r].ended \/ run[r].copies \subseteq run'[r].copies

\* An answer x that the open wait of its run takes.
Fits(r, x) ==
    /\ x.command.op = "Respond" /\ x.command.run = r /\ x.command.matches
    /\ ~run[r].ended /\ run[r].wait = "open"
    /\ ~Conflicts(r, x.command.event) /\ AnswerOf(r, x.command.event) = {}

\* One answer is stored, or none.
AnswersKept(r) ==
    \/ responses'[r] = responses[r]
    \/ \E x \in Entries : Fits(r, x) /\ responses'[r] = responses[r] \cup {x}

Grows ==
    /\ \A r \in Run : RowKept(r) /\ AnswersKept(r)
    /\ \A i \in Id : entries[i] # None => entries'[i] = entries[i]

\* A stored entry is not None.
LEMMA EntryNotNone == ASSUME ControlConstants PROVE None \notin Entries
BY Zenon DEF ControlConstants, Entries, Requests, Good

LEMMA RespondRun ==
    ASSUME ControlConstants, NEW c \in Offered, c.op = "Respond"
    PROVE  c.run \in Run
BY DEF ControlConstants

LEMMA HopelessKept ==
    ASSUME ControlConstants, Grows, NEW c \in Offered, c.op = "Respond", Hopeless(c)
    PROVE  Hopeless(c)'
<1>1. c.run \in Run
  BY RespondRun
<1>2. RowKept(c.run) /\ AnswersKept(c.run)
  BY <1>1 DEF Grows
<1>3. \A x \in responses'[c.run] : x.command # c
  <2>1. CASE responses'[c.run] = responses[c.run]
    BY <2>1 DEF Hopeless
  <2>2. ASSUME NEW x \in Entries, Fits(c.run, x), responses'[c.run] = responses[c.run] \cup {x}
        PROVE  \A y \in responses'[c.run] : y.command # c
    <3>1. x.command # c
      BY <2>2 DEF Fits, Hopeless
    <3> QED BY <2>2, <3>1 DEF Hopeless
  <2> QED BY <1>2, <2>1, <2>2 DEF AnswersKept
<1>4. Conflicts(c.run, c.event) => run'[c.run].ended \/ Conflicts(c.run, c.event)'
  BY <1>2 DEF RowKept, Conflicts
<1>5. AnswerOf(c.run, c.event) # {} => AnswerOf(c.run, c.event)' # {}
  BY <1>2 DEF AnswersKept, AnswerOf
<1> QED BY <1>2, <1>3, <1>4, <1>5 DEF Hopeless, RowKept

LEMMA GivenKept ==
    ASSUME ControlConstants, Grows, NEW s, s.command \in Offered, s.request.id \in Id,
           s.reply.ok => entries[s.request.id] \in Entries, Given(s)
    PROVE  Given(s)'
<1>1. s.reply.ok => entries'[s.request.id] = entries[s.request.id]
  BY EntryNotNone DEF Grows
<1>2. s.command.op = "Respond" /\ Hopeless(s.command) => Hopeless(s.command)'
  BY HopelessKept
<1> QED BY <1>1, <1>2 DEF Given

LEMMA FiredForKept ==
    ASSUME Grows, NEW s, FiredFor(s)
    PROVE  FiredFor(s)'
BY DEF Grows, RowKept, FiredFor, Fired

\* What a caller holds.
LEMMA CallerShape ==
    ASSUME Typed, NEW p \in Caller
    PROVE  /\ caller[p] \in Callers
           /\ caller[p].at = "asks" => caller[p].request \in Requests /\ caller[p].command \in Offered
           /\ caller[p].at \in {"applied", "answers"} =>
                 /\ caller[p].request \in Requests /\ caller[p].command \in Offered
                 /\ caller[p].reply \in Replies /\ caller[p].repeated \in BOOLEAN
BY DEF Typed, Callers, Idle

\* What is given to a caller with a reply is an entry.
LEMMA GivenEntry ==
    ASSUME Typed, NEW s, s.request \in Requests, s.command \in Offered,
           s.reply \in Replies, Given(s), s.reply.ok
    PROVE  /\ s.request.id \in Id /\ entries[s.request.id] \in Entries
           /\ entries[s.request.id].request = s.request
           /\ entries[s.request.id].command = s.command
           /\ entries[s.request.id].reply = s.reply
<1>1. s.request.id \in Id
  BY DEF Requests
<1>2. s.reply \in Good
  BY DEF Replies, Good
<1>3. entries[s.request.id] = [request |-> s.request, command |-> s.command, reply |-> s.reply]
  BY DEF Given
<1> QED BY <1>1, <1>2, <1>3 DEF Entries

LEMMA EntryHoldsKept ==
    ASSUME ControlConstants, Typed, Grows, NEW i \in Id, entries[i] # None, EntryHolds(i)
    PROVE  EntryHolds(i)'
<1>1. entries'[i] = entries[i]
  BY DEF Grows
<1> PICK e \in Entries : e = entries[i]
  BY DEF Typed
<1>2. e.command \in Offered
  BY DEF Entries
<1>3. e.command.op \in {"Cancel", "Respond"} => e.command.run \in Run
  BY <1>2 DEF ControlConstants
<1>4. e.command.op = "Cancel" => run'[e.command.run].ended
  BY <1>3 DEF EntryHolds, Grows, RowKept
<1>5. e.command.op = "Respond" => responses[e.command.run] \subseteq responses'[e.command.run]
  BY <1>3 DEF Grows, AnswersKept
<1>6. e.command.op = "Respond" =>
        \E x \in responses'[e.command.run] : x.command = e.command /\ x.reply = e.reply
  BY <1>5 DEF EntryHolds
<1>7. e.request.id = i
  BY DEF EntryHolds
<1> QED BY <1>1, <1>4, <1>6, <1>7 DEF EntryHolds

LEMMA AnsweredOnceKept ==
    ASSUME NEW r \in Run, AnswersKept(r), AnsweredOnce(r)
    PROVE  AnsweredOnce(r)'
<1>1. CASE responses'[r] = responses[r]
  BY <1>1 DEF AnsweredOnce
<1>2. ASSUME NEW n \in Entries, Fits(r, n), responses'[r] = responses[r] \cup {n}
      PROVE  AnsweredOnce(r)'
  <2>1. \A x \in responses[r] : x.command.event.id # n.command.event.id
    BY <1>2 DEF Fits, AnswerOf
  <2>2. n.command.op = "Respond" /\ n.command.run = r /\ n.command.matches
    BY <1>2 DEF Fits
  <2> QED BY <1>2, <2>1, <2>2 DEF AnsweredOnce
<1> QED BY <1>1, <1>2 DEF AnswersKept

\* Everything that was known stays known.
LEMMA Stays ==
    ASSUME ControlConstants, Inv, Grows
    PROVE  /\ \A i \in Id : entries[i] # None => EntryHolds(i)'
           /\ \A r \in Run : AnsweredOnce(r)'
           /\ \A s \in told : Given(s)' /\ FiredFor(s)'
           /\ \A p \in Caller : caller'[p] = caller[p] => CallerKnows(p)'
<1>1. ASSUME NEW i \in Id, entries[i] # None PROVE EntryHolds(i)'
  BY <1>1, EntryHoldsKept DEF Inv
<1>2. ASSUME NEW r \in Run PROVE AnsweredOnce(r)'
  BY <1>2, AnsweredOnceKept DEF Inv, Grows
<1>3. ASSUME NEW s, s.request \in Requests, s.command \in Offered, s.reply \in Replies, Given(s)
      PROVE  Given(s)'
  <2>1. s.request.id \in Id
    BY <1>3 DEF Requests
  <2>2. s.reply.ok => entries[s.request.id] \in Entries
    BY <1>3, GivenEntry DEF Inv
  <2> QED BY <1>3, <2>1, <2>2, GivenKept
<1>4. ASSUME NEW s \in told PROVE Given(s)' /\ FiredFor(s)'
  <2>1. s.request \in Requests /\ s.command \in Offered /\ s.reply \in Replies
    BY DEF Inv, Typed, Answers
  <2>2. Given(s) /\ FiredFor(s)
    BY DEF Inv
  <2> QED BY <1>3, <2>1, <2>2, FiredForKept
<1>5. ASSUME NEW p \in Caller, caller'[p] = caller[p] PROVE CallerKnows(p)'
  <2> PICK s : s = caller[p]
    OBVIOUS
  <2>1. CallerKnows(p)
    BY DEF Inv
  <2>2. s.at \in {"applied", "answers"} => Given(s)'
    <3> SUFFICES ASSUME s.at \in {"applied", "answers"} PROVE Given(s)'
      OBVIOUS
    <3>1. Given(s)
      BY <2>1 DEF CallerKnows
    <3>2. s.request \in Requests /\ s.command \in Offered /\ s.reply \in Replies
      BY CallerShape DEF Inv
    <3> QED BY <1>3, <3>1, <3>2
  <2>3. s.at = "applied" => s.reply.ok
    BY <2>1 DEF CallerKnows
  <2>4. s.at = "answers" => FiredFor(s)'
    <3> SUFFICES ASSUME s.at = "answers" PROVE FiredFor(s)'
      OBVIOUS
    <3>1. FiredFor(s)
      BY <2>1 DEF CallerKnows
    <3> QED BY <3>1, FiredForKept
  <2>5. caller'[p] = s
    BY <1>5
  <2> QED BY <2>2, <2>3, <2>4, <2>5 DEF CallerKnows, Given, FiredFor
<1> QED BY <1>1, <1>2, <1>4, <1>5

\* Who reports is who reported before.
LEMMA ReportsKept ==
    ASSUME ReportsOnce, reported' = reported,
           \A i \in Id : In(effects, i) => In(effects', i),
           \A o \in Caller : caller[o].at = "applied" => caller[o].request.id \in Id,
           \A o \in Caller : ToReport(o)' => caller'[o] = caller[o]
    PROVE  ReportsOnce'
<1>1. \A i \in Id : reported'[i] <= 1 /\ (reported'[i] = 1 => In(effects', i))
  BY DEF ReportsOnce
<1>2. ASSUME NEW p \in Caller, ToReport(p)'
      PROVE  /\ ToReport(p) /\ caller'[p] = caller[p]
  BY <1>2 DEF ToReport
<1>3. ASSUME NEW p \in Caller, ToReport(p)'
      PROVE  /\ reported'[caller'[p].request.id] = 0
             /\ Reports(caller'[p]) => In(effects', caller'[p].request.id)
             /\ \A o \in Caller :
                   ToReport(o)' /\ caller'[o].request.id = caller'[p].request.id => o = p
  <2>1. ToReport(p) /\ caller'[p] = caller[p]
    BY <1>2, <1>3
  <2>2. caller[p].request.id \in Id
    BY <2>1 DEF ToReport
  <2>3. Reports(caller[p]) => In(effects', caller[p].request.id)
    BY <2>1, <2>2 DEF ReportsOnce
  <2>4. \A o \in Caller : ToReport(o)' /\ caller'[o].request.id = caller'[p].request.id => o = p
    BY <1>2, <2>1 DEF ReportsOnce
  <2> QED BY <2>1, <2>3, <2>4 DEF ReportsOnce
<1> QED BY <1>1, <1>3 DEF ReportsOnce, In, Reports, ToReport

-----------------------------------------------------------------------------
(* The tree.                                                               *)

LEMMA Below ==
    ASSUME NEW r \in Run
    PROVE  /\ LiveTree(r) \subseteq Run
           /\ ~run[r].ended => r \in LiveTree(r)
           /\ Children(LiveTree(r)) \subseteq LiveTree(r)
<1>1. ASSUME NEW c \in Children(LiveTree(r)) PROVE c \in LiveTree(r)
  <2>1. c \in Run /\ Parent[c] \in LiveTree(r) /\ ~run[c].ended
    BY DEF Children
  <2>2. ~run[r].ended
    BY <2>1 DEF LiveTree
  <2>3. ASSUME NEW R \in SUBSET Run, r \in R, Children(R) \subseteq R PROVE c \in R
    <3>1. Parent[c] \in R
      BY <2>1, <2>3 DEF LiveTree
    <3> QED BY <2>1, <2>3, <3>1 DEF Children
  <2> QED BY <2>1, <2>2, <2>3 DEF LiveTree
<1> QED BY <1>1 DEF LiveTree

LEMMA EndedRows ==
    ASSUME ControlConstants, Typed, NoOrphan, NEW r \in Run, run' = Ended(r)
    PROVE  run' \in [Run -> Rows] /\ (\A s \in Run : RowKept(s)) /\ NoOrphan' /\ run'[r].ended
<1> DEFINE T == LiveTree(r)
<1>1. T \subseteq Run /\ (~run[r].ended => r \in T) /\ Children(T) \subseteq T
  BY Below
<1> HIDE DEF T
<1>2. run' = [s \in Run |-> IF s \in T
                 THEN [run[s] EXCEPT !.ended = TRUE, !.held = None, !.wait = "closed"] ELSE run[s]]
  BY DEF Ended, T
<1>3. ASSUME NEW s \in Run
      PROVE  /\ run'[s] \in Rows /\ RowKept(s)
             /\ run'[s].ended <=> run[s].ended \/ s \in T
  <2>1. run[s] \in Rows
    BY DEF Typed
  <2>2. CASE s \in T
    <3>1. run'[s] = [run[s] EXCEPT !.ended = TRUE, !.held = None, !.wait = "closed"]
      BY <1>2, <2>2
    <3> QED BY <2>1, <2>2, <3>1 DEF Rows, RowKept
  <2>3. CASE s \notin T
    <3>1. run'[s] = run[s]
      BY <1>2, <2>3
    <3> QED BY <2>1, <2>3, <3>1 DEF Rows, RowKept
  <2> QED BY <2>2, <2>3
<1>4. run' \in [Run -> Rows]
  BY <1>2, <1>3
<1>5. NoOrphan'
  <2> SUFFICES ASSUME NEW c \in Run, Parent[c] # None, run'[Parent[c]].ended
               PROVE  run'[c].ended
    BY DEF NoOrphan
  <2>1. Parent[c] \in Run
    BY DEF ControlConstants
  <2>2. CASE run[Parent[c]].ended
    BY <1>3, <2>2 DEF NoOrphan
  <2>3. CASE Parent[c] \in T
    BY <1>1, <1>3, <2>3 DEF Children
  <2> QED BY <1>3, <2>1, <2>2, <2>3
<1> QED BY <1>1, <1>3, <1>4, <1>5

LEMMA HeldRows ==
    ASSUME Typed, NEW r \in Run, NEW hold \in Id \cup {None}, run' = SetHold(r, hold)
    PROVE  /\ run' \in [Run -> Rows]
           /\ \A s \in Run : RowKept(s) /\ run'[s].ended = run[s].ended
<1>1. ASSUME NEW s \in Run
      PROVE  run'[s] \in Rows /\ RowKept(s) /\ run'[s].ended = run[s].ended
  <2>1. run[s] \in Rows
    BY DEF Typed
  <2>2. run'[s] = [run[s] EXCEPT !.held = hold] \/ run'[s] = run[s]
    BY DEF SetHold
  <2> QED BY <2>1, <2>2 DEF Rows, RowKept
<1> QED BY <1>1 DEF SetHold

LEMMA SameEnds ==
    ASSUME ControlConstants, NoOrphan, \A s \in Run : run'[s].ended = run[s].ended
    PROVE  NoOrphan'
<1> SUFFICES ASSUME NEW c \in Run, Parent[c] # None, run'[Parent[c]].ended
             PROVE  run'[c].ended
  BY DEF NoOrphan
<1>1. Parent[c] \in Run
  BY DEF ControlConstants
<1> QED BY <1>1 DEF NoOrphan

-----------------------------------------------------------------------------
(* The runs and the hosts.                                                 *)

\* A step of the rows alone.
LEMMA RowsStep ==
    ASSUME ControlConstants, Inv, run' \in [Run -> Rows], \A r \in Run : RowKept(r), NoOrphan',
           UNCHANGED <<entries, responses, caller, history, effects, reported, told>>
    PROVE  Inv'
<1>1. Grows
  BY DEF Grows, AnswersKept
<1>2. Typed' /\ Listed' /\ ReportsOnce'
  BY DEF Inv, Typed, Listed, ReportsOnce, ToReport, Reports, In, Distinct
<1>3. /\ \A i \in Id : entries'[i] # None => EntryHolds(i)'
      /\ \A r \in Run : AnsweredOnce(r)'
      /\ \A p \in Caller : CallerKnows(p)'
      /\ \A s \in told' : Given(s)' /\ FiredFor(s)'
  BY <1>1, Stays
<1> QED BY <1>2, <1>3 DEF Inv

LEMMA EndStep == ASSUME ControlConstants, Inv, NEW r \in Run, End(r) PROVE Inv'
<1>1. run' \in [Run -> Rows] /\ (\A s \in Run : RowKept(s)) /\ NoOrphan'
  BY EndedRows DEF Inv, End
<1> QED BY <1>1, RowsStep DEF End

\* A row that changes in nothing that ends.
LEMMA OneRow ==
    ASSUME ControlConstants, Inv, NEW r \in Run, NEW v \in Rows, run' = [run EXCEPT ![r] = v],
           v.ended = run[r].ended, run[r].fired => v.fired,
           run[r].wait # "open" => v.wait # "open",
           v.ended \/ run[r].copies \subseteq v.copies
    PROVE  run' \in [Run -> Rows] /\ (\A s \in Run : RowKept(s)) /\ NoOrphan'
<1>1. run \in [Run -> Rows]
  BY DEF Inv, Typed
<1>2. ASSUME NEW s \in Run PROVE RowKept(s) /\ run'[s].ended = run[s].ended
  <2>1. CASE s = r
    <3>1. run'[s] = v
      BY <1>1, <2>1
    <3> QED BY <2>1, <3>1 DEF RowKept
  <2>2. CASE s # r
    <3>1. run'[s] = run[s]
      BY <1>1, <2>2
    <3> QED BY <3>1 DEF RowKept
  <2> QED BY <2>1, <2>2
<1>3. NoOrphan'
  BY <1>2, SameEnds DEF Inv
<1> QED BY <1>1, <1>2, <1>3

LEMMA CloseStep == ASSUME ControlConstants, Inv, NEW r \in Run, Close(r) PROVE Inv'
<1> PICK row \in Rows : row = run[r]
  BY DEF Inv, Typed
<1> PICK v : v = [row EXCEPT !.wait = "closed"]
  OBVIOUS
<1>1. /\ v \in Rows /\ v.ended = row.ended /\ v.fired = row.fired /\ v.wait = "closed"
      /\ v.copies = row.copies
  BY DEF Rows
<1>2. run' = [run EXCEPT ![r] = v]
  BY DEF Close
<1>3. run' \in [Run -> Rows] /\ (\A s \in Run : RowKept(s)) /\ NoOrphan'
  BY <1>1, <1>2, OneRow
<1> QED BY <1>3, RowsStep DEF Close

LEMMA AcceptedCopies ==
    ASSUME Typed, NEW r \in Run, NEW e \in Event,
           NEW v, v = [run[r] EXCEPT !.copies = Accepted(r, e)]
    PROVE  /\ v \in Rows /\ v.ended = run[r].ended /\ v.fired = run[r].fired
           /\ v.wait = run[r].wait /\ run[r].copies \subseteq v.copies
<1> PICK row \in Rows : row = run[r]
  BY DEF Typed
<1>1. Accepted(r, e) \in SUBSET Event /\ row.copies \subseteq Accepted(r, e)
  BY DEF Accepted, Rows
<1> QED BY <1>1 DEF Rows

LEMMA AcceptedRows ==
    ASSUME ControlConstants, Inv, NEW r \in Run, NEW e \in Event,
           run' = [run EXCEPT ![r].copies = Accepted(r, e)]
    PROVE  run' \in [Run -> Rows] /\ (\A s \in Run : RowKept(s)) /\ NoOrphan'
<1> PICK v : v = [run[r] EXCEPT !.copies = Accepted(r, e)]
  OBVIOUS
<1>1. /\ v \in Rows /\ v.ended = run[r].ended /\ v.fired = run[r].fired
      /\ v.wait = run[r].wait /\ run[r].copies \subseteq v.copies
  BY AcceptedCopies DEF Inv
<1>2. run' = [run EXCEPT ![r] = v]
  OBVIOUS
<1> QED BY <1>1, <1>2, OneRow

LEMMA DeliverStep ==
    ASSUME ControlConstants, Inv, NEW r \in Run, NEW e \in Event, Deliver(r, e)
    PROVE  Inv'
<1>1. run' \in [Run -> Rows] /\ (\A s \in Run : RowKept(s)) /\ NoOrphan'
  BY AcceptedRows DEF Deliver
<1> QED BY <1>1, RowsStep DEF Deliver

LEMMA ForgetStep == ASSUME ControlConstants, Inv, NEW r \in Run, Forget(r) PROVE Inv'
<1> PICK row \in Rows : row = run[r]
  BY DEF Inv, Typed
<1> PICK v : v = [row EXCEPT !.copies = {}]
  OBVIOUS
<1>1. v \in Rows /\ v.ended = row.ended /\ v.fired = row.fired /\ v.wait = row.wait
  BY DEF Rows
<1>2. run' = [run EXCEPT ![r] = v] /\ row.ended
  BY DEF Forget
<1>3. run' \in [Run -> Rows] /\ (\A s \in Run : RowKept(s)) /\ NoOrphan'
  BY <1>1, <1>2, OneRow
<1> QED BY <1>3, RowsStep DEF Forget

-----------------------------------------------------------------------------
(* Runtime::control.                                                       *)

\* A step of a caller that leaves the journal alone.
LEMMA CallerStep ==
    ASSUME ControlConstants, Inv, NEW p \in Caller, NEW v \in Callers,
           caller' = [caller EXCEPT ![p] = v],
           run' \in [Run -> Rows], \A r \in Run : RowKept(r), NoOrphan',
           UNCHANGED <<entries, responses, history, effects>>,
           reported' \in [Id -> Nat], ReportsOnce',
           told' \in SUBSET Answers, \A s \in told' \ told : Given(s)' /\ FiredFor(s)',
           CallerKnows(p)'
    PROVE  Inv'
<1>1. Grows
  BY DEF Grows, AnswersKept
<1>2. Typed'
  BY DEF Inv, Typed
<1>3. Listed'
  BY DEF Inv, Listed, In, Distinct
<1>4. /\ \A i \in Id : entries'[i] # None => EntryHolds(i)'
      /\ \A r \in Run : AnsweredOnce(r)'
      /\ \A s \in told' : Given(s)' /\ FiredFor(s)'
  BY <1>1, Stays
<1>5. ASSUME NEW o \in Caller PROVE CallerKnows(o)'
  <2>1. o # p => caller'[o] = caller[o]
    BY DEF Inv, Typed
  <2> QED BY <1>1, <2>1, Stays
<1> QED BY <1>2, <1>3, <1>4, <1>5 DEF Inv

\* A caller's step after which it has nothing to report, and nothing was.
LEMMA NoReport ==
    ASSUME Inv, NEW p \in Caller, NEW v, caller' = [caller EXCEPT ![p] = v],
           v.at # "applied" \/ v.repeated, UNCHANGED <<reported, effects>>
    PROVE  ReportsOnce'
<1>1. \A o \in Caller : caller[o].at = "applied" => caller[o].request.id \in Id
  BY CallerShape DEF Inv, Requests
<1>2. ASSUME NEW o \in Caller, ToReport(o)' PROVE caller'[o] = caller[o]
  <2>1. caller'[p] = v
    BY DEF Inv, Typed
  <2>2. o # p
    BY <1>2, <2>1 DEF ToReport
  <2> QED BY <2>2 DEF Inv, Typed
<1> QED BY <1>1, <1>2, ReportsKept DEF Inv

\* The rows as they are.
LEMMA SameRows ==
    ASSUME ControlConstants, Inv, UNCHANGED run
    PROVE  run' \in [Run -> Rows] /\ (\A r \in Run : RowKept(r)) /\ NoOrphan'
BY DEF Inv, Typed, RowKept, NoOrphan

LEMMA AskStep ==
    ASSUME ControlConstants, Inv, NEW p \in Caller, NEW q \in Requests, NEW c \in Offered,
           Ask(p, q, c)
    PROVE  Inv'
<1> PICK v : v = [at |-> "asks", request |-> q, command |-> c]
  OBVIOUS
<1>1. v \in Callers /\ v.at = "asks"
  BY DEF Callers
<1>2. caller' = [caller EXCEPT ![p] = v]
  BY DEF Ask
<1>3. caller'[p] = v
  BY <1>2 DEF Inv, Typed
<1>4. CallerKnows(p)'
  BY <1>1, <1>3 DEF CallerKnows
<1>5. ReportsOnce'
  BY <1>1, <1>2, NoReport DEF Ask
<1>6. run' \in [Run -> Rows] /\ (\A r \in Run : RowKept(r)) /\ NoOrphan'
  BY SameRows DEF Ask
<1>7. reported' \in [Id -> Nat] /\ told' \in SUBSET Answers /\ told' \ told = {}
  BY DEF Ask, Inv, Typed
<1> QED BY <1>1, <1>2, <1>4, <1>5, <1>6, <1>7, CallerStep DEF Ask

LEMMA LoseStep == ASSUME ControlConstants, Inv, NEW p \in Caller, Lose(p) PROVE Inv'
<1> PICK v : v = [at |-> "asks", request |-> caller[p].request, command |-> caller[p].command]
  OBVIOUS
<1>1. v \in Callers /\ v.at = "asks"
  <2>1. caller[p].request \in Requests /\ caller[p].command \in Offered
    BY CallerShape DEF Inv, Lose
  <2> QED BY <2>1 DEF Callers
<1>2. caller' = [caller EXCEPT ![p] = v]
  BY DEF Lose
<1>3. caller'[p] = v
  BY <1>2 DEF Inv, Typed
<1>4. CallerKnows(p)'
  BY <1>1, <1>3 DEF CallerKnows
<1>5. ReportsOnce'
  BY <1>1, <1>2, NoReport DEF Lose
<1>6. run' \in [Run -> Rows] /\ (\A r \in Run : RowKept(r)) /\ NoOrphan'
  BY SameRows DEF Lose
<1>7. reported' \in [Id -> Nat] /\ told' \in SUBSET Answers /\ told' \ told = {}
  BY DEF Lose, Inv, Typed
<1> QED BY <1>1, <1>2, <1>4, <1>5, <1>6, <1>7, CallerStep DEF Lose

LEMMA AnswerStep == ASSUME ControlConstants, Inv, NEW p \in Caller, Answer(p) PROVE Inv'
<1> PICK s : s = caller[p]
  OBVIOUS
<1> PICK t : t = [request |-> s.request, command |-> s.command, reply |-> s.reply]
  OBVIOUS
<1>1. s.request \in Requests /\ s.command \in Offered /\ s.reply \in Replies
  BY CallerShape DEF Inv, Answer
<1>2. t \in Answers
  BY <1>1 DEF Answers
<1>3. caller' = [caller EXCEPT ![p] = Idle] /\ told' = told \cup {t}
  BY DEF Answer
<1>4. Idle \in Callers /\ Idle.at = "idle"
  BY DEF Callers, Idle
<1>5. caller'[p] = Idle
  BY <1>3 DEF Inv, Typed
<1>6. CallerKnows(p)'
  BY <1>4, <1>5 DEF CallerKnows
<1>7. ReportsOnce'
  BY <1>3, <1>4, NoReport DEF Answer
<1>8. run' \in [Run -> Rows] /\ (\A r \in Run : RowKept(r)) /\ NoOrphan'
  BY SameRows DEF Answer
<1>9. Given(t)' /\ FiredFor(t)'
  <2>1. Given(s) /\ FiredFor(s)
    BY DEF Inv, CallerKnows, Answer
  <2>2. Given(t) /\ FiredFor(t)
    BY <2>1 DEF Given, FiredFor
  <2>3. Grows
    BY <1>8 DEF Answer, Grows, AnswersKept
  <2>4. t.request.id \in Id /\ (t.reply.ok => entries[t.request.id] \in Entries)
    BY <1>1, <2>2, GivenEntry DEF Inv, Requests
  <2> QED BY <1>1, <2>2, <2>3, <2>4, GivenKept, FiredForKept
<1>10. reported' \in [Id -> Nat] /\ told' \in SUBSET Answers
  BY <1>2, <1>3 DEF Answer, Inv, Typed
<1>11. ASSUME NEW x \in told' \ told PROVE Given(x)' /\ FiredFor(x)'
  <2>1. x = t
    BY <1>3, <1>11
  <2> QED BY <1>9, <2>1
<1> QED BY <1>3, <1>4, <1>6, <1>7, <1>8, <1>10, <1>11, CallerStep DEF Answer

LEMMA ApplyAgainStep ==
    ASSUME ControlConstants, Inv, NEW p \in Caller, ApplyAgain(p)
    PROVE  Inv'
<1> PICK q, c : q = caller[p].request /\ c = caller[p].command
  OBVIOUS
<1>1. q \in Requests /\ c \in Offered
  BY CallerShape DEF Inv, ApplyAgain
<1>2. q.id \in Id /\ entries[q.id] # None
  BY <1>1 DEF ApplyAgain, Known, Requests
<1> PICK e \in Entries : e = entries[q.id]
  BY <1>2 DEF Inv, Typed
<1>3. PICK same \in BOOLEAN : same <=> e.request = q /\ e.command = c
  OBVIOUS
<1> PICK v : v = [at |-> IF same THEN "applied" ELSE "answers", request |-> q, command |-> c,
                  repeated |-> TRUE,
                  reply |-> IF same THEN e.reply ELSE Refused("RequestConflict")]
  OBVIOUS
<1>4. caller' = [caller EXCEPT ![p] = v]
  BY <1>3 DEF ApplyAgain
<1>5. caller'[p] = v
  BY <1>4 DEF Inv, Typed
<1>6. e.reply \in Good /\ Refused("RequestConflict") \in Replies
  <2>1. e.reply \in Good
    BY DEF Entries
  <2>2. Refused("RequestConflict") \in Replies
    BY DEF Replies, Refused, Why
  <2> QED BY <2>1, <2>2
<1>7. v \in Callers
  BY <1>1, <1>6 DEF Callers, Replies
<1>8. ReportsOnce'
  <2>1. v.repeated
    OBVIOUS
  <2> QED BY <1>4, <2>1, NoReport DEF ApplyAgain
<1>9. run' \in [Run -> Rows] /\ (\A r \in Run : RowKept(r)) /\ NoOrphan'
  BY SameRows DEF ApplyAgain
<1>10. CallerKnows(p)'
  <2>1. CASE same
    <3>1. entries'[q.id] = [request |-> q, command |-> c, reply |-> e.reply]
      BY <1>3, <2>1 DEF ApplyAgain, Entries
    <3>2. v.at = "applied" /\ v.request = q /\ v.command = c /\ v.reply = e.reply /\ v.reply.ok
      BY <1>6, <2>1 DEF Good
    <3> QED BY <1>5, <3>1, <3>2 DEF CallerKnows, Given
  <2>2. CASE ~same
    <3>1. v.at = "answers" /\ v.reply = Refused("RequestConflict") /\ ~v.reply.ok
      BY <2>2 DEF Refused
    <3> QED BY <1>5, <3>1 DEF CallerKnows, Given, FiredFor
  <2> QED BY <2>1, <2>2
<1>11. reported' \in [Id -> Nat] /\ told' \in SUBSET Answers /\ told' \ told = {}
  BY DEF ApplyAgain, Inv, Typed
<1> QED BY <1>4, <1>7, <1>8, <1>9, <1>10, <1>11, CallerStep DEF ApplyAgain

LEMMA FollowStep == ASSUME ControlConstants, Inv, NEW p \in Caller, Follow(p) PROVE Inv'
<1> PICK s : s = caller[p]
  OBVIOUS
<1>1. /\ s.request \in Requests /\ s.command \in Offered /\ s.reply \in Replies
      /\ s.repeated \in BOOLEAN /\ s.at = "applied" /\ s.request.id \in Id
  BY CallerShape DEF Inv, Follow, Requests
<1>2. Given(s) /\ s.reply.ok
  BY <1>1 DEF Inv, CallerKnows
<1> PICK v : v = [at |-> "answers", request |-> s.request, command |-> s.command,
                  reply |-> s.reply, repeated |-> s.repeated]
  OBVIOUS
<1>3. v \in Callers
  BY <1>1 DEF Callers
<1>4. [s EXCEPT !.at = "answers"] = v
  <2>1. s \in [at : {"applied", "answers"}, request : Requests, command : Offered,
               reply : Replies, repeated : BOOLEAN]
    BY <1>1, CallerShape DEF Inv, Callers, Idle
  <2> QED BY <2>1
<1>5. caller' = [caller EXCEPT ![p] = v]
  <2>1. caller' = [caller EXCEPT ![p].at = "answers"]
    BY DEF Follow
  <2> QED BY <1>4, <2>1
<1>6. caller'[p] = v
  BY <1>5 DEF Inv, Typed
<1>7. /\ run' \in [Run -> Rows] /\ (\A r \in Run : RowKept(r)) /\ NoOrphan'
      /\ Signals(s) => \A r \in Run : run[r].ended => run'[r].ended /\ run'[r].fired
  <2>1. CASE Signals(s)
    <3>1. run' = Signalled
      BY <2>1 DEF Follow
    <3>2. ASSUME NEW r \in Run
          PROVE  /\ run'[r] \in Rows /\ RowKept(r) /\ run'[r].ended = run[r].ended
                 /\ run[r].ended => run'[r].fired
      <4>1. run[r] \in Rows
        BY DEF Inv, Typed
      <4> PICK f \in BOOLEAN : f <=> run[r].fired \/ run[r].ended
        OBVIOUS
      <4>2. run'[r] = [run[r] EXCEPT !.fired = run[r].fired \/ run[r].ended]
        BY <3>1 DEF Signalled
      <4>3. (run[r].fired \/ run[r].ended) = f
        BY Zenon
      <4>4. run'[r] = [run[r] EXCEPT !.fired = f]
        BY <4>2, <4>3
      <4> QED BY <4>1, <4>4 DEF Rows, RowKept
    <3>3. run' \in [Run -> Rows]
      BY <3>1, <3>2 DEF Signalled
    <3> QED BY <3>2, <3>3, SameEnds DEF Inv
  <2>2. CASE ~Signals(s)
    <3>1. run' = run
      BY <2>2 DEF Follow
    <3> QED BY <2>2, <3>1, SameRows
  <2> QED BY <2>1, <2>2
<1>8. CallerKnows(p)'
  <2>1. Given(v)'
    <3>1. Grows
      BY <1>7 DEF Follow, Grows, AnswersKept
    <3>2. entries[s.request.id] \in Entries
      BY <1>1, <1>2, GivenEntry DEF Inv
    <3>3. Given(v)
      BY <1>2 DEF Given
    <3> QED BY <1>1, <3>1, <3>2, <3>3, GivenKept
  <2>2. FiredFor(v)'
    <3> SUFFICES ASSUME s.command.op = "Cancel" PROVE Fired(s.command.run)'
      BY DEF FiredFor
    <3>1. s.command.run \in Run
      BY <1>1 DEF ControlConstants
    <3>2. run[s.command.run].ended
      <4>1. entries[s.request.id] \in Entries /\ entries[s.request.id].command = s.command
        BY <1>1, <1>2, GivenEntry DEF Inv
      <4>2. EntryHolds(s.request.id)
        BY <1>1, <4>1, EntryNotNone DEF Inv
      <4> QED BY <4>1, <4>2 DEF EntryHolds
    <3>3. \A r \in Run : r = s.command.run \/ Parent[r] = s.command.run => run[r].ended
      <4>1. s.command.run # None
        BY <3>1 DEF ControlConstants
      <4> QED BY <3>1, <3>2, <4>1 DEF Inv, NoOrphan
    <3> QED BY <1>7, <3>3 DEF Signals, Fired
  <2>3. v.at = "answers"
    OBVIOUS
  <2> QED BY <1>6, <2>1, <2>2, <2>3 DEF CallerKnows
<1>9. reported' \in [Id -> Nat] /\ ReportsOnce'
  <2>1. CASE ~Reports(s)
    <3>1. reported' = reported
      BY <2>1 DEF Follow
    <3>2. v.at # "applied"
      OBVIOUS
    <3> QED BY <1>5, <3>1, <3>2, NoReport DEF Follow, Inv, Typed
  <2>2. CASE Reports(s)
    <3> PICK i \in Id : i = s.request.id
      BY <1>1
    <3>1. reported' = [reported EXCEPT ![i] = reported[i] + 1] /\ effects' = effects
      BY <2>2 DEF Follow
    <3>2. ToReport(p)
      BY <1>1, <2>2 DEF ToReport, Reports
    <3>3. reported[i] = 0 /\ In(effects, i)
      BY <2>2, <3>2 DEF Inv, ReportsOnce
    <3>4. reported' \in [Id -> Nat] /\ reported'[i] = 1
          /\ \A j \in Id : j # i => reported'[j] = reported[j]
      BY <3>1, <3>3 DEF Inv, Typed
    <3>5. ASSUME NEW o \in Caller, ToReport(o)'
          PROVE  o # p /\ caller'[o] = caller[o] /\ ToReport(o) /\ caller[o].request.id \in Id \ {i}
      <4>1. o # p
        BY <1>6, <3>5 DEF ToReport
      <4>2. caller'[o] = caller[o]
        BY <1>5, <4>1 DEF Inv, Typed
      <4>3. ToReport(o)
        BY <3>5, <4>2 DEF ToReport
      <4>4. caller[o].request.id \in Id
        BY <4>3, CallerShape DEF ToReport, Inv, Requests
      <4>5. caller[o].request.id # i
        BY <3>2, <4>1, <4>3 DEF Inv, ReportsOnce
      <4> QED BY <4>1, <4>2, <4>3, <4>4, <4>5
    <3>6. \A j \in Id : reported'[j] <= 1 /\ (reported'[j] = 1 => In(effects, j)')
      BY <3>1, <3>3, <3>4 DEF Inv, ReportsOnce, In
    <3>7. ASSUME NEW o \in Caller, ToReport(o)'
          PROVE  /\ reported'[caller'[o].request.id] = 0
                 /\ Reports(caller[o])' => In(effects, caller[o].request.id)'
                 /\ \A x \in Caller : ToReport(x)' /\ caller'[x].request.id = caller'[o].request.id
                       => x = o
      <4>1. ToReport(o) /\ caller'[o] = caller[o] /\ caller[o].request.id \in Id \ {i}
        BY <3>5, <3>7
      <4>2. reported[caller[o].request.id] = 0
            /\ (Reports(caller[o]) => In(effects, caller[o].request.id))
        BY <4>1 DEF Inv, ReportsOnce
      <4>3. reported'[caller'[o].request.id] = 0
        BY <3>4, <4>1, <4>2
      <4>4. Reports(caller[o])' => In(effects, caller[o].request.id)'
        BY <3>1, <4>1, <4>2 DEF Reports, In
      <4>5. ASSUME NEW x \in Caller, ToReport(x)', caller'[x].request.id = caller'[o].request.id
            PROVE  x = o
        <5>1. ToReport(x) /\ caller'[x] = caller[x]
          BY <3>5, <4>5
        <5> QED BY <4>1, <4>5, <5>1 DEF Inv, ReportsOnce
      <4> QED BY <4>3, <4>4, <4>5
    <3> QED BY <3>4, <3>6, <3>7 DEF ReportsOnce
  <2> QED BY <2>1, <2>2
<1>10. told' \in SUBSET Answers /\ told' \ told = {}
  BY DEF Follow, Inv, Typed
<1> QED BY <1>3, <1>5, <1>7, <1>8, <1>9, <1>10, CallerStep DEF Follow

-----------------------------------------------------------------------------
(* A command that is new.                                                  *)

\* What a run is told that answers a wait.
LEMMA RespondReply ==
    ASSUME ControlConstants, Inv, NEW q, NEW c \in Offered, c.op = "Respond"
    PROVE  \/ /\ AnswerOf(c.run, c.event) # {}
              /\ \E x \in responses[c.run] : x.command = c /\ ReplyTo(q, c) = x.reply
           \/ /\ AnswerOf(c.run, c.event) = {} /\ run[c.run].wait = "open" /\ ~run[c.run].ended
              /\ c.matches /\ ~Conflicts(c.run, c.event) /\ ReplyTo(q, c) = Reply(c.run)
           \/ Hopeless(c) /\ \E why \in Why : ReplyTo(q, c) = Refused(why)
<1> DEFINE known == AnswerOf(c.run, c.event)
<1>1. ReplyTo(q, c) =
        (IF \E x \in known : x.command # c THEN Refused("ResponseConflict")
         ELSE IF known # {} THEN (CHOOSE x \in known : TRUE).reply
         ELSE IF run[c.run].wait # "open" \/ run[c.run].ended THEN Refused("WaitClosed")
         ELSE IF ~c.matches THEN Refused("WaitMismatch")
         ELSE IF Conflicts(c.run, c.event) THEN Refused("IdentityConflict")
         ELSE Reply(c.run))
  BY DEF ReplyTo
<1>2. known \subseteq responses[c.run] /\ \A x \in responses[c.run] : x.command = c => x \in known
  BY DEF AnswerOf
<1>3. c.run \in Run
  BY RespondRun
<1>4. \A x, y \in known : x = y
  BY <1>3 DEF Inv, AnsweredOnce, AnswerOf
<1>5. known # {} <=> AnswerOf(c.run, c.event) # {}
  OBVIOUS
<1> HIDE DEF known
<1>6. CASE \E x \in known : x.command # c
  <2>1. \A x \in responses[c.run] : x.command # c
    BY <1>2, <1>4, <1>6
  <2>2. Hopeless(c)
    BY <1>5, <1>6, <2>1 DEF Hopeless
  <2>3. ReplyTo(q, c) = Refused("ResponseConflict") /\ "ResponseConflict" \in Why
    BY <1>1, <1>6 DEF Why
  <2> QED BY <2>2, <2>3
<1>7. CASE known # {} /\ \A x \in known : x.command = c
  <2> PICK x : x = CHOOSE y \in known : TRUE
    OBVIOUS
  <2>1. x \in known
    BY <1>7
  <2>2. ReplyTo(q, c) = x.reply
    BY <1>1, <1>7
  <2> QED BY <1>2, <1>5, <1>7, <2>1, <2>2
<1>8. CASE known = {}
  <2>1. \A x \in responses[c.run] : x.command # c
    BY <1>2, <1>8
  <2>2. ReplyTo(q, c) =
          (IF run[c.run].wait # "open" \/ run[c.run].ended THEN Refused("WaitClosed")
           ELSE IF ~c.matches THEN Refused("WaitMismatch")
           ELSE IF Conflicts(c.run, c.event) THEN Refused("IdentityConflict")
           ELSE Reply(c.run))
    BY <1>1, <1>8
  <2>3. CASE run[c.run].wait # "open" \/ run[c.run].ended
    BY <2>1, <2>2, <2>3 DEF Hopeless, Why
  <2>4. CASE ~(run[c.run].wait # "open" \/ run[c.run].ended) /\ ~c.matches
    BY <2>1, <2>2, <2>4 DEF Hopeless, Why
  <2>5. CASE ~(run[c.run].wait # "open" \/ run[c.run].ended) /\ c.matches /\ Conflicts(c.run, c.event)
    BY <2>1, <2>2, <2>5 DEF Hopeless, Why
  <2>6. CASE /\ ~(run[c.run].wait # "open" \/ run[c.run].ended) /\ c.matches
             /\ ~Conflicts(c.run, c.event)
    BY <1>5, <1>8, <2>2, <2>6
  <2> QED BY <2>3, <2>4, <2>5, <2>6
<1> QED BY <1>6, <1>7, <1>8

\* The other commands are always applied.
LEMMA OtherReply ==
    ASSUME ControlConstants, NEW q, NEW c \in Offered, c.op # "Respond"
    PROVE  /\ \E b \in BOOLEAN : ReplyTo(q, c) = Reply(b)
           /\ c.op \in {"Cancel", "Hold", "Release", "Stop"}
           /\ c.op # "Stop" => c.run \in Run
<1>1. c.op \in {"Cancel", "Hold", "Release", "Stop"} /\ (c.op # "Stop" => c.run \in Run)
  BY DEF ControlConstants
<1>2. CASE c.op = "Cancel"
  <2> PICK b \in BOOLEAN : b = (~run[c.run].ended)
    OBVIOUS
  <2>1. ReplyTo(q, c) = Reply(b)
    BY <1>2 DEF ReplyTo
  <2> QED BY <1>1, <2>1
<1>3. CASE c.op = "Hold"
  <2> PICK b \in BOOLEAN : b = (SetHold(c.run, q.id) # run)
    OBVIOUS
  <2>1. ReplyTo(q, c) = Reply(b)
    BY <1>3 DEF ReplyTo
  <2> QED BY <1>1, <2>1
<1>4. CASE c.op = "Release"
  <2> PICK b \in BOOLEAN : b = (SetHold(c.run, None) # run)
    OBVIOUS
  <2>1. ReplyTo(q, c) = Reply(b)
    BY <1>4 DEF ReplyTo
  <2> QED BY <1>1, <2>1
<1>5. CASE c.op = "Stop"
  BY <1>5 DEF ReplyTo
<1> QED BY <1>1, <1>2, <1>3, <1>4, <1>5

LEMMA ReplyType ==
    ASSUME ControlConstants, Inv, NEW q, NEW c \in Offered
    PROVE  ReplyTo(q, c) \in Replies /\ (ReplyTo(q, c).ok => ReplyTo(q, c) \in Good)
<1>1. CASE c.op = "Respond"
  <2>1. c.run \in Run
    BY <1>1, RespondRun
  <2>2. \A x \in responses[c.run] : x.reply \in Good
    BY <2>1 DEF Inv, Typed, Entries
  <2>3. Reply(c.run) \in Good /\ \A why \in Why : Refused(why) \in Replies /\ ~Refused(why).ok
    BY <2>1 DEF Good, Replies, Reply, Refused
  <2> QED BY <1>1, <2>2, <2>3, RespondReply DEF Replies
<1>2. CASE c.op # "Respond"
  <2>1. \A b \in BOOLEAN : Reply(b) \in Good
    BY DEF Good, Reply
  <2> QED BY <1>2, <2>1, OtherReply DEF Replies
<1> QED BY <1>1, <1>2

\* What a command leaves of the rows.
LEMMA StoredRows ==
    ASSUME ControlConstants, Inv, NEW q \in Requests, NEW c \in Offered, Stores(q, c)
    PROVE  /\ run' \in [Run -> Rows] /\ (\A r \in Run : RowKept(r)) /\ NoOrphan'
           /\ c.op = "Cancel" => run'[c.run].ended
<1>1. CASE c.op = "Cancel"
  <2>1. run' = Ended(c.run) /\ c.run \in Run
    BY <1>1, OtherReply DEF Stores
  <2> QED BY <1>1, <2>1, EndedRows DEF Inv
<1>2. CASE c.op = "Hold" \/ c.op = "Release"
  <2>1. PICK hold \in Id \cup {None} : run' = SetHold(c.run, hold)
    BY <1>2 DEF Stores, Requests
  <2>2. c.run \in Run
    BY <1>2, OtherReply
  <2> QED BY <1>2, <2>1, <2>2, HeldRows, SameEnds DEF Inv
<1>3. CASE c.op = "Respond" /\ AnswerOf(c.run, c.event) = {}
  <2>1. c.run \in Run /\ c.event \in Event
    BY <1>3, RespondRun DEF Event
  <2>2. PICK r \in Run, e \in Event : r = c.run /\ e = c.event
    BY <2>1
  <2>3. run' = [run EXCEPT ![r].copies = Accepted(r, e)]
    BY <1>3, <2>2 DEF Stores
  <2>4. run' \in [Run -> Rows] /\ (\A s \in Run : RowKept(s)) /\ NoOrphan'
    BY <2>3, AcceptedRows
  <2> QED BY <1>3, <2>4
<1>4. CASE c.op = "Stop" \/ (c.op = "Respond" /\ AnswerOf(c.run, c.event) # {})
  <2>1. run' = run
    BY <1>4 DEF Stores
  <2> QED BY <1>4, <2>1, SameRows
<1>5. c.op \in {"Cancel", "Hold", "Release", "Stop", "Respond"}
  BY OtherReply
<1> QED BY <1>1, <1>2, <1>3, <1>4, <1>5

\* ... and of the answers.
LEMMA StoredAnswers ==
    ASSUME ControlConstants, Inv, NEW q \in Requests, NEW c \in Offered, Stores(q, c),
           ReplyTo(q, c).ok
    PROVE  /\ responses' \in [Run -> SUBSET Entries] /\ \A r \in Run : AnswersKept(r)
           /\ c.op = "Respond" =>
                 \E x \in responses'[c.run] : x.command = c /\ x.reply = ReplyTo(q, c)
<1> PICK rep : rep = ReplyTo(q, c)
  OBVIOUS
<1>1. rep \in Good
  BY ReplyType
<1>2. responses \in [Run -> SUBSET Entries]
  BY DEF Inv, Typed
<1> PICK n : n = [request |-> q, command |-> c, reply |-> rep]
  OBVIOUS
<1>3. n \in Entries /\ n.command = c /\ n.reply = rep
  BY <1>1 DEF Entries
<1>4. CASE c.op = "Respond" /\ AnswerOf(c.run, c.event) = {}
  <2>1. c.run \in Run
    BY <1>4, RespondRun
  <2>2. responses' = [responses EXCEPT ![c.run] = responses[c.run] \cup {n}]
    BY <1>4 DEF Stores
  <2>3. Fits(c.run, n)
    <3>1. \A why \in Why : ~Refused(why).ok
      BY DEF Refused
    <3>2. \A x \in responses[c.run] : x.command # c
      BY <1>4 DEF AnswerOf
    <3> QED BY <1>3, <1>4, <3>1, <3>2, RespondReply DEF Fits
  <2>4. \A r \in Run : AnswersKept(r)
    <3> TAKE r \in Run
    <3>1. CASE r = c.run
      BY <1>2, <1>3, <2>2, <2>3, <3>1 DEF AnswersKept
    <3>2. CASE r # c.run
      BY <1>2, <2>2, <3>2 DEF AnswersKept
    <3> QED BY <3>1, <3>2
  <2>5. responses' \in [Run -> SUBSET Entries] /\ n \in responses'[c.run]
    BY <1>2, <1>3, <2>1, <2>2
  <2> QED BY <1>3, <2>4, <2>5
<1>5. CASE ~(c.op = "Respond" /\ AnswerOf(c.run, c.event) = {})
  <2>1. responses' = responses
    BY <1>5 DEF Stores
  <2>2. \A r \in Run : AnswersKept(r)
    BY <2>1 DEF AnswersKept
  <2>3. c.op = "Respond" => \E x \in responses'[c.run] : x.command = c /\ x.reply = rep
    <3>1. \A why \in Why : ~Refused(why).ok
      BY DEF Refused
    <3> QED BY <1>5, <2>1, <3>1, RespondReply
  <2> QED BY <1>2, <2>1, <2>2, <2>3
<1> QED BY <1>4, <1>5

LEMMA Appended ==
    ASSUME NEW seq \in Seq(Id), NEW i \in Id
    PROVE  /\ Append(seq, i) \in Seq(Id)
           /\ \A j \in Id : In(Append(seq, i), j) <=> In(seq, j) \/ j = i
           /\ Distinct(seq) /\ ~In(seq, i) => Distinct(Append(seq, i))
<1> PICK new : new = Append(seq, i)
  OBVIOUS
<1>1. /\ new \in Seq(Id) /\ DOMAIN seq = 1 .. Len(seq) /\ DOMAIN new = 1 .. Len(seq) + 1
      /\ Len(seq) \in Nat /\ new[Len(seq) + 1] = i /\ \A n \in DOMAIN seq : new[n] = seq[n]
  OBVIOUS
<1>2. ASSUME NEW j \in Id PROVE In(new, j) <=> In(seq, j) \/ j = i
  <2>1. In(new, j) => In(seq, j) \/ j = i
    BY <1>1 DEF In
  <2>2. In(seq, j) => In(new, j)
    BY <1>1 DEF In
  <2>3. In(new, i)
    BY <1>1 DEF In
  <2> QED BY <2>1, <2>2, <2>3
<1>3. Distinct(seq) /\ ~In(seq, i) => Distinct(new)
  BY <1>1 DEF Distinct, In
<1> QED BY <1>1, <1>2, <1>3

\* A request that is refused leaves nothing.
LEMMA RefusedStep ==
    ASSUME ControlConstants, Inv, NEW p \in Caller, ApplyNew(p),
           ~ReplyTo(caller[p].request, caller[p].command).ok
    PROVE  Inv'
<1> PICK q, c : q = caller[p].request /\ c = caller[p].command
  OBVIOUS
<1>1. q \in Requests /\ c \in Offered
  BY CallerShape DEF Inv, ApplyNew
<1> PICK rep : rep = ReplyTo(q, c)
  OBVIOUS
<1>2. rep \in Replies /\ ~rep.ok
  BY <1>1, ReplyType
<1> PICK v : v = [at |-> "answers", request |-> q, command |-> c, reply |-> rep, repeated |-> FALSE]
  OBVIOUS
<1>3. v \in Callers
  BY <1>1, <1>2 DEF Callers
<1>4. /\ caller' = [caller EXCEPT ![p] = v]
      /\ UNCHANGED <<run, responses, entries, history, effects, reported, told>>
  BY <1>2 DEF ApplyNew
<1>5. caller'[p] = v
  BY <1>4 DEF Inv, Typed
<1>6. ReportsOnce'
  BY <1>4, NoReport
<1>7. run' \in [Run -> Rows] /\ (\A r \in Run : RowKept(r)) /\ NoOrphan'
  BY <1>4, SameRows
<1>8. Grows
  BY <1>4, <1>7 DEF Grows, AnswersKept
<1>9. c.op = "Respond" => Hopeless(c)'
  <2> SUFFICES ASSUME c.op = "Respond" PROVE Hopeless(c)'
    OBVIOUS
  <2>1. \A x \in responses[c.run] : x.reply.ok
    <3>1. c.run \in Run
      BY <1>1, RespondRun
    <3>2. \A x \in responses[c.run] : x \in Entries
      BY <3>1 DEF Inv, Typed
    <3>3. \A x \in Entries : x.reply \in Good
      BY DEF Entries
    <3>4. \A g \in Good : g.ok
      BY DEF Good
    <3> QED BY <3>2, <3>3, <3>4
  <2>2. Reply(c.run).ok
    BY DEF Reply
  <2>3. Hopeless(c)
    BY <1>1, <1>2, <2>1, <2>2, RespondReply
  <2> QED BY <1>1, <1>8, <2>3, HopelessKept
<1>10. CallerKnows(p)'
  BY <1>2, <1>5, <1>9 DEF CallerKnows, Given, FiredFor
<1>11. reported' \in [Id -> Nat] /\ told' \in SUBSET Answers /\ told' \ told = {}
  BY <1>4 DEF Inv, Typed
<1> QED BY <1>3, <1>4, <1>6, <1>7, <1>10, <1>11, CallerStep

\* A request that is applied is in the journal with what it stored.
LEMMA AppliedStep ==
    ASSUME ControlConstants, Inv, NEW p \in Caller, ApplyNew(p),
           ReplyTo(caller[p].request, caller[p].command).ok
    PROVE  Inv'
<1> PICK q, c : q = caller[p].request /\ c = caller[p].command
  OBVIOUS
<1>1. q \in Requests /\ c \in Offered
  BY CallerShape DEF Inv, ApplyNew
<1> PICK i \in Id : i = q.id
  BY <1>1 DEF Requests
<1> PICK rep : rep = ReplyTo(q, c)
  OBVIOUS
<1>2. rep \in Good /\ rep.ok /\ rep \in Replies
  BY <1>1, ReplyType
<1> PICK v : v = [at |-> "applied", request |-> q, command |-> c, reply |-> rep, repeated |-> FALSE]
  OBVIOUS
<1> PICK e : e = [request |-> q, command |-> c, reply |-> rep]
  OBVIOUS
<1>3. v \in Callers /\ e \in Entries
  BY <1>1, <1>2 DEF Callers, Entries
<1>4. /\ caller' = [caller EXCEPT ![p] = v]
      /\ Stores(q, c) /\ entries' = [entries EXCEPT ![i] = e] /\ entries[i] = None
      /\ history' = Append(history, i)
      /\ effects' = IF Changes(rep) THEN Append(effects, i) ELSE effects
      /\ reported' = reported /\ told' = told
  BY <1>2 DEF ApplyNew, Known
<1>5. /\ caller'[p] = v /\ entries'[i] = e
      /\ \A o \in Caller : o # p => caller'[o] = caller[o]
      /\ \A j \in Id : j # i => entries'[j] = entries[j]
  BY <1>4 DEF Inv, Typed
<1>6. /\ run' \in [Run -> Rows] /\ (\A r \in Run : RowKept(r)) /\ NoOrphan'
      /\ c.op = "Cancel" => run'[c.run].ended
  BY <1>1, <1>4, StoredRows
<1>7. /\ responses' \in [Run -> SUBSET Entries] /\ \A r \in Run : AnswersKept(r)
      /\ c.op = "Respond" => \E x \in responses'[c.run] : x.command = c /\ x.reply = rep
  BY <1>1, <1>2, <1>4, StoredAnswers
<1>8. Grows
  BY <1>4, <1>5, <1>6, <1>7 DEF Grows
<1>9. ~In(history, i) /\ ~In(effects, i)
  BY <1>4 DEF Inv, Listed
<1>10. /\ history' \in Seq(Id) /\ effects' \in Seq(Id) /\ Distinct(history') /\ Distinct(effects')
       /\ \A j \in Id : In(history', j) <=> In(history, j) \/ j = i
       /\ \A j \in Id : In(effects, j) => In(effects', j)
       /\ \A j \in Id : In(effects', j) => In(effects, j) \/ j = i
       /\ Changes(rep) => In(effects', i)
  <2>1. history \in Seq(Id) /\ effects \in Seq(Id) /\ Distinct(history) /\ Distinct(effects)
    BY DEF Inv, Typed, Listed
  <2> QED BY <1>4, <1>9, <2>1, Appended
<1>11. Typed'
  <2>1. entries' \in [Id -> Entries \cup {None}] /\ caller' \in [Caller -> Callers]
    BY <1>3, <1>4 DEF Inv, Typed
  <2>2. reported' \in [Id -> Nat] /\ told' \in SUBSET Answers
    BY <1>4 DEF Inv, Typed
  <2> QED BY <1>6, <1>7, <1>10, <2>1, <2>2 DEF Typed
<1>12. Listed'
  <2>1. \A j \in Id : In(history', j) <=> entries'[j] # None
    BY <1>3, <1>5, <1>10, EntryNotNone DEF Inv, Listed
  <2>2. \A j \in Id : In(effects', j) => In(history', j)
    BY <1>10 DEF Inv, Listed
  <2> QED BY <1>10, <2>1, <2>2 DEF Listed, In, Distinct
<1>13. ReportsOnce'
  <2>1. ASSUME NEW o \in Caller, ToReport(o)', o # p
        PROVE  ToReport(o) /\ caller[o].request.id \in Id \ {i}
    <3>1. ToReport(o)
      BY <1>5, <2>1 DEF ToReport
    <3>2. /\ caller[o].request \in Requests /\ caller[o].command \in Offered
          /\ caller[o].reply \in Replies
      BY <3>1, CallerShape DEF Inv, ToReport
    <3>3. Given(caller[o]) /\ caller[o].reply.ok
      BY <3>1 DEF Inv, CallerKnows, ToReport
    <3>4. caller[o].request.id \in Id /\ entries[caller[o].request.id] \in Entries
      BY <3>2, <3>3, GivenEntry DEF Inv
    <3> QED BY <1>4, <3>1, <3>4, EntryNotNone
  <2>2. reported'[i] = 0
    BY <1>4, <1>9 DEF Inv, ReportsOnce, Typed
  <2>3. \A j \in Id : reported'[j] <= 1 /\ (reported'[j] = 1 => In(effects', j))
    BY <1>4, <1>10 DEF Inv, ReportsOnce
  <2>4. caller'[p].request.id = i
    BY <1>5
  <2>5. Reports(caller'[p]) => In(effects', i)
    <3>1. Reports(v) => Changes(rep)
      BY <1>2 DEF Reports, Changes
    <3> QED BY <1>5, <1>10, <3>1 DEF Reports
  <2>6. ASSUME NEW o \in Caller, ToReport(o)'
        PROVE  /\ reported'[caller'[o].request.id] = 0
               /\ Reports(caller'[o]) => In(effects', caller'[o].request.id)
               /\ \A x \in Caller : ToReport(x)' /\ caller'[x].request.id = caller'[o].request.id
                     => x = o
    <3>1. CASE o = p
      BY <1>5, <2>1, <2>2, <2>4, <2>5, <3>1
    <3>2. CASE o # p
      <4>1. ToReport(o) /\ caller'[o] = caller[o] /\ caller[o].request.id \in Id \ {i}
        BY <1>5, <2>1, <2>6, <3>2
      <4>2. reported[caller[o].request.id] = 0
            /\ (Reports(caller[o]) => In(effects, caller[o].request.id))
        BY <4>1 DEF Inv, ReportsOnce
      <4>3. reported'[caller'[o].request.id] = 0
        BY <1>4, <4>1, <4>2
      <4>4. Reports(caller'[o]) => In(effects', caller'[o].request.id)
        BY <1>10, <4>1, <4>2
      <4>5. ASSUME NEW x \in Caller, ToReport(x)', caller'[x].request.id = caller'[o].request.id
            PROVE  x = o
        <5>1. x # p
          BY <2>4, <4>1, <4>5
        <5>2. ToReport(x) /\ caller'[x] = caller[x]
          BY <1>5, <2>1, <4>5, <5>1
        <5> QED BY <4>1, <4>5, <5>2 DEF Inv, ReportsOnce
      <4> QED BY <4>3, <4>4, <4>5
    <3> QED BY <3>1, <3>2
  <2> QED BY <2>3, <2>6 DEF ReportsOnce, In, Reports, ToReport
<1>14. ASSUME NEW j \in Id, entries'[j] # None PROVE EntryHolds(j)'
  <2>1. CASE j # i
    BY <1>5, <1>8, <1>14, <2>1, Stays
  <2>2. CASE j = i
    <3>1. e.request.id = i /\ e.command = c /\ e.reply = rep
      OBVIOUS
    <3> QED BY <1>5, <1>6, <1>7, <2>2, <3>1 DEF EntryHolds
  <2> QED BY <2>1, <2>2
<1>15. ASSUME NEW o \in Caller PROVE CallerKnows(o)'
  <2>1. CASE o # p
    BY <1>5, <1>8, <2>1, Stays
  <2>2. CASE o = p
    <3>1. v.at = "applied" /\ v.reply.ok /\ v.request.id = i
      BY <1>2
    <3>2. Given(v)'
      BY <1>2, <1>5, <3>1 DEF Given
    <3> QED BY <1>5, <2>2, <3>1, <3>2 DEF CallerKnows, Given
  <2> QED BY <2>1, <2>2
<1>16. (\A r \in Run : AnsweredOnce(r)') /\ \A s \in told' : Given(s)' /\ FiredFor(s)'
  BY <1>4, <1>8, Stays
<1> QED BY <1>6, <1>11, <1>12, <1>13, <1>14, <1>15, <1>16 DEF Inv

-----------------------------------------------------------------------------
(* The theorems.                                                           *)

LEMMA InitInv == ASSUME ControlConstants, Init PROVE Inv
<1>1. run \in [Run -> Rows] /\ \A r \in Run : ~run[r].ended
  BY DEF Init, Rows
<1>2. /\ \A p \in Caller : caller[p].at = "idle"
      /\ \A i \in Id : entries[i] = None /\ reported[i] = 0
      /\ \A r \in Run : responses[r] = {}
      /\ told = {} /\ history = <<>> /\ effects = <<>>
  BY DEF Init, Idle
<1>3. Typed
  <2>1. /\ entries \in [Id -> Entries \cup {None}] /\ responses \in [Run -> SUBSET Entries]
        /\ caller \in [Caller -> Callers] /\ reported \in [Id -> Nat]
    BY DEF Init, Callers
  <2>2. history \in Seq(Id) /\ effects \in Seq(Id) /\ told \in SUBSET Answers
    BY <1>2
  <2> QED BY <1>1, <2>1, <2>2 DEF Typed
<1>4. NoOrphan
  BY <1>1 DEF NoOrphan, ControlConstants
<1>5. Listed
  BY <1>2 DEF Listed, In, Distinct
<1>6. ReportsOnce
  BY <1>2 DEF ReportsOnce, ToReport
<1>7. /\ \A r \in Run : AnsweredOnce(r)
      /\ \A p \in Caller : CallerKnows(p)
  BY <1>2 DEF AnsweredOnce, CallerKnows
<1> QED BY <1>2, <1>3, <1>4, <1>5, <1>6, <1>7 DEF Inv

LEMMA StutterStep == ASSUME ControlConstants, Inv, UNCHANGED vars PROVE Inv'
<1>1. UNCHANGED <<run, entries, responses, caller, history, effects, reported, told>>
  BY DEF vars
<1> QED BY <1>1, SameRows, RowsStep

LEMMA NextInv == ASSUME ControlConstants, Inv, [Next]_vars PROVE Inv'
<1>1. ASSUME NEW p \in Caller, ApplyNew(p) PROVE Inv'
  BY <1>1, RefusedStep, AppliedStep
<1> QED BY <1>1, StutterStep, AskStep, ApplyAgainStep, FollowStep, AnswerStep, LoseStep,
           EndStep, CloseStep, ForgetStep, DeliverStep DEF Next

THEOREM Invariance == ASSUME ControlConstants PROVE Spec => []Inv
<1>1. Init => Inv
  BY InitInv
<1>2. Inv /\ [Next]_vars => Inv'
  BY NextInv
<1> QED BY <1>1, <1>2, PTL DEF Spec

\* A request's command changes something at most once, however often and by
\* whomever it is sent again (control_command's entry is in the command's own
\* commit).
THEOREM Effects == ASSUME ControlConstants PROVE Spec => []EffectOnce
<1>1. Inv => EffectOnce
  <2> SUFFICES ASSUME Inv PROVE EffectOnce
    OBVIOUS
  <2>1. \A n \in DOMAIN effects : effects[n] \in Id
    BY DEF Inv, Typed
  <2> QED BY <2>1 DEF Inv, Listed, In, Distinct, EffectOnce
<1> QED BY <1>1, Invariance, PTL

\* Every caller of one request is told the same reply, whenever it asks.
THEOREM Agreement == ASSUME ControlConstants PROVE Spec => []OneReply
<1>1. Inv => OneReply
  <2> SUFFICES ASSUME Inv, NEW s \in told, NEW t \in told, s.reply.ok, t.reply.ok,
                      s.request.id = t.request.id
               PROVE  s = t
    BY DEF OneReply
  <2>1. s \in Answers /\ t \in Answers
    BY DEF Inv, Typed
  <2>2. Given(s) /\ Given(t)
    BY DEF Inv
  <2>3. /\ entries[s.request.id].request = s.request /\ entries[s.request.id].command = s.command
        /\ entries[s.request.id].reply = s.reply
        /\ entries[t.request.id].request = t.request /\ entries[t.request.id].command = t.command
        /\ entries[t.request.id].reply = t.reply
    BY <2>1, <2>2, GivenEntry DEF Inv, Answers
  <2>4. s.request = t.request /\ s.command = t.command /\ s.reply = t.reply
    BY <2>3
  <2> QED BY <2>1, <2>4 DEF Answers
<1> QED BY <1>1, Invariance, PTL

\* A run is answered once with an event: who repeats the answer is told the
\* first reply, and another payload or wait under its identity is refused
\* (control_response, kept when the copy is swept).
THEOREM Responses == ASSUME ControlConstants PROVE Spec => []OneAnswer
<1>1. Inv => OneAnswer
  <2> SUFFICES ASSUME Inv, NEW s \in told, NEW t \in told,
                      s.command.op = "Respond", t.command.op = "Respond",
                      s.command.run = t.command.run,
                      s.command.event.id = t.command.event.id, s.reply.ok
               PROVE  IF t.command = s.command
                      THEN t.reply \in {s.reply, Refused("RequestConflict")}
                      ELSE ~t.reply.ok
    BY DEF OneAnswer
  <2>1. ASSUME NEW a \in told, a.command.op = "Respond", a.reply.ok
        PROVE  a.command.run \in Run
               /\ \E x \in responses[a.command.run] : x.command = a.command /\ x.reply = a.reply
    <3>1. a.request \in Requests /\ a.command \in Offered /\ a.reply \in Replies
      BY DEF Inv, Typed, Answers
    <3>2. /\ a.request.id \in Id /\ entries[a.request.id] \in Entries
          /\ entries[a.request.id].command = a.command /\ entries[a.request.id].reply = a.reply
      BY <2>1, <3>1, GivenEntry DEF Inv
    <3>3. EntryHolds(a.request.id)
      BY <3>2, EntryNotNone DEF Inv
    <3>4. a.command.run \in Run
      BY <2>1, <3>1, RespondRun
    <3> QED BY <2>1, <3>2, <3>3, <3>4 DEF EntryHolds
  <2>2. PICK x \in responses[s.command.run] : x.command = s.command /\ x.reply = s.reply
    BY <2>1
  <2>3. s.command.run \in Run
    BY <2>1
  <2>4. CASE t.reply.ok
    <3>1. PICK y \in responses[s.command.run] : y.command = t.command /\ y.reply = t.reply
      BY <2>1, <2>4
    <3>2. y.command.event.id = x.command.event.id
      BY <2>2, <3>1
    <3>3. y = x
      BY <2>3, <3>2 DEF Inv, AnsweredOnce
    <3> QED BY <2>2, <3>1, <3>3
  <2>5. CASE ~t.reply.ok
    <3>1. t.reply = Refused("RequestConflict") \/ Hopeless(t.command)
      BY <2>5 DEF Inv, Given
    <3>2. ASSUME t.command = s.command PROVE ~Hopeless(t.command)
      BY <2>2, <3>2 DEF Hopeless
    <3> QED BY <2>5, <3>1, <3>2
  <2> QED BY <2>4, <2>5
<1> QED BY <1>1, Invariance, PTL

\* A hold or a release is reported at most once, and only if it changed
\* something (Applied::repeated).
THEOREM Reporting == ASSUME ControlConstants PROVE Spec => []ReportedOnce
<1>1. Inv => ReportedOnce
  BY DEF Inv, ReportsOnce, In, ReportedOnce
<1> QED BY <1>1, Invariance, PTL

\* A caller that was told its cancel was applied finds the tree ended and the
\* tokens of this process fired, lost answers in between included
\* (signal_cancelled).
THEOREM Signalling == ASSUME ControlConstants PROVE Spec => []CancelIsSignalled
<1>1. Inv => CancelIsSignalled
  BY DEF Inv, FiredFor, Fired, CancelIsSignalled
<1> QED BY <1>1, Invariance, PTL

\* Whatever callers ask, repeat and lose, the control plane keeps what it
\* promises them: one effect, one reply, one answer, one report, and tokens
\* that fired (control, control_response, signal_cancelled).
THEOREM ControlSafety == ASSUME ControlConstants PROVE Spec => []ControlIsSound
<1>1. EffectOnce /\ OneReply /\ OneAnswer /\ ReportedOnce /\ CancelIsSignalled => ControlIsSound
  BY DEF ControlIsSound
<1> QED BY <1>1, Effects, Agreement, Responses, Reporting, Signalling, PTL

-----------------------------------------------------------------------------
(* Budget.  The instance's finite sets are the ones of the theorems.       *)

LEMMA SameSets ==
    ASSUME NEW S
    PROVE  (Tree!IsFiniteSet(S) <=> IsFiniteSet(S)) /\ Tree!Cardinality(S) = Cardinality(S)
BY DEF Tree!IsFiniteSet, IsFiniteSet, Tree!Cardinality, Cardinality

\* A finite set of numbers that is not empty has a greatest.
LEMMA GreatestNat ==
    ASSUME NEW S \in SUBSET Nat, IsFiniteSet(S), S # {}
    PROVE  Tree!Max(S) \in S /\ \A n \in S : n <= Tree!Max(S)
<1> DEFINE Above(n) == {m \in S : m > n}
           T == {Above(n) : n \in S}
<1>1. T \subseteq FiniteSubsetsOf(Nat) /\ T # {}
  <2>1. \A n \in S : IsFiniteSet(Above(n)) /\ Above(n) \in SUBSET Nat
    BY FS_Subset
  <2> QED BY <2>1 DEF FiniteSubsetsOf
<1>2. PICK x \in T : \A y \in T : ~(<<y, x>> \in StrictSubsetOrdering(Nat))
  <2> HIDE DEF T
  <2> QED BY <1>1, FS_StrictSubsetOrderingWellFounded, WFMin
<1>3. PICK n \in S : x = Above(n)
  OBVIOUS
<1>4. ASSUME NEW m \in S, m > n PROVE FALSE
  <2>1. <<Above(m), Above(n)>> \in StrictSubsetOrdering(Nat)
    <3>1. Above(m) \subseteq Above(n) /\ m \in Above(n) /\ m \notin Above(m)
      <4>1. \A k \in S : k > m => k > n
        BY <1>4
      <4>2. ~(m > m)
        OBVIOUS
      <4> QED BY <4>1, <4>2, <1>4
    <3>2. Above(m) \in SUBSET Nat /\ Above(n) \in SUBSET Nat
      OBVIOUS
    <3> HIDE DEF Above
    <3> QED BY <3>1, <3>2 DEF StrictSubsetOrdering
  <2> QED BY <1>2, <1>3, <2>1
<1>5. \E k \in S : \A m \in S : k >= m
  BY <1>4
<1> QED BY <1>5 DEF Tree!Max

LEMMA LargestLimit ==
    ASSUME Tree!BudgetConstants
    PROVE  Tree!MaxJumps \in Nat /\ \A r \in Run : Limit[r] <= Tree!MaxJumps
<1> DEFINE S == {Limit[r] : r \in Run}
<1>1. S \in SUBSET Nat /\ S # {}
  BY DEF Tree!BudgetConstants
<1>2. IsFiniteSet(S)
  <2>1. Limit \in Surjection(Run, S)
    BY DEF Surjection, Tree!BudgetConstants
  <2> HIDE DEF S
  <2> QED BY <2>1, FS_Surjection, SameSets DEF Tree!BudgetConstants
<1> HIDE DEF S
<1>3. Tree!Max(S) \in S /\ \A n \in S : n <= Tree!Max(S)
  BY <1>1, <1>2, GreatestNat
<1> QED BY <1>1, <1>3 DEF S, Tree!MaxJumps

-----------------------------------------------------------------------------
(* The inductive invariant of a tree's budget.                             *)

Decisions(r) == [granted : BOOLEAN, spent : Nat, first : Tree!Keys(r) \cup {None}]

Members(r) == [state : {"absent", "ready", "running", "ended"},
            ended : Nat \cup {None}, first : Tree!Keys(r) \cup {None},
            at : [Branches[r] -> 0 .. Tree!MaxJumps + 1]]

\* The shape of every row.
TreeTyped ==
    /\ member = [r \in Run |-> member[r]] /\ records = [r \in Run |-> records[r]]
    /\ \A r \in Run : /\ member[r] \in Members(r)
                      /\ records[r] \in [Tree!Keys(r) -> Decisions(r) \cup {None}]
    /\ budget \in 0..Tree!MaxJumps /\ crashes \in 0..Crashes /\ counted \in [Run -> Nat]

\* The row is the number of units granted until the root ends, which ends all.
RowCounts ==
    /\ IsFiniteSet(grants) /\ Cardinality(grants) <= Tree!MaxJumps
    /\ member[Root].state # "ended" => budget = Cardinality(grants)
    /\ member[Root].state = "ended" => \A r \in Run : ~Tree!Live(r)

Denied(r, k) == records[r][k] # None /\ ~records[r][k].granted

\* A record says what was granted, and stays until its run has ended.
RecordsTell(r) ==
    \A k \in Tree!Keys(r) :
        /\ Tree!Decided(r, k) =>
              /\ records[r][k].granted <=> <<r, k>> \in grants
              /\ records[r][k].granted => records[r][k].spent <= Limit[r]
        /\ <<r, k>> \in grants => Tree!Decided(r, k) \/ member[r].state = "ended"

\* The run's first refusal is recorded, and every refusal names it.
RefusalsAgree(r) ==
    /\ \A k \in Tree!Keys(r) :
          Denied(r, k) => records[r][k].first = member[r].first /\ member[r].first # None
    /\ member[r].first # None => Denied(r, member[r].first)

\* A branch went through each of its positions by a unit granted there.
PlacesPaid(r) ==
    \A b \in Branches[r] : \A m \in 1 .. member[r].at[b] - 1 : <<r, <<b, m>>>> \in grants

\* A run that ended noted what the tree had spent, and no other did.
EndsNoted(r) ==
    IF member[r].state = "ended" THEN member[r].ended = counted[r] ELSE member[r].ended = None

RunInv(r) == RecordsTell(r) /\ RefusalsAgree(r) /\ PlacesPaid(r) /\ EndsNoted(r)

TreeInv == TreeTyped /\ RowCounts /\ \A r \in Run : RunInv(r)

-----------------------------------------------------------------------------
\* None is no key, no number and no decision.
LEMMA NoneIsNone ==
    ASSUME Tree!BudgetConstants, NEW r \in Run
    PROVE  None \notin Tree!Keys(r) /\ None \notin Decisions(r) /\ None \notin Nat
<1>1. Tree!Keys(r) \subseteq Branches[r] \X Nat
  BY LargestLimit DEF Tree!Keys
<1>2. None \notin Branches[r] \X Nat
  BY DEF Tree!BudgetConstants
<1>3. Decisions(r) \subseteq [granted : BOOLEAN, spent : Nat, first : (Branches[r] \X Nat) \cup {None}]
  BY <1>1 DEF Decisions
<1>4. None \notin [granted : BOOLEAN, spent : Nat, first : (Branches[r] \X Nat) \cup {None}]
  BY DEF Tree!BudgetConstants
<1> QED BY <1>1, <1>2, <1>3, <1>4 DEF Tree!BudgetConstants

Paid(r, b, n, units) == \A m \in 1..n : <<r, <<b, m>>>> \in units

\* A branch that paid for its first n positions has taken n units.
LEMMA PaidPlaces ==
    ASSUME NEW r, NEW b, NEW n \in Nat, NEW S, IsFiniteSet(S), Paid(r, b, n, S)
    PROVE  Cardinality(S) \in Nat /\ n <= Cardinality(S)
<1> DEFINE f == [m \in 1..n |-> <<r, <<b, m>>>>]
<1>1. f \in Injection(1..n, S)
  BY DEF Injection, IsInjective, Paid
<1>2. IsFiniteSet(1..n) /\ Cardinality(1..n) = n
  BY FS_Interval
<1> HIDE DEF f
<1> QED BY <1>1, <1>2, FS_Injection, FS_CardinalityType

\* While a run is live the row is the number of units granted.
LEMMA LiveCounts ==
    ASSUME TreeInv, NEW r \in Run, Tree!Live(r)
    PROVE  member[Root].state # "ended" /\ budget = Cardinality(grants)
BY DEF TreeInv, RowCounts

LEMMA InitTree == ASSUME Tree!BudgetConstants, Tree!Init PROVE TreeInv
<1>1. Tree!MaxJumps \in Nat
  BY LargestLimit
<1>2. TreeTyped
  BY <1>1 DEF Tree!Init, TreeTyped, Members, Tree!Restarted, Tree!BudgetConstants
<1>3. RowCounts
  BY <1>1, FS_EmptySet DEF Tree!Init, RowCounts, Tree!BudgetConstants
<1>4. ASSUME NEW r \in Run PROVE RunInv(r)
  <2>1. /\ member[r].first = None /\ member[r].ended = None /\ member[r].state # "ended"
        /\ member[r].at = Tree!Restarted(r)
    BY DEF Tree!Init
  <2>2. grants = {} /\ \A k \in Tree!Keys(r) : records[r][k] = None
    BY DEF Tree!Init
  <2>3. PlacesPaid(r)
    BY <2>1 DEF PlacesPaid, Tree!Restarted
  <2> QED BY <2>1, <2>2, <2>3
          DEF RunInv, RecordsTell, RefusalsAgree, Denied, Tree!Decided, EndsNoted
<1> QED BY <1>2, <1>3, <1>4 DEF TreeInv

-----------------------------------------------------------------------------
\* A step that leaves a run's rows and units alone keeps what is said of it.
LEMMA SameRun ==
    ASSUME NEW r \in Run, RunInv(r), member'[r] = member[r], records'[r] = records[r],
           counted'[r] = counted[r],
           \A k : <<r, k>> \in grants' <=> <<r, k>> \in grants
    PROVE  RunInv(r)'
<1>1. RecordsTell(r)'
  BY DEF RunInv, RecordsTell, Tree!Decided
<1>2. RefusalsAgree(r)' /\ EndsNoted(r)' /\ PlacesPaid(r)'
  BY DEF RunInv, RefusalsAgree, Denied, EndsNoted, PlacesPaid
<1> QED BY <1>1, <1>2 DEF RunInv

\* A step of one run's own place: it is claimed, it dies, it starts or it
\* goes through a decision there is.
LEMMA PlaceStep ==
    ASSUME Tree!BudgetConstants, TreeInv, NEW r \in Run, NEW t \in Members(r),
           member' = [member EXCEPT ![r] = t],
           t.ended = member[r].ended, t.first = member[r].first,
           t.state # "ended", member[r].state # "ended",
           Tree!Live(r) \/ member[Root].state # "ended",
           \A b \in Branches[r] : \A m \in 1 .. t.at[b] - 1 : <<r, <<b, m>>>> \in grants,
           UNCHANGED <<records, budget, grants, counted>>,
           crashes' \in 0..Crashes
    PROVE  TreeInv'
<1>1. member'[r] = t /\ \A s \in Run \ {r} : member'[s] = member[s]
  BY DEF TreeInv, TreeTyped
<1>2. member[Root].state # "ended" /\ member'[Root].state # "ended"
  BY <1>1, LiveCounts DEF Tree!BudgetConstants
<1>3. TreeTyped'
  <2>1. member' = [s \in Run |-> member'[s]]
    BY DEF TreeInv, TreeTyped
  <2>2. \A s \in Run : member'[s] \in Members(s)
    BY <1>1 DEF TreeInv, TreeTyped
  <2> QED BY <2>1, <2>2 DEF TreeInv, TreeTyped, Members, Decisions
<1>4. RowCounts'
  BY <1>2 DEF TreeInv, RowCounts
<1>5. ASSUME NEW s \in Run PROVE RunInv(s)'
  <2>1. CASE s # r
    BY <1>1, <2>1, SameRun DEF TreeInv
  <2>2. CASE s = r
    <3>1. RecordsTell(r)'
      BY <1>1 DEF TreeInv, RunInv, RecordsTell, Tree!Decided
    <3>2. RefusalsAgree(r)' /\ EndsNoted(r)' /\ PlacesPaid(r)'
      BY <1>1 DEF TreeInv, RunInv, RefusalsAgree, Denied, EndsNoted, PlacesPaid
    <3> QED BY <2>2, <3>1, <3>2 DEF RunInv
  <2> QED BY <2>1, <2>2
<1> QED BY <1>3, <1>4, <1>5 DEF TreeInv

LEMMA BeginStep ==
    ASSUME Tree!BudgetConstants, TreeInv, NEW r \in Run,
           Tree!Claim(r) \/ Tree!Crash(r) \/ Tree!StartChild(r)
    PROVE  TreeInv'
<1>0. Tree!MaxJumps \in Nat /\ Crashes \in Nat
  BY LargestLimit DEF Tree!BudgetConstants
<1>1. member[r] \in Members(r) /\ crashes \in 0..Crashes
  BY DEF TreeInv, TreeTyped
<1>2. PICK t : /\ member' = [member EXCEPT ![r] = t]
               /\ \/ t = [member[r] EXCEPT !.state = "running", !.at = Tree!Restarted(r)]
                  \/ t = [member[r] EXCEPT !.state = "ready"]
  BY DEF Tree!Claim, Tree!Crash, Tree!StartChild
<1>3. t \in Members(r)
  <2>1. Tree!Restarted(r) \in [Branches[r] -> 0 .. Tree!MaxJumps + 1]
    BY <1>0 DEF Tree!Restarted
  <2> QED BY <1>1, <1>2, <2>1 DEF Members
<1>4. \A b \in Branches[r] : \A m \in 1 .. t.at[b] - 1 : <<r, <<b, m>>>> \in grants
  <2>1. t.at = member[r].at \/ t.at = Tree!Restarted(r)
    BY <1>1, <1>2 DEF Members
  <2>2. CASE t.at = member[r].at
    BY <2>2 DEF TreeInv, RunInv, PlacesPaid
  <2>3. CASE t.at = Tree!Restarted(r)
    BY <2>3 DEF Tree!Restarted
  <2> QED BY <2>1, <2>2, <2>3
<1>5. t.ended = member[r].ended /\ t.first = member[r].first /\ t.state # "ended"
  BY <1>1, <1>2 DEF Members
<1>6. member[r].state # "ended" /\ (Tree!Live(r) \/ member[Root].state # "ended")
  BY DEF Tree!Claim, Tree!Crash, Tree!StartChild, Tree!Live
<1>7. UNCHANGED <<records, budget, grants, counted>> /\ crashes' \in 0..Crashes
  BY <1>0, <1>1 DEF Tree!Claim, Tree!Crash, Tree!StartChild
<1> QED BY <1>2, <1>3, <1>4, <1>5, <1>6, <1>7, PlaceStep

LEMMA RestoreStep ==
    ASSUME Tree!BudgetConstants, TreeInv, NEW r \in Run, NEW b \in Branches[r], Tree!Restore(r, b)
    PROVE  TreeInv'
<1>0. Tree!MaxJumps \in Nat
  BY LargestLimit
<1>1. member[r] \in Members(r) /\ records[r] \in [Tree!Keys(r) -> Decisions(r) \cup {None}]
  BY DEF TreeInv, TreeTyped
<1>2. PICK n \in 1 .. Tree!MaxJumps + 1 : member[r].at[b] = n
  BY DEF Tree!Restore
<1>3. PICK d \in Decisions(r) : d = records[r][<<b, n>>]
  BY <1>1, <1>2 DEF Tree!Restore, Tree!Decided, Tree!Keys
<1>4. d.granted => <<r, <<b, n>>>> \in grants
  BY <1>2, <1>3 DEF Tree!Restore, TreeInv, RunInv, RecordsTell, Tree!Keys
<1>5. \A m \in 1 .. n - 1 : <<r, <<b, m>>>> \in grants
  BY <1>2 DEF TreeInv, RunInv, PlacesPaid
<1>6. d.granted => (\A m \in 1 .. n : <<r, <<b, m>>>> \in grants) /\ n <= Tree!MaxJumps
  <2> SUFFICES ASSUME d.granted
               PROVE  (\A m \in 1 .. n : <<r, <<b, m>>>> \in grants) /\ n <= Tree!MaxJumps
    OBVIOUS
  <2>1. \A m \in 1 .. n : <<r, <<b, m>>>> \in grants
    BY <1>4, <1>5
  <2>2. IsFiniteSet(grants) /\ Cardinality(grants) <= Tree!MaxJumps
    BY DEF TreeInv, RowCounts
  <2>3. n <= Cardinality(grants) /\ Cardinality(grants) \in Nat
    <3>1. n \in Nat /\ Paid(r, b, n, grants)
      BY <1>0, <2>1 DEF Paid
    <3> QED BY <2>2, <3>1, PaidPlaces
  <2> QED BY <1>0, <2>1, <2>2, <2>3
<1>7. PICK t : /\ member' = [member EXCEPT ![r] = t]
               /\ t = [member[r] EXCEPT !.at = Tree!Moved(r, b, d)]
  BY <1>2, <1>3 DEF Tree!Restore
<1>8. Tree!Moved(r, b, d) = [member[r].at EXCEPT ![b] = IF d.granted THEN n + 1 ELSE 0]
  BY <1>2 DEF Tree!Moved
<1>9. Tree!Moved(r, b, d) \in [Branches[r] -> 0 .. Tree!MaxJumps + 1]
  BY <1>0, <1>1, <1>6, <1>8 DEF Members
<1>10. /\ t \in Members(r) /\ t.ended = member[r].ended /\ t.first = member[r].first
       /\ t.state = "running" /\ t.at = Tree!Moved(r, b, d)
  BY <1>1, <1>7, <1>9 DEF Members, Tree!Restore
<1>11. \A c \in Branches[r] : \A m \in 1 .. t.at[c] - 1 : <<r, <<c, m>>>> \in grants
  <2>1. ASSUME NEW c \in Branches[r] \ {b}, NEW m \in 1 .. t.at[c] - 1
        PROVE  <<r, <<c, m>>>> \in grants
    <3>1. t.at[c] = member[r].at[c]
      BY <1>1, <1>8, <1>10 DEF Members
    <3> QED BY <2>1, <3>1 DEF TreeInv, RunInv, PlacesPaid
  <2>2. ASSUME NEW m \in 1 .. t.at[b] - 1
        PROVE  <<r, <<b, m>>>> \in grants
    <3>1. t.at[b] = IF d.granted THEN n + 1 ELSE 0
      BY <1>1, <1>8, <1>10 DEF Members
    <3> QED BY <1>6, <2>2, <3>1
  <2> QED BY <2>1, <2>2
<1>12. UNCHANGED <<records, budget, grants, counted>> /\ crashes' \in 0..Crashes
       /\ Tree!Live(r) /\ member[r].state # "ended"
  BY DEF Tree!Restore, TreeInv, TreeTyped, Tree!Live
<1> QED BY <1>7, <1>10, <1>11, <1>12, PlaceStep

\* A unit is decided: the record, the row and the branch's place in one step.
LEMMA SpendStep ==
    ASSUME Tree!BudgetConstants, TreeInv, NEW r \in Run, NEW b \in Branches[r], Tree!Spend(r, b)
    PROVE  TreeInv'
<1>0. Tree!MaxJumps \in Nat /\ Limit[r] \in Nat /\ Limit[r] <= Tree!MaxJumps
  BY LargestLimit DEF Tree!BudgetConstants
<1>1. member[r] \in Members(r) /\ records[r] \in [Tree!Keys(r) -> Decisions(r) \cup {None}]
      /\ budget \in Nat
  BY <1>0 DEF TreeInv, TreeTyped
<1>2. PICK n \in 1 .. Tree!MaxJumps + 1 : member[r].at[b] = n
  BY DEF Tree!Spend
<1>3. PICK k \in Tree!Keys(r) : k = <<b, n>>
  BY DEF Tree!Keys
<1>4. PICK d : d = Tree!Decision(r, k)
  OBVIOUS
<1>5. PICK t : t = [member[r] EXCEPT !.at = Tree!Moved(r, b, d),
                                  !.first = IF d.granted THEN @ ELSE d.first]
  OBVIOUS
<1>6. /\ member[r].state = "running" /\ records[r][k] = None
      /\ records' = [records EXCEPT ![r][k] = d] /\ member' = [member EXCEPT ![r] = t]
      /\ budget' = d.spent /\ grants' = IF d.granted THEN grants \cup {<<r, k>>} ELSE grants
      /\ UNCHANGED <<counted, crashes>>
  BY <1>2, <1>3, <1>4, <1>5 DEF Tree!Spend, Tree!Decided
<1>7. /\ d \in Decisions(r) /\ d.granted \in BOOLEAN
      /\ d.granted <=> budget < Limit[r]
      /\ d.spent = budget + (IF d.granted THEN 1 ELSE 0)
      /\ d.first = IF d.granted THEN None ELSE IF member[r].first = None THEN k ELSE member[r].first
  <2>0. member[r].first \in Tree!Keys(r) \cup {None}
    BY <1>1 DEF Members
  <2>1. CASE budget < Limit[r]
    <3>1. d = [granted |-> TRUE, spent |-> budget + 1, first |-> None]
      BY <1>4, <2>1 DEF Tree!Decision
    <3> QED BY <1>1, <2>1, <3>1 DEF Decisions
  <2>2. CASE ~(budget < Limit[r])
    <3> DEFINE refused == IF member[r].first = None THEN k ELSE member[r].first
    <3>0. budget + 0 = budget
      BY <1>1
    <3>1. d = [granted |-> FALSE, spent |-> budget, first |-> refused]
      <4>1. d = [granted |-> budget < Limit[r],
                 spent |-> budget + (IF budget < Limit[r] THEN 1 ELSE 0),
                 first |-> IF budget < Limit[r] THEN None ELSE refused]
        BY Zenon, <1>4 DEF Tree!Decision
      <4>2. /\ (budget < Limit[r]) = FALSE
            /\ (IF budget < Limit[r] THEN 1 ELSE 0) = 0
            /\ (IF budget < Limit[r] THEN None ELSE refused) = refused
        BY <2>2
      <4> QED BY Zenon, <3>0, <4>1, <4>2
    <3>2. refused \in Tree!Keys(r)
      BY <2>0
    <3>3. d \in Decisions(r)
      BY <1>1, <3>1, <3>2 DEF Decisions
    <3>4. /\ d.granted = FALSE /\ d.spent = budget
          /\ d.first = refused
      BY <3>1
    <3> QED BY <2>2, <3>0, <3>3, <3>4
  <2> QED BY <2>1, <2>2
<1>8. d # None /\ k # None
  BY <1>7, NoneIsNone
<1>9. /\ member[Root].state # "ended" /\ budget = Cardinality(grants)
      /\ IsFiniteSet(grants) /\ Cardinality(grants) <= Tree!MaxJumps
  BY <1>6, LiveCounts DEF Tree!Live, TreeInv, RowCounts
<1>10. <<r, k>> \notin grants
  BY <1>6 DEF TreeInv, RunInv, RecordsTell, Tree!Decided
<1>11. /\ IsFiniteSet(grants') /\ budget' = Cardinality(grants')
       /\ Cardinality(grants') <= Tree!MaxJumps
  <2>1. CASE d.granted
    <3>1. grants' = grants \cup {<<r, k>>}
      BY <1>6, <2>1
    <3>2. IsFiniteSet(grants') /\ Cardinality(grants') = Cardinality(grants) + 1
      BY <1>9, <1>10, <3>1, FS_AddElement
    <3> QED BY <1>0, <1>1, <1>6, <1>7, <1>9, <2>1, <3>2
  <2>2. CASE ~d.granted
    BY <1>1, <1>6, <1>7, <1>9, <2>2
  <2> QED BY <2>1, <2>2
<1>12. \A c \in Branches[r] : \A m \in 1 .. member[r].at[c] - 1 : <<r, <<c, m>>>> \in grants
  BY DEF TreeInv, RunInv, PlacesPaid
<1>13. d.granted => (\A m \in 1 .. n : <<r, <<b, m>>>> \in grants') /\ n <= Tree!MaxJumps
  <2> SUFFICES ASSUME d.granted
               PROVE  (\A m \in 1 .. n : <<r, <<b, m>>>> \in grants') /\ n <= Tree!MaxJumps
    OBVIOUS
  <2>1. \A m \in 1 .. n : <<r, <<b, m>>>> \in grants'
    <3>1. \A m \in 1 .. n - 1 : <<r, <<b, m>>>> \in grants
      BY <1>2, <1>12
    <3>2. grants' = grants \cup {<<r, <<b, n>>>>}
      BY <1>3, <1>6
    <3> QED BY <1>0, <3>1, <3>2
  <2>2. n <= Cardinality(grants') /\ Cardinality(grants') \in Nat
    <3>1. n \in Nat /\ Paid(r, b, n, grants')
      BY <1>0, <2>1 DEF Paid
    <3> QED BY <1>11, <3>1, PaidPlaces
  <2> QED BY <1>0, <1>11, <2>1, <2>2
<1>14. Tree!Moved(r, b, d) = [member[r].at EXCEPT ![b] = IF d.granted THEN n + 1 ELSE 0]
  BY <1>2 DEF Tree!Moved
<1>15. Tree!Moved(r, b, d) \in [Branches[r] -> 0 .. Tree!MaxJumps + 1]
  BY <1>0, <1>1, <1>13, <1>14 DEF Members
<1>16. /\ t \in Members(r) /\ t.state = "running" /\ t.ended = member[r].ended
       /\ t.at = Tree!Moved(r, b, d)
       /\ t.first = IF d.granted THEN member[r].first ELSE d.first
  <2>1. d.first \in Tree!Keys(r) \cup {None}
    BY <1>7 DEF Decisions
  <2> QED BY <1>1, <1>5, <1>6, <1>15, <2>1 DEF Members
<1>17. member'[r] = t /\ \A s \in Run \ {r} : member'[s] = member[s]
  BY <1>6 DEF TreeInv, TreeTyped
<1>18. /\ records'[r] = [records[r] EXCEPT ![k] = d]
       /\ \A s \in Run \ {r} : records'[s] = records[s]
  BY <1>6 DEF TreeInv, TreeTyped
<1>19. records'[r][k] = d /\ \A x \in Tree!Keys(r) \ {k} : records'[r][x] = records[r][x]
  BY <1>1, <1>18
<1>20. TreeTyped'
  <2>1. member' = [s \in Run |-> member'[s]] /\ records' = [s \in Run |-> records'[s]]
    BY <1>6 DEF TreeInv, TreeTyped
  <2>2. \A s \in Run : member'[s] \in Members(s)
    BY <1>16, <1>17 DEF TreeInv, TreeTyped
  <2>3. \A s \in Run : records'[s] \in [Tree!Keys(s) -> Decisions(s) \cup {None}]
    <3>1. records'[r] \in [Tree!Keys(r) -> Decisions(r) \cup {None}]
      BY <1>1, <1>7, <1>18
    <3>2. \A s \in Run \ {r} : records'[s] \in [Tree!Keys(s) -> Decisions(s) \cup {None}]
      BY <1>18 DEF TreeInv, TreeTyped
    <3> QED BY <3>1, <3>2
  <2>4. budget' \in 0..Tree!MaxJumps
    BY <1>0, <1>11, FS_CardinalityType
  <2> QED BY <1>6, <2>1, <2>2, <2>3, <2>4 DEF TreeInv, TreeTyped, Members, Decisions
<1>21. RowCounts'
  BY <1>6, <1>9, <1>11, <1>16, <1>17 DEF RowCounts, Tree!BudgetConstants
<1>22. RunInv(r)'
  <2>1. RecordsTell(r)'
    <3> SUFFICES ASSUME NEW x \in Tree!Keys(r)
                 PROVE  /\ records'[r][x] # None =>
                              /\ records'[r][x].granted <=> <<r, x>> \in grants'
                              /\ records'[r][x].granted => records'[r][x].spent <= Limit[r]
                        /\ <<r, x>> \in grants' =>
                              records'[r][x] # None \/ member'[r].state = "ended"
      BY DEF RecordsTell, Tree!Decided
    <3>1. CASE x = k
      BY <1>0, <1>1, <1>6, <1>7, <1>8, <1>10, <1>19, <3>1
    <3>2. CASE x # k
      <4>1. <<r, x>> \in grants' <=> <<r, x>> \in grants
        BY <1>6, <3>2
      <4>2. records'[r][x] = records[r][x]
        BY <1>19, <3>2
      <4> QED BY <1>6, <4>1, <4>2 DEF TreeInv, RunInv, RecordsTell, Tree!Decided
    <3> QED BY <3>1, <3>2
  <2>2. RefusalsAgree(r)'
    <3>1. RefusalsAgree(r) /\ Denied(r, k)' = ~d.granted
      BY <1>8, <1>19 DEF TreeInv, RunInv, Denied
    <3>2. \A x \in Tree!Keys(r) \ {k} : Denied(r, x)' = Denied(r, x) /\ records'[r][x] = records[r][x]
      BY <1>19 DEF Denied
    <3>3. member'[r].first = t.first /\ member[r].first \in Tree!Keys(r) \cup {None}
      BY <1>1, <1>17 DEF Members
    <3>4. ~Denied(r, k)
      BY <1>6 DEF Denied
    <3>5. ASSUME NEW x \in Tree!Keys(r), Denied(r, x)'
          PROVE  records'[r][x].first = member'[r].first /\ member'[r].first # None
      BY <1>7, <1>8, <1>16, <1>19, <3>1, <3>2, <3>3, <3>4, <3>5 DEF RefusalsAgree
    <3>6. ASSUME member'[r].first # None
          PROVE  records'[r][member'[r].first] # None /\ ~records'[r][member'[r].first].granted
      <4>1. CASE member[r].first = None
        <5>1. ~d.granted /\ member'[r].first = k
          BY <1>7, <1>16, <3>3, <3>6, <4>1
        <5> QED BY <1>8, <1>19, <5>1
      <4>2. CASE member[r].first # None
        <5>1. member'[r].first = member[r].first
          BY <1>7, <1>16, <3>3, <4>2
        <5>2. Denied(r, member[r].first) /\ member[r].first \in Tree!Keys(r) \ {k}
          BY <3>1, <3>3, <3>4, <4>2 DEF RefusalsAgree
        <5> QED BY <1>19, <5>1, <5>2 DEF Denied
      <4> QED BY <4>1, <4>2
    <3>7. \A x \in Tree!Keys(r) :
             Denied(r, x)' => records'[r][x].first = member'[r].first /\ member'[r].first # None
      BY <3>5
    <3> QED BY <3>6, <3>7 DEF RefusalsAgree, Denied
  <2>3. PlacesPaid(r)'
    <3>1. ASSUME NEW c \in Branches[r] \ {b}, NEW m \in 1 .. t.at[c] - 1
          PROVE  <<r, <<c, m>>>> \in grants'
      <4>1. t.at[c] = member[r].at[c]
        BY <1>1, <1>14, <1>16 DEF Members
      <4> QED BY <1>6, <1>12, <3>1, <4>1
    <3>2. ASSUME NEW m \in 1 .. t.at[b] - 1
          PROVE  <<r, <<b, m>>>> \in grants'
      <4>1. t.at[b] = IF d.granted THEN n + 1 ELSE 0
        BY <1>1, <1>14, <1>16 DEF Members
      <4> QED BY <1>13, <3>2, <4>1
    <3> QED BY <1>17, <3>1, <3>2 DEF PlacesPaid
  <2>4. EndsNoted(r)'
    BY <1>6, <1>16, <1>17 DEF TreeInv, RunInv, EndsNoted
  <2> QED BY <2>1, <2>2, <2>3, <2>4 DEF RunInv
<1>23. ASSUME NEW s \in Run \ {r} PROVE RunInv(s)'
  <2>1. \A x : <<s, x>> \in grants' <=> <<s, x>> \in grants
    BY <1>6
  <2> QED BY <1>6, <1>17, <1>18, <2>1, SameRun DEF TreeInv
<1> QED BY <1>20, <1>21, <1>22, <1>23 DEF TreeInv

\* Runs end and note the row, which ends with the root.
LEMMA TreeEndStep ==
    ASSUME Tree!BudgetConstants, TreeInv, NEW r \in Run, Tree!Finish(r) \/ Tree!Cancel(r)
    PROVE  TreeInv'
<1>0. /\ Tree!Live(r) /\ Tree!Terminate(r) /\ UNCHANGED <<records, grants, crashes>>
      /\ Root \in Run /\ Tree!MaxJumps \in Nat
  BY LargestLimit DEF Tree!Finish, Tree!Cancel, Tree!Live, Tree!BudgetConstants
<1>1. /\ member[Root].state # "ended" /\ budget = Cardinality(grants)
      /\ budget \in 0..Tree!MaxJumps /\ IsFiniteSet(grants) /\ Cardinality(grants) <= Tree!MaxJumps
  BY <1>0, LiveCounts DEF TreeInv, RowCounts, TreeTyped
<1>2. ASSUME NEW s \in Tree!Ends(r) PROVE s \in Run /\ Tree!Live(s)
  BY <1>0, <1>2 DEF Tree!Ends
<1>3. ASSUME NEW s \in Run, s \notin Tree!Ends(r)
      PROVE  member'[s] = member[s] /\ counted'[s] = counted[s]
  BY <1>0, <1>3 DEF Tree!Terminate
<1>4. ASSUME NEW s \in Tree!Ends(r)
      PROVE  /\ member'[s] = [member[s] EXCEPT !.state = "ended", !.ended = budget]
             /\ counted'[s] = budget
  BY <1>0, <1>1, <1>2, <1>4, SameSets DEF Tree!Terminate
<1>5. ASSUME NEW s \in Tree!Ends(r)
      PROVE  /\ member'[s] \in Members(s) /\ member'[s].state = "ended" /\ member'[s].ended = counted'[s]
             /\ member'[s].first = member[s].first /\ member'[s].at = member[s].at
  <2>1. PICK t \in Members(s) : t = member[s]
    BY <1>2, <1>5 DEF TreeInv, TreeTyped
  <2>2. PICK u : u = [t EXCEPT !.state = "ended", !.ended = budget]
    OBVIOUS
  <2>3. u \in Members(s) /\ u.state = "ended" /\ u.ended = budget /\ u.first = t.first /\ u.at = t.at
    <3>1. PICK n \in Nat : n = budget
      BY <1>0, <1>1
    <3>2. u = [t EXCEPT !.state = "ended", !.ended = n]
      BY <2>2, <3>1
    <3>3. t \in Members(s)
      OBVIOUS
    <3> QED BY <3>1, <3>2, <3>3 DEF Members
  <2> QED BY <1>4, <1>5, <2>1, <2>2, <2>3
<1>6. TreeTyped'
  <2>1. member' = [s \in Run |-> member'[s]] /\ records' = [s \in Run |-> records'[s]]
    BY <1>0 DEF Tree!Terminate, TreeInv, TreeTyped
  <2>2. \A s \in Run : member'[s] \in Members(s)
    BY <1>3, <1>5 DEF TreeInv, TreeTyped
  <2>3. counted' \in [Run -> Nat] /\ budget' \in 0..Tree!MaxJumps
    <3>1. Cardinality(grants) \in Nat /\ counted \in [Run -> Nat] /\ Tree!Row(r) \in 0..Tree!MaxJumps
      BY <1>0, <1>1 DEF TreeInv, TreeTyped, Tree!Row
    <3> QED BY <1>0, <3>1, SameSets DEF Tree!Terminate
  <2> QED BY <1>0, <2>1, <2>2, <2>3 DEF TreeInv, TreeTyped, Members, Decisions
<1>7. RowCounts'
  <2>1. CASE r = Root
    <3>1. \A s \in Run : ~Tree!Live(s)'
      <4> SUFFICES ASSUME NEW s \in Run PROVE member'[s].state \notin {"ready", "running"}
        BY DEF Tree!Live
      <4>1. CASE s \in Tree!Ends(r)
        BY <1>5, <4>1
      <4>2. CASE s \notin Tree!Ends(r)
        BY <1>3, <2>1, <4>2 DEF Tree!Ends, Tree!Live
      <4> QED BY <4>1, <4>2
    <3>2. member'[Root].state = "ended"
      BY <1>0, <1>5, <2>1 DEF Tree!Ends
    <3> QED BY <1>0, <1>1, <3>1, <3>2 DEF RowCounts
  <2>2. CASE r # Root
    <3>1. member'[Root].state # "ended" /\ budget' = budget
      BY <1>0, <1>1, <1>3, <2>2 DEF Tree!Ends, Tree!Terminate, Tree!Row
    <3> QED BY <1>0, <1>1, <3>1 DEF RowCounts
  <2> QED BY <2>1, <2>2
<1>8. ASSUME NEW s \in Run PROVE RunInv(s)'
  <2>1. CASE s \notin Tree!Ends(r)
    BY <1>0, <1>3, <2>1, SameRun DEF TreeInv
  <2>2. CASE s \in Tree!Ends(r)
    <3>1. RecordsTell(s)' /\ PlacesPaid(s)'
      BY <1>0, <1>5, <2>2 DEF TreeInv, RunInv, RecordsTell, Tree!Decided, PlacesPaid
    <3>2. RefusalsAgree(s)' /\ EndsNoted(s)'
      BY <1>0, <1>5, <2>2 DEF TreeInv, RunInv, RefusalsAgree, Denied, EndsNoted
    <3> QED BY <3>1, <3>2 DEF RunInv
  <2> QED BY <2>1, <2>2
<1> QED BY <1>6, <1>7, <1>8 DEF TreeInv

\* The sweep drops what an ended run decided.
LEMMA SweepStep ==
    ASSUME Tree!BudgetConstants, TreeInv, NEW r \in Run, Tree!Forget(r)
    PROVE  TreeInv'
<1>1. /\ member[r] \in Members(r) /\ member[r].state = "ended"
      /\ UNCHANGED <<budget, grants, counted, crashes>>
  BY DEF TreeInv, TreeTyped, Tree!Forget
<1>2. /\ member'[r] = [member[r] EXCEPT !.first = None]
      /\ records'[r] = [k \in Tree!Keys(r) |-> None]
      /\ \A s \in Run \ {r} : member'[s] = member[s] /\ records'[s] = records[s]
  BY DEF TreeInv, TreeTyped, Tree!Forget
<1>3. /\ member'[r] \in Members(r) /\ member'[r].first = None /\ member'[r].state = "ended"
      /\ member'[r].ended = member[r].ended /\ member'[r].at = member[r].at
  BY <1>1, <1>2 DEF Members
<1>4. TreeTyped'
  <2>1. member' = [s \in Run |-> member'[s]] /\ records' = [s \in Run |-> records'[s]]
    BY DEF Tree!Forget, TreeInv, TreeTyped
  <2>2. \A s \in Run : member'[s] \in Members(s)
    BY <1>2, <1>3 DEF TreeInv, TreeTyped
  <2>3. \A s \in Run : records'[s] \in [Tree!Keys(s) -> Decisions(s) \cup {None}]
    BY <1>2 DEF TreeInv, TreeTyped
  <2> QED BY <1>1, <2>1, <2>2, <2>3 DEF TreeInv, TreeTyped, Members, Decisions
<1>5. RowCounts'
  <2>1. \A s \in Run : member'[s].state = member[s].state
    BY <1>1, <1>2, <1>3
  <2> QED BY <1>1, <2>1 DEF TreeInv, RowCounts, Tree!Live, Tree!BudgetConstants
<1>6. ASSUME NEW s \in Run PROVE RunInv(s)'
  <2>1. CASE s # r
    BY <1>1, <1>2, <2>1, SameRun DEF TreeInv
  <2>2. CASE s = r
    <3>1. RecordsTell(r)' /\ RefusalsAgree(r)'
      BY <1>2, <1>3 DEF RecordsTell, RefusalsAgree, Denied, Tree!Decided
    <3>2. PlacesPaid(r)' /\ EndsNoted(r)'
      BY <1>1, <1>3 DEF TreeInv, RunInv, PlacesPaid, EndsNoted
    <3> QED BY <2>2, <3>1, <3>2 DEF RunInv
  <2> QED BY <2>1, <2>2
<1> QED BY <1>4, <1>5, <1>6 DEF TreeInv

LEMMA SameTree == ASSUME TreeInv, UNCHANGED Tree!vars PROVE TreeInv'
<1>1. TreeTyped' /\ RowCounts'
  BY DEF TreeInv, Tree!vars, TreeTyped, Members, Decisions, RowCounts, Tree!Live
<1>2. \A r \in Run : RunInv(r)'
  BY SameRun DEF TreeInv, Tree!vars
<1> QED BY <1>1, <1>2 DEF TreeInv

LEMMA NextTree ==
    ASSUME Tree!BudgetConstants, TreeInv, [Tree!Next]_(Tree!vars)
    PROVE  TreeInv'
BY BeginStep, SpendStep, RestoreStep, TreeEndStep, SweepStep, SameTree DEF Tree!Next

-----------------------------------------------------------------------------
\* The inductive invariant of a tree's budget (spend, terminate, sweep).
THEOREM TreeInvariance == ASSUME Tree!BudgetConstants PROVE Tree!Spec => []TreeInv
<1>1. Tree!Init => TreeInv
  BY InitTree
<1>2. TreeInv /\ [Tree!Next]_(Tree!vars) => TreeInv'
  BY NextTree
<1> QED BY <1>1, <1>2, PTL DEF Tree!Spec

\* A tree never takes more units than the largest limit of its runs and none
\* beyond the taker's own, and a record says what was granted, however branches,
\* runs, crashes and replays interleave (spend is one transaction).
THEOREM Ceilings ==
    ASSUME Tree!BudgetConstants
    PROVE  Tree!Spec => [](Tree!TypeOK /\ Tree!WithinBudget)
<1>1. TreeInv => Tree!TypeOK
  BY DEF TreeInv, TreeTyped, Members, Tree!TypeOK
<1>2. ASSUME TreeInv PROVE Tree!WithinBudget
  <2>1. ASSUME NEW r \in Run, NEW k \in Tree!Keys(r), records[r][k] # None
        PROVE  /\ records[r][k].granted => records[r][k].spent <= Limit[r]
               /\ records[r][k].granted = (<<r, k>> \in grants)
    <3>1. records[r][k].granted \in BOOLEAN
      BY <1>2, <2>1 DEF TreeInv, TreeTyped, Decisions
    <3> QED BY <1>2, <2>1, <3>1 DEF TreeInv, RunInv, RecordsTell, Tree!Decided
  <2> QED BY <1>2, <2>1, SameSets DEF Tree!WithinBudget, TreeInv, RowCounts
<1> QED BY <1>1, <1>2, TreeInvariance, PTL

\* Every refusal of a run names one key, its first refusal, which stays on
\* record (only its on_exceeded acts: jump, exceeded).
THEOREM Refusals == ASSUME Tree!BudgetConstants PROVE Tree!Spec => []Tree!OneFirstRefusal
<1>1. ASSUME TreeInv PROVE Tree!OneFirstRefusal
  <2> SUFFICES ASSUME NEW r \in Run, NEW k \in Tree!Keys(r), Denied(r, k)
               PROVE  LET f == records[r][k].first IN
                      f = member[r].first /\ Denied(r, f) /\ records[r][f].first = f
    BY DEF Tree!OneFirstRefusal, Denied
  <2>1. RefusalsAgree(r) /\ member[r].first \in Tree!Keys(r) \cup {None}
    BY <1>1 DEF TreeInv, RunInv, TreeTyped, Members
  <2> QED BY <2>1 DEF RefusalsAgree
<1> QED BY <1>1, TreeInvariance, PTL

\* What inspect shows of a run is what its tree has taken: by now while it is
\* live, by its end after it, after the root ended and the sweep too.
THEOREM Inspections == ASSUME Tree!BudgetConstants PROVE Tree!Spec => []Tree!InspectIsTrue
<1>1. ASSUME TreeInv PROVE Tree!InspectIsTrue
  <2> SUFFICES ASSUME NEW r \in Run, member[r].state # "absent"
               PROVE  Tree!InspectedSpent(r) = IF Tree!Live(r) THEN Cardinality(grants) ELSE counted[r]
    BY SameSets DEF Tree!InspectIsTrue
  <2>1. EndsNoted(r) /\ member[r].state \in {"ready", "running", "ended"} /\ counted[r] \in Nat
    BY <1>1 DEF TreeInv, RunInv, TreeTyped, Members
  <2>2. CASE Tree!Live(r)
    BY <1>1, <2>1, <2>2, LiveCounts DEF Tree!Live, EndsNoted, Tree!InspectedSpent
  <2>3. CASE ~Tree!Live(r)
    <3>1. member[r].ended = counted[r] /\ counted[r] # None
      BY <2>1, <2>3 DEF Tree!Live, EndsNoted, Tree!BudgetConstants
    <3> QED BY <2>3, <3>1 DEF Tree!InspectedSpent
  <2> QED BY <2>2, <2>3
<1> QED BY <1>1, TreeInvariance, PTL

-----------------------------------------------------------------------------
(* Admission, for any definitions, tasks, attempts, ceilings and faults.     *)
(* What is said of a row is said of what never changes in it: its name,      *)
(* version, host data, budget, depth, link and starter.  A row is a root's   *)
(* or the child of one attempt, which its id names; a process that is about  *)
(* to admit one holds a row of the same kind, and one that drives a run has  *)
(* its lineage.                                                              *)

CONSTANTS
    Roots, Names, MaxVersion, Task, Attempts, Procs, MaxGen, Hosts, Big, Declared,
    Limits, Ills, MaxIlls, Starts, Tripping, Holdable, Endable

VARIABLES runs, catalog, ills, limits, proc

Entry == INSTANCE Admission

\* None is no link.
NoneIsNoLink == \A of, t, ref : Entry!LinkOf(of, t, ref) # None

Fields == {"name", "version", "host", "jumps", "depth", "link", "ended", "held", "gen",
           "pinned", "starter", "under"}

TypedRow(row) ==
    /\ DOMAIN row = Fields /\ row.name \in Names
    /\ row.jumps \in Nat /\ row.depth \in Nat /\ row.under \in Limits

\* The row of a root.
IsRoot(id, row) ==
    /\ \E r \in Roots : id = Entry!RootId(r)
    /\ row.starter = None /\ row.link = None /\ row.depth = 0 /\ row.jumps = row.under.jumps

\* The row of the child that attempt a of task t starts in run `of'.
IsChild(id, row, of, t, a) ==
    /\ of \in DOMAIN runs /\ t \in Entry!Tasks /\ a \in Attempts /\ id = Entry!IdOf(of, t, <<t, a>>)
    /\ row.name = Task[t].name /\ row.starter = of
    /\ row.depth = runs[of].depth + 1 /\ row.depth <= row.under.depth
    /\ row.jumps = IF Task[t].owned THEN Entry!Tighten(runs[of].name, runs[of].jumps) ELSE row.under.jumps
    /\ Task[t].kind # "host" => row.host = IF Task[t].inherit THEN runs[of].host ELSE None

Linked(row, of, t, a) == row.link = IF Task[t].owned THEN Entry!LinkOf(of, t, <<t, a>>) ELSE None

RowsAreSound ==
    \A id \in DOMAIN runs :
        /\ TypedRow(runs[id])
        /\ \/ IsRoot(id, runs[id])
           \/ \E of \in DOMAIN runs, t \in Entry!Tasks, a \in Attempts :
                 IsChild(id, runs[id], of, t, a) /\ Linked(runs[id], of, t, a)

ProcFields == {"pc", "id", "row", "run", "gen", "lin", "task", "ref", "ask", "there"}

\* A start that reads, admits and answers.
Asking(q) ==
    /\ q.pc = "admit" =>
          /\ q.task = None /\ TypedRow(q.row) /\ IsRoot(q.id, q.row)
          /\ q.row.name = q.ask.name /\ q.row.host = q.ask.host
          /\ (q.row.pinned <=> q.ask.version # None)
          /\ q.ask.version # None => q.row.version = q.ask.version
    /\ q.ask # None =>
          /\ q.task = None /\ q.pc \notin {"drive", "commit"}
          /\ q.pc = "joined" =>
                q.id \in DOMAIN runs /\ Entry!Joins(runs[q.id], q.ask.name, q.ask.version, q.ask.host)

\* A drive has the lineage of its run.
Driving(q) ==
    q.pc = "drive" \/ q.task # None \/ q.pc = "commit" =>
        /\ q.run \in DOMAIN runs
        /\ q.lin = [jumps |-> Entry!Tighten(runs[q.run].name, runs[q.run].jumps), depth |-> runs[q.run].depth]

\* A dispatch is of one attempt, and joins or starts its child.
Dispatching(q) ==
    q.task # None \/ q.pc = "commit" =>
        /\ q.task \in Entry!Tasks /\ \E a \in Attempts : q.ref = <<q.task, a>>
        /\ q.id = Entry!IdOf(q.run, q.task, q.ref)
        /\ q.pc # "mismatch"
        /\ q.pc = "joined" => q.id \in DOMAIN runs
        /\ q.there => q.id \in DOMAIN runs
        /\ q.there => \/ q.pc \in {"commit", "joined", "lost"}
                      \/ Task[q.task].kind = "host" /\ q.pc = "depth"
        /\ q.pc = "commit" =>
              /\ q.row.name = Task[q.task].name
              /\ q.id \notin DOMAIN runs =>
                    /\ TypedRow(q.row) /\ q.row.link = None
                    /\ \E a \in Attempts : q.ref = <<q.task, a>> /\ IsChild(q.id, q.row, q.run, q.task, a)

ProcIsSound(q) == DOMAIN q = ProcFields /\ Asking(q) /\ Driving(q) /\ Dispatching(q)

ProcsAreSound ==
    /\ DOMAIN proc = Procs /\ limits \in [Procs -> Limits]
    /\ \A p \in Procs : ProcIsSound(proc[p])

IllsAreKnown == DOMAIN ills = Names /\ \A n \in Names : ills[n].now \in Ills \cup {None}

EntryInv == RowsAreSound /\ ProcsAreSound /\ IllsAreKnown

-----------------------------------------------------------------------------

LEMMA IdsDiffer ==
    ASSUME NEW of1, NEW of2, NEW t1, NEW t2, NEW a1, NEW a2, NEW r
    PROVE  /\ Entry!IdOf(of1, t1, <<t1, a1>>) = Entry!IdOf(of2, t2, <<t2, a2>>)
                => of1 = of2 /\ t1 = t2 /\ a1 = a2
           /\ Entry!IdOf(of1, t1, <<t1, a1>>) # Entry!RootId(r)
           /\ Entry!IdOf(of1, t1, <<t1, a1>>)[3][1] = t1
<1>1. ASSUME NEW x, NEW y, NEW u, NEW v
      PROVE  /\ Entry!ChildId(of1, <<x, y>>) = Entry!ChildId(of2, <<u, v>>) => of1 = of2 /\ x = u /\ y = v
             /\ Entry!ChildId(of1, <<x, y>>)[3][1] = x
             /\ Entry!ChildId(of1, <<x, y>>) # Entry!RootId(r)
  BY DEF Entry!ChildId, Entry!RootId
<1>2. ASSUME NEW x, NEW y, NEW u, NEW v, NEW k1, NEW k2
      PROVE  /\ Entry!HostChildId(of1, <<x, y>>, k1) = Entry!HostChildId(of2, <<u, v>>, k2)
                   => of1 = of2 /\ x = u /\ y = v
             /\ Entry!HostChildId(of1, <<x, y>>, k1)[3][1] = x
             /\ Entry!HostChildId(of1, <<x, y>>, k1) # Entry!RootId(r)
             /\ Entry!HostChildId(of1, <<x, y>>, k1) # Entry!ChildId(of2, <<u, v>>)
             /\ Entry!ChildId(of1, <<x, y>>) # Entry!HostChildId(of2, <<u, v>>, k2)
  BY DEF Entry!ChildId, Entry!HostChildId, Entry!RootId
<1> QED BY <1>1, <1>2 DEF Entry!IdOf

LEMMA TightenIs ==
    ASSUME Entry!AdmissionConstants, NEW n \in Names, NEW j \in Nat PROVE Entry!Tighten(n, j) \in Nat
  BY DEF Entry!AdmissionConstants, Entry!Tighten, Entry!Least

\* What never changes in a row.
Lasting(x, y) ==
    /\ DOMAIN x = Fields
    /\ x.name = y.name /\ x.version = y.version /\ x.host = y.host /\ x.jumps = y.jumps /\ x.depth = y.depth
    /\ x.link = y.link /\ x.pinned = y.pinned /\ x.starter = y.starter /\ x.under = y.under

RowsLast == \A id \in DOMAIN runs : id \in DOMAIN runs' /\ Lasting(runs'[id], runs[id])

\* A row that stays sound, whatever else is admitted.
LEMMA StaysChild ==
    ASSUME RowsLast, NEW id, NEW row, NEW of, NEW t, NEW a, IsChild(id, row, of, t, a)
    PROVE  IsChild(id, row, of, t, a)'
  BY DEF RowsLast, Lasting, IsChild

LEMMA StaysSound ==
    ASSUME RowsAreSound, RowsLast, NEW id \in DOMAIN runs
    PROVE  /\ TypedRow(runs'[id])
           /\ \/ IsRoot(id, runs'[id])
              \/ \E of \in DOMAIN runs', t \in Entry!Tasks, a \in Attempts :
                    IsChild(id, runs[id], of, t, a)' /\ Linked(runs'[id], of, t, a)
<1>1. TypedRow(runs[id]) /\ Lasting(runs'[id], runs[id])
  BY DEF RowsAreSound, RowsLast
<1>2. TypedRow(runs'[id])
  BY <1>1 DEF TypedRow, Lasting
<1>3. CASE IsRoot(id, runs[id])
  BY <1>1, <1>2, <1>3 DEF IsRoot, Lasting
<1>4. ASSUME NEW of \in DOMAIN runs, NEW t \in Entry!Tasks, NEW a \in Attempts,
             IsChild(id, runs[id], of, t, a), Linked(runs[id], of, t, a)
      PROVE  of \in DOMAIN runs' /\ IsChild(id, runs[id], of, t, a)' /\ Linked(runs'[id], of, t, a)
  BY <1>1, <1>4 DEF IsChild, Linked, Lasting, RowsLast
<1> QED BY <1>2, <1>3, <1>4 DEF RowsAreSound

\* Without a new row the rows stay sound.
LEMMA NoNewRow ==
    ASSUME RowsAreSound, RowsLast, DOMAIN runs' = DOMAIN runs PROVE RowsAreSound'
  BY StaysSound DEF RowsAreSound

\* What holds of a process goes on to hold while others go on.
LEMMA ProcessStays ==
    ASSUME RowsAreSound, RowsLast, NEW q, ProcIsSound(q)
    PROVE  ProcIsSound(q)'
<1>1. \A id \in DOMAIN runs : id \in DOMAIN runs' /\ Lasting(runs'[id], runs[id])
  BY DEF RowsLast
<1>2. Asking(q)'
  BY <1>1 DEF ProcIsSound, Asking, Lasting, Entry!Joins
<1>3. Driving(q)'
  BY <1>1 DEF ProcIsSound, Driving, Lasting
<1>4. Dispatching(q)'
  <2>1. \A a : IsChild(q.id, q.row, q.run, q.task, a) => IsChild(q.id, q.row, q.run, q.task, a)'
    BY StaysChild
  <2> QED BY <1>1, <2>1 DEF ProcIsSound, Dispatching
<1> QED BY <1>2, <1>3, <1>4 DEF ProcIsSound

\* One process moves.
LEMMA OneMoves ==
    ASSUME EntryInv, RowsLast, NEW p \in Procs, NEW q, proc' = [proc EXCEPT ![p] = q],
           UNCHANGED limits, ProcIsSound(q)'
    PROVE  ProcsAreSound'
<1>1. DOMAIN proc' = Procs /\ proc'[p] = q /\ \A o \in Procs \ {p} : proc'[o] = proc[o]
  BY DEF EntryInv, ProcsAreSound
<1>2. ASSUME NEW o \in Procs PROVE ProcIsSound(proc[o])'
  <2>1. CASE o = p
    BY <2>1, <1>1
  <2>2. CASE o # p
    <3> PICK x : x = proc[o]
      OBVIOUS
    <3>1. ProcIsSound(x)
      BY DEF EntryInv, ProcsAreSound
    <3>2. ProcIsSound(x)'
      BY <3>1, ProcessStays DEF EntryInv
    <3> QED BY <3>2, <2>2, <1>1
  <2> QED BY <2>1, <2>2
<1> QED BY <1>1, <1>2 DEF EntryInv, ProcsAreSound

\* None moves.
LEMMA NoneMoves ==
    ASSUME EntryInv, RowsLast, UNCHANGED <<limits, proc>> PROVE ProcsAreSound'
<1>1. ASSUME NEW o \in Procs PROVE ProcIsSound(proc[o])'
  <2> PICK x : x = proc[o]
    OBVIOUS
  <2>1. ProcIsSound(x)
    BY DEF EntryInv, ProcsAreSound
  <2>2. ProcIsSound(x)'
    BY <2>1, ProcessStays DEF EntryInv
  <2> QED BY <2>2
<1> QED BY <1>1 DEF EntryInv, ProcsAreSound

LEMMA RowsUnchanged ==
    ASSUME RowsAreSound, UNCHANGED runs PROVE RowsLast /\ RowsAreSound'
<1>1. RowsLast
  BY DEF RowsAreSound, TypedRow, RowsLast, Lasting
<1> QED BY <1>1, NoNewRow

LEMMA SameIlls == ASSUME IllsAreKnown, UNCHANGED ills PROVE IllsAreKnown'
  BY DEF IllsAreKnown

\* A row is admitted.
LEMMA Admits ==
    ASSUME RowsAreSound, NEW id, id \notin DOMAIN runs, NEW row, TypedRow(row), runs' = Entry!Put(id, row),
           \/ IsRoot(id, row)
           \/ \E of, t, a : IsChild(id, row, of, t, a) /\ Linked(row, of, t, a)
    PROVE  RowsLast /\ RowsAreSound' /\ id \in DOMAIN runs' /\ runs'[id] = row
<1>1. DOMAIN runs' = DOMAIN runs \cup {id} /\ runs'[id] = row /\ \A i \in DOMAIN runs : runs'[i] = runs[i]
  BY DEF Entry!Put
<1>2. RowsLast
  BY <1>1 DEF RowsAreSound, TypedRow, RowsLast, Lasting
<1>3. ASSUME NEW of, NEW t, NEW a, IsChild(id, row, of, t, a), Linked(row, of, t, a)
      PROVE  /\ of \in DOMAIN runs' /\ t \in Entry!Tasks /\ a \in Attempts
             /\ IsChild(id, row, of, t, a)' /\ Linked(row, of, t, a)
  BY <1>2, <1>3, StaysChild DEF IsChild, RowsLast
<1>4. ASSUME NEW i \in DOMAIN runs'
      PROVE  /\ TypedRow(runs'[i])
             /\ \/ IsRoot(i, runs'[i])
                \/ \E of \in DOMAIN runs', t \in Entry!Tasks, a \in Attempts :
                      IsChild(i, runs[i], of, t, a)' /\ Linked(runs'[i], of, t, a)
  <2>1. CASE i = id
    BY <2>1, <1>1, <1>3
  <2>2. CASE i # id
    BY <2>2, <1>1, <1>2, StaysSound
  <2> QED BY <2>1, <2>2
<1>5. RowsAreSound'
  BY <1>4 DEF RowsAreSound
<1> QED BY <1>1, <1>2, <1>5

\* A row is what it was made of.
LEMMA RowIs ==
    ASSUME NEW n \in Names, NEW v, NEW host, NEW lin, lin.jumps \in Nat, lin.depth \in Nat, NEW starter,
           NEW lim \in Limits, NEW pinned, NEW row, row = Entry!Row(n, v, host, lin, starter, lim, pinned)
    PROVE  /\ TypedRow(row)
           /\ row.name = n /\ row.version = v /\ row.host = host /\ row.jumps = lin.jumps
           /\ row.depth = lin.depth /\ row.link = None /\ row.starter = starter /\ row.under = lim
           /\ row.pinned = pinned
<1>1. DOMAIN row = Fields
  BY DEF Entry!Row, Fields
<1>2. /\ row.name = n /\ row.version = v /\ row.host = host /\ row.jumps = lin.jumps
      /\ row.depth = lin.depth /\ row.link = None /\ row.starter = starter /\ row.under = lim
  BY DEF Entry!Row
<1>3. row.pinned = pinned
  BY DEF Entry!Row
<1> QED BY <1>1, <1>2, <1>3 DEF TypedRow

Refusing == {"tripped", "unknown", "missing", "invalid", "unavailable"}

LEMMA Refuses ==
    ASSUME Entry!AdmissionConstants, IllsAreKnown, NEW n \in Names, NEW v, Entry!Inadmissible(n, v) # None
    PROVE  Entry!Inadmissible(n, v) \in Refusing
  BY DEF Entry!AdmissionConstants, IllsAreKnown, Entry!Inadmissible, Refusing

\* A process at rest.
LEMMA IdleIsSound == ProcIsSound(Entry!Idle) /\ ProcIsSound(Entry!Idle)'
  BY DEF ProcIsSound, ProcFields, Asking, Driving, Dispatching, Entry!Idle

-----------------------------------------------------------------------------
(* Starts.                                                                   *)

\* A process that starts s under id.
Asked(q, id, s) == DOMAIN q = ProcFields /\ q.id = id /\ q.ask = s /\ q.task = None

LEMMA StartReadKeeps ==
    ASSUME Entry!AdmissionConstants, EntryInv, NEW p \in Procs, NEW start \in Starts, Entry!StartRead(p, start)
    PROVE  EntryInv'
<1> PICK s : s = [root |-> start[1], name |-> start[2], version |-> start[3], host |-> start[4]]
  OBVIOUS
<1> PICK id : id = Entry!RootId(s.root)
  OBVIOUS
<1> PICK row : row = Entry!Row(s.name, Entry!Versioned(s.name, s.version), s.host,
                               [jumps |-> limits[p].jumps, depth |-> 0], None, limits[p], s.version # None)
  OBVIOUS
<1>1. s.root \in Roots /\ s.name \in Names /\ s.root = start[1] /\ s.name = start[2]
  BY DEF Entry!AdmissionConstants
<1>2. limits[p] \in Limits /\ limits[p].jumps \in Nat
  BY DEF Entry!AdmissionConstants, EntryInv, ProcsAreSound
<1>3. RowsLast /\ RowsAreSound' /\ IllsAreKnown'
  BY RowsUnchanged, SameIlls DEF EntryInv, Entry!StartRead
<1>4. PICK q, pc : /\ proc' = [proc EXCEPT ![p] = q] /\ Asked(q, id, s) /\ q.pc = pc
                    /\ \/ pc \in {"toobig", "mismatch"} \cup Refusing
                       \/ pc = "joined" /\ id \in DOMAIN runs /\ Entry!Joins(runs[id], s.name, s.version, s.host)
                       \/ pc = "admit" /\ q.row = row
  <2> PICK fresh : fresh = [Entry!Idle EXCEPT !.id = id, !.ask = s]
    OBVIOUS
  <2>0. Asked(fresh, id, s)
    BY DEF Entry!Idle, Asked, ProcFields
  <2>1. \A pc : Asked([fresh EXCEPT !.pc = pc], id, s) /\ [fresh EXCEPT !.pc = pc].pc = pc
    BY <2>0 DEF Asked, ProcFields
  <2>2. IF Entry!TooBig(s.host) THEN proc' = [proc EXCEPT ![p] = [fresh EXCEPT !.pc = "toobig"]]
        ELSE IF id \in DOMAIN runs
        THEN proc' = [proc EXCEPT ![p] = [fresh EXCEPT !.pc =
                 IF Entry!Joins(runs[id], s.name, s.version, s.host) THEN "joined" ELSE "mismatch"]]
        ELSE IF Entry!Inadmissible(s.name, s.version) # None
        THEN proc' = [proc EXCEPT ![p] = [fresh EXCEPT !.pc = Entry!Inadmissible(s.name, s.version)]]
        ELSE proc' = [proc EXCEPT ![p] = [fresh EXCEPT !.pc = "admit", !.row = row]]
    BY Zenon DEF Entry!StartRead
  <2>3. Entry!Inadmissible(s.name, s.version) # None => Entry!Inadmissible(s.name, s.version) \in Refusing
    BY <1>1, Refuses DEF EntryInv
  <2>4. CASE Entry!TooBig(s.host)
    BY <2>1, <2>2, <2>4
  <2>5. CASE ~Entry!TooBig(s.host) /\ id \in DOMAIN runs
    <3> PICK pc : pc = IF Entry!Joins(runs[id], s.name, s.version, s.host) THEN "joined" ELSE "mismatch"
      OBVIOUS
    <3>1. proc' = [proc EXCEPT ![p] = [fresh EXCEPT !.pc = pc]]
      BY <2>2, <2>5
    <3> QED BY <3>1, <2>1, <2>5
  <2>6. CASE ~Entry!TooBig(s.host) /\ id \notin DOMAIN runs /\ Entry!Inadmissible(s.name, s.version) # None
    <3> PICK pc : pc = Entry!Inadmissible(s.name, s.version)
      OBVIOUS
    <3> PICK q : q = [fresh EXCEPT !.pc = pc]
      OBVIOUS
    <3>1. proc' = [proc EXCEPT ![p] = q]
      BY <2>2, <2>6
    <3>2. Asked(q, id, s) /\ q.pc = pc
      BY <2>1
    <3>3. pc \in {"toobig", "mismatch"} \cup Refusing
      BY <2>3, <2>6
    <3> QED BY <3>1, <3>2, <3>3
  <2>7. CASE ~Entry!TooBig(s.host) /\ id \notin DOMAIN runs /\ Entry!Inadmissible(s.name, s.version) = None
    <3> PICK q : q = [fresh EXCEPT !.pc = "admit", !.row = row]
      OBVIOUS
    <3>1. proc' = [proc EXCEPT ![p] = q]
      BY <2>2, <2>7
    <3>2. Asked(q, id, s) /\ q.pc = "admit" /\ q.row = row
      BY <2>0 DEF Asked, ProcFields
    <3> QED BY <3>1, <3>2
  <2> QED BY <2>4, <2>5, <2>6, <2>7
<1>5. /\ TypedRow(row) /\ row.name = s.name /\ row.host = s.host /\ row.version = Entry!Versioned(s.name, s.version)
      /\ row.jumps = limits[p].jumps /\ row.depth = 0 /\ row.link = None /\ row.starter = None
      /\ row.under = limits[p] /\ row.pinned = (s.version # None)
  <2> PICK lin : lin = [jumps |-> limits[p].jumps, depth |-> 0]
    OBVIOUS
  <2> PICK pinned : pinned = (s.version # None)
    OBVIOUS
  <2> PICK v : v = Entry!Versioned(s.name, s.version)
    OBVIOUS
  <2>1. row = Entry!Row(s.name, v, s.host, lin, None, limits[p], pinned) /\ lin.jumps = limits[p].jumps /\ lin.depth = 0
    OBVIOUS
  <2>2. lin.jumps \in Nat /\ lin.depth \in Nat
    BY <2>1, <1>2
  <2> QED BY <1>1, <1>2, <2>1, <2>2, RowIs
<1>6. IsRoot(id, row)
  BY <1>1, <1>5 DEF IsRoot
<1>7. UNCHANGED runs
  BY DEF Entry!StartRead
<1>8. Asking(q)'
  BY <1>1, <1>4, <1>5, <1>6, <1>7 DEF Asking, Asked, Refusing, Entry!Versioned
<1>9. ProcIsSound(q)'
  BY <1>4, <1>8 DEF ProcIsSound, Asked, Driving, Dispatching, Refusing
<1>10. ProcsAreSound'
  <2>1. UNCHANGED limits
    BY DEF Entry!StartRead
  <2> QED BY <2>1, <1>3, <1>4, <1>9, OneMoves
<1> QED BY <1>3, <1>10 DEF EntryInv

\* Of a process only what it is about to answer changes.
LEMMA Answering ==
    ASSUME NEW p, NEW q, NEW pc, DOMAIN proc[p] = ProcFields, q = [proc[p] EXCEPT !.pc = pc]
    PROVE  /\ DOMAIN q = ProcFields /\ q.pc = pc /\ q.id = proc[p].id /\ q.row = proc[p].row
           /\ q.run = proc[p].run /\ q.lin = proc[p].lin /\ q.task = proc[p].task /\ q.ref = proc[p].ref
           /\ q.ask = proc[p].ask /\ q.there = proc[p].there
  BY DEF ProcFields

LEMMA StartCommitKeeps ==
    ASSUME EntryInv, NEW p \in Procs, Entry!StartCommit(p)
    PROVE  EntryInv'
<1> PICK x : x = proc[p]
  OBVIOUS
<1> PICK id : id = x.id
  OBVIOUS
<1>1. ProcIsSound(x) /\ x.pc = "admit" /\ UNCHANGED <<ills, limits>> /\ DOMAIN proc[p] = ProcFields
  BY DEF EntryInv, ProcsAreSound, ProcIsSound, Entry!StartCommit
<1>2. /\ x.task = None /\ TypedRow(x.row) /\ IsRoot(id, x.row) /\ x.row.name = x.ask.name /\ x.row.host = x.ask.host
      /\ (x.row.pinned <=> x.ask.version # None)
      /\ x.ask.version # None => x.row.version = x.ask.version
  BY <1>1 DEF ProcIsSound, Asking
<1>3. Entry!RootJoins(p) => Entry!Joins(runs[id], x.ask.name, x.ask.version, x.ask.host)
  BY <1>2 DEF Entry!RootJoins, Entry!Joins
<1>4. Entry!Joins(x.row, x.ask.name, x.ask.version, x.ask.host)
  BY <1>2 DEF Entry!Joins
<1>5. \E pc \in {"joined", "mismatch", "tripped"} :
         /\ proc' = [proc EXCEPT ![p] = [proc[p] EXCEPT !.pc = pc]]
         /\ \/ pc = "joined" /\ UNCHANGED runs /\ id \in DOMAIN runs /\ Entry!RootJoins(p)
            \/ pc # "joined" /\ UNCHANGED runs
            \/ pc = "joined" /\ runs' = Entry!Put(id, x.row) /\ id \notin DOMAIN runs
  <2>1. CASE id \in DOMAIN runs /\ Entry!RootJoins(p)
    BY <2>1 DEF Entry!StartCommit
  <2>2. CASE id \in DOMAIN runs /\ ~Entry!RootJoins(p)
    BY <2>2 DEF Entry!StartCommit
  <2>3. CASE id \notin DOMAIN runs
    BY <2>3 DEF Entry!StartCommit
  <2> QED BY <2>1, <2>2, <2>3
<1> PICK pc \in {"joined", "mismatch", "tripped"} :
         /\ proc' = [proc EXCEPT ![p] = [proc[p] EXCEPT !.pc = pc]]
         /\ \/ pc = "joined" /\ UNCHANGED runs /\ id \in DOMAIN runs /\ Entry!RootJoins(p)
            \/ pc # "joined" /\ UNCHANGED runs
            \/ pc = "joined" /\ runs' = Entry!Put(id, x.row) /\ id \notin DOMAIN runs
  BY <1>5
<1> PICK q : q = [proc[p] EXCEPT !.pc = pc]
  OBVIOUS
<1>6. /\ DOMAIN q = ProcFields /\ q.pc = pc /\ q.id = id /\ q.task = None /\ q.ask = x.ask
  BY <1>1, <1>2, Answering
<1>7. RowsLast /\ RowsAreSound' /\ (pc = "joined" /\ x.ask # None =>
          id \in DOMAIN runs' /\ Entry!Joins(runs'[id], x.ask.name, x.ask.version, x.ask.host))
  <2>1. CASE UNCHANGED runs /\ (pc = "joined" => id \in DOMAIN runs /\ Entry!RootJoins(p))
    BY <2>1, <1>3, RowsUnchanged DEF EntryInv
  <2>2. CASE pc = "joined" /\ runs' = Entry!Put(id, x.row) /\ id \notin DOMAIN runs
    <3> PICK row : row = x.row
      OBVIOUS
    <3>1. RowsLast /\ RowsAreSound' /\ id \in DOMAIN runs' /\ runs'[id] = row
      BY <2>2, <1>2, Admits DEF EntryInv
    <3> QED BY <3>1, <1>4
  <2> QED BY <2>1, <2>2
<1>8. ProcIsSound(q)'
  BY <1>6, <1>7 DEF ProcIsSound, Asking, Driving, Dispatching
<1>9. ProcsAreSound'
  <2>1. proc' = [proc EXCEPT ![p] = q] /\ UNCHANGED limits
    BY <1>1
  <2> QED BY <2>1, <1>7, <1>8, OneMoves
<1>10. IllsAreKnown'
  BY <1>1, SameIlls DEF EntryInv
<1> QED BY <1>7, <1>9, <1>10 DEF EntryInv

LEMMA RestsKeep ==
    ASSUME EntryInv, NEW p \in Procs, proc' = [proc EXCEPT ![p] = Entry!Idle], UNCHANGED <<runs, ills>>,
           limits' \in [Procs -> Limits]
    PROVE  EntryInv'
<1>1. RowsLast /\ RowsAreSound' /\ IllsAreKnown'
  BY RowsUnchanged, SameIlls DEF EntryInv
<1>2. DOMAIN proc' = Procs /\ proc'[p] = Entry!Idle /\ \A o \in Procs \ {p} : proc'[o] = proc[o]
  BY DEF EntryInv, ProcsAreSound
<1>3. ASSUME NEW o \in Procs PROVE ProcIsSound(proc[o])'
  <2>1. CASE o = p
    BY <2>1, <1>2, IdleIsSound
  <2>2. CASE o # p
    <3> PICK x : x = proc[o]
      OBVIOUS
    <3>1. ProcIsSound(x)
      BY DEF EntryInv, ProcsAreSound
    <3>2. ProcIsSound(x)'
      BY <3>1, <1>1, ProcessStays DEF EntryInv
    <3> QED BY <3>2, <2>2, <1>2
  <2> QED BY <2>1, <2>2
<1> QED BY <1>1, <1>2, <1>3 DEF EntryInv, ProcsAreSound

-----------------------------------------------------------------------------
(* Drives and dispatches.                                                    *)

\* The run under a child's id is that child.
LEMMA ChildRow ==
    ASSUME RowsAreSound, NEW of, NEW t, NEW a, NEW id, id = Entry!IdOf(of, t, <<t, a>>), id \in DOMAIN runs
    PROVE  IsChild(id, runs[id], of, t, a) /\ Linked(runs[id], of, t, a)
<1>1. ~IsRoot(id, runs[id])
  BY IdsDiffer DEF IsRoot
<1>2. PICK up \in DOMAIN runs, tt \in Entry!Tasks, aa \in Attempts :
         IsChild(id, runs[id], up, tt, aa) /\ Linked(runs[id], up, tt, aa)
  BY <1>1 DEF RowsAreSound
<1>3. Entry!IdOf(up, tt, <<tt, aa>>) = Entry!IdOf(of, t, <<t, a>>)
  BY <1>2 DEF IsChild
<1>4. up = of /\ tt = t /\ aa = a
  BY <1>3, IdsDiffer
<1> QED BY <1>2, <1>4

\* What a process that drives a run knows of it.
LEMMA DriverKnows ==
    ASSUME Entry!AdmissionConstants, EntryInv, NEW p \in Procs, NEW x, x = proc[p],
           x.pc = "drive" \/ x.task # None \/ x.pc = "commit"
    PROVE  /\ x.ask = None /\ x.run \in DOMAIN runs /\ DOMAIN x = ProcFields
           /\ x.lin.jumps = Entry!Tighten(runs[x.run].name, runs[x.run].jumps)
           /\ x.lin.depth = runs[x.run].depth
           /\ x.lin.jumps \in Nat /\ x.lin.depth \in Nat
           /\ limits[p] \in Limits /\ limits[p].jumps \in Nat /\ limits[p].depth \in Nat
<1>1. DOMAIN x = ProcFields /\ Asking(x) /\ Driving(x) /\ limits[p] \in Limits
  BY DEF EntryInv, ProcsAreSound, ProcIsSound
<1>2. x.ask = None /\ x.run \in DOMAIN runs
      /\ x.lin = [jumps |-> Entry!Tighten(runs[x.run].name, runs[x.run].jumps), depth |-> runs[x.run].depth]
  BY <1>1 DEF Asking, Driving
<1>3. TypedRow(runs[x.run])
  BY <1>2 DEF EntryInv, RowsAreSound
<1>4. Entry!Tighten(runs[x.run].name, runs[x.run].jumps) \in Nat /\ runs[x.run].depth \in Nat
  BY <1>3, TightenIs DEF TypedRow
<1>5. limits[p].jumps \in Nat /\ limits[p].depth \in Nat
  BY <1>1 DEF Entry!AdmissionConstants
<1> QED BY <1>1, <1>2, <1>4, <1>5

LEMMA ClaimKeeps ==
    ASSUME Entry!AdmissionConstants, EntryInv, NEW p \in Procs, NEW id \in DOMAIN runs, Entry!Claim(p, id)
    PROVE  EntryInv'
<1> PICK q : q = [Entry!Idle EXCEPT !.pc = "drive", !.run = id, !.gen = runs[id].gen + 1,
                                    !.lin = Entry!Lineage(runs[id], limits[p])]
  OBVIOUS
<1>1. proc' = [proc EXCEPT ![p] = q] /\ UNCHANGED <<ills, limits>> /\ runs' = [runs EXCEPT ![id].gen = @ + 1]
  BY DEF Entry!Claim
<1>2. RowsLast /\ DOMAIN runs' = DOMAIN runs
  BY <1>1 DEF RowsLast, Lasting, EntryInv, RowsAreSound, TypedRow, Fields
<1>3. /\ DOMAIN q = ProcFields /\ q.pc = "drive" /\ q.run = id /\ q.task = None /\ q.ask = None
      /\ q.lin = Entry!Lineage(runs[id], limits[p])
  BY DEF Entry!Idle, ProcFields
<1>4. q.lin = [jumps |-> Entry!Tighten(runs'[id].name, runs'[id].jumps), depth |-> runs'[id].depth]
  BY <1>2, <1>3 DEF Entry!Lineage, RowsLast, Lasting
<1>5. ProcIsSound(q)'
  BY <1>2, <1>3, <1>4 DEF ProcIsSound, Asking, Driving, Dispatching
<1>6. ProcsAreSound'
  BY <1>1, <1>2, <1>5, OneMoves
<1>7. RowsAreSound' /\ IllsAreKnown'
  BY <1>1, <1>2, NoNewRow, SameIlls DEF EntryInv
<1> QED BY <1>6, <1>7 DEF EntryInv

\* A process like on, up to what it is about to commit or answer.
Same(q, on) ==
    /\ DOMAIN q = ProcFields /\ q.id = on.id /\ q.run = on.run /\ q.lin = on.lin /\ q.task = on.task
    /\ q.ref = on.ref /\ q.ask = on.ask /\ (q.there => on.there)

LEMMA JoinedIs ==
    ASSUME NEW t, NEW on, NEW q, DOMAIN on = ProcFields, q = Entry!Joined(t, on),
           runs[on.id].name = Task[t].name
    PROVE  Same(q, on) /\ q.pc = "commit" /\ q.row = runs[on.id]
<1> PICK row : row = runs[on.id]
  OBVIOUS
<1>1. q = [on EXCEPT !.pc = "commit", !.row = row]
  BY DEF Entry!Joined
<1> QED BY <1>1 DEF Same, ProcFields

LEMMA DispatchKeeps ==
    ASSUME Entry!AdmissionConstants, EntryInv, NEW p \in Procs, NEW t \in Entry!Tasks, NEW a \in Attempts,
           Entry!Dispatch(p, t, a)
    PROVE  EntryInv'
<1> PICK x : x = proc[p]
  OBVIOUS
<1> PICK ref : ref = <<t, a>>
  OBVIOUS
<1> PICK id : id = Entry!IdOf(x.run, t, ref)
  OBVIOUS
<1> PICK on : on = Entry!On(p, t, ref)
  OBVIOUS
<1>1. x.pc = "drive" /\ UNCHANGED <<runs, ills, limits>>
  BY DEF Entry!Dispatch
<1>2. /\ x.ask = None /\ x.run \in DOMAIN runs /\ DOMAIN x = ProcFields
      /\ x.lin.jumps = Entry!Tighten(runs[x.run].name, runs[x.run].jumps)
      /\ x.lin.depth = runs[x.run].depth
      /\ x.lin.jumps \in Nat /\ x.lin.depth \in Nat
      /\ limits[p] \in Limits /\ limits[p].jumps \in Nat /\ limits[p].depth \in Nat
  BY <1>1, DriverKnows
<1>3. Task[t].kind \in {"run", "reserved", "host"} /\ Task[t].name \in Names
  BY DEF Entry!AdmissionConstants, Entry!Tasks
<1>4. /\ DOMAIN on = ProcFields /\ on.id = id /\ on.task = t /\ on.ref = ref /\ on.run = x.run
      /\ on.lin = x.lin /\ on.ask = None /\ (on.there <=> id \in DOMAIN runs)
  BY <1>2 DEF Entry!On, ProcFields
<1>5. id \in DOMAIN runs => runs[on.id].name = Task[t].name
  BY <1>4, ChildRow DEF EntryInv, IsChild
<1> PICK c \in Entry!Computed(p, t) :
       proc' = [proc EXCEPT ![p] =
             CASE Task[t].kind = "run" -> Entry!RunTask(p, t, ref, c)
               [] Task[t].kind = "reserved" -> Entry!Reserved(p, t, ref, c)
               [] Task[t].kind = "host" -> Entry!HostChild(p, t, ref, c)]
  BY DEF Entry!Dispatch
<1> PICK lin : lin = Entry!Child(x.lin, limits[p], Task[t].owned)
  OBVIOUS
<1> PICK v : v = Entry!Versioned(Task[t].name, c[1])
  OBVIOUS
<1> PICK pinned : pinned = (c[1] # None)
  OBVIOUS
<1> PICK host : host = c[2]
  OBVIOUS
<1> PICK row : row = Entry!Row(Task[t].name, v, host, lin, x.run, limits[p], pinned)
  OBVIOUS
<1>6. PICK q : /\ proc' = [proc EXCEPT ![p] = q] /\ Same(q, on)
               /\ \/ Task[t].kind = "host" /\ q.pc = "depth"
                  \/ /\ id \notin DOMAIN runs
                     /\ \/ q.pc \in {"depth", "toobig"} \cup Refusing
                        \/ q.pc = "commit" /\ q.row = row /\ ~Entry!TooDeep(x.lin, limits[p])
                  \/ id \in DOMAIN runs /\ q.pc = "commit" /\ q.row.name = Task[t].name
  <2> PICK new : new = Entry!Fresh(p, t, on, c)
    OBVIOUS
  <2> PICK old : old = Entry!Joined(t, on)
    OBVIOUS
  <2> PICK r : r = runs[id]
    OBVIOUS
  <2>1. /\ Same(new, on)
        /\ \/ new.pc \in {"depth", "toobig"} \cup Refusing
           \/ new.pc = "commit" /\ new.row = row /\ ~Entry!TooDeep(x.lin, limits[p])
    <3> PICK ill : ill = Entry!Inadmissible(Task[t].name, c[1])
      OBVIOUS
    <3> DEFINE Deep == Entry!TooDeep(x.lin, limits[p])
    <3>1. ill # None => ill \in Refusing
      BY <1>3, Refuses DEF EntryInv
    <3>2. new = IF Deep THEN [on EXCEPT !.pc = "depth"]
                ELSE IF Entry!TooBig(c[2]) THEN [on EXCEPT !.pc = "toobig"]
                ELSE IF ill # None THEN [on EXCEPT !.pc = ill]
                ELSE [on EXCEPT !.pc = "commit", !.row = row]
      BY DEF Entry!Fresh
    <3> HIDE DEF Deep
    <3>3. CASE Deep
      BY <3>2, <3>3, <1>4 DEF Same, ProcFields
    <3>4. CASE ~Deep /\ Entry!TooBig(c[2])
      BY <3>2, <3>4, <1>4 DEF Same, ProcFields
    <3>5. CASE ~Deep /\ ~Entry!TooBig(c[2]) /\ ill # None
      <4>1. new = [on EXCEPT !.pc = ill]
        BY <3>2, <3>5
      <4>2. Same(new, on) /\ new.pc = ill
        BY <4>1, <1>4 DEF Same, ProcFields
      <4> QED BY <4>2, <3>1, <3>5
    <3>6. CASE ~Deep /\ ~Entry!TooBig(c[2]) /\ ill = None
      <4>1. new = [on EXCEPT !.pc = "commit", !.row = row]
        BY <3>2, <3>6
      <4>2. Same(new, on) /\ new.pc = "commit" /\ new.row = row
        BY <4>1, <1>4 DEF Same, ProcFields
      <4> QED BY <4>2, <3>6 DEF Deep
    <3> QED BY <3>3, <3>4, <3>5, <3>6
  <2>2. id \in DOMAIN runs => Same(old, on) /\ old.pc = "commit" /\ old.row.name = Task[t].name
    BY <1>4, <1>5, JoinedIs
  <2>3. CASE Task[t].kind = "run"
    <3> PICK q : q = IF on.there THEN [on EXCEPT !.pc = "commit", !.row = r] ELSE new
      OBVIOUS
    <3>1. proc' = [proc EXCEPT ![p] = q]
      BY <2>3, <1>4 DEF Entry!RunTask
    <3>2. id \in DOMAIN runs => Same(q, on) /\ q.pc = "commit" /\ q.row.name = Task[t].name
      BY <1>4, <1>5 DEF Same, ProcFields
    <3> QED BY <3>1, <3>2, <2>1, <1>4
  <2>4. CASE Task[t].kind = "reserved"
    <3> PICK q : q = IF on.there THEN old ELSE new
      OBVIOUS
    <3>1. proc' = [proc EXCEPT ![p] = q]
      BY <2>4 DEF Entry!Reserved
    <3> QED BY <3>1, <2>1, <2>2, <1>4
  <2>5. CASE Task[t].kind = "host"
    <3> PICK deep : deep = [on EXCEPT !.pc = "depth"]
      OBVIOUS
    <3> PICK q : q = IF Entry!TooDeep(x.lin, limits[p]) THEN deep ELSE IF on.there THEN old ELSE new
      OBVIOUS
    <3>1. proc' = [proc EXCEPT ![p] = q]
      BY <2>5 DEF Entry!HostChild
    <3>2. Same(deep, on) /\ deep.pc = "depth"
      BY <1>4 DEF Same, ProcFields
    <3> QED BY <3>1, <3>2, <2>1, <2>2, <2>5, <1>4
  <2> QED BY <2>3, <2>4, <2>5, <1>3
<1>7. RowsLast /\ RowsAreSound' /\ IllsAreKnown'
  BY <1>1, RowsUnchanged, SameIlls DEF EntryInv
<1>8. /\ DOMAIN q = ProcFields /\ q.id = id /\ q.run = x.run /\ q.lin = x.lin /\ q.task = t
      /\ q.ref = ref /\ q.ask = None /\ (q.there => id \in DOMAIN runs)
  BY <1>4, <1>6 DEF Same
<1>9. q.lin = [jumps |-> Entry!Tighten(runs[q.run].name, runs[q.run].jumps), depth |-> runs[q.run].depth]
  <2>1. Driving(x) /\ x.pc = "drive"
    BY <1>1 DEF EntryInv, ProcsAreSound, ProcIsSound
  <2> QED BY <2>1, <1>8 DEF Driving
<1>10. ~Entry!TooDeep(x.lin, limits[p]) =>
           TypedRow(row) /\ row.link = None /\ row.name = Task[t].name /\ IsChild(id, row, x.run, t, a)
  <2> SUFFICES ASSUME ~Entry!TooDeep(x.lin, limits[p])
               PROVE  TypedRow(row) /\ row.link = None /\ row.name = Task[t].name /\ IsChild(id, row, x.run, t, a)
    OBVIOUS
  <2>1. /\ lin.jumps = IF Task[t].owned THEN x.lin.jumps ELSE limits[p].jumps
        /\ lin.depth = x.lin.depth + 1
    BY DEF Entry!Child
  <2>2. lin.jumps \in Nat /\ lin.depth \in Nat /\ lin.depth <= limits[p].depth
    BY <2>1, <1>2 DEF Entry!TooDeep
  <2>4. /\ TypedRow(row) /\ row.name = Task[t].name /\ row.host = host /\ row.jumps = lin.jumps
        /\ row.depth = lin.depth /\ row.link = None /\ row.starter = x.run /\ row.under = limits[p]
    BY <2>2, <1>2, <1>3, RowIs
  <2>5. Task[t].kind # "host" => host = IF Task[t].inherit THEN runs[x.run].host ELSE None
    BY DEF Entry!Computed
  <2> QED BY <2>1, <2>2, <2>4, <2>5, <1>2 DEF IsChild
<1>11. q.pc \notin {"drive", "admit", "joined", "mismatch"}
  BY <1>6 DEF Refusing
<1>12. q.there => \/ q.pc \in {"commit", "joined", "lost"}
                  \/ Task[q.task].kind = "host" /\ q.pc = "depth"
  BY <1>6, <1>8
<1>13. q.pc = "commit" => /\ q.row.name = Task[t].name
                          /\ id \notin DOMAIN runs =>
                                TypedRow(q.row) /\ q.row.link = None /\ IsChild(id, q.row, x.run, t, a)
  BY <1>6, <1>10 DEF Refusing
<1>14. Dispatching(q)
  BY <1>8, <1>11, <1>12, <1>13 DEF Dispatching
<1>15. Asking(q) /\ Driving(q)
  BY <1>2, <1>8, <1>9, <1>11 DEF Asking, Driving
<1>16. ProcIsSound(q)'
  BY <1>7, <1>8, <1>14, <1>15, ProcessStays DEF EntryInv, ProcIsSound
<1>17. ProcsAreSound'
  BY <1>1, <1>6, <1>7, <1>16, OneMoves
<1> QED BY <1>7, <1>17 DEF EntryInv

\* What a process that commits a dispatch holds.
LEMMA CommitterKnows ==
    ASSUME EntryInv, NEW p \in Procs, NEW x, x = proc[p], x.pc = "commit"
    PROVE  /\ DOMAIN x = ProcFields /\ Asking(x) /\ Driving(x) /\ Dispatching(x) /\ x.ask = None
           /\ x.task \in Entry!Tasks /\ x.id = Entry!IdOf(x.run, x.task, x.ref) /\ x.row.name = Task[x.task].name
           /\ \E a \in Attempts : x.ref = <<x.task, a>>
           /\ x.id \in DOMAIN runs =>
                 runs[x.id].name = Task[x.task].name
                 /\ (Task[x.task].owned => runs[x.id].link = Entry!LinkOf(x.run, x.task, x.ref))
           /\ x.id \notin DOMAIN runs =>
                 /\ TypedRow(x.row) /\ x.row.link = None /\ ~x.there
                 /\ \E a \in Attempts : x.ref = <<x.task, a>> /\ IsChild(x.id, x.row, x.run, x.task, a)
<1>1. DOMAIN x = ProcFields /\ Asking(x) /\ Driving(x) /\ Dispatching(x) /\ x.ask = None
  BY DEF EntryInv, ProcsAreSound, ProcIsSound, Asking
<1>2. /\ x.task \in Entry!Tasks /\ x.id = Entry!IdOf(x.run, x.task, x.ref) /\ x.row.name = Task[x.task].name
      /\ \E a \in Attempts : x.ref = <<x.task, a>>
      /\ x.id \notin DOMAIN runs =>
            /\ TypedRow(x.row) /\ x.row.link = None /\ ~x.there
            /\ \E a \in Attempts : x.ref = <<x.task, a>> /\ IsChild(x.id, x.row, x.run, x.task, a)
  BY <1>1 DEF Dispatching
<1>3. ASSUME x.id \in DOMAIN runs
      PROVE  /\ runs[x.id].name = Task[x.task].name
             /\ Task[x.task].owned => runs[x.id].link = Entry!LinkOf(x.run, x.task, x.ref)
  <2> PICK a \in Attempts : x.ref = <<x.task, a>>
    BY <1>2
  <2> PICK of, t, id : of = x.run /\ t = x.task /\ id = x.id
    OBVIOUS
  <2>1. id = Entry!IdOf(of, t, <<t, a>>) /\ id \in DOMAIN runs /\ RowsAreSound
    BY <1>2, <1>3 DEF EntryInv
  <2>2. IsChild(id, runs[id], of, t, a) /\ Linked(runs[id], of, t, a)
    BY <2>1, ChildRow
  <2> QED BY <2>2 DEF IsChild, Linked
<1> QED BY <1>1, <1>2, <1>3

\* A dispatch that is answered.
LEMMA DispatchAnswered ==
    ASSUME EntryInv, RowsLast, RowsAreSound', UNCHANGED <<ills, limits>>, NEW p \in Procs, NEW pc,
           proc[p].pc = "commit", proc' = [proc EXCEPT ![p].pc = pc],
           \/ pc = "joined" /\ proc[p].id \in DOMAIN runs'
           \/ pc = "lost"
           \/ pc = "tripped" /\ proc[p].id \notin DOMAIN runs
    PROVE  EntryInv'
<1> PICK x : x = proc[p]
  OBVIOUS
<1> PICK q : q = [proc[p] EXCEPT !.pc = pc]
  OBVIOUS
<1>1. /\ DOMAIN x = ProcFields /\ Driving(x) /\ Dispatching(x) /\ x.ask = None /\ x.pc = "commit"
      /\ x.id \notin DOMAIN runs => ~x.there
  BY CommitterKnows
<1>2. /\ DOMAIN q = ProcFields /\ q.pc = pc /\ q.id = x.id /\ q.row = x.row
      /\ q.run = x.run /\ q.lin = x.lin /\ q.task = x.task /\ q.ref = x.ref
      /\ q.ask = x.ask /\ q.there = x.there
  BY <1>1, Answering
<1>3. Asking(q)' /\ Driving(q)'
  BY <1>1, <1>2 DEF Asking, Driving, RowsLast, Lasting
<1>4. Dispatching(q)'
  <2>1. /\ x.task \in Entry!Tasks /\ \E a \in Attempts : x.ref = <<x.task, a>>
        /\ x.id = Entry!IdOf(x.run, x.task, x.ref)
    BY <1>1 DEF Dispatching
  <2>2. q.there => q.id \in DOMAIN runs /\ q.pc \in {"joined", "lost"}
    BY <1>1, <1>2 DEF Dispatching
  <2>3. \A id \in DOMAIN runs : id \in DOMAIN runs'
    BY DEF RowsLast
  <2> QED BY <1>2, <2>1, <2>2, <2>3 DEF Dispatching
<1>5. ProcIsSound(q)'
  BY <1>2, <1>3, <1>4 DEF ProcIsSound
<1>6. proc' = [proc EXCEPT ![p] = q]
  OBVIOUS
<1>7. ProcsAreSound'
  BY <1>5, <1>6, OneMoves
<1> QED BY <1>7, SameIlls DEF EntryInv

LEMMA CommitOwnedKeeps ==
    ASSUME EntryInv, NEW p \in Procs, Entry!CommitOwned(p)
    PROVE  EntryInv'
<1> PICK x : x = proc[p]
  OBVIOUS
<1> PICK id : id = x.id
  OBVIOUS
<1> PICK link : link = Entry!LinkOf(x.run, x.task, x.ref)
  OBVIOUS
<1> PICK row : row = [x.row EXCEPT !.link = link]
  OBVIOUS
<1>1. x.pc = "commit" /\ Task[x.task].owned /\ UNCHANGED <<ills, limits>>
  BY DEF Entry!CommitOwned
<1>2. /\ x.task \in Entry!Tasks
      /\ id \in DOMAIN runs => runs[id].name = x.row.name /\ runs[id].link = link
      /\ id \notin DOMAIN runs =>
            /\ TypedRow(x.row) /\ x.row.link = None
            /\ \E a \in Attempts : x.ref = <<x.task, a>> /\ IsChild(id, x.row, x.run, x.task, a)
  BY <1>1, CommitterKnows
<1>3. PICK pc : /\ proc' = [proc EXCEPT ![p].pc = pc]
                /\ \/ pc = "lost" /\ UNCHANGED runs
                   \/ pc = "joined" /\ UNCHANGED runs /\ id \in DOMAIN runs
                   \/ pc = "tripped" /\ UNCHANGED runs /\ id \notin DOMAIN runs
                   \/ pc = "joined" /\ runs' = Entry!Put(id, row) /\ id \notin DOMAIN runs
  <2>1. CASE ~Entry!Holds(p)
    BY <2>1 DEF Entry!CommitOwned
  <2>2. CASE Entry!Holds(p) /\ id \in DOMAIN runs
    <3>1. UNCHANGED runs /\ proc' = [proc EXCEPT ![p].pc =
              IF runs[id].name = x.row.name /\ runs[id].link = link THEN "joined" ELSE "mismatch"]
      BY <2>2 DEF Entry!CommitOwned
    <3>2. UNCHANGED runs /\ proc' = [proc EXCEPT ![p].pc = "joined"]
      BY <3>1, <2>2, <1>2
    <3> QED BY <3>2, <2>2
  <2>3. CASE Entry!Holds(p) /\ id \notin DOMAIN runs
    BY <2>3 DEF Entry!CommitOwned
  <2> QED BY <2>1, <2>2, <2>3
<1>4. RowsLast /\ RowsAreSound' /\ (pc = "joined" => id \in DOMAIN runs')
  <2>1. CASE UNCHANGED runs /\ (pc = "joined" => id \in DOMAIN runs)
    BY <2>1, RowsUnchanged DEF EntryInv
  <2>2. CASE runs' = Entry!Put(id, row) /\ id \notin DOMAIN runs
    <3> PICK a \in Attempts : x.ref = <<x.task, a>> /\ IsChild(id, x.row, x.run, x.task, a)
      BY <1>2, <2>2
    <3> PICK of, t : of = x.run /\ t = x.task
      OBVIOUS
    <3>1. /\ DOMAIN row = Fields /\ row.link = link
          /\ row.name = x.row.name /\ row.jumps = x.row.jumps /\ row.depth = x.row.depth
          /\ row.under = x.row.under /\ row.starter = x.row.starter /\ row.host = x.row.host
      BY <1>2, <2>2 DEF TypedRow, Fields
    <3>2. TypedRow(row)
      BY <3>1, <1>2, <2>2 DEF TypedRow
    <3>3. IsChild(id, row, of, t, a)
      BY <3>1 DEF IsChild
    <3>4. Linked(row, of, t, a)
      BY <3>1, <1>1 DEF Linked
    <3> QED BY <2>2, <3>2, <3>3, <3>4, Admits DEF EntryInv
  <2> QED BY <2>1, <2>2, <1>3
<1> QED BY <1>1, <1>3, <1>4, DispatchAnswered

LEMMA CommitFreeKeeps ==
    ASSUME EntryInv, NEW p \in Procs, Entry!CommitFree(p)
    PROVE  EntryInv'
<1> PICK x : x = proc[p]
  OBVIOUS
<1> PICK id, row : id = x.id /\ row = x.row
  OBVIOUS
<1>1. x.pc = "commit" /\ ~Task[x.task].owned /\ UNCHANGED <<ills, limits>>
  BY DEF Entry!CommitFree
<1>2. id \notin DOMAIN runs =>
          /\ TypedRow(row) /\ row.link = None
          /\ \E a \in Attempts : x.ref = <<x.task, a>> /\ IsChild(id, row, x.run, x.task, a)
  BY <1>1, CommitterKnows
<1>3. PICK pc : /\ proc' = [proc EXCEPT ![p].pc = pc]
                /\ \/ pc = "joined" /\ UNCHANGED runs /\ id \in DOMAIN runs
                   \/ pc = "tripped" /\ UNCHANGED runs /\ id \notin DOMAIN runs
                   \/ pc = "joined" /\ runs' = Entry!Put(id, row) /\ id \notin DOMAIN runs
  <2>1. CASE id \in DOMAIN runs
    BY <2>1 DEF Entry!CommitFree
  <2>2. CASE id \notin DOMAIN runs
    BY <2>2 DEF Entry!CommitFree
  <2> QED BY <2>1, <2>2
<1>4. RowsLast /\ RowsAreSound' /\ (pc = "joined" => id \in DOMAIN runs')
  <2>1. CASE UNCHANGED runs /\ (pc = "joined" => id \in DOMAIN runs)
    BY <2>1, RowsUnchanged DEF EntryInv
  <2>2. CASE runs' = Entry!Put(id, row) /\ id \notin DOMAIN runs
    <3> PICK a \in Attempts : x.ref = <<x.task, a>> /\ IsChild(id, row, x.run, x.task, a)
      BY <1>2, <2>2
    <3> PICK of, t : of = x.run /\ t = x.task
      OBVIOUS
    <3>1. TypedRow(row) /\ IsChild(id, row, of, t, a)
      BY <1>2, <2>2
    <3>2. Linked(row, of, t, a)
      BY <1>1, <1>2, <2>2 DEF Linked
    <3> QED BY <2>2, <3>1, <3>2, Admits DEF EntryInv
  <2> QED BY <2>1, <2>2, <1>3
<1> QED BY <1>1, <1>3, <1>4, DispatchAnswered

LEMMA TaskAnswerKeeps ==
    ASSUME EntryInv, NEW p \in Procs, Entry!TaskAnswer(p)
    PROVE  EntryInv'
<1> PICK x : x = proc[p]
  OBVIOUS
<1> PICK back : back = [Entry!Idle EXCEPT !.pc = "drive", !.run = x.run, !.gen = x.gen, !.lin = x.lin]
  OBVIOUS
<1>1. x.task # None /\ UNCHANGED <<runs, ills, limits>>
      /\ (proc' = [proc EXCEPT ![p] = Entry!Idle] \/ proc' = [proc EXCEPT ![p] = back])
  BY DEF Entry!TaskAnswer
<1>2. Driving(x) /\ limits \in [Procs -> Limits]
  BY DEF EntryInv, ProcsAreSound, ProcIsSound
<1>3. CASE proc' = [proc EXCEPT ![p] = Entry!Idle]
  BY <1>1, <1>2, <1>3, RestsKeep
<1>4. CASE proc' = [proc EXCEPT ![p] = back]
  <2>1. /\ DOMAIN back = ProcFields /\ back.pc = "drive" /\ back.run = x.run /\ back.lin = x.lin
        /\ back.task = None /\ back.ask = None
    BY DEF Entry!Idle, ProcFields
  <2>2. ProcIsSound(back)'
    BY <1>1, <1>2, <2>1 DEF ProcIsSound, Asking, Driving, Dispatching
  <2>3. RowsLast /\ RowsAreSound' /\ IllsAreKnown'
    BY <1>1, RowsUnchanged, SameIlls DEF EntryInv
  <2>4. ProcsAreSound'
    BY <1>1, <1>4, <2>2, <2>3, OneMoves
  <2> QED BY <2>3, <2>4 DEF EntryInv
<1> QED BY <1>1, <1>3, <1>4

-----------------------------------------------------------------------------
(* What others do.                                                           *)

\* No process moves and no row comes, goes or changes in what lasts.
LEMMA RowsMarked ==
    ASSUME EntryInv, RowsLast, DOMAIN runs' = DOMAIN runs, UNCHANGED <<ills, limits, proc>>
    PROVE  EntryInv'
  BY NoNewRow, NoneMoves, SameIlls DEF EntryInv

LEMMA EndKeeps ==
    ASSUME EntryInv, NEW id \in DOMAIN runs, Entry!End(id) \/ Entry!Hold(id)
    PROVE  EntryInv'
<1>1. DOMAIN runs' = DOMAIN runs /\ UNCHANGED <<ills, limits, proc>>
  BY DEF Entry!End, Entry!Hold
<1>2. ASSUME NEW i \in DOMAIN runs PROVE Lasting(runs'[i], runs[i])
  <2> PICK r, s : r = runs[i] /\ s = runs'[i]
    OBVIOUS
  <2>1. \/ s = r \/ s = [r EXCEPT !.ended = TRUE, !.held = FALSE] \/ s = [r EXCEPT !.held = TRUE]
    BY DEF Entry!End, Entry!Hold
  <2>2. DOMAIN r = Fields
    BY DEF EntryInv, RowsAreSound, TypedRow
  <2> QED BY <2>1, <2>2 DEF Lasting, Fields
<1>3. RowsLast
  BY <1>1, <1>2 DEF RowsLast
<1> QED BY <1>1, <1>3, RowsMarked

LEMMA CatalogKeeps ==
    ASSUME EntryInv, UNCHANGED <<runs, ills, limits, proc>>
    PROVE  EntryInv'
  BY RowsUnchanged, RowsMarked DEF EntryInv

LEMMA AilKeeps ==
    ASSUME EntryInv, NEW n \in Names, NEW i \in Ills, Entry!Ail(n, i)
    PROVE  EntryInv'
<1>1. UNCHANGED <<runs, limits, proc>> /\ ills' = [ills EXCEPT ![n] = [now |-> i, n |-> ills[n].n + 1]]
  BY DEF Entry!Ail
<1>2. RowsLast /\ RowsAreSound'
  BY <1>1, RowsUnchanged DEF EntryInv
<1>3. ProcsAreSound'
  BY <1>1, <1>2, NoneMoves
<1>4. IllsAreKnown'
  <2> PICK ill : ill = [now |-> i, n |-> ills[n].n + 1]
    OBVIOUS
  <2>1. ill.now = i /\ ills' = [ills EXCEPT ![n] = ill]
    BY <1>1
  <2> QED BY <2>1 DEF EntryInv, IllsAreKnown
<1> QED BY <1>2, <1>3, <1>4 DEF EntryInv

LEMMA EntryInit == Entry!Init => EntryInv
<1> SUFFICES ASSUME Entry!Init PROVE EntryInv
  OBVIOUS
<1>1. DOMAIN runs = {}
  BY DEF Entry!Init
<1>2. IllsAreKnown
  BY DEF Entry!Init, IllsAreKnown
<1>3. ASSUME NEW p \in Procs PROVE ProcIsSound(proc[p])
  <2>1. proc[p] = Entry!Idle
    BY DEF Entry!Init
  <2> QED BY <2>1, IdleIsSound
<1>4. DOMAIN proc = Procs /\ limits \in [Procs -> Limits]
  BY DEF Entry!Init
<1> QED BY <1>1, <1>2, <1>3, <1>4 DEF EntryInv, RowsAreSound, ProcsAreSound

LEMMA EntryNext ==
    ASSUME Entry!AdmissionConstants, EntryInv, [Entry!Next]_Entry!vars
    PROVE  EntryInv'
<1>1. ASSUME NEW p \in Procs, NEW start \in Starts, Entry!StartRead(p, start) PROVE EntryInv'
  BY <1>1, StartReadKeeps
<1>2. ASSUME NEW p \in Procs, Entry!StartCommit(p) PROVE EntryInv'
  BY <1>2, StartCommitKeeps
<1>3. ASSUME NEW p \in Procs, Entry!StartAnswer(p) PROVE EntryInv'
  <2>1. proc' = [proc EXCEPT ![p] = Entry!Idle] /\ UNCHANGED <<runs, ills>> /\ limits' \in [Procs -> Limits]
    BY <1>3 DEF Entry!StartAnswer, EntryInv, ProcsAreSound
  <2> QED BY <2>1, RestsKeep
<1>4. ASSUME NEW p \in Procs, NEW id \in DOMAIN runs, Entry!Claim(p, id) PROVE EntryInv'
  BY <1>4, ClaimKeeps
<1>5. ASSUME NEW p \in Procs, NEW t \in Entry!Tasks, NEW a \in Attempts, Entry!Dispatch(p, t, a) PROVE EntryInv'
  BY <1>5, DispatchKeeps
<1>6. ASSUME NEW p \in Procs, Entry!CommitOwned(p) \/ Entry!CommitFree(p) \/ Entry!TaskAnswer(p) PROVE EntryInv'
  BY <1>6, CommitOwnedKeeps, CommitFreeKeeps, TaskAnswerKeeps
<1>7. ASSUME NEW p \in Procs, NEW lim \in Limits, Entry!Redeploy(p, lim) PROVE EntryInv'
  <2>1. limits' \in [Procs -> Limits]
    BY <1>7 DEF Entry!Redeploy, EntryInv, ProcsAreSound
  <2> QED BY <1>7, <2>1, RestsKeep DEF Entry!Redeploy
<1>8. ASSUME NEW id \in DOMAIN runs, Entry!End(id) \/ Entry!Hold(id) PROVE EntryInv'
  BY <1>8, EndKeeps
<1>9. ASSUME NEW n \in Names, NEW v, Entry!Activate(n, v) \/ Entry!Trip(n) PROVE EntryInv'
  BY <1>9, CatalogKeeps DEF Entry!Activate, Entry!Trip
<1>10. ASSUME NEW n \in Names, NEW i \in Ills, Entry!Ail(n, i) PROVE EntryInv'
  BY <1>10, AilKeeps
<1>11. CASE UNCHANGED Entry!vars
  BY <1>11, CatalogKeeps DEF Entry!vars
<1> QED BY <1>1, <1>2, <1>3, <1>4, <1>5, <1>6, <1>7, <1>8, <1>9, <1>10, <1>11 DEF Entry!Next

THEOREM EntryInvariance ==
    ASSUME Entry!AdmissionConstants PROVE Entry!Spec => []EntryInv
<1>1. EntryInv /\ [Entry!Next]_Entry!vars => EntryInv'
  BY EntryNext
<1> QED BY EntryInit, <1>1, PTL DEF Entry!Spec

-----------------------------------------------------------------------------
(* What Admission promises.                                                  *)

\* A caller that is given a run gets what it asked for, however starts of one
\* id race (start, admit, joins).
THEOREM CallersAreTold ==
    ASSUME Entry!AdmissionConstants PROVE Entry!Spec => []Entry!StartIsTold
<1>1. EntryInv => Entry!StartIsTold
  BY DEF EntryInv, ProcsAreSound, ProcIsSound, Asking, Entry!StartIsTold
<1> QED BY EntryInvariance, <1>1, PTL

\* A dispatch joins or starts the child of its own attempt, whatever changed
\* since the attempt was first dispatched (start_child, admit).
THEOREM ChildrenAreJoined ==
    ASSUME Entry!AdmissionConstants PROVE Entry!Spec => []Entry!JoinsOwnChild
<1>1. ASSUME EntryInv PROVE Entry!JoinsOwnChild
  <2> SUFFICES ASSUME NEW p \in Procs, proc[p].task # None
               PROVE  /\ proc[p].pc # "mismatch"
                      /\ proc[p].pc = "joined" =>
                           /\ runs[proc[p].id].name = Task[proc[p].task].name
                           /\ Task[proc[p].task].owned =>
                                runs[proc[p].id].link = Entry!LinkOf(proc[p].run, proc[p].task, proc[p].ref)
    BY DEF Entry!JoinsOwnChild
  <2>1. Dispatching(proc[p])
    BY <1>1 DEF EntryInv, ProcsAreSound, ProcIsSound
  <2> PICK of, t, id, ref : of = proc[p].run /\ t = proc[p].task /\ id = proc[p].id /\ ref = proc[p].ref
    OBVIOUS
  <2>2. PICK a \in Attempts : ref = <<t, a>>
    BY <2>1 DEF Dispatching
  <2>3. id = Entry!IdOf(of, t, <<t, a>>)
    BY <2>1, <2>2 DEF Dispatching
  <2>4. id \in DOMAIN runs => IsChild(id, runs[id], of, t, a) /\ Linked(runs[id], of, t, a)
    BY <1>1, <2>3, ChildRow DEF EntryInv
  <2> QED BY <2>1, <2>2, <2>4 DEF Dispatching, IsChild, Linked
<1> QED BY EntryInvariance, <1>1, PTL

\* Nesting is counted through owned and independent children alike and keeps
\* within the ceiling of the host that admitted the run (Lineage::child).
THEOREM NestingIsCounted ==
    ASSUME Entry!AdmissionConstants PROVE Entry!Spec => []Entry!DepthCounts
<1>1. ASSUME EntryInv PROVE Entry!DepthCounts
  <2> SUFFICES ASSUME NEW id \in DOMAIN runs
               PROVE  /\ runs[id].depth <= runs[id].under.depth
                      /\ runs[id].starter # None => runs[id].depth = runs[runs[id].starter].depth + 1
    BY DEF Entry!DepthCounts
  <2>1. TypedRow(runs[id])
    BY <1>1 DEF EntryInv, RowsAreSound
  <2>2. CASE IsRoot(id, runs[id])
    BY <2>1, <2>2 DEF IsRoot, TypedRow, Entry!AdmissionConstants
  <2>3. CASE ~IsRoot(id, runs[id])
    BY <1>1, <2>3 DEF EntryInv, RowsAreSound, IsChild
  <2> QED BY <2>2, <2>3
<1> QED BY EntryInvariance, <1>1, PTL

\* An owned child has no more jumps than its parent's budget as pinned and
\* declared, any other run its host's ceiling (Lineage::of, Lineage::child).
THEOREM BudgetsNarrow ==
    ASSUME Entry!AdmissionConstants, NoneIsNoLink PROVE Entry!Spec => []Entry!BudgetNarrows
<1>1. ASSUME EntryInv PROVE Entry!BudgetNarrows
  <2> SUFFICES ASSUME NEW id \in DOMAIN runs
               PROVE  IF runs[id].link = None THEN runs[id].jumps = runs[id].under.jumps
                      ELSE runs[id].jumps <= Entry!Tighten(runs[runs[id].link.parent].name, runs[runs[id].link.parent].jumps)
    BY DEF Entry!BudgetNarrows
  <2>1. CASE IsRoot(id, runs[id])
    BY <2>1 DEF IsRoot
  <2>2. CASE ~IsRoot(id, runs[id])
    <3> PICK of \in DOMAIN runs, t \in Entry!Tasks, a \in Attempts :
               IsChild(id, runs[id], of, t, a) /\ Linked(runs[id], of, t, a)
      BY <1>1, <2>2 DEF EntryInv, RowsAreSound
    <3>1. CASE Task[t].owned
      <4>1. runs[id].link = Entry!LinkOf(of, t, <<t, a>>) /\ runs[id].link # None /\ runs[id].link.parent = of
        BY <3>1 DEF Linked, NoneIsNoLink, Entry!LinkOf
      <4>2. runs[id].jumps = Entry!Tighten(runs[of].name, runs[of].jumps) /\ runs[id].jumps \in Nat
        BY <1>1, <3>1 DEF IsChild, EntryInv, RowsAreSound, TypedRow
      <4> QED BY <4>1, <4>2
    <3>2. CASE ~Task[t].owned
      BY <3>2 DEF IsChild, Linked
    <3> QED BY <3>1, <3>2
  <2> QED BY <2>1, <2>2
<1> QED BY EntryInvariance, <1>1, PTL

\* What a workflow starts has no host data, or exactly its parent's where the
\* task says so (Children::start).
THEOREM HostDataIsVouched ==
    ASSUME Entry!AdmissionConstants PROVE Entry!Spec => []Entry!HostIsVouched
<1>1. ASSUME EntryInv PROVE Entry!HostIsVouched
  <2> SUFFICES ASSUME NEW id \in DOMAIN runs, runs[id].starter # None, Task[id[3][1]].kind # "host"
               PROVE  runs[id].host = IF Task[id[3][1]].inherit THEN runs[runs[id].starter].host ELSE None
    BY DEF Entry!HostIsVouched
  <2> PICK of \in DOMAIN runs, t \in Entry!Tasks, a \in Attempts : IsChild(id, runs[id], of, t, a)
    BY <1>1 DEF EntryInv, RowsAreSound, IsRoot
  <2>1. id[3][1] = t
    BY IdsDiffer DEF IsChild
  <2> QED BY <2>1 DEF IsChild
<1> QED BY EntryInvariance, <1>1, PTL

\* Where no handler starts children, a definite refusal of a task means that
\* its attempt has no child (run: workflow, the reserved start_child).
THEOREM RefusalsDoNothing ==
    ASSUME Entry!AdmissionConstants, \A t \in Entry!Tasks : Task[t].kind # "host"
    PROVE  Entry!Spec => []Entry!RefusedDidNothing
<1>1. EntryInv => Entry!RefusedDidNothing
  BY DEF EntryInv, ProcsAreSound, ProcIsSound, Dispatching, Entry!RefusedDidNothing, Entry!Refusals
<1> QED BY EntryInvariance, <1>1, PTL

=============================================================================
