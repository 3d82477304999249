------------------------------ MODULE Mailbox ------------------------------
(***************************************************************************)
(* Events: the mailbox of each run in the store (engine.rs, section 3;     *)
(* register_wait .. publish; Command::Respond; sweep) and the interpreter  *)
(* that listens (ows/src/run.rs: listen, next_event, a run's child).       *)
(*                                                                         *)
(* Each operation of the store is one transaction from a run's row to a    *)
(* row.  What interleaves is the branches of a run, each a sequence of     *)
(* such operations, with hosts, operators, the run's child, the sweep,     *)
(* and with crashes after which a run is executed again from its records.  *)
(*                                                                         *)
(* A run's program is a fork of all the listens and, for a run in Parent,  *)
(* of an awaited child.  Ownership is in Runs: the owner's steps need      *)
(* Running and no hold.  An event is its identity (source + id): another   *)
(* payload under the same identity is refused and changes nothing.         *)
(***************************************************************************)
EXTENDS Integers, Sequences, FiniteSets, FiniteSetsExt, TLC

CONSTANTS
    Run,       \* run ids
    Parent,    \* the runs whose program awaits a child
    Event,     \* identities of the events that hosts deliver or publish
    TypeOf,    \* the type of each event
    Listen,    \* the listen tasks of a run's program
    Routes,    \* the types each listens for; Star for every published event
    Takes,     \* how many events each consumes before it is done
    Deadline,  \* when each times out
    MailboxMs, \* Policy::mailbox_ms
    MaxCopies, \* copies a run accepts (a bound for TLC)
    MaxTime,   \* the last instant (a bound for TLC)
    Star,      \* the route `*'
    None       \* an absent value

\* The types of the notices a run gets from its child.
Done == "done"
Waits == "waiting"

Type == {TypeOf[e] : e \in Event} \cup ((UNION {Routes[l] : l \in Listen}) \ {Star})
            \cup {Done, Waits}

\* Later than every instant.
Never == MaxTime + MailboxMs + 1

ASSUME ProgramAssumption ==
    /\ Parent \subseteq Run
    /\ Listen \cap {"join", "child", "expired"} = {}
    /\ None \notin Nat \cup Event
    /\ None \notin [at : Listen \cup {"join", "child", "expired"}, n : Nat]
    /\ DOMAIN TypeOf = Event /\ Star \notin {TypeOf[e] : e \in Event} \cup {Done, Waits}
    /\ \A e \in Event : TypeOf[e] \notin {Done, Waits}
    /\ DOMAIN Routes = Listen
    /\ Takes \in [Listen -> Nat \ {0}]
    /\ Deadline \in [Listen -> Nat]
    /\ {MailboxMs, MaxCopies, MaxTime} \subseteq Nat

VARIABLES
    row,     \* each run's row with its copies and event records
    index,   \* the `delivered' index: pairs of an event and a recipient
    exec,    \* the volatile state of each run's executor: its branches
    offered, \* history: pairs of an event and the run that a competing delivery chose
    now

vars == <<row, index, exec, offered, now>>

-----------------------------------------------------------------------------
(* Rows.  A key is a position: the nth event of a listen, or of the join   *)
(* on the child.  Listeners and subscriptions are kept by key and task;    *)
(* their types follow from it.                                             *)

Key == [at : Listen \cup {"join", "child", "expired"}, n : 0..MaxCopies]
JoinKey == [at |-> "join", n |-> 0]
ChildKey == [at |-> "child", n |-> 0]   \* start_child's internal listener
KeyTypes(k) == IF k.at \in Listen THEN Routes[k.at] ELSE {Done}
Typed(l) == Routes[l] \ {Star}

NoPending == [copies |-> 0, cloud |-> 0]

NewRow ==
    [ state |-> "Running", wake |-> 0, held |-> FALSE, child |-> "none", answered |-> {},
      awaits |-> [t \in Type |-> None], addressed |-> {}, listeners |-> {},
      subscriptions |-> {}, waits |-> {}, copies |-> << >>, records |-> {},
      over |-> {}, pending |-> [t \in Type |-> NoPending], published |-> 0,
      mailbox |-> None ]

Live(s) == s.state # "Ended"
Held(s, e) == {n \in DOMAIN s.copies : s.copies[n].event = e}
Pending(s) == {n \in DOMAIN s.copies : s.copies[n].key = None}
Expired(c) == c.expires <= now
Published(c) == c.cloud /\ ~c.delivered
Earliest(S) == IF S = {} THEN None ELSE Min(S)

\* subscribed: a CloudEvent, by its type or, if published, by `*'.
Subscribed(s, c) ==
    c.cloud /\ \E l \in s.subscriptions :
                  c.type \in Routes[l] \/ (Published(c) /\ Star \in Routes[l])

\* wakes: a CloudEvent wakes a run that awaits its type; a notice only one
\* whose listen or addressed wait names it, other than the internal listener.
Wakes(s, t, cloud) ==
    IF cloud THEN s.awaits[t] # None
    ELSE t \in s.addressed \/ \E k \in s.listeners \ {ChildKey} : t \in KeyTypes(k)

\* wanted: a pending, unexpired copy the run waits or is subscribed for.
Wanted(s, c) ==
    c.key = None /\ ~Expired(c) /\ (Wakes(s, c.type, c.cloud) \/ Subscribed(s, c))

\* push: a new copy, with its counters.
Push(s, c) ==
    [s EXCEPT !.copies = Append(@, c),
              !.pending[c.type] = [copies |-> @.copies + 1,
                                   cloud |-> @.cloud + (IF c.cloud THEN 1 ELSE 0)],
              !.published = @ + (IF Published(c) THEN 1 ELSE 0),
              !.mailbox = IF c.expires = Never THEN @ ELSE Earliest({c.expires} \cup ({@} \ {None}))]

Marked(s, keys) ==
    [s EXCEPT !.copies = [n \in DOMAIN @ |-> IF n \in DOMAIN keys THEN [@[n] EXCEPT !.key = keys[n]] ELSE @[n]],
              !.records = @ \cup {[key |-> keys[n], n |-> n] : n \in DOMAIN keys}]

\* Altered: the counters stay as they are.
ConsumeKeepingCounters(s, keys) == Marked(s, keys)

\* consume, of several copies: each is marked with its key and the counters
\* drop; the record is committed with it, and the earliest expiry refreshed.
Consume(s, keys) ==
    LET N == DOMAIN keys
        of(t) == {n \in N : s.copies[n].type = t}
    IN  [Marked(s, keys) EXCEPT
            !.pending = [t \in Type |->
                [copies |-> @[t].copies - Cardinality(of(t)),
                 cloud |-> @[t].cloud - Cardinality({n \in of(t) : s.copies[n].cloud})]],
            !.published = @ - Cardinality({n \in N : Published(s.copies[n])}),
            !.mailbox = Earliest({s.copies[n].expires : n \in Pending(s) \ N} \ {Never})]

\* Altered: a copy expires an instant late.
ExpireLate(s) ==
    IF s.mailbox = None \/ s.mailbox >= now THEN s
    ELSE Consume(s, [n \in {m \in Pending(s) : Expired(s.copies[m])} |-> [at |-> "expired", n |-> n]])

\* expire: every copy whose mailbox time is over, under a record of its own.
Expire(s) ==
    IF s.mailbox = None \/ s.mailbox > now THEN s
    ELSE Consume(s, [n \in {m \in Pending(s) : Expired(s.copies[m])} |-> [at |-> "expired", n |-> n]])

\* Altered: only registrations of a type are looked at, not subscriptions.
PendingWantedTyped(s) ==
    \E t \in Type : s.awaits[t] # None /\ s.pending[t].copies > 0

\* pending_wanted: answered by the counters, unless a copy has expired and is
\* not consumed yet; then by the copies that are live.
PendingWanted(s) ==
    LET fresh == s.mailbox = None \/ s.mailbox > now
        live == {s.copies[n] : n \in {m \in Pending(s) : ~Expired(s.copies[m])}}
        cloud(t) == s.pending[t].cloud > 0 /\ (fresh \/ \E c \in live : c.type = t /\ c.cloud)
    IN  \/ \E t \in Type : s.awaits[t] # None /\
              \/ s.pending[t].copies > s.pending[t].cloud /\ Wakes(s, t, FALSE)
              \/ cloud(t)
        \/ \E l \in s.subscriptions :
              \/ \E t \in Typed(l) : cloud(t)
              \/ Star \in Routes[l] /\ s.published > 0 /\ (fresh \/ \E c \in live : Published(c))

\* close: a type no listener names any more is not awaited.
Close(s, types) ==
    LET closed == {t \in types \ {Star} : \A k \in s.listeners : t \notin KeyTypes(k)}
    IN  [s EXCEPT !.awaits = [t \in Type |-> IF t \in closed THEN None ELSE @[t]],
                  !.addressed = @ \ closed]

-----------------------------------------------------------------------------
(* Accepting.                                                              *)

Copy(e, delivered, expires) ==
    [event |-> e, type |-> TypeOf[e], cloud |-> TRUE, delivered |-> delivered,
     expires |-> expires, key |-> None]

\* Altered: an identity is looked for among the pending copies only.
AcceptAgain(s, c) ==
    IF Held(s, c.event) \cap Pending(s) # {} THEN s
    ELSE Push(IF Wanted(s, c) THEN [s EXCEPT !.wake = Min({@, now})] ELSE s, c)

\* accept: once per identity, and it wakes a run that wants it.
Accept(s, c) ==
    IF Held(s, c.event) # {} THEN s
    ELSE Push(IF Wanted(s, c) THEN [s EXCEPT !.wake = Min({@, now})] ELSE s, c)

\* Altered: a child's notice does not wake its parent.
NotifyQuietly(s, t) ==
    IF ~Live(s) \/ s.awaits[t] = None \/ s.pending[t].copies > 0 THEN s
    ELSE Push(s, [event |-> None, type |-> t, cloud |-> FALSE, delivered |-> FALSE,
                  expires |-> Never, key |-> None])

\* notify: a child's notice, one pending copy per type.
Notify(s, t) ==
    IF ~Live(s) \/ s.awaits[t] = None \/ s.pending[t].copies > 0 THEN s
    ELSE Push(IF Wakes(s, t, FALSE) THEN [s EXCEPT !.wake = now] ELSE s,
              [event |-> None, type |-> t, cloud |-> FALSE, delivered |-> FALSE,
               expires |-> Never, key |-> None])

\* lifecycle: a child's end is noticed once, and closes the automatic wait for
\* its waiting.
Lifecycle(s, t) ==
    IF t = Waits THEN Notify(s, Waits)
    ELSE IF \E n \in DOMAIN s.copies : s.copies[n].type = Done THEN s
    ELSE Notify(Close(s, {Waits}), Done)

\* The `wait' index: the registrations a competing delivery may choose.
Registered(s, t) ==
    /\ Live(s) /\ ~s.held
    /\ s.awaits[t] # None
    /\ s.pending[t].copies = 0
    /\ (t = Waits /\ ChildKey \in s.listeners) => t \in s.addressed

Recipients(e) == {r \in Run : <<e, r>> \in index}

\* Whom a delivery without a target chooses: an earlier recipient, or the
\* oldest registration of the type.
Chosen(e) ==
    LET t == TypeOf[e]
        waiting == {r \in Run : Registered(row[r], t)}
    IN  IF Recipients(e) # {} THEN Recipients(e)
        ELSE {r \in waiting : \A q \in waiting : row[r].awaits[t] <= row[q].awaits[t]}

\* The rows and the index after r accepted e by a delivery.
DeliverTo(r, e) ==
    /\ row' = [row EXCEPT ![r] = Accept(@, Copy(e, TRUE, now + MailboxMs))]
    /\ index' = IF Held(row[r], e) = {} THEN index \cup {<<e, r>>} ELSE index

-----------------------------------------------------------------------------
(* Hosts and operators.                                                    *)

Room(s) == Len(s.copies) < MaxCopies

\* deliver to a target: an ended run accepts nothing more.
Deliver(e, r) ==
    /\ Live(row[r]) /\ Room(row[r])
    /\ DeliverTo(r, e)
    /\ UNCHANGED <<exec, offered, now>>

\* deliver without one.
DeliverAny(e) ==
    \E r \in Chosen(e) :
        /\ Live(row[r]) /\ Room(row[r])
        /\ DeliverTo(r, e)
        /\ offered' = IF Held(row[r], e) = {} THEN offered \cup {<<e, r>>} ELSE offered
        /\ UNCHANGED <<exec, now>>

\* publish to a target: kept in its mailbox for a limited time.
PublishTo(e, r) ==
    /\ Live(row[r]) /\ Room(row[r])
    /\ row' = [row EXCEPT ![r] = Accept(@, Copy(e, FALSE, now + MailboxMs))]
    /\ UNCHANGED <<index, exec, offered, now>>

\* publish to all: one copy for every live run subscribed.
Publish(e) ==
    LET c == Copy(e, FALSE, Never)
        to == {r \in Run : Live(row[r]) /\ Subscribed(row[r], c)}
    IN  /\ \A r \in to : Room(row[r])
        /\ row' = [r \in Run |-> IF r \in to THEN Accept(row[r], c) ELSE row[r]]
        /\ UNCHANGED <<index, exec, offered, now>>

\* A delivered copy becomes a published one for a wildcard listen to take.
ForWildcard(s, l, n) ==
    IF Star \in Routes[l] /\ s.copies[n].delivered
    THEN [s EXCEPT !.copies[n].delivered = FALSE,
                   !.published = @ + 1,
                   !.wake = Min({@, now})]
    ELSE s

\* Respond: an operator's answer to an open wait, once per identity.  It is
\* delivered, and for a wildcard listen turned into a published copy.
Respond(r, l, e) ==
    LET s == Accept(row[r], Copy(e, TRUE, now + MailboxMs))
        n == CHOOSE n \in Held(s, e) : TRUE
    IN  /\ Live(row[r]) /\ Room(row[r])
        /\ e \notin row[r].answered
        /\ \E w \in row[r].waits : w.at = l
        /\ now < Deadline[l]
        /\ TypeOf[e] \in Routes[l] \/ Star \in Routes[l]
        /\ Star \in Routes[l] => s.copies[n].key = None
        /\ row' = [row EXCEPT ![r] =
              [ForWildcard(s, l, n) EXCEPT !.answered = @ \cup {e}]]
        /\ index' = IF Held(row[r], e) = {} THEN index \cup {<<e, r>>} ELSE index
        /\ UNCHANGED <<exec, offered, now>>

\* set_hold, and its release.
SetHold(r) ==
    /\ Live(row[r])
    /\ row' = [row EXCEPT ![r].held = ~@]
    /\ UNCHANGED <<index, exec, offered, now>>

\* terminate: all waits close and the child ends with its parent.
Terminated(s) ==
    [s EXCEPT !.state = "Ended", !.held = FALSE,
              !.awaits = [t \in Type |-> None], !.addressed = {},
              !.listeners = {}, !.subscriptions = {}, !.waits = {},
              !.child = IF @ = "none" THEN @ ELSE "ended"]

End(r) ==
    /\ Live(row[r])
    /\ row' = [row EXCEPT ![r] = Terminated(@)]
    /\ exec' = [exec EXCEPT ![r] = [b \in DOMAIN @ |-> "over"]]
    /\ UNCHANGED <<index, offered, now>>

\* forget: the records and copies of an ended run, with their index rows.
Forgotten(s) ==
    [s EXCEPT !.copies = << >>, !.records = {}, !.published = 0, !.mailbox = None,
              !.pending = [t \in Type |-> NoPending]]

\* sweep: forgets ended runs past their retention and expires the mailboxes.
Sweep ==
    \E old \in SUBSET {r \in Run : ~Live(row[r])} :
        /\ row' = [r \in Run |-> IF r \in old THEN Forgotten(row[r])
                                ELSE IF Live(row[r]) THEN Expire(row[r]) ELSE row[r]]
        /\ index' = {x \in index : ~ (x[2] \in old /\
                        \E n \in Held(row[x[2]], x[1]) : row[x[2]].copies[n].delivered)}
        /\ offered' = {x \in offered : x[2] \notin old}
        /\ UNCHANGED <<exec, now>>

Tick ==
    /\ now < MaxTime
    /\ now' = now + 1
    /\ UNCHANGED <<row, index, exec, offered>>

-----------------------------------------------------------------------------
(* The child: it waits, runs on and ends, each with its notice.            *)

Child(r, from, to, s) ==
    /\ Live(row[r]) /\ Room(row[r])
    /\ row[r].child \in from
    /\ row' = [row EXCEPT ![r] = [s EXCEPT !.child = to]]
    /\ UNCHANGED <<index, exec, offered, now>>

ChildWaits(r) == ~row[r].held /\ Child(r, {"running"}, "waiting", Lifecycle(row[r], Waits))
ChildRuns(r) == ~row[r].held /\ Child(r, {"waiting"}, "running", row[r])
ChildEnds(r) == Child(r, {"running", "waiting"}, "ended", Lifecycle(row[r], Done))

-----------------------------------------------------------------------------
(* The owner.  A branch is at its next operation; its position is the      *)
(* number of its events already recorded.                                  *)

Branch(r) == Listen \cup (IF r \in Parent THEN {"join"} ELSE {})
Entered(s, r) == [b \in Branch(r) |-> IF b \in s.over THEN "over" ELSE "start"]
Taken(s, b) == Cardinality({x \in s.records : x.key.at = b})
Position(s, b) == [at |-> b, n |-> Taken(s, b)]
Needed(b) == IF b \in Listen THEN Takes[b] ELSE 1

\* One operation of branch b from one of the places pcs, if the run is owned.
Step(r, b, pcs, s, pc) ==
    /\ row[r].state = "Running" /\ ~row[r].held
    /\ exec[r][b] \in pcs
    /\ row' = [row EXCEPT ![r] = s]
    /\ exec' = [exec EXCEPT ![r][b] = pc]
    /\ UNCHANGED <<index, offered, now>>

\* register_wait, from the first position that has no record.
Registering(s, types) ==
    [s EXCEPT !.addressed = @ \cup types,
              !.awaits = [t \in Type |-> IF t \in types /\ @[t] = None THEN now ELSE @[t]]]

Register(r, l) ==
    /\ Taken(row[r], l) < Takes[l]
    /\ Step(r, l, {"start"}, Registering(row[r], Typed(l)), "subscribe")

Subscribe(r, l) ==
    Step(r, l, {"subscribe"}, [row[r] EXCEPT !.subscriptions = @ \cup {l}], "describe")

\* describe_wait: the wait an operator sees, one per listen, at its position.
Describe(r, l) ==
    Step(r, l, {"describe"},
         [row[r] EXCEPT !.waits = {w \in @ : w.at # l} \cup {Position(row[r], l)}], "take")

\* What take_event may take: of a listed type or, for `*', published.
Takeable(s, types) ==
    {n \in Pending(s) : s.copies[n].type \in types \/ (Star \in types /\ Published(s.copies[n]))}

\* take_event, after expire: the first in arrival order is consumed under k
\* with its record, and the wait closes.
TakeFirst(s, k, types) ==
    LET n == Min(Takeable(s, types))
        t == Consume(s, [m \in {n} |-> k])
        child == IF s.copies[n].type = Done THEN {ChildKey} ELSE {}
    IN  Close([t EXCEPT !.listeners = @ \ ({k} \cup child), !.waits = @ \ {k}], types)

\* take_event; a listen repeats it after a notification and at the end of its hold.
Take(r, b) ==
    LET s == Expire(row[r])
        k == IF b \in Listen THEN Position(row[r], b) ELSE JoinKey
        types == KeyTypes(k)
        last == Taken(row[r], b) + 1 = Needed(b)
        from == IF b \in Listen THEN {"take", "parked"} ELSE {"take"}
    IN  /\ b \in Listen /\ exec[r][b] = "take" => now < Deadline[b]
        /\ IF Takeable(s, types) = {}
           THEN Step(r, b, from, [s EXCEPT !.listeners = @ \cup {k}], "parked")
           ELSE Step(r, b, from, TakeFirst(s, k, types),
                     CASE b \notin Listen -> "save" [] last -> "leave" [] OTHER -> "describe")

\* next_event past the deadline: unregister_wait, then unsubscribe.
Unregister(r, l) ==
    /\ now >= Deadline[l]
    /\ Step(r, l, {"take"},
            Close([row[r] EXCEPT !.listeners = @ \ {Position(row[r], l)}], Typed(l)), "leave")

\* unsubscribe, at the end of a listen or when all its events are recorded.
Unsubscribe(r, l) ==
    /\ exec[r][l] = "start" => Taken(row[r], l) = Takes[l]
    /\ Step(r, l, {"start", "leave"},
            [row[r] EXCEPT !.subscriptions = @ \ {l}, !.waits = {w \in @ : w.at # l}], "save")

\* start_child: the waits for its notices and its internal listener; a child
\* started before reports again how it stands.
StartChild(r) ==
    LET awaiting == [row[r] EXCEPT
            !.awaits = [t \in Type |-> IF t \in {Done, Waits} /\ @[t] = None THEN now ELSE @[t]],
            !.listeners = @ \cup {ChildKey}]
    IN  /\ r \in Parent /\ Room(row[r])
        /\ Taken(row[r], "join") = 0
        /\ Step(r, "join", {"start"},
                CASE row[r].child = "none" -> [awaiting EXCEPT !.child = "running"]
                  [] row[r].child = "waiting" -> Lifecycle(awaiting, Waits)
                  [] row[r].child = "ended" -> Lifecycle(awaiting, Done)
                  [] OTHER -> awaiting,
                "register")

RegisterJoin(r) ==
    r \in Parent /\ Step(r, "join", {"register"}, Registering(row[r], {Done}), "take")

\* The task's result is saved; a join whose event is recorded goes here at once.
Save(r, b) ==
    /\ exec[r][b] = "start" => (b = "join" /\ Taken(row[r], b) = 1)
    /\ Step(r, b, {"start", "save"}, [row[r] EXCEPT !.over = @ \cup {b}], "over")

\* finish(Waiting): until the first deadline, or at once for a wanted copy.
FinishWaiting(r) ==
    LET s == row[r]
        sleep == Min({Deadline[l] : l \in {b \in Listen : exec[r][b] = "parked"}} \cup {Never})
    IN  /\ s.state = "Running" /\ ~s.held
        /\ \A b \in Branch(r) : exec[r][b] \in {"parked", "over"}
        /\ \E b \in Branch(r) : exec[r][b] = "parked"
        /\ row' = [row EXCEPT ![r] = [s EXCEPT !.state = "Waiting",
                       !.wake = IF PendingWanted(s) THEN now ELSE sleep]]
        /\ exec' = [exec EXCEPT ![r] = Entered(s, r)]
        /\ UNCHANGED <<index, offered, now>>

\* A claim of a run that is due, or of one whose executor was lost: it starts
\* again from its records.
Claim(r) ==
    /\ ~row[r].held
    /\ \/ row[r].state = "Waiting" /\ row[r].wake <= now
       \/ row[r].state = "Running"
    /\ row' = [row EXCEPT ![r].state = "Running"]
    /\ exec' = [exec EXCEPT ![r] = Entered(row[r], r)]
    /\ UNCHANGED <<index, offered, now>>

Init ==
    /\ row = [r \in Run |-> NewRow]
    /\ index = {}
    /\ exec = [r \in Run |-> Entered(NewRow, r)]
    /\ offered = {}
    /\ now = 0

Owner(r) ==
    \/ \E l \in Listen :
          \/ Register(r, l) \/ Subscribe(r, l) \/ Describe(r, l)
          \/ Unregister(r, l) \/ Unsubscribe(r, l)
    \/ StartChild(r) \/ RegisterJoin(r)
    \/ \E b \in Branch(r) : Take(r, b) \/ Save(r, b)
    \/ FinishWaiting(r)

Next ==
    \/ Tick \/ Sweep
    \/ \E r \in Run :
          \/ Owner(r) \/ Claim(r) \/ SetHold(r) \/ End(r)
          \/ ChildWaits(r) \/ ChildRuns(r) \/ ChildEnds(r)
    \/ \E e \in Event :
          \/ DeliverAny(e) \/ Publish(e)
          \/ \E r \in Run :
                \/ Deliver(e, r) \/ PublishTo(e, r)
                \/ \E l \in Listen : Respond(r, l, e)

Spec == Init /\ [][Next]_vars

-----------------------------------------------------------------------------
(* What the store keeps.                                                   *)

\* Rows, copies and records are of the shape the store (StoredRun and
\* StoredEvent) gives them.
TypeOK ==
    /\ now \in 0..MaxTime
    /\ index \subseteq Event \X Run /\ offered \subseteq Event \X Run
    /\ \A r \in Run :
        LET s == row[r] IN
        /\ s.state \in {"Running", "Waiting", "Ended"}
        /\ s.wake \in 0..Never /\ s.held \in BOOLEAN
        /\ s.child \in {"none", "running", "waiting", "ended"}
        /\ s.awaits \in [Type -> {None} \cup 0..MaxTime]
        /\ s.addressed \subseteq Type /\ s.answered \subseteq Event
        /\ s.listeners \subseteq Key /\ s.waits \subseteq Key
        /\ s.subscriptions \subseteq Listen /\ s.over \subseteq Branch(r)
        /\ Len(s.copies) <= MaxCopies
        /\ \A n \in DOMAIN s.copies :
              /\ s.copies[n].type \in Type /\ s.copies[n].key \in Key \cup {None}
              /\ s.copies[n].cloud <=> s.copies[n].event \in Event
        /\ s.records \subseteq [key : Key, n : DOMAIN s.copies]
        /\ DOMAIN exec[r] = Branch(r)

\* The position an operation of the store waits at: the next of a listen that
\* is not over.
Waiting(r) == {l \in Listen : row[r].state = "Waiting" /\ l \notin row[r].over}

\* No lost wake-up: a run that suspended (finish) is due at once if its mailbox
\* holds a live copy that the take it suspended in would consume, whether it
\* arrived before the finish, with it or after it (accept, notify, Respond).
NoLostWakeup ==
    \A r \in Run :
        /\ row[r].state = "Waiting"
        /\ \E k \in row[r].listeners \ {ChildKey} :
              \E n \in Takeable(row[r], KeyTypes(k)) : ~Expired(row[r].copies[n])
        => row[r].wake <= now

PendingOf(s, t) == {n \in Pending(s) : s.copies[n].type = t}
CloudOf(s, t) == {n \in PendingOf(s, t) : s.copies[n].cloud}
PublishedOf(s) == {n \in Pending(s) : Published(s.copies[n])}

Counted(s) ==
    /\ \A t \in Type :
          /\ s.pending[t] = [copies |-> Cardinality(PendingOf(s, t)), cloud |-> Cardinality(CloudOf(s, t))]
          /\ Cardinality(PendingOf(s, t) \ CloudOf(s, t)) <= 1
    /\ s.published = Cardinality(PublishedOf(s))
    /\ s.mailbox = Earliest({s.copies[n].expires : n \in Pending(s)} \ {Never})

\* The counters a delivery and a finish decide by (StoredRun::pending, published
\* and mailbox) are those of the copies; a type has one pending notice at most.
CountersAgree == \A r \in Run : Counted(row[r])

\* A copy is consumed once, by the one position whose record names it, and a
\* position consumes one copy (take_event, expire), across restarts.
TakenOnce ==
    \A r \in Run :
        /\ \A x, y \in row[r].records : x.n = y.n \/ x.key = y.key => x = y
        /\ \A n \in DOMAIN row[r].copies :
              row[r].copies[n].key # None
                => [key |-> row[r].copies[n].key, n |-> n] \in row[r].records

\* Redelivery: a run holds one copy of an identity however often and by whatever
\* way it comes; deliveries without a target reach one run, as long as it keeps
\* its evidence (accept, the `delivered' index).
AcceptedOnce ==
    /\ \A r \in Run : \A m, n \in DOMAIN row[r].copies :
          row[r].copies[m].event = row[r].copies[n].event => m = n \/ ~row[r].copies[n].cloud
    /\ \A x, y \in offered : x[1] = y[1] => x = y

\* A suspended run keeps open everything its listens promised: they are
\* subscribed, listed as a wait an operator can answer, at the position where the
\* next event goes, and named by a listener (subscribe, describe_wait, take_event).
SuspendedIsOpen ==
    \A r \in Run : \A l \in Waiting(r) :
        /\ l \in row[r].subscriptions
        /\ {w \in row[r].waits : w.at = l} = {Position(row[r], l)}
        /\ {k \in row[r].listeners : k.at = l} = {Position(row[r], l)}

\* A parent suspended on its child is due once the child has ended, even if it
\* ended before the parent registered or while the parent restarted (start_child,
\* lifecycle, notify).
JoinIsWoken ==
    \A r \in Parent :
        /\ row[r].state = "Waiting" /\ "join" \notin row[r].over
        /\ row[r].child = "ended"
        => row[r].wake <= now

\* Takes keep the order of arrival: a take never passes over an earlier live copy
\* that it could have taken, and never takes one past its mailbox time.
TakesInOrder ==
    \A r \in Run : \A x \in row'[r].records \ row[r].records :
        x.key.at # "expired" =>
          /\ ~Expired(row[r].copies[x.n])
          /\ \A n \in Takeable(row[r], KeyTypes(x.key)) :
                n < x.n => Expired(row[r].copies[n])

\* The subscription stays open for the whole listen: between its takes, while the
\* run sleeps and when it starts again (listen).
KeepsOpen ==
    \A r \in Run : \A l \in row[r].subscriptions \ row'[r].subscriptions :
        \/ row'[r].state = "Ended"
        \/ Taken(row[r], l) = Takes[l]
        \/ now >= Deadline[l]

\* An identity is accepted once, by one run when it has no target, and a copy is
\* consumed once, at one position, across restarts (accept, the `delivered'
\* index, take_event, expire).
HandledOnce == AcceptedOnce /\ TakenOnce

\* Takes keep the order of arrival, and a subscription stays open from a listen's
\* first take to its last (take_event, listen).
ListensAreKept == [][TakesInOrder /\ KeepsOpen]_vars

=============================================================================
