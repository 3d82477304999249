------------------------------- MODULE Ingress -------------------------------
(***************************************************************************)
(* Events that start runs: publishers of crates/runtime/src/schedule.rs    *)
(* (section 3) over the `on` triggers and the ingress tombstones of the    *)
(* engine (crates/durable/src/engine.rs, section 4).                       *)
(*                                                                         *)
(* A publisher reads whether the event's identity was taken, reads the     *)
(* triggers subscribed to its type, and offers the event to each in turn.  *)
(* An offer reads the trigger and the definition, decides, and commits     *)
(* with a firing that compares the trigger with what was read, takes the   *)
(* identity under a tombstone, and admits the run a complete match starts. *)
(* Each step here is one transaction of the store, so publishers, workers  *)
(* and operators interleave between them. A publisher keeps the time it    *)
(* began with.                                                             *)
(*                                                                         *)
(* A definition has at most one `on` trigger, so both are named by the     *)
(* key, a number in key order. Delivery to listening runs is Mailbox's;    *)
(* time triggers, the breaker's counts and deferred drains are Triggers'.  *)
(***************************************************************************)
EXTENDS Strategies

CONSTANTS Keys, Plan, Policy, Ceiling, Events, Publishers,
          Outcomes,    \* of an admission: "ok", "refused", "unavailable"
          IngressMs, Batch, MaxTries,
          MaxTime, MaxPublish, MaxEpoch, MaxStops

IngressConstants == /\ IngressMs \in Nat /\ Batch \in Nat \ {0}
                    /\ MaxTries \in Nat \ {0} /\ Ceiling \in Nat \ {0}

(* takes, used and dropped are history: who took each event, how often and
   until when an identity was used, and the events of skipped matches. *)
VARIABLES clock, stopped, stops, defs, trigger, queue, tomb, runs, pub, published,
          takes, used, dropped

vars == <<clock, stopped, stops, defs, trigger, queue, tomb, runs, pub, published,
          takes, used, dropped>>

Ids == {Id(e) : e \in Events}

IdsOf(events) == [i \in DOMAIN events |-> Id(events[i])]

SeqSet(s) == {s[i] : i \in DOMAIN s}

(* arming: the trigger a version's `on` schedule starts with. *)
Armed(epoch) == [epoch |-> epoch, events |-> <<>>, previous |-> None, skips |-> 0]

NoFiring == [next |-> None, run |-> None, refused |-> FALSE]

Idle == [pc |-> "idle", ev |-> None, now |-> 0, todo |-> <<>>, tries |-> 0,
         firing |-> NoFiring, result |-> None, subs |-> <<>>, asked |-> {}]

Init ==
    /\ clock = 0 /\ stopped = FALSE /\ stops = 0
    /\ defs = [k \in Keys |-> [epoch |-> 1, tripped |-> FALSE]]
    /\ trigger = [k \in Keys |-> Armed(1)]
    /\ queue = [k \in Keys |-> None]
    /\ tomb = [i \in Ids |-> None]
    /\ runs = {} /\ published = 0 /\ takes = {} /\ dropped = {}
    /\ used = [i \in Ids |-> [n |-> 0, until |-> 0]]
    /\ pub = [p \in Publishers |-> Idle]

-----------------------------------------------------------------------------
(* Tombstones. *)

(* tombstone: whether an identity is taken at `now`, and by which payload. *)
Tombstone(e, now) ==
    LET t == tomb[Id(e)] IN
    IF t = None \/ t.expires <= now THEN "free"
    ELSE IF t.ev = e THEN "used" ELSE "conflict"

Finished(s, result) ==
    [Idle EXCEPT !.pc = "done", !.ev = s.ev, !.result = result,
                 !.subs = IF result = "none" THEN s.subs ELSE <<>>,
                 !.asked = IF result = "none" THEN s.asked ELSE {}]

(* Runtime::publish up to `ingested`: an identity some trigger took is not
   offered again. *)
Publish(p, e) ==
    /\ pub[p].pc \in {"idle", "done"} /\ published < MaxPublish
    /\ published' = published + 1
    /\ LET s == [Idle EXCEPT !.ev = e, !.now = clock]
           t == Tombstone(e, clock)
       IN pub' = [pub EXCEPT ![p] =
              CASE t = "conflict" -> Finished(s, "conflict")
                [] t = "used" -> Finished(s, "ingested")
                [] t = "free" -> [s EXCEPT !.pc = "route"]]
    /\ UNCHANGED <<clock, stopped, stops, defs, trigger, queue, tomb, runs, takes, used, dropped>>

-----------------------------------------------------------------------------
(* Routing. *)

Subscribed(t) == {k \in Keys : trigger[k] # None /\ t \in RoutesOf(Plan[k])}

Ascending(S) ==
    LET F[n \in 0..Cardinality(S)] ==
            IF n = 0 THEN <<>>
            ELSE LET s == F[n - 1]
                     left == S \ SeqSet(s)
                 IN Append(s, CHOOSE k \in left : \A j \in left : k <= j)
    IN F[Cardinality(S)]

Upto(n, s) == SubSeq(s, 1, IF n < Len(s) THEN n ELSE Len(s))

(* triggers_for: the triggers of the type and, while there is room, the
   wildcard ones, in the order of the index rows: "*" sorts first. *)
TriggersFor(e) ==
    LET typed == Upto(Batch, Ascending(Subscribed(TypeOfEvent(e))))
        wild == Upto(Batch - Len(typed), Ascending(Subscribed("*")))
    IN wild \o typed

(* The trigger offered to, or the end of the list. *)
Turn(s) ==
    IF s.todo = <<>> THEN Finished(s, "none")
    ELSE [s EXCEPT !.pc = "offer", !.tries = 0, !.firing = NoFiring]

Routing(p) ==
    /\ pub[p].pc = "route"
    /\ LET found == IF stopped THEN <<>> ELSE TriggersFor(pub[p].ev)
           subs == IF stopped THEN {}
                   ELSE Subscribed(TypeOfEvent(pub[p].ev)) \union Subscribed("*")
       IN pub' = [pub EXCEPT ![p] =
              Turn([pub[p] EXCEPT !.todo = [i \in DOMAIN found |-> <<found[i], trigger[found[i]]>>],
                                  !.subs = Ascending(subs)])]
    /\ UNCHANGED <<clock, stopped, stops, defs, trigger, queue, tomb, runs, published, takes, used, dropped>>

-----------------------------------------------------------------------------
(* Offers. *)

Key(p) == pub[p].todo[1][1]
Read(p) == pub[p].todo[1][2]

(* Taken::No: the next trigger is asked. *)
No(s) == Turn([s EXCEPT !.todo = Tail(@), !.asked = @ \union {s.todo[1][1]}])

(* current, active: the trigger belongs to the untripped epoch. *)
Current(p) == ~defs[Key(p)].tripped /\ Read(p).epoch = defs[Key(p)].epoch

(* An event the trigger still holds, its tombstone expired. *)
Holds(p) == Id(pub[p].ev) \in SeqSet(IdsOf(Read(p).events))

(* Altered: what the trigger held is forgotten. *)
MatchedAlone(p) == <<pub[p].ev>>

Matched(p) == Append(Read(p).events, pub[p].ev)

(* The trigger after a complete match. *)
NextComplete(p) == [Read(p) EXCEPT !.events = <<>>, !.previous = pub[p].now]

Fires(s, next, run, refused) ==
    [s EXCEPT !.pc = "fire", !.firing = [next |-> next, run |-> run, refused |-> refused]]

(* offer up to its firing: stale, held and unwanted events are not taken; a
   partial match is kept; a complete one is admitted, or refused by this
   host; a host that cannot tell now is an error, as is a failing filter. *)
Decide(p) ==
    /\ pub[p].pc = "offer"
    /\ \E how \in Outcomes :
         LET s == pub[p]
             out == Consume(Plan[Key(p)], Matched(p))
         IN pub' = [pub EXCEPT ![p] =
              CASE ~Current(p) -> No(s)
                [] Current(p) /\ Holds(p) -> Finished(s, "taken")
                [] Current(p) /\ ~Holds(p) /\ out = "error" -> Finished(s, "error")
                [] Current(p) /\ ~Holds(p) /\ out = "unwanted" -> No(s)
                [] Current(p) /\ ~Holds(p) /\ out = "partial" ->
                     Fires(s, [Read(p) EXCEPT !.events = Matched(p)], None, FALSE)
                [] Current(p) /\ ~Holds(p) /\ out = "complete" ->
                     IF how = "unavailable" THEN Finished(s, "unavailable")
                     ELSE Fires(s, NextComplete(p), <<Key(p), Matched(p)>>, how = "refused")]
    /\ UNCHANGED <<clock, stopped, stops, defs, trigger, queue, tomb, runs, published, takes, used, dropped>>

-----------------------------------------------------------------------------
(* Runs a match starts. A run's id is derived from the identities of its
   events; `match` are the events themselves. *)

RunId(run) == <<run[1], IdsOf(run[2])>>
NewRun(run, live) == [id |-> RunId(run), match |-> run[2], live |-> live]
Known(run) == \E r \in runs : r.id = RunId(run)
LiveOf(k) == {r \in runs : r.id[1] = k /\ r.live}
Room(k, rs) == Cardinality({r \in rs : r.id[1] = k /\ r.live}) < Ceiling

(* fire: the trigger is still what the publisher read. *)
Unchanged(p) == trigger[Key(p)] = Read(p)

(* fire_checked's overlap policy and ceiling: how the firing ends, and the
   runs live after a replacement. *)
Disposition(p) ==
    LET k == Key(p)
        f == pub[p].firing
        kept == IF Policy[k] = "replace"
                THEN (runs \ LiveOf(k)) \union {[r EXCEPT !.live = FALSE] : r \in LiveOf(k)}
                ELSE runs
        how == IF f.run = None \/ Known(f.run) THEN "committed"
               ELSE IF ~Room(k, kept) THEN "ceiling"
               ELSE IF LiveOf(k) = {} \/ Policy[k] \in {"allow", "replace"} THEN "committed"
               ELSE IF Policy[k] = "queue" /\ queue[k] = None THEN "queued"
               ELSE "busy"
    IN [how |-> how, runs |-> IF f.run = None \/ Known(f.run) THEN runs ELSE kept]

(* Altered: the identity is looked up only before routing. *)
AlwaysFree(e, now) == "free"

(* The look at the tombstone in the firing's own commit. *)
Retaken(e, now) == Tombstone(e, now)

(* fire, with the publisher's time. A skipped or queued match consumes the
   event like an admitted one. *)
Fire(p) ==
    /\ pub[p].pc = "fire"
    /\ LET s == pub[p]
           k == Key(p)
           t == Retaken(s.ev, s.now)
           d == Disposition(p)
           f == s.firing
       IN IF stopped \/ ~Unchanged(p)
          THEN /\ pub' = [pub EXCEPT ![p].pc = "reread"]
               /\ UNCHANGED <<trigger, queue, tomb, runs, takes, used, dropped>>
          ELSE IF t # "free"
          THEN /\ pub' = [pub EXCEPT ![p] = Finished(s, IF t = "used" THEN "taken" ELSE "conflict")]
               /\ UNCHANGED <<trigger, queue, tomb, runs, takes, used, dropped>>
          ELSE /\ tomb' = [tomb EXCEPT ![Id(s.ev)] = [ev |-> s.ev, expires |-> s.now + IngressMs]]
               /\ trigger' = [trigger EXCEPT ![k] =
                      IF d.how \in {"busy", "ceiling"}
                      THEN [f.next EXCEPT !.previous = Read(p).previous, !.skips = @ + 1]
                      ELSE f.next]
               /\ queue' = [queue EXCEPT ![k] =
                      IF d.how = "queued" THEN <<f.run, f.refused>> ELSE @]
               /\ runs' = d.runs \union
                      (IF d.how = "committed" /\ f.run # None /\ ~Known(f.run)
                       THEN {NewRun(f.run, ~f.refused)} ELSE {})
               /\ dropped' = dropped \union
                      (IF d.how \in {"busy", "ceiling"} THEN SeqSet(IdsOf(f.run[2])) ELSE {})
               /\ used' = [used EXCEPT ![Id(s.ev)] = [n |-> @.n + 1, until |-> s.now + IngressMs]]
               /\ takes' = takes \union {<<Id(s.ev), k, Read(p).epoch>>}
               /\ pub' = [pub EXCEPT ![p] = Finished(s, "taken")]
    /\ UNCHANGED <<clock, stopped, stops, defs, published>>

(* The trigger changed: read again and offered again, MaxTries times. *)
Reread(p) ==
    /\ pub[p].pc = "reread"
    /\ LET s == pub[p]
           k == Key(p)
       IN pub' = [pub EXCEPT ![p] =
              CASE stopped \/ trigger[k] = None -> No(s)
                [] ~stopped /\ trigger[k] # None /\ s.tries + 1 = MaxTries -> Finished(s, "error")
                [] ~stopped /\ trigger[k] # None /\ s.tries + 1 < MaxTries ->
                     [s EXCEPT !.pc = "offer", !.tries = @ + 1, !.todo[1] = <<k, trigger[k]>>]]
    /\ UNCHANGED <<clock, stopped, stops, defs, trigger, queue, tomb, runs, published, takes, used, dropped>>

-----------------------------------------------------------------------------
(* The rest of the system. *)

(* A run's end promotes what waits in the trigger's queue (drain_queues),
   unless the store is stopped. *)
End(r) ==
    /\ r \in runs /\ r.live
    /\ LET k == r.id[1]
           ended == (runs \ {r}) \union {[r EXCEPT !.live = FALSE]}
           free == \A q \in ended : q.id[1] = k => ~q.live
           up == ~stopped /\ queue[k] # None /\ free
       IN /\ queue' = [queue EXCEPT ![k] = IF up THEN None ELSE @]
          /\ runs' = ended \union
               (IF up /\ ~Known(queue[k][1]) THEN {NewRun(queue[k][1], ~queue[k][2])} ELSE {})
    /\ UNCHANGED <<clock, stopped, stops, defs, trigger, tomb, pub, published, takes, used, dropped>>

(* Activation arms a new epoch's trigger, empty; what waited is removed. *)
Activate(k) ==
    /\ defs[k].epoch < MaxEpoch
    /\ defs' = [defs EXCEPT ![k] = [epoch |-> @.epoch + 1, tripped |-> FALSE]]
    /\ trigger' = [trigger EXCEPT ![k] = Armed(defs[k].epoch + 1)]
    /\ queue' = [queue EXCEPT ![k] = None]
    /\ UNCHANGED <<clock, stopped, stops, tomb, runs, pub, published, takes, used, dropped>>

(* A trip disarms it. *)
Trip(k) ==
    /\ ~defs[k].tripped /\ defs[k].epoch < MaxEpoch
    /\ defs' = [defs EXCEPT ![k].tripped = TRUE]
    /\ trigger' = [trigger EXCEPT ![k] = None]
    /\ queue' = [queue EXCEPT ![k] = None]
    /\ UNCHANGED <<clock, stopped, stops, tomb, runs, pub, published, takes, used, dropped>>

(* The emergency stop, set and cleared. *)
Stop ==
    /\ stopped \/ stops < MaxStops
    /\ stopped' = ~stopped /\ stops' = IF stopped THEN stops ELSE stops + 1
    /\ UNCHANGED <<clock, defs, trigger, queue, tomb, runs, pub, published, takes, used, dropped>>

(* sweep drops the tombstones whose time is over. *)
Sweep ==
    /\ \E i \in Ids : tomb[i] # None /\ tomb[i].expires <= clock
    /\ tomb' = [i \in Ids |-> IF tomb[i] # None /\ tomb[i].expires <= clock THEN None ELSE tomb[i]]
    /\ UNCHANGED <<clock, stopped, stops, defs, trigger, queue, runs, pub, published, takes, used, dropped>>

Tick ==
    /\ clock < MaxTime
    /\ clock' = clock + 1
    /\ UNCHANGED <<stopped, stops, defs, trigger, queue, tomb, runs, pub, published, takes, used, dropped>>

Step(p) == Routing(p) \/ Decide(p) \/ Fire(p) \/ Reread(p)

Next ==
    \/ \E p \in Publishers : Step(p) \/ (\E e \in Events : Publish(p, e))
    \/ \E r \in runs : End(r)
    \/ \E k \in Keys : Activate(k) \/ Trip(k)
    \/ Stop \/ Sweep \/ Tick

Spec == Init /\ [][Next]_vars

-----------------------------------------------------------------------------
(* Properties. *)

Rows == [epoch : 1..MaxEpoch, events : Seq(Events), previous : 0..MaxTime \union {None},
         skips : Nat]

TypeOK ==
    /\ \A k \in Keys : trigger[k] = None \/ trigger[k] \in Rows
    /\ \A k \in Keys : trigger[k] = None <=> defs[k].tripped
    /\ \A k \in Keys : trigger[k] # None => trigger[k].epoch = defs[k].epoch
    /\ \A i \in Ids : tomb[i] = None \/ (Id(tomb[i].ev) = i /\ tomb[i].expires \in IngressMs..MaxTime + IngressMs)
    /\ \A p \in Publishers : pub[p].pc \in {"idle", "route", "offer", "fire", "reread", "done"}

(* An event's identity is taken from ingress again only after the lifetime
   of the tombstone it was last taken under, however publishers of it
   interleave: within it one event starts at most one run. *)
FreeWhenUsed == \A i \in Ids : used'[i].n # used[i].n => clock >= used[i].until

(* No trigger collects, and no run starts from, the same event twice, though
   its tombstone expires while the trigger still holds it. *)
HeldOnce ==
    /\ \A k \in Keys : trigger[k] # None =>
         Cardinality(SeqSet(IdsOf(trigger[k].events))) = Len(trigger[k].events)
    /\ \A r \in runs : Cardinality(SeqSet(r.id[2])) = Len(r.id[2])

(* An event once taken is kept in the trigger that took it, belongs to a run
   started, queued or skipped by that trigger, or went with its epoch: no
   publisher's firing overwrites another's. *)
TakenIsKept ==
    \A t \in takes :
        LET i == t[1]
            k == t[2]
        IN \/ trigger[k] # None /\ i \in SeqSet(IdsOf(trigger[k].events))
           \/ \E r \in runs : r.id[1] = k /\ i \in SeqSet(r.id[2])
           \/ queue[k] # None /\ i \in SeqSet(IdsOf(queue[k][1][2]))
           \/ i \in dropped
           \/ defs[k].epoch # t[3] \/ defs[k].tripped

Wants(s, e) == \E f \in FiltersOf(s) : AttributeMatches(f[1], TypeOfEvent(e)) = "yes"

(* How many events complete a strategy without `until` events. *)
Quorum(s) ==
    CASE s.kind = "all" -> Len(s.filters)
      [] s.kind = "any" /\ s.until # None -> s.until[3]
      [] s.kind = "one" \/ (s.kind = "any" /\ s.until = None) -> 1

(* A run starts from exactly the events its schedule's strategy asks for:
   as many as complete it, each wanted by a filter, none left over. *)
RunIsComplete ==
    \A r \in runs :
        LET s == Plan[r.id[1]] IN
        /\ Len(r.match) = Quorum(s)
        /\ \A e \in SeqSet(r.match) : Wants(s, e)
        /\ s.kind = "all" => \A f \in FiltersOf(s) : \E e \in SeqSet(r.match) : Wants([s EXCEPT !.filters = <<f>>], e)

(* "How many triggers one event may reach; more wait for the next tick":
   an event nobody took was offered to every trigger subscribed to it. *)
AllAsked ==
    \A p \in Publishers : pub[p].result = "none" => SeqSet(pub[p].subs) \subseteq pub[p].asked

=============================================================================
