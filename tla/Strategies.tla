----------------------------- MODULE Strategies -----------------------------
(***************************************************************************)
(* Event filters and consumption strategies (crates/ows/src/events.rs),    *)
(* which a `listen` and an `on` schedule feed one event at a time.         *)
(*                                                                         *)
(* An event is <<id, type, room>>: its identity, the attribute filters     *)
(* look at and the value correlations extract. A filter is <<type filter,  *)
(* correlation>>. The type filter is <<"absent">>, <<"literal", t>>,       *)
(* <<"pattern", S>> (a regular expression, by the types it matches) or     *)
(* <<"expr", g>> (a runtime expression, by its value on each type and on   *)
(* null, here None; "error" when it has none). The correlation is None,    *)
(* "first" (the first value extracted) or the room it expects.             *)
(*                                                                         *)
(* A strategy is [kind, filters, until]; `until` is None, <<"cond",        *)
(* shape, n>> (an expression over the items consumed that holds once it    *)
(* finds n of the given shape) or <<"events", strategy>>. Such a strategy  *)
(* has no `until` of its own here: one level of nesting.                   *)
(***************************************************************************)
EXTENDS Naturals, Sequences, FiniteSets

CONSTANTS None, Types, Rooms

Id(e) == e[1]
TypeOfEvent(e) == e[2]
RoomOf(e) == e[3]

Say(b) == IF b THEN "yes" ELSE "no"

(* attribute_matches: an expression's boolean decides, any other value of
   it must equal the attribute. *)
AttributeMatches(tf, t) ==
    CASE tf[1] = "absent" -> "yes"
      [] tf[1] = "literal" -> Say(t = tf[2])
      [] tf[1] = "pattern" -> Say(t \in tf[2])
      [] tf[1] = "expr" -> IF tf[2][t] = "error" THEN "error" ELSE Say(tf[2][t] \in {"true", t})

Expected(f, exp) == IF f[2] = "first" THEN exp ELSE f[2]

(* matches: the decision, and the expectations after it; the first value of
   a correlation is recorded only when the whole filter matches. *)
Correlates(f, e, exp, said) ==
    IF said = "yes" THEN Say(Expected(f, exp) \in {None, RoomOf(e)}) ELSE said
Decided(f, e, exp, said) ==
    [said |-> said, exp |-> IF said = "yes" /\ f[2] = "first" THEN RoomOf(e) ELSE exp]
Matches(f, e, exp) ==
    Decided(f, e, exp, Correlates(f, e, exp, AttributeMatches(f[1], TypeOfEvent(e))))

-----------------------------------------------------------------------------
(* Consumers. *)

Fresh(s, until) ==
    [filled |-> IF s.kind = "all" THEN [i \in DOMAIN s.filters |-> FALSE] ELSE <<>>,
     exp |-> None, until |-> until, done |-> FALSE]

(* Consumer::new: an `until` strategy has progress of its own. *)
NewConsumer(s) ==
    Fresh(s, IF s.until # None /\ s.until[1] = "events" THEN Fresh(s.until[2], None) ELSE None)

Answer(offer, p) == [offer |-> offer, p |-> p]

(* Altered: one event fills every filter it matches. *)
FillAll(s, p, e, i) ==
    [j \in DOMAIN p.filled |-> p.filled[j] \/ Matches(s.filters[j], e, p.exp).said = "yes"]

(* The filter an event fills. *)
Fill(s, p, e, i) == IF s.kind = "all" THEN [p.filled EXCEPT ![i] = TRUE] ELSE p.filled

(* Consumer::offer without `until` events: the filters are asked in order,
   `all` asking only the unfilled ones, and the first that does not say no
   decides. *)
Hits(s, p, e) ==
    {i \in DOMAIN s.filters :
        /\ s.kind = "all" => ~p.filled[i]
        /\ Matches(s.filters[i], e, p.exp).said # "no"}

Ended(s, filled) ==
    CASE s.kind = "one" -> TRUE
      [] s.kind = "all" -> \A j \in DOMAIN filled : filled[j]
      [] s.kind = "any" -> s.until = None

TakesItem(s, p, m, filled) ==
    IF m.said = "error" THEN Answer("error", p)
    ELSE Answer("consumed", [p EXCEPT !.exp = m.exp, !.filled = filled, !.done = Ended(s, filled)])

FirstTakes(s, p, e, hits) ==
    LET i == CHOOSE i \in hits : \A j \in hits : i <= j IN
    IF hits = {} THEN Answer("ignored", p)
    ELSE TakesItem(s, p, Matches(s.filters[i], e, p.exp), Fill(s, p, e, i))

OfferPlain(s, p, e) ==
    IF s.kind = "any" /\ s.filters = <<>>
    THEN Answer("consumed", [p EXCEPT !.done = s.until = None])
    ELSE FirstTakes(s, p, e, Hits(s, p, e))

(* Consumer::offer: an `until` strategy is asked first, and an event it
   wants belongs to no output. *)
OfferAfter(s, p, e, u) ==
    CASE u.offer = "error" -> Answer("error", p)
      [] u.offer = "ignored" -> OfferPlain(s, p, e)
      [] u.offer = "consumed" -> Answer("until", [p EXCEPT !.until = u.p, !.done = u.p.done])

Offer(s, p, e) ==
    IF p.done THEN Answer("ignored", p)
    ELSE IF p.until = None THEN OfferPlain(s, p, e)
    ELSE OfferAfter(s, p, e, OfferPlain(s.until[2], p.until, e))

(* The `until` condition over n consumed items of a shape. *)
Condition(s, shape, n) ==
    /\ s.until # None /\ s.until[1] = "cond"
    /\ s.until[2] = shape /\ n >= s.until[3]

(* One event fed: its offer and, once consumed, the condition (stop). *)
Fed(s, shape, c, o) ==
    LET n == IF o.offer = "consumed" THEN c.items + 1 ELSE c.items
    IN [p |-> IF o.offer = "consumed" /\ Condition(s, shape, n)
              THEN [o.p EXCEPT !.done = TRUE] ELSE o.p,
        items |-> n, last |-> o.offer]

Feed(s, shape, c, e) == Fed(s, shape, c, Offer(s, c.p, e))

Start(s) == [p |-> NewConsumer(s), items |-> 0, last |-> "ignored"]

FeedAll(s, shape, events) ==
    LET F[n \in 0..Len(events)] ==
            IF n = 0 THEN Start(s)
            ELSE LET c == F[n - 1] IN IF c.last = "error" THEN c ELSE Feed(s, shape, c, events[n])
    IN F[Len(events)]

(* schedule.rs consume: an `on` schedule's matched events, replayed through
   its strategy; conditions read the events' data. *)
Outcome(c) ==
    CASE c.last = "error" -> "error"
      [] c.last = "ignored" -> "unwanted"
      [] c.last \in {"consumed", "until"} -> IF c.p.done THEN "complete" ELSE "partial"

Consume(s, events) == Outcome(FeedAll(s, "data", events))

-----------------------------------------------------------------------------
(* Routing. *)

(* The type a filter's events are routed by: a literal, or an expression's
   value on null when that is a type. *)
Route(f) ==
    CASE f[1][1] = "literal" -> {f[1][2]}
      [] f[1][1] = "expr" -> IF f[1][2][None] \in Types THEN {f[1][2][None]} ELSE {"*"}
      [] f[1][1] \in {"absent", "pattern"} -> {"*"}

FiltersOf(s) == {s.filters[i] : i \in DOMAIN s.filters}

Levels(s) == {s} \union (IF s.until # None /\ s.until[1] = "events" THEN {s.until[2]} ELSE {})

(* routes: every published event when some filter has no type to go by. *)
RoutesOf(s) ==
    LET by == UNION {Route(f) : f \in UNION {FiltersOf(l) : l \in Levels(s)}} IN
    IF "*" \in by \/ (\E l \in Levels(s) : l.kind = "any" /\ l.filters = <<>>) THEN {"*"} ELSE by

Routed(s, e) == RoutesOf(s) = {"*"} \/ TypeOfEvent(e) \in RoutesOf(s)
=============================================================================
