------------------------------ MODULE MCEvents ------------------------------
(***************************************************************************)
(* What becomes of events, in one model: events that enter mailboxes       *)
(* (Mailbox: one run in a fork of two listens, one run that joins its      *)
(* child, and two runs that compete for an event), events that start runs  *)
(* (Ingress, with three sets of schedules), events that a listen consumes  *)
(* (Listen) and the notices that workers hand on (Notices, with two sets   *)
(* of constants).  `part' says which of them this behaviour is about; the  *)
(* variables of the others are None, or stay as the fork has them at first. *)
(***************************************************************************)
EXTENDS Mailbox

CONSTANTS r1, r2, e1, e2, p, q, v, w

VARIABLES
    part,
    childRow, childIndex, childExec, childOffered, childNow,
    twinRow, twinIndex, twinExec, twinOffered, twinNow,
    clock, stopped, stops, defs, trigger, queue, tomb, runs, pub, published, takes, used, dropped,
    plan, read, taken, at, consumer, listenPc, first, crashes,
    pending, pc, page, backoff, stopping, faults, committed, handed, accepted, reported, owed

joinVars == <<childRow, childIndex, childExec, childOffered, childNow>>
twinVars == <<twinRow, twinIndex, twinExec, twinOffered, twinNow>>
ingressVars == <<clock, stopped, stops, defs, trigger, queue, tomb, runs, pub, published,
                 takes, used, dropped>>
listenVars == <<plan, read, taken, at, consumer, listenPc, first, crashes>>
noticeVars == <<pending, pc, page, backoff, stopping, faults, committed, handed, accepted,
                reported, owed>>
eventVars == <<part, vars, joinVars, twinVars, ingressVars, listenVars, noticeVars>>

-----------------------------------------------------------------------------
(* Mailboxes.  A listen for one type, which may time out, beside one for     *)
(* every published event: the constants of the cfg.                          *)

ForkTypes == e1 :> "a" @@ e2 :> "b"
ForkRoutes == "l" :> {"a"} @@ "m" :> {"*"}
ForkTakes == "l" :> 1 @@ "m" :> 1
ForkDeadline == "l" :> 1 @@ "m" :> 2

\* A run that joins its child and listens for the child's waiting.
Join == INSTANCE Mailbox WITH
    Parent <- {r1}, Event <- {e1}, TypeOf <- e1 :> "a",
    Listen <- {"l"}, Routes <- "l" :> {"a", "waiting"}, Takes <- "l" :> 2, Deadline <- "l" :> 1,
    MaxCopies <- 2, MaxTime <- 1,
    row <- childRow, index <- childIndex, exec <- childExec, offered <- childOffered, now <- childNow

\* Two runs in a listen for the type of one event.
Twins == INSTANCE Mailbox WITH
    Run <- {r1, r2}, Parent <- {}, Event <- {e1}, TypeOf <- e1 :> "a",
    Listen <- {"l"}, Routes <- "l" :> {"a"}, Takes <- "l" :> 1, Deadline <- "l" :> 1,
    MaxCopies <- 1, MaxTime <- 0,
    row <- twinRow, index <- twinIndex, exec <- twinExec, offered <- twinOffered, now <- twinNow

-----------------------------------------------------------------------------
(* Ingress.  Events that wait for a run of their schedule, forged ones of a  *)
(* known identity included.                                                  *)

Lit(t, corr) == <<<<"literal", t>>, corr>>
Expr(g, corr) == <<<<"expr", g>>, corr>>
S(kind, filters, until) == [kind |-> kind, filters |-> filters, until |-> until]

Each == S("any", <<Lit("a", None), Lit("b", None)>>, None)
Wild == S("one", <<<<<<"pattern", {"b"}>>, None>>>>, None)

A == <<"i", "a", "x">>
B == <<"j", "b", "x">>

Starting == INSTANCE Ingress WITH
    Types <- {"a", "b"}, Rooms <- {"x", "y"}, Keys <- {1}, Plan <- <<Each>>, Policy <- <<"queue">>,
    Events <- {A, B, <<"i", "a", "y">>}, Publishers <- {p, q},
    Outcomes <- {"ok", "refused", "unavailable"}, Ceiling <- 2, IngressMs <- 1, Batch <- 4,
    MaxTries <- 3, MaxTime <- 1, MaxPublish <- 3, MaxEpoch <- 1, MaxStops <- 0

\* A schedule that counts two events.
Collect == INSTANCE Ingress WITH
    Types <- {"a", "b"}, Rooms <- {"x", "y"}, Keys <- {1},
    Plan <- <<[Each EXCEPT !.until = <<"cond", "data", 2>>]>>, Policy <- <<"skip">>,
    Events <- {A, B}, Publishers <- {p, q}, Outcomes <- {"ok"}, Ceiling <- 2, IngressMs <- 1,
    Batch <- 4, MaxTries <- 2, MaxTime <- 2, MaxPublish <- 3, MaxEpoch <- 1, MaxStops <- 0

\* Two schedules that are activated again meanwhile.
Rearm == INSTANCE Ingress WITH
    Types <- {"a", "b"}, Rooms <- {"x", "y"}, Keys <- {1, 2},
    Plan <- <<S("all", <<Lit("a", "first"), Lit("b", "first")>>, None), Wild>>,
    Policy <- <<"skip", "replace">>, Events <- {A, B}, Publishers <- {p, q}, Outcomes <- {"ok"},
    Ceiling <- 2, IngressMs <- 1, Batch <- 4, MaxTries <- 2, MaxTime <- 0, MaxPublish <- 2,
    MaxEpoch <- 2, MaxStops <- 1

-----------------------------------------------------------------------------
(* Listens over two types and two rooms: every kind, with and without        *)
(* correlation, `until` conditions and events, patterns and expressions.     *)

On(a, b, null) == [t \in {"a", "b", None} |-> IF t = "a" THEN a ELSE IF t = "b" THEN b ELSE null]

PlanOf(n) ==
    CASE n = "one" -> S("one", <<Expr(On("a", "a", "a"), "y")>>, None)
      [] n = "both" -> S("all", <<Lit("a", "first"), Lit("b", "first")>>, None)
      [] n = "wide" -> S("all", <<<<<<"pattern", {"a", "b"}>>, None>>, Lit("a", None)>>, None)
      [] n = "any" -> S("any", <<Expr(On("true", "false", "error"), None), Lit("b", "x")>>, None)
      [] n = "every" -> S("any", <<>>, <<"cond", "data", 3>>)
      [] n = "two" -> S("any", <<Lit("a", "first")>>, <<"cond", "data", 2>>)
      [] n = "stop" -> S("any", <<Lit("a", "first")>>, <<"events", S("one", <<Lit("b", None)>>, None)>>)
      [] n = "stops" -> S("any", <<Lit("a", "first")>>, <<"events", S("one", <<Lit("b", "first")>>, None)>>)
      [] n = "ill" -> S("all", <<Lit("a", None), Expr(On("false", "error", "error"), None)>>, None)

ListenPlans == {"one", "both", "wide", "any", "every", "two", "stop", "stops", "ill"}

Hears == INSTANCE Listen WITH
    Types <- {"a", "b"}, Rooms <- {"x", "y"},
    Plan <- [n \in ListenPlans |-> PlanOf(n)], Plans <- ListenPlans, Reads <- {"data"},
    Events <- {<<1, "a", "x">>, <<2, "a", "y">>, <<3, "b", "x">>, <<4, "b", "y">>},
    MaxTaken <- 4, MaxCrashes <- 2, pc <- listenPc

-----------------------------------------------------------------------------
(* Notices: two under faults, and three of which one cannot be published.    *)

Faulty == INSTANCE Notices WITH
    Worker <- {v, w}, N <- 2, Page <- 2, MaxDelay <- 1, Bad <- {}, MaxFaults <- 1,
    published <- handed

Poisoned == INSTANCE Notices WITH
    Worker <- {v, w}, N <- 3, Page <- 1, MaxDelay <- 2, Bad <- {2}, MaxFaults <- 0,
    published <- handed

ASSUME
    /\ Starting!IngressConstants /\ Collect!IngressConstants /\ Rearm!IngressConstants
    /\ Faulty!NoticesAssumption /\ Poisoned!NoticesAssumption

-----------------------------------------------------------------------------

Symmetry == Permutations({p, q}) \cup Permutations({v, w})

JoinOff == childRow = None /\ childIndex = None /\ childExec = None /\ childOffered = None /\ childNow = None
TwinsOff == twinRow = None /\ twinIndex = None /\ twinExec = None /\ twinOffered = None /\ twinNow = None
IngressOff ==
    /\ clock = None /\ stopped = None /\ stops = None /\ defs = None /\ trigger = None
    /\ queue = None /\ tomb = None /\ runs = None /\ pub = None /\ published = None
    /\ takes = None /\ used = None /\ dropped = None
ListenOff ==
    /\ plan = None /\ read = None /\ taken = None /\ at = None
    /\ consumer = None /\ listenPc = None /\ first = None /\ crashes = None
NoticesOff ==
    /\ pending = None /\ pc = None /\ page = None /\ backoff = None /\ stopping = None
    /\ faults = None /\ committed = None /\ handed = None /\ accepted = None
    /\ reported = None /\ owed = None

EventsInit ==
    /\ part \in {"fork", "join", "twins",
                 "starting", "collect", "rearm", "listen", "faulty", "poisoned"}
    /\ Init
    /\ IF part = "join" THEN Join!Init ELSE JoinOff
    /\ IF part = "twins" THEN Twins!Init ELSE TwinsOff
    /\ CASE part = "starting" -> Starting!Init
         [] part = "collect" -> Collect!Init
         [] part = "rearm" -> Rearm!Init
         [] OTHER -> IngressOff
    /\ IF part = "listen" THEN Hears!Init ELSE ListenOff
    /\ CASE part = "faulty" -> Faulty!Init
         [] part = "poisoned" -> Poisoned!Init
         [] OTHER -> NoticesOff

MailStep ==
    /\ \/ part = "fork" /\ Next /\ UNCHANGED <<joinVars, twinVars>>
       \/ part = "join" /\ Join!Next /\ UNCHANGED <<vars, twinVars>>
       \/ part = "twins" /\ Twins!Next /\ UNCHANGED <<vars, joinVars>>
    /\ UNCHANGED <<part, ingressVars, listenVars, noticeVars>>

IngressStep ==
    /\ \/ part = "starting" /\ Starting!Next
       \/ part = "collect" /\ Collect!Next
       \/ part = "rearm" /\ Rearm!Next
    /\ UNCHANGED <<part, vars, joinVars, twinVars, listenVars, noticeVars>>

ListenStep ==
    /\ part = "listen" /\ Hears!Next
    /\ UNCHANGED <<part, vars, joinVars, twinVars, ingressVars, noticeVars>>

NoticesStep ==
    /\ \/ part = "faulty" /\ Faulty!Next
       \/ part = "poisoned" /\ Poisoned!Next
    /\ UNCHANGED <<part, vars, joinVars, twinVars, ingressVars, listenVars>>

EventsSpec == EventsInit /\ [][MailStep \/ IngressStep \/ ListenStep \/ NoticesStep]_eventVars

-----------------------------------------------------------------------------

\* A parent suspended on its child, or on a listen for the child's notices, is
\* due once there is something for it, keeps open all its listen promised, and
\* its counters are those of its copies; of two runs that listen for one event, a
\* delivery without a target reaches one, and only once (lifecycle, notify,
\* take_event, accept, the `delivered' index).
RunsAreHeard ==
    /\ part = "join" =>
          /\ Join!TypeOK
          /\ Join!JoinIsWoken
          /\ Join!NoLostWakeup
          /\ Join!SuspendedIsOpen
          /\ Join!CountersAgree
    /\ part = "twins" => Twins!HandledOnce

\* An event once taken is kept by the trigger that took it or belongs to what
\* that trigger started, an event nobody took was offered to all, and a run
\* starts from exactly the events its schedule asks for, each once, however
\* publishers, activations and the sweep interleave (publish, offer, fire).
IngressIsSound ==
    /\ part = "starting" => Starting!TypeOK /\ Starting!TakenIsKept
    /\ part = "collect" => Collect!TakenIsKept /\ Collect!HeldOnce /\ Collect!RunIsComplete
    /\ part = "rearm" => Rearm!TakenIsKept /\ Rearm!AllAsked

\* What was promised of an event holds for its time: its identity is taken from
\* ingress again only after the lifetime of the tombstone it was last taken under,
\* and a listen of two events stays subscribed between them (publish, `seen',
\* listen).
KeptForItsTime ==
    [][/\ part = "starting" => Starting!FreeWhenUsed
       /\ part = "collect" => Collect!FreeWhenUsed
       /\ part = "join" => Join!KeepsOpen]_eventVars

\* A consumer restored event by event stands where it stood, keeps to one room
\* where it is correlated, fills its filters by distinct events, and wants only
\* what it subscribed with; an `on' schedule with its strategy means the same
\* (offer, feed, route, consume).
ListenIsSound ==
    part = "listen" =>
        /\ Hears!KeepsWanted /\ Hears!RoutesCover /\ Hears!FilledByDistinct
        /\ Hears!OneRoom /\ Hears!SameMeaning

\* A notice is gone only after its listeners were reached and the sink accepted
\* it, is reported once however many workers hand it on, is tried again only
\* after its back-off, and what a worker remembers stays within a page
\* (notices, acknowledge).
NoticesAreSound ==
    /\ part = "faulty" => Faulty!GoneIsHanded /\ Faulty!ReportedOnce /\ Faulty!RetriedAfterBackoff
    /\ part = "poisoned" => Poisoned!TypeOK /\ Poisoned!GoneIsHanded /\ Poisoned!MemoryBounded
=============================================================================
