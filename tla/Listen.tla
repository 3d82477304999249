------------------------------- MODULE Listen -------------------------------
(***************************************************************************)
(* One `listen` task (crates/ows/src/run.rs, Driver::listen) over the      *)
(* consumer of events.rs. Each event it takes, the ones no filter wants    *)
(* included, is recorded under its position before it is offered; a crash  *)
(* loses the consumer, and the next execution offers the recorded events   *)
(* again from the first. `first` remembers the consumer after each         *)
(* position was taken. `foreach` bodies are left to Interpreter; mailboxes, *)
(* waits and deadlines to Mailbox.                                         *)
(***************************************************************************)
EXTENDS Strategies

CONSTANTS Plan,    \* the strategy of each plan
          Plans, Reads, Events,
          MaxTaken, MaxCrashes

VARIABLES plan, read, taken, at, consumer, pc, first, crashes

vars == <<plan, read, taken, at, consumer, pc, first, crashes>>

Strategy == Plan[plan]

Init ==
    /\ plan \in Plans /\ read \in Reads
    /\ taken = <<>> /\ at = 0 /\ consumer = Start(Plan[plan])
    /\ pc = "listen" /\ first = <<>> /\ crashes = 0

(* consumer.offer on the event at the next position. *)
Offered(e) ==
    LET c == Feed(Strategy, read, consumer, e) IN
    /\ consumer' = c /\ at' = at + 1
    /\ pc' = IF c.last = "error" THEN "faulted" ELSE "listen"

(* next_event: an event of a routed type, recorded as it is taken. *)
Take(e) ==
    /\ pc = "listen" /\ ~consumer.p.done /\ at = Len(taken) /\ Len(taken) < MaxTaken
    /\ Routed(Strategy, e)
    /\ taken' = Append(taken, e)
    /\ Offered(e)
    /\ first' = Append(first, consumer')
    /\ UNCHANGED <<plan, read, crashes>>

(* A recorded position is offered again. *)
Restore ==
    /\ pc = "listen" /\ ~consumer.p.done /\ at < Len(taken)
    /\ Offered(taken[at + 1])
    /\ UNCHANGED <<plan, read, taken, first, crashes>>

(* The task entered again: a fresh consumer, from the first position. *)
Crash ==
    /\ pc = "listen" /\ crashes < MaxCrashes
    /\ consumer' = Start(Strategy) /\ at' = 0
    /\ crashes' = crashes + 1
    /\ UNCHANGED <<plan, read, taken, pc, first>>

Finish ==
    /\ pc = "listen" /\ consumer.p.done
    /\ pc' = "done"
    /\ UNCHANGED <<plan, read, taken, at, consumer, first, crashes>>

Next == (\E e \in Events : Take(e)) \/ Restore \/ Crash \/ Finish

Spec == Init /\ [][Next]_vars

-----------------------------------------------------------------------------
(* Properties. *)

(* Wanted events of the positions offered so far. *)
Wanted == SelectSeq([i \in 1..at |-> <<i, taken[i]>>], LAMBDA x : first[x[1]].last \in {"consumed", "until"})

Bare(s) == [i \in DOMAIN s |-> s[i][2]]

(* While nothing crashed, a consumer fed only the events it wanted stands
   where one fed every event stands: `on` schedules keep just those in the trigger and count on it. *)
KeepsWanted ==
    pc # "faulted" /\ crashes = 0 =>
        FeedAll(Strategy, read, Bare(Wanted)).p = consumer.p

(* Every event the consumer would take now is of a type the listen
   subscribed with: routing only narrows what is offered. *)
RoutesCover ==
    \A e \in Events :
        Offer(Strategy, consumer.p, e).offer \in {"consumed", "until"} => Routed(Strategy, e)

(* The events consumed by `all` fill its filters one each, so it ends
   exactly when it has consumed as many events as it has filters. *)
FilledByDistinct ==
    Strategy.kind = "all" =>
        /\ consumer.items = Cardinality({i \in DOMAIN consumer.p.filled : consumer.p.filled[i]})
        /\ consumer.p.done <=> consumer.items = Len(Strategy.filters)

RoomsOf(kinds) ==
    {RoomOf(taken[i]) : i \in {i \in 1..at : first[i].last \in kinds}}

Correlated(l) == \A f \in FiltersOf(l) : f[2] = "first"

(* What correlated filters consume comes from one room, across crashes. *)
OneRoom ==
    Correlated(Strategy) /\ Strategy.filters # <<>> => Cardinality(RoomsOf({"consumed"})) <= 1

(* "`all`, correlation and `until` mean what they mean in a listen": an `on`
   schedule with this strategy completes on the events this listen wanted
   exactly when the listen is done. *)
SameMeaning ==
    pc # "faulted" /\ Len(Wanted) > 0 =>
        (Consume(Strategy, Bare(Wanted)) = "complete" <=> consumer.p.done)

=============================================================================
