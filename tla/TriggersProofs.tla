--------------------------- MODULE TriggersProofs ---------------------------
(***************************************************************************)
(* Proofs about Triggers, for any versions, schedules, policies, workers,  *)
(* hosts, thresholds, ceilings and times.                                  *)
(***************************************************************************)
EXTENDS Triggers, FiniteSetTheorems, TLAPS

-----------------------------------------------------------------------------
(* The rows' type.                                                         *)

HostIds == [kind : {"host"}, at : Host, epoch : {0}]
Id == SlotIds \cup HostIds
RunMap == UNION {[S -> RunRow] : S \in SUBSET Id}
Notice == [at : Nat, epoch : Nat]

Rows ==
    [active : Version \cup {None}, epoch : Nat, faults : Nat, trip : Trip \cup {None},
     owned : SUBSET Key, trigger : [Key -> Trigger \cup {None}],
     queue : [Key -> Slot \cup {None}], paused : Paused \cup {None},
     drain : BOOLEAN, stopped : BOOLEAN, run : RunMap, notice : SUBSET Notice]

Finite(s) == IsFiniteSet(DOMAIN s.run)

\* A run map is a function from some ids to rows.
LEMMA RunMapFacts ==
    ASSUME NEW r \in RunMap
    PROVE  /\ DOMAIN r \subseteq Id
           /\ r \in [DOMAIN r -> RunRow]
  <1>1. PICK S \in SUBSET Id : r \in [S -> RunRow] BY DEF RunMap
  <1>2. DOMAIN r = S BY <1>1
  <1> QED BY <1>1, <1>2

\* A function from ids to rows is a run map.
LEMMA RunMapIntro ==
    ASSUME NEW S \in SUBSET Id, NEW r \in [S -> RunRow]
    PROVE  r \in RunMap
  BY DEF RunMap

\* Storing one row keeps the run map's type.
LEMMA WithRunType ==
    ASSUME NEW s \in Rows, NEW i \in Id, NEW row \in RunRow
    PROVE  /\ WithRun(s, i, row) \in Rows
           /\ DOMAIN WithRun(s, i, row).run = DOMAIN s.run \cup {i}
           /\ WithRun(s, i, row).run[i] = row
           /\ \A j \in DOMAIN s.run \ {i} : WithRun(s, i, row).run[j] = s.run[j]
           /\ \A f \in {"active", "epoch", "faults", "trip", "owned", "trigger", "queue",
                        "paused", "drain", "stopped", "notice"} :
                 WithRun(s, i, row)[f] = s[f]
  <1> DEFINE r == [j \in DOMAIN s.run \cup {i} |-> IF j = i THEN row ELSE s.run[j]]
  <1>1. s.run \in RunMap BY DEF Rows
  <1>2. r \in [DOMAIN s.run \cup {i} -> RunRow] BY <1>1, RunMapFacts
  <1>3. r \in RunMap BY <1>1, <1>2, RunMapFacts, RunMapIntro
  <1>4. WithRun(s, i, row) = [s EXCEPT !.run = r] BY DEF WithRun
  <1>5. DOMAIN r = DOMAIN s.run \cup {i} OBVIOUS
  <1>6. r[i] = row /\ \A j \in DOMAIN s.run \ {i} : r[j] = s.run[j] OBVIOUS
  <1> HIDE DEF r
  <1>7. [s EXCEPT !.run = r] \in Rows BY <1>3 DEF Rows
  <1>8. [s EXCEPT !.run = r].run = r BY DEF Rows
  <1>9. \A f \in {"active", "epoch", "faults", "trip", "owned", "trigger", "queue",
                  "paused", "drain", "stopped", "notice"} :
            [s EXCEPT !.run = r][f] = s[f]
    BY DEF Rows
  <1> QED BY <1>4, <1>5, <1>6, <1>7, <1>8, <1>9

-----------------------------------------------------------------------------
(* The inductive invariant of the rows.                                    *)

\* What a manual pause suspended can be resumed in this epoch, and a breaker's
\* trip left nothing to suspend.
PausedOK(s) ==
    /\ s.paused.epoch = s.epoch
    /\ \A k \in Key : s.paused.trigger[k] # None => s.paused.trigger[k].epoch = s.epoch
    /\ \A k \in Key : s.paused.queue[k] # None =>
          /\ s.paused.trigger[k] # None
          /\ s.paused.queue[k].version = s.active
          /\ Overlap[s.active] = "Queue"
    /\ s.trip.breaker => \A k \in Key : s.paused.trigger[k] = None /\ s.paused.queue[k] = None

\* Triggers are of the current epoch; slots are buffered for armed triggers of
\* the active version, under the `queue' policy alone; a trip leaves neither.
Sched(s) ==
    /\ s.owned = Armed(s)
    /\ s.active # None <=> s.epoch >= 1
    /\ \A k \in Key : s.trigger[k] # None => s.trigger[k].epoch = s.epoch /\ s.active # None
    /\ \A k \in Key : s.queue[k] # None =>
          /\ s.trigger[k] # None
          /\ s.queue[k].version = s.active
          /\ Overlap[s.active] = "Queue"
    /\ s.trip # None =>
          /\ \A k \in Key : s.trigger[k] = None
          /\ s.trip.manual \/ s.trip.breaker
          /\ s.active # None
    /\ s.paused # None <=> ManualTrip(s)
    /\ s.paused # None => PausedOK(s)

\* Every epoch has at most one notice, and the current one has it exactly while
\* its breaker is tripped.
Reported(s, h) ==
    /\ ~BreakerTrip(s) => s.faults < Threshold
    /\ \A n \in s.notice \cup h : n.epoch \in 1..s.epoch
    /\ BreakerTrip(s) <=> \E n \in s.notice \cup h : n.epoch = s.epoch
    /\ \A m, n \in s.notice \cup h : m.epoch = n.epoch => m = n

Good(s, h) ==
    /\ s \in Rows /\ Finite(s)
    /\ Sched(s)
    /\ h \subseteq Notice /\ Reported(s, h)

\* What no run's end, promotion or refusal changes.
Keeps(s, t) ==
    /\ t.active = s.active /\ t.epoch = s.epoch
    /\ t.stopped = s.stopped /\ t.paused = s.paused

SameSchedule(s, t) ==
    t.trip = s.trip /\ t.owned = s.owned /\ t.trigger = s.trigger /\ t.queue = s.queue

\* A breaker's trip: neither a trigger nor a buffered slot is left.
Disarmed(t) ==
    /\ t.trip # None /\ t.owned = {}
    /\ \A k \in Key : t.trigger[k] = None /\ t.queue[k] = None

\* A stored run changes nothing of the schedule.
LEMMA WithRunGood ==
    ASSUME NEW s, NEW h, Good(s, h), NEW i \in Id, NEW row \in RunRow
    PROVE  /\ Good(WithRun(s, i, row), h)
           /\ Keeps(s, WithRun(s, i, row))
           /\ SameSchedule(s, WithRun(s, i, row))
           /\ WithRun(s, i, row).drain = s.drain
  <1>1. s \in Rows BY DEF Good
  <1>2. PICK t : t = WithRun(s, i, row) OBVIOUS
  <1>3. /\ t \in Rows
        /\ DOMAIN t.run = DOMAIN s.run \cup {i}
        /\ t.active = s.active /\ t.epoch = s.epoch /\ t.faults = s.faults /\ t.trip = s.trip
        /\ t.owned = s.owned /\ t.trigger = s.trigger /\ t.queue = s.queue
        /\ t.paused = s.paused /\ t.drain = s.drain /\ t.stopped = s.stopped
        /\ t.notice = s.notice
    BY <1>1, <1>2, WithRunType
  <1>4. Finite(t) BY <1>3, FS_AddElement DEF Good, Finite
  <1>5. Sched(t) BY <1>3 DEF Good, Sched, Armed, ManualTrip, PausedOK
  <1>6. Reported(t, h) BY <1>3 DEF Good, Reported, BreakerTrip
  <1> QED BY <1>2, <1>3, <1>4, <1>5, <1>6 DEF Good, Keeps, SameSchedule

\* arm leaves exactly the wanted triggers and no buffered slot.
LEMMA ArmEffect ==
    ASSUME NEW s \in Rows, s.owned = Armed(s),
           \A k \in Key : s.queue[k] # None => s.trigger[k] # None,
           NEW wanted \in [Key -> Trigger \cup {None}]
    PROVE  LET t == Arm(s, wanted)
           IN  /\ t \in Rows
               /\ t.owned = {k \in Key : wanted[k] # None}
               /\ t.trigger = wanted
               /\ \A k \in Key : t.queue[k] = None
               /\ Keeps(s, t) /\ t.trip = s.trip /\ t.run = s.run /\ t.faults = s.faults
               /\ t.notice = s.notice /\ t.drain = s.drain
  <1> DEFINE q == [k \in Key |-> IF k \in s.owned THEN None ELSE s.queue[k]]
             g == [k \in Key |-> IF wanted[k] # None \/ k \in s.owned
                                 THEN wanted[k] ELSE s.trigger[k]]
             o == {k \in Key : wanted[k] # None}
  <1>1. \A k \in Key : q[k] = None BY DEF Armed
  <1>2. \A k \in Key : g[k] = wanted[k] BY DEF Armed
  <1>3. g = wanted BY <1>2
  <1>4. q \in [Key -> Slot \cup {None}] BY <1>1
  <1>5. o \in SUBSET Key OBVIOUS
  <1>6. Arm(s, wanted) = [s EXCEPT !.queue = q, !.trigger = g, !.owned = o] BY DEF Arm
  <1> HIDE DEF q, g
  <1> QED BY <1>1, <1>3, <1>4, <1>5, <1>6 DEF Rows, Keeps

\* Disarming leaves neither.
LEMMA ArmNone ==
    ASSUME NEW s \in Rows, s.owned = Armed(s),
           \A k \in Key : s.queue[k] # None => s.trigger[k] # None
    PROVE  LET t == Arm(s, NoTriggers)
           IN  /\ t \in Rows
               /\ t.owned = {}
               /\ \A k \in Key : t.trigger[k] = None /\ t.queue[k] = None
               /\ Keeps(s, t) /\ t.trip = s.trip /\ t.run = s.run /\ t.faults = s.faults
               /\ t.notice = s.notice /\ t.drain = s.drain
  <1>1. NoTriggers \in [Key -> Trigger \cup {None}] /\ \A k \in Key : NoTriggers[k] = None
    BY DEF NoTriggers
  <1>2. {k \in Key : NoTriggers[k] # None} = {} BY <1>1
  <1> HIDE DEF NoTriggers
  <1> QED BY <1>1, <1>2, ArmEffect

\* A trip disarms the schedule and stores its notice.
LEMMA TrippedEffect ==
    ASSUME NEW s \in Rows, Sched(s), NEW v \in Version, NEW at \in Nat
    PROVE  LET t == Tripped(s, v, at)
           IN  /\ t \in Rows /\ Keeps(s, t) /\ Disarmed(t)
               /\ t.trip = [manual |-> FALSE, breaker |-> TRUE, version |-> v]
               /\ t.notice = s.notice \cup {[at |-> at, epoch |-> s.epoch]}
               /\ t.run = s.run /\ t.drain = s.drain /\ t.faults = s.faults
  <1> DEFINE trip == [manual |-> FALSE, breaker |-> TRUE, version |-> v]
             note == [at |-> at, epoch |-> s.epoch]
  <1>0. trip \in Trip BY Zenon DEF Trip
  <1>1. trip \in Trip /\ trip # None BY <1>0, NoneAssumption
  <1>2. note \in Notice BY DEF Rows, Notice
  <1>3. PICK u : u = [s EXCEPT !.trip = trip, !.notice = s.notice \cup {note}] OBVIOUS
  <1>4. Tripped(s, v, at) = Arm(u, NoTriggers) BY <1>3 DEF Tripped
  <1> HIDE DEF trip, note
  <1>5. /\ u \in Rows
        /\ u.trip = trip /\ u.notice = s.notice \cup {note}
        /\ u.owned = s.owned /\ u.trigger = s.trigger /\ u.queue = s.queue
        /\ u.run = s.run /\ u.drain = s.drain /\ u.faults = s.faults /\ Keeps(s, u)
    BY <1>1, <1>2, <1>3 DEF Rows, Keeps
  <1>6. u.owned = Armed(u) BY <1>5 DEF Sched, Armed
  <1>7. \A k \in Key : u.queue[k] # None => u.trigger[k] # None BY <1>5 DEF Sched
  <1>8. PICK t : t = Arm(u, NoTriggers) OBVIOUS
  <1>9. /\ t \in Rows
        /\ t.owned = {}
        /\ \A k \in Key : t.trigger[k] = None /\ t.queue[k] = None
        /\ Keeps(u, t) /\ t.trip = u.trip /\ t.run = u.run /\ t.faults = u.faults
        /\ t.notice = u.notice /\ t.drain = u.drain
    BY <1>5, <1>6, <1>7, <1>8, ArmNone
  <1> QED BY <1>1, <1>4, <1>5, <1>8, <1>9 DEF Keeps, Disarmed, trip, note

\* The breaker counts a fault, forgets the faults, or trips.
LEMMA BreakerGood ==
    ASSUME NEW s, NEW h, Good(s, h), NEW row \in RunRow, NEW outcome, NEW at \in Nat
    PROVE  LET t == Breaker(s, row, outcome, at)
           IN  /\ Good(t, h) /\ Keeps(s, t)
               /\ t.run = s.run /\ t.drain = s.drain
               /\ SameSchedule(s, t) \/ Disarmed(t)
               /\ t.faults > s.faults => Counts(s, row)
  <1> DEFINE counted == [s EXCEPT !.faults = s.faults + 1]
             cleared == [s EXCEPT !.faults = 0]
             t == Breaker(s, row, outcome, at)
  <1>1. s \in Rows /\ Finite(s) /\ Sched(s) /\ Reported(s, h) /\ h \subseteq Notice BY DEF Good
  <1>2. /\ counted \in Rows /\ Keeps(s, counted) /\ SameSchedule(s, counted)
        /\ counted.run = s.run /\ counted.drain = s.drain /\ counted.notice = s.notice
        /\ counted.faults = s.faults + 1
    BY <1>1 DEF Rows, Keeps, SameSchedule
  <1>3. /\ cleared \in Rows /\ Keeps(s, cleared) /\ SameSchedule(s, cleared)
        /\ cleared.run = s.run /\ cleared.drain = s.drain /\ cleared.notice = s.notice
        /\ cleared.faults = 0
    BY <1>1 DEF Rows, Keeps, SameSchedule
  <1>4. \/ t = s
        \/ t = cleared
        \/ Counts(s, row) /\ ~Trips(s) /\ t = counted
        \/ Counts(s, row) /\ t = Tripped(counted, row.version, at)
    BY DEF Breaker
  <1>5. Threshold \in Nat /\ Threshold > 0 /\ s.faults \in Nat BY <1>1, ScheduleAssumption DEF Rows
  <1> HIDE DEF counted, cleared, t
  <1>6. CASE t = s
    BY <1>1, <1>5, <1>6 DEF Good, Keeps, SameSchedule, t
  <1>7. CASE t = cleared
    <2>1. Sched(cleared) BY <1>1, <1>3 DEF Sched, Armed, ManualTrip, PausedOK, Keeps, SameSchedule
    <2>2. Reported(cleared, h)
      BY <1>1, <1>3, <1>5 DEF Reported, BreakerTrip, Keeps, SameSchedule
    <2> QED BY <1>1, <1>3, <1>5, <1>7, <2>1, <2>2 DEF Good, Finite, t
  <1>8. CASE Counts(s, row) /\ ~Trips(s) /\ t = counted
    <2>1. Sched(counted) BY <1>1, <1>2 DEF Sched, Armed, ManualTrip, PausedOK, Keeps, SameSchedule
    <2>2. Reported(counted, h)
      BY <1>1, <1>2, <1>5, <1>8 DEF Reported, BreakerTrip, Keeps, SameSchedule, Trips
    <2> QED BY <1>1, <1>2, <1>8, <2>1, <2>2 DEF Good, Finite, t
  <1>9. CASE Counts(s, row) /\ t = Tripped(counted, row.version, at)
    <2>1. row.version \in Version BY DEF RunRow
    <2>2. Sched(counted) BY <1>1, <1>2 DEF Sched, Armed, ManualTrip, PausedOK, Keeps, SameSchedule
    <2>3. /\ t \in Rows /\ Keeps(counted, t) /\ Disarmed(t)
          /\ t.trip = [manual |-> FALSE, breaker |-> TRUE, version |-> row.version]
          /\ t.notice = counted.notice \cup {[at |-> at, epoch |-> counted.epoch]}
          /\ t.run = counted.run /\ t.drain = counted.drain /\ t.faults = counted.faults
      BY <1>2, <1>9, <2>1, <2>2, TrippedEffect
    <2>4. Keeps(s, t) /\ t.run = s.run /\ t.drain = s.drain BY <1>2, <2>3 DEF Keeps
    <2>5. s.trip = None /\ s.active # None /\ s.epoch \in Nat /\ s.epoch >= 1
      BY <1>1, <1>9, <2>1, NoneAssumption DEF Counts, Rows, Sched
    <2>6. s.paused = None BY <1>1, <2>5 DEF Sched, ManualTrip
    <2>7. t.trip # None /\ t.trip.manual = FALSE /\ t.trip.breaker = TRUE
      BY <2>3 DEF Disarmed
    <2>8. Sched(t)
      BY <1>1, <2>3, <2>4, <2>5, <2>6, <2>7 DEF Sched, Armed, ManualTrip, Keeps, Disarmed
    <2>9. Reported(t, h)
      <3>1. t.notice = s.notice \cup {[at |-> at, epoch |-> s.epoch]}
        BY <1>2, <2>3 DEF Keeps
      <3>2. BreakerTrip(t) BY <2>7 DEF BreakerTrip
      <3>3. ~BreakerTrip(s) BY <2>5 DEF BreakerTrip
      <3>4. t.epoch = s.epoch BY <2>4 DEF Keeps
      <3>5. \A n \in s.notice \cup h : n.epoch \in 1..s.epoch /\ n.epoch # s.epoch
        BY <1>1, <3>3 DEF Reported
      <3>6. \A m, n \in s.notice \cup h : m.epoch = n.epoch => m = n
        BY <1>1 DEF Reported
      <3>7. s.epoch \in 1..s.epoch BY <2>5
      <3> DEFINE note == [at |-> at, epoch |-> s.epoch]
      <3>8. note.epoch = s.epoch OBVIOUS
      <3> HIDE DEF note
      <3>9. t.notice \cup h = (s.notice \cup h) \cup {note} BY <3>1 DEF note
      <3>10. \A m, n \in t.notice \cup h : m.epoch = n.epoch => m = n
        BY <3>5, <3>6, <3>8, <3>9
      <3>11. \A n \in t.notice \cup h : n.epoch \in 1..t.epoch
        BY <3>4, <3>5, <3>7, <3>8, <3>9
      <3>12. \E n \in t.notice \cup h : n.epoch = t.epoch BY <3>4, <3>8, <3>9
      <3> QED BY <3>2, <3>10, <3>11, <3>12 DEF Reported
    <2> QED BY <1>1, <1>9, <2>3, <2>4, <2>8, <2>9 DEF Good, Finite, t
  <1> QED BY <1>4, <1>6, <1>7, <1>8, <1>9 DEF t

-----------------------------------------------------------------------------
(* Promotion.                                                              *)

\* A drain from s to t: runs are only added; a slot leaves its buffer for a
\* stored run, or with the whole schedule when its refusal trips the breaker;
\* a run that starts was buffered, is its trigger's only live run and stays
\* under the ceiling; only a refused run of the epoch counts as a fault.
Fresh(s, t) == DOMAIN t.run \ DOMAIN s.run
FreshLive(s, t) == {i \in Fresh(s, t) : t.run[i].live}

Drains(s, t) ==
    /\ Keeps(s, t)
    /\ DOMAIN s.run \subseteq DOMAIN t.run
    /\ Fresh(s, t) \subseteq SlotIds
    /\ \A i \in DOMAIN s.run : t.run[i] = s.run[i]
    /\ \A k \in Key : \/ t.queue[k] = s.queue[k]
                      \/ t.queue[k] = None /\ (s.queue[k].id \in DOMAIN t.run \/ Disarmed(t))
    /\ (t.trip = s.trip /\ t.owned = s.owned /\ t.trigger = s.trigger) \/ Disarmed(t)
    /\ t.faults > s.faults => \E i \in Fresh(s, t) : ~t.run[i].live /\ t.run[i].epoch = s.epoch
    /\ \A i \in FreshLive(s, t) :
          LET k == t.run[i].key
          IN  /\ k \in Key /\ s.queue[k] # None /\ s.queue[k].id = i /\ t.queue[k] = None
              /\ TriggerLive(t, k) = {i}
    /\ FreshLive(s, t) # {} => Cardinality(Live(t)) <= Ceiling

\* The rows of a new run.
LEMMA NewRunType ==
    ASSUME NEW s \in Rows, NEW v \in Version
    PROVE  NewRun(s, v) \in RunRow
  <1>1. s.epoch \in Nat BY DEF Rows
  <1> QED BY <1>1, Zenon DEF NewRun, RunRow

\* The row of a refused slot, and of an admitted one.
LEMMA RefusedRunType ==
    ASSUME NEW s \in Rows, NEW v \in Version
    PROVE  LET row == [NewRun(s, v) EXCEPT !.live = FALSE]
           IN  row \in RunRow /\ row.live = FALSE /\ row.epoch = NewRun(s, v).epoch
                /\ row.version = v
  <1>1. NewRun(s, v) \in RunRow BY NewRunType
  <1>2. NewRun(s, v).version = v BY DEF NewRun
  <1> HIDE DEF NewRun
  <1> QED BY <1>1, <1>2 DEF RunRow

\* The row of an admitted slot.
FiringRow(s, v, k, armed) == [NewRun(s, v) EXCEPT !.key = k, !.rearm = armed]

\* It is a live run of its trigger.
LEMMA FiringRunType ==
    ASSUME NEW s \in Rows, NEW v \in Version, NEW k \in Key, NEW armed \in Trigger \cup {None}
    PROVE  /\ FiringRow(s, v, k, armed) \in RunRow
           /\ FiringRow(s, v, k, armed).live
           /\ FiringRow(s, v, k, armed).key = k
           /\ FiringRow(s, v, k, armed).version = v
  <1>1. NewRun(s, v) \in RunRow BY NewRunType
  <1>2. NewRun(s, v).live = TRUE /\ NewRun(s, v).version = v BY DEF NewRun
  <1> HIDE DEF NewRun
  <1> QED BY <1>1, <1>2 DEF RunRow, FiringRow

\* Runs that are not touched stay as live as they were.
LEMMA LiveGrows ==
    ASSUME NEW s \in Rows, NEW t \in Rows, Drains(s, t)
    PROVE  /\ Live(t) = Live(s) \cup FreshLive(s, t)
           /\ \A k : TriggerLive(s, k) \subseteq TriggerLive(t, k)
  BY DEF Drains, Live, FreshLive, Fresh, TriggerLive

\* Drains compose.
LEMMA DrainsTransitive ==
    ASSUME NEW s \in Rows, NEW t \in Rows, NEW u \in Rows, Drains(s, t), Drains(t, u)
    PROVE  Drains(s, u)
  <1>1. Keeps(s, u) BY DEF Drains, Keeps
  <1>2. /\ DOMAIN s.run \subseteq DOMAIN u.run /\ \A i \in DOMAIN s.run : u.run[i] = s.run[i]
        /\ Fresh(s, u) \subseteq SlotIds
    BY DEF Drains, Fresh
  <1>3. Disarmed(t) => Disarmed(u) BY DEF Drains, Disarmed
  <1>4. \A k \in Key : \/ u.queue[k] = s.queue[k]
                       \/ u.queue[k] = None /\ (s.queue[k].id \in DOMAIN u.run \/ Disarmed(u))
    BY <1>3 DEF Drains
  <1>5. (u.trip = s.trip /\ u.owned = s.owned /\ u.trigger = s.trigger) \/ Disarmed(u)
    BY <1>3 DEF Drains
  <1>6. u.faults > s.faults => \E i \in Fresh(s, u) : ~u.run[i].live /\ u.run[i].epoch = s.epoch
    <2>1. s.faults \in Nat /\ t.faults \in Nat /\ u.faults \in Nat BY DEF Rows
    <2>2. t.epoch = s.epoch BY DEF Drains, Keeps
    <2>3. CASE u.faults > t.faults
      <3>1. PICK i \in Fresh(t, u) : ~u.run[i].live /\ u.run[i].epoch = t.epoch
        BY <2>3 DEF Drains
      <3>2. i \in Fresh(s, u) BY DEF Fresh, Drains
      <3> QED BY <2>2, <3>1, <3>2
    <2>4. CASE t.faults > s.faults
      <3>1. PICK i \in Fresh(s, t) : ~t.run[i].live /\ t.run[i].epoch = s.epoch
        BY <2>4 DEF Drains
      <3>2. i \in Fresh(s, u) /\ u.run[i] = t.run[i] BY DEF Fresh, Drains
      <3> QED BY <3>1, <3>2
    <2> QED BY <2>1, <2>3, <2>4
  <1>7. FreshLive(s, u) = FreshLive(s, t) \cup FreshLive(t, u)
    BY DEF FreshLive, Fresh, Drains
  <1>8. \A i \in FreshLive(s, u) :
            /\ u.run[i].key \in Key /\ s.queue[u.run[i].key] # None
            /\ s.queue[u.run[i].key].id = i /\ u.queue[u.run[i].key] = None
            /\ TriggerLive(u, u.run[i].key) = {i}
    <2> SUFFICES ASSUME NEW i \in FreshLive(s, u), NEW k, k = u.run[i].key
                 PROVE  /\ k \in Key /\ s.queue[k] # None /\ s.queue[k].id = i
                        /\ u.queue[k] = None /\ TriggerLive(u, k) = {i}
      OBVIOUS
    <2>1. CASE i \in FreshLive(s, t)
      <3>1. k = t.run[i].key /\ i \in DOMAIN t.run BY <2>1 DEF FreshLive, Fresh, Drains
      <3>2. /\ k \in Key /\ s.queue[k] # None /\ s.queue[k].id = i /\ t.queue[k] = None
            /\ TriggerLive(t, k) = {i}
        BY <2>1, <3>1 DEF Drains
      <3>3. u.queue[k] = None BY <3>2 DEF Drains
      <3>4. \A j \in FreshLive(t, u) : u.run[j].key # k BY <3>2 DEF Drains
      <3>5. TriggerLive(u, k) = {i}
        BY <3>2, <3>4, LiveGrows DEF TriggerLive, Live, FreshLive, Fresh, Drains
      <3> QED BY <3>2, <3>3, <3>5
    <2>2. CASE i \in FreshLive(t, u)
      <3>1. /\ k \in Key /\ t.queue[k] # None /\ t.queue[k].id = i /\ u.queue[k] = None
            /\ TriggerLive(u, k) = {i}
        BY <2>2 DEF Drains
      <3>2. s.queue[k] = t.queue[k] BY <3>1 DEF Drains
      <3> QED BY <3>1, <3>2
    <2> QED BY <1>7, <2>1, <2>2
  <1>9. FreshLive(s, u) # {} => Cardinality(Live(u)) <= Ceiling
    <2>1. FreshLive(t, u) = {} => Live(u) = Live(t) BY LiveGrows
    <2> QED BY <1>7, <2>1 DEF Drains
  <1> QED BY <1>1, <1>2, <1>4, <1>5, <1>6, <1>8, <1>9 DEF Drains

\* Nothing drained is a drain.
LEMMA DrainsReflexive ==
    ASSUME NEW s \in Rows
    PROVE  Drains(s, s)
  <1>1. s.faults \in Nat BY DEF Rows
  <1>2. Fresh(s, s) = {} BY DEF Fresh
  <1>3. FreshLive(s, s) = {} BY <1>2 DEF FreshLive
  <1> QED BY <1>1, <1>2, <1>3 DEF Drains, Keeps

\* refuse stores a run that is over, and at most trips the breaker.
LEMMA RefuseGood ==
    ASSUME NEW s, NEW h, Good(s, h), NEW i \in SlotIds, NEW v \in Version, NEW at \in Nat
    PROVE  LET t == Refuse(s, i, v, at)
           IN  /\ Good(t, h) /\ Drains(s, t)
               /\ i \in DOMAIN t.run /\ FreshLive(s, t) = {}
               /\ SameSchedule(s, t) \/ Disarmed(t)
               /\ t.drain = s.drain
  <1> DEFINE t == Refuse(s, i, v, at)
             row == [NewRun(s, v) EXCEPT !.live = FALSE]
             u == WithRun(s, i, row)
  <1>1. s \in Rows /\ s.faults \in Nat /\ i \in Id BY DEF Good, Rows, Id
  <1>2. CASE i \in DOMAIN s.run
    <2>1. t = s BY <1>2 DEF Refuse
    <2>2. FreshLive(s, s) = {} BY DEF FreshLive, Fresh
    <2> QED BY <1>1, <1>2, <2>1, <2>2, DrainsReflexive DEF SameSchedule
  <1>3. CASE i \notin DOMAIN s.run
    <2>1. row \in RunRow /\ row.live = FALSE BY <1>1, RefusedRunType
    <2>2. t = Breaker(u, row, "Faulted", at) BY <1>3 DEF Refuse
    <2> HIDE DEF row
    <2>3. /\ u \in Rows /\ DOMAIN u.run = DOMAIN s.run \cup {i}
          /\ u.run[i] = row /\ \A j \in DOMAIN s.run : u.run[j] = s.run[j]
          /\ u.faults = s.faults
      BY <1>1, <1>3, <2>1, WithRunType
    <2>4. Good(u, h) /\ Keeps(s, u) /\ SameSchedule(s, u) /\ u.drain = s.drain
      BY <1>1, <2>1, WithRunGood
    <2> HIDE DEF u, t
    <2>5. /\ Good(t, h) /\ Keeps(u, t) /\ t.run = u.run /\ t.drain = u.drain
          /\ SameSchedule(u, t) \/ Disarmed(t)
          /\ t.faults > u.faults => Counts(u, row)
      BY <2>1, <2>2, <2>4, BreakerGood
    <2>6. Keeps(s, t) /\ t.drain = s.drain BY <2>4, <2>5 DEF Keeps
    <2>7. SameSchedule(s, t) \/ Disarmed(t) BY <2>4, <2>5 DEF SameSchedule
    <2>8. /\ DOMAIN t.run = DOMAIN s.run \cup {i}
          /\ t.run[i] = row /\ \A j \in DOMAIN s.run : t.run[j] = s.run[j]
      BY <2>3, <2>5
    <2>9. Fresh(s, t) = {i} BY <1>3, <2>8 DEF Fresh
    <2>10. FreshLive(s, t) = {} BY <2>1, <2>8, <2>9 DEF FreshLive
    <2>11. t.faults > s.faults => \E j \in Fresh(s, t) : ~t.run[j].live /\ t.run[j].epoch = s.epoch
      BY <2>1, <2>3, <2>4, <2>5, <2>8, <2>9 DEF Counts, Keeps
    <2>12. \A k \in Key : \/ t.queue[k] = s.queue[k]
                          \/ t.queue[k] = None /\ (s.queue[k].id \in DOMAIN t.run \/ Disarmed(t))
      BY <2>7 DEF SameSchedule, Disarmed
    <2>13. Drains(s, t) BY <2>6, <2>7, <2>8, <2>9, <2>10, <2>11, <2>12 DEF Drains, SameSchedule
    <2> QED BY <2>5, <2>6, <2>7, <2>8, <2>10, <2>13 DEF t
  <1> QED BY <1>2, <1>3

\* admit_firing joins the run of its id, or stores a live run of its trigger.
LEMMA AdmitFiringGood ==
    ASSUME NEW s, NEW h, Good(s, h), NEW k \in Key, NEW i \in Id, NEW v \in Version,
           NEW rearm \in BOOLEAN
    PROVE  LET t == AdmitFiring(s, k, i, v, rearm)
           IN  /\ Good(t, h) /\ Keeps(s, t) /\ SameSchedule(s, t)
               /\ t.drain = s.drain /\ t.faults = s.faults
               /\ i \in DOMAIN s.run => t = s
               /\ DOMAIN t.run = DOMAIN s.run \cup {i}
               /\ \A j \in DOMAIN s.run : t.run[j] = s.run[j]
               /\ i \notin DOMAIN s.run => t.run[i].live /\ t.run[i].key = k /\ t.run[i].version = v
  <1> DEFINE t == AdmitFiring(s, k, i, v, rearm)
             armed == IF rearm THEN s.trigger[k] ELSE None
             row == FiringRow(s, v, k, armed)
  <1>1. s \in Rows /\ armed \in Trigger \cup {None} BY DEF Good, Rows
  <1> HIDE DEF armed
  <1>2. CASE i \in DOMAIN s.run
    <2>1. t = s BY <1>2 DEF AdmitFiring
    <2> QED BY <1>2, <2>1 DEF SameSchedule, Keeps
  <1>3. CASE i \notin DOMAIN s.run
    <2>1. row \in RunRow /\ row.live /\ row.key = k /\ row.version = v
      BY <1>1, FiringRunType
    <2>2. t = WithRun(s, i, row) BY <1>3 DEF AdmitFiring, armed, FiringRow
    <2> HIDE DEF row, t
    <2>3. /\ t \in Rows /\ DOMAIN t.run = DOMAIN s.run \cup {i}
          /\ t.run[i] = row /\ \A j \in DOMAIN s.run : t.run[j] = s.run[j]
          /\ t.faults = s.faults
      BY <1>1, <1>3, <2>1, <2>2, WithRunType
    <2>4. Good(t, h) /\ Keeps(s, t) /\ SameSchedule(s, t) /\ t.drain = s.drain
      BY <2>1, <2>2, WithRunGood
    <2> QED BY <1>3, <2>1, <2>3, <2>4 DEF t
  <1> QED BY <1>2, <1>3

\* A slot that leaves its buffer leaves the rest of the schedule alone.
LEMMA UnbufferedGood ==
    ASSUME NEW s, NEW h, Good(s, h), NEW k \in Key
    PROVE  LET r == [s EXCEPT !.queue[k] = None]
           IN  /\ Good(r, h) /\ Keeps(s, r)
               /\ r.trip = s.trip /\ r.owned = s.owned /\ r.trigger = s.trigger
               /\ r.run = s.run /\ r.faults = s.faults /\ r.drain = s.drain
               /\ r.queue[k] = None
               /\ \A l \in Key \ {k} : r.queue[l] = s.queue[l]
  <1>1. s \in Rows /\ s.queue \in [Key -> Slot \cup {None}] BY DEF Good, Rows
  <1>2. PICK q : q = [s.queue EXCEPT ![k] = None] OBVIOUS
  <1>3. /\ q \in [Key -> Slot \cup {None}] /\ q[k] = None
        /\ \A l \in Key \ {k} : q[l] = s.queue[l]
    BY <1>1, <1>2
  <1>4. PICK r : r = [s EXCEPT !.queue = q] OBVIOUS
  <1>5. r = [s EXCEPT !.queue[k] = None] BY <1>2, <1>4
  <1>6. /\ r \in Rows /\ Keeps(s, r) /\ r.queue = q
        /\ r.trip = s.trip /\ r.owned = s.owned /\ r.trigger = s.trigger
        /\ r.run = s.run /\ r.faults = s.faults /\ r.drain = s.drain /\ r.notice = s.notice
    BY <1>1, <1>3, <1>4 DEF Rows, Keeps
  <1>7. Sched(r) BY <1>3, <1>6 DEF Good, Sched, Armed, ManualTrip, PausedOK, Keeps
  <1>8. Reported(r, h) BY <1>6 DEF Good, Reported, BreakerTrip, Keeps
  <1> QED BY <1>3, <1>5, <1>6, <1>7, <1>8 DEF Good, Finite

\* The body of drain_queues' loop is a drain, after which the slot cannot go.
LEMMA PromoteGood ==
    ASSUME NEW s, NEW h, Good(s, h), NEW k \in Key, NEW at \in Nat
    PROVE  LET t == Promote(s, k, at)
           IN  Good(t, h) /\ Drains(s, t) /\ ~Ready(t, k) /\ t.drain = s.drain
  <1> DEFINE t == Promote(s, k, at)
             q == s.queue[k]
             r == [s EXCEPT !.queue[k] = None]
  <1>1. s \in Rows /\ s.faults \in Nat /\ Finite(s) BY DEF Good, Rows
  <1>2. CASE ~Ready(s, k)
    <2>1. t = s BY <1>2 DEF Promote
    <2> QED BY <1>1, <1>2, <2>1, DrainsReflexive
  <1>3. CASE Ready(s, k)
    <2>1. q # None /\ TriggerLive(s, k) = {} /\ Capacity(s) BY <1>3 DEF Ready
    <2>2. q \in Slot BY <1>1, <2>1 DEF Rows
    <2>3. q.id \in SlotIds /\ q.id \in Id /\ q.version \in Version /\ q.rearm \in BOOLEAN
      BY <2>2 DEF Slot, Id
    <2>4. t = IF q.refused THEN Refuse(r, q.id, q.version, at)
              ELSE AdmitFiring(r, k, q.id, q.version, q.rearm)
      BY <1>3 DEF Promote
    <2>5. /\ Good(r, h) /\ Keeps(s, r)
          /\ r.trip = s.trip /\ r.owned = s.owned /\ r.trigger = s.trigger
          /\ r.run = s.run /\ r.faults = s.faults /\ r.drain = s.drain
          /\ r.queue[k] = None
          /\ \A l \in Key \ {k} : r.queue[l] = s.queue[l]
      BY UnbufferedGood
    <2> HIDE DEF r, t
    <2>6. CASE q.refused
      <3>1. t = Refuse(r, q.id, q.version, at) BY <2>4, <2>6
      <3>2. /\ Good(t, h) /\ Drains(r, t)
            /\ q.id \in DOMAIN t.run /\ FreshLive(r, t) = {} /\ t.drain = r.drain
        BY <2>3, <2>5, <3>1, RefuseGood
      <3>3. Fresh(s, t) = Fresh(r, t) /\ FreshLive(s, t) = {}
        BY <2>5, <3>2 DEF Fresh, FreshLive
      <3>4. t.queue[k] = None BY <2>5, <3>2 DEF Drains
      <3>5. \A l \in Key : \/ t.queue[l] = s.queue[l]
                           \/ t.queue[l] = None /\ (s.queue[l].id \in DOMAIN t.run \/ Disarmed(t))
        BY <2>5, <3>2, <3>4 DEF Drains
      <3>6. Drains(s, t) BY <2>5, <3>2, <3>3, <3>5 DEF Drains, Keeps
      <3> QED BY <2>5, <3>2, <3>4, <3>6 DEF Ready, t
    <2>7. CASE ~q.refused
      <3>1. t = AdmitFiring(r, k, q.id, q.version, q.rearm) BY <2>4, <2>7
      <3>2. /\ Good(t, h) /\ Keeps(r, t) /\ SameSchedule(r, t)
            /\ t.drain = r.drain /\ t.faults = r.faults
            /\ q.id \in DOMAIN r.run => t = r
            /\ DOMAIN t.run = DOMAIN r.run \cup {q.id}
            /\ \A j \in DOMAIN r.run : t.run[j] = r.run[j]
            /\ q.id \notin DOMAIN r.run => t.run[q.id].live /\ t.run[q.id].key = k
        BY <2>3, <2>5, <3>1, AdmitFiringGood
      <3>3. t.queue[k] = None BY <2>5, <3>2 DEF SameSchedule
      <3>4. \A l \in Key : \/ t.queue[l] = s.queue[l]
                           \/ t.queue[l] = None /\ s.queue[l].id \in DOMAIN t.run
        BY <2>5, <3>2, <3>3 DEF SameSchedule
      <3>5. Fresh(s, t) \subseteq {q.id} BY <2>5, <3>2 DEF Fresh
      <3>6. FreshLive(s, t) = {} \/ FreshLive(s, t) = {q.id} BY <3>5 DEF FreshLive
      <3>7. FreshLive(s, t) # {} =>
              /\ q.id \notin DOMAIN s.run /\ t.run[q.id].key = k /\ t.run[q.id].live
              /\ Live(t) = Live(s) \cup {q.id} /\ TriggerLive(t, k) = {q.id}
        BY <2>1, <2>5, <3>2, <3>6 DEF FreshLive, Fresh, Live, TriggerLive
      <3>8. FreshLive(s, t) # {} => Cardinality(Live(t)) <= Ceiling
        <4>1. SUFFICES ASSUME FreshLive(s, t) # {}
                       PROVE  Cardinality(Live(t)) <= Ceiling
          OBVIOUS
        <4>2. Live(t) = Live(s) \cup {q.id} /\ q.id \notin Live(s) BY <3>7, <4>1 DEF Live
        <4>3. IsFiniteSet(Live(s)) BY <1>1, FS_Subset DEF Finite, Live
        <4>4. Cardinality(Live(s)) \in Nat BY <4>3, FS_CardinalityType
        <4>5. Cardinality(Live(t)) = Cardinality(Live(s)) + 1 BY <4>2, <4>3, FS_AddElement
        <4>6. Ceiling \in Nat BY ScheduleAssumption
        <4> QED BY <2>1, <4>4, <4>5, <4>6 DEF Capacity
      <3>9. \A i \in FreshLive(s, t) :
               /\ t.run[i].key \in Key /\ s.queue[t.run[i].key] # None
               /\ s.queue[t.run[i].key].id = i /\ t.queue[t.run[i].key] = None
               /\ TriggerLive(t, t.run[i].key) = {i}
        BY <2>1, <3>3, <3>6, <3>7
      <3>10. ~(t.faults > s.faults) BY <1>1, <2>5, <3>2
      <3>11. /\ Keeps(s, t) /\ t.trip = s.trip /\ t.owned = s.owned /\ t.trigger = s.trigger
             /\ DOMAIN s.run \subseteq DOMAIN t.run /\ \A j \in DOMAIN s.run : t.run[j] = s.run[j]
        BY <2>5, <3>2 DEF Keeps, SameSchedule
      <3>12. Drains(s, t) BY <2>3, <3>4, <3>5, <3>8, <3>9, <3>10, <3>11 DEF Drains
      <3> QED BY <2>5, <3>2, <3>3, <3>12 DEF Ready, t
    <2> QED BY <2>6, <2>7
  <1> QED BY <1>2, <1>3

\* Runs that are added only make it harder for a slot to go.
LEMMA ReadyFalls ==
    ASSUME NEW s \in Rows, NEW t \in Rows, Finite(t), NEW k \in Key, ~Ready(s, k),
           t.queue[k] # None => s.queue[k] # None,
           DOMAIN s.run \subseteq DOMAIN t.run, \A i \in DOMAIN s.run : t.run[i] = s.run[i]
    PROVE  ~Ready(t, k)
  <1>1. Live(s) \subseteq Live(t) BY DEF Live
  <1>2. TriggerLive(t, k) = {} => TriggerLive(s, k) = {} BY DEF Live, TriggerLive
  <1>3. Capacity(t) => Capacity(s)
    <2>1. IsFiniteSet(Live(t)) BY FS_Subset DEF Finite, Live
    <2>2. Cardinality(Live(s)) <= Cardinality(Live(t)) BY <1>1, <2>1, FS_Subset
    <2>3. IsFiniteSet(Live(s)) BY <1>1, <2>1, FS_Subset
    <2>4. Cardinality(Live(s)) \in Nat /\ Cardinality(Live(t)) \in Nat
      BY <2>1, <2>3, FS_CardinalityType
    <2>5. Ceiling \in Nat BY ScheduleAssumption
    <2> QED BY <2>2, <2>4, <2>5 DEF Capacity
  <1> QED BY <1>2, <1>3 DEF Ready

\* What a drain left behind cannot go after a further drain either.
LEMMA NotReadyAfter ==
    ASSUME NEW s \in Rows, NEW t \in Rows, Finite(t), Drains(s, t), NEW k \in Key, ~Ready(s, k)
    PROVE  ~Ready(t, k)
  BY ReadyFalls DEF Drains

\* A buffered slot that could go has a deferred drain.
Waits(s) == \A k \in Key : Ready(s, k) => s.drain

\* The loop of drain_queues is a drain that leaves no slot that could go.
LEMMA PromoteAllGood ==
    ASSUME NEW s, NEW h, Good(s, h), NEW at \in Nat
    PROVE  LET t == PromoteAll(s, at)
           IN  Good(t, h) /\ Drains(s, t) /\ t.drain = s.drain /\ \A k \in Key : ~Ready(t, k)
  <1> DEFINE a == Promote(s, "after", at)
             b == Promote(a, "at", at)
             c == Promote(b, "every", at)
  <1>1. "after" \in Key /\ "at" \in Key /\ "every" \in Key BY DEF Key
  <1>2. Good(a, h) /\ Drains(s, a) /\ ~Ready(a, "after") /\ a.drain = s.drain
    BY <1>1, PromoteGood
  <1> HIDE DEF a
  <1>3. Good(b, h) /\ Drains(a, b) /\ ~Ready(b, "at") /\ b.drain = a.drain
    BY <1>1, <1>2, PromoteGood
  <1> HIDE DEF b
  <1>4. Good(c, h) /\ Drains(b, c) /\ ~Ready(c, "every") /\ c.drain = b.drain
    BY <1>1, <1>3, PromoteGood
  <1> HIDE DEF c
  <1>5. s \in Rows /\ a \in Rows /\ b \in Rows /\ c \in Rows /\ Finite(b) /\ Finite(c)
    BY <1>2, <1>3, <1>4 DEF Good
  <1>6. Drains(s, c) BY <1>2, <1>3, <1>4, <1>5, DrainsTransitive
  <1>7. ~Ready(b, "after") BY <1>1, <1>2, <1>3, <1>5, NotReadyAfter
  <1>8. ~Ready(c, "after") /\ ~Ready(c, "at") BY <1>1, <1>3, <1>4, <1>5, <1>7, NotReadyAfter
  <1>9. PromoteAll(s, at) = c BY DEF PromoteAll, a, b, c
  <1> QED BY <1>2, <1>3, <1>4, <1>6, <1>8, <1>9 DEF Key

\* The mark of a deferred drain changes nothing else.
LEMMA MarkGood ==
    ASSUME NEW s, NEW h, Good(s, h), NEW d \in BOOLEAN
    PROVE  LET t == [s EXCEPT !.drain = d]
           IN  /\ Good(t, h) /\ Drains(s, t) /\ SameSchedule(s, t)
               /\ t.run = s.run /\ t.drain = d
               /\ \A k \in Key : Ready(t, k) <=> Ready(s, k)
  <1>1. s \in Rows BY DEF Good
  <1>2. PICK t : t = [s EXCEPT !.drain = d] OBVIOUS
  <1>3. /\ t \in Rows /\ Keeps(s, t) /\ SameSchedule(s, t)
        /\ t.run = s.run /\ t.faults = s.faults /\ t.notice = s.notice /\ t.drain = d
    BY <1>1, <1>2 DEF Rows, Keeps, SameSchedule
  <1>4. Sched(t) BY <1>3 DEF Good, Sched, Armed, ManualTrip, PausedOK, Keeps, SameSchedule
  <1>5. Reported(t, h) BY <1>3 DEF Good, Reported, BreakerTrip, Keeps, SameSchedule
  <1>6. Good(t, h) BY <1>3, <1>4, <1>5 DEF Good, Finite
  <1>7. \A k \in Key : Ready(t, k) <=> Ready(s, k)
    BY <1>3 DEF Ready, TriggerLive, Live, Capacity, SameSchedule
  <1>8. Drains(s, t)
    <2>1. Drains(s, s) BY <1>1, DrainsReflexive
    <2>2. s.faults \in Nat BY <1>1 DEF Rows
    <2>3. Fresh(s, t) = {} BY <1>3 DEF Fresh
    <2>4. FreshLive(s, t) = {} BY <2>3 DEF FreshLive
    <2> QED BY <1>3, <2>2, <2>3, <2>4 DEF Drains, SameSchedule
  <1> QED BY <1>2, <1>3, <1>6, <1>7, <1>8

\* drain_queues promotes every slot that can go or records that it did not.
LEMMA DrainQueuesGood ==
    ASSUME NEW s, NEW h, Good(s, h), NEW at \in Nat
    PROVE  LET t == DrainQueues(s, at)
           IN  /\ Good(t, h) /\ Drains(s, t) /\ Waits(t)
               /\ s.stopped => SameSchedule(s, t) /\ t.run = s.run
               /\ ~s.stopped => t.drain = s.drain /\ \A k \in Key : ~Ready(t, k)
  <1> DEFINE t == DrainQueues(s, at)
             mark == s.drain \/ Queues(s) # {}
  <1>1. CASE s.stopped
    <2>1. mark \in BOOLEAN BY DEF Good, Rows
    <2>2. t = [s EXCEPT !.drain = mark] BY <1>1 DEF DrainQueues
    <2>3. \A k \in Key : Ready(s, k) => mark BY DEF Ready, Queues
    <2> HIDE DEF mark, t
    <2>4. /\ Good(t, h) /\ Drains(s, t) /\ SameSchedule(s, t)
          /\ t.run = s.run /\ t.drain = mark
          /\ \A k \in Key : Ready(t, k) <=> Ready(s, k)
      BY <2>1, <2>2, MarkGood
    <2> QED BY <1>1, <2>3, <2>4 DEF Waits, t
  <1>2. CASE ~s.stopped
    <2>1. t = PromoteAll(s, at) BY <1>2 DEF DrainQueues
    <2> QED BY <1>2, <2>1, PromoteAllGood DEF Waits
  <1> QED BY <1>1, <1>2

\* drain_marked before an admission: what could go has gone.
LEMMA DrainMarkedGood ==
    ASSUME NEW s, NEW h, Good(s, h), Waits(s), NEW at \in Nat
    PROVE  LET t == DrainMarked(s, at)
           IN  /\ Good(t, h) /\ Drains(s, t) /\ Waits(t)
               /\ ~s.stopped => \A k \in Key : ~Ready(t, k)
               /\ s.stopped => t = s
  <1>1. s \in Rows /\ s.drain \in BOOLEAN /\ s.stopped \in BOOLEAN BY DEF Good, Rows
  <1>2. CASE Marked(s)
    <2> DEFINE u == [s EXCEPT !.drain = FALSE]
    <2>1. DrainMarked(s, at) = DrainQueues(u, at) BY <1>2 DEF DrainMarked
    <2>2. Good(u, h) /\ Drains(s, u) BY MarkGood
    <2>3. ~s.stopped /\ u.stopped = s.stopped BY <1>2, <2>2 DEF Marked, Drains, Keeps
    <2> HIDE DEF u
    <2>4. PICK t : t = DrainQueues(u, at) OBVIOUS
    <2>5. Good(t, h) /\ Drains(u, t) /\ Waits(t) /\ \A k \in Key : ~Ready(t, k)
      BY <2>2, <2>3, <2>4, DrainQueuesGood
    <2>6. Drains(s, t) BY <1>1, <2>2, <2>5, DrainsTransitive DEF Good
    <2> QED BY <2>1, <2>3, <2>4, <2>5, <2>6
  <1>3. CASE ~Marked(s)
    <2>1. DrainMarked(s, at) = s BY <1>3 DEF DrainMarked
    <2>2. ~s.stopped => \A k \in Key : ~Ready(s, k) BY <1>3 DEF Marked, Waits
    <2> QED BY <1>1, <2>1, <2>2, DrainsReflexive
  <1> QED BY <1>2, <1>3

-----------------------------------------------------------------------------
(* Ends of runs.                                                           *)

\* From s to t the runs `ids' end; only an `after' trigger that waits for one
\* of them becomes due again.
Ends(s, t, ids) ==
    /\ Keeps(s, t)
    /\ t.trip = s.trip /\ t.owned = s.owned /\ t.queue = s.queue
    /\ t.drain = s.drain /\ t.faults = s.faults /\ t.notice = s.notice
    /\ DOMAIN t.run = DOMAIN s.run
    /\ \A i \in DOMAIN s.run \ ids : t.run[i] = s.run[i]
    /\ \A i \in ids : /\ ~t.run[i].live
                      /\ t.run[i].rearm = s.run[i].rearm
                      /\ t.run[i].epoch = s.run[i].epoch
    /\ \A k \in Key :
          \/ t.trigger[k] = s.trigger[k]
          \/ /\ t.trigger[k] # None /\ s.trigger[k] # None
             /\ t.trigger[k].epoch = s.trigger[k].epoch
             /\ s.trigger[k].at = None
             /\ \E i \in ids : s.run[i].rearm = s.trigger[k]

\* The first half of terminate ends the runs and keeps the schedule.
LEMMA RearmGood ==
    ASSUME NEW s, NEW h, Good(s, h), NEW ids \in SUBSET DOMAIN s.run, NEW at \in Nat
    PROVE  Good(Rearm(s, ids, at), h) /\ Ends(s, Rearm(s, ids, at), ids)
  <1> DEFINE over == [i \in DOMAIN s.run |->
                        IF i \in ids THEN [s.run[i] EXCEPT !.live = FALSE] ELSE s.run[i]]
             armed == s.trigger["after"]
             due == [armed EXCEPT !.at = at + After]
             wanted == armed # None /\ armed.at = None /\ \E i \in ids : s.run[i].rearm = armed
             trg == IF wanted THEN [s.trigger EXCEPT !["after"] = due] ELSE s.trigger
             t == Rearm(s, ids, at)
  <1>1. s \in Rows BY DEF Good
  <1>2. s.run \in [DOMAIN s.run -> RunRow] /\ DOMAIN s.run \in SUBSET Id
    BY <1>1, RunMapFacts DEF Rows
  <1>3. \A i \in DOMAIN s.run :
            /\ [s.run[i] EXCEPT !.live = FALSE] \in RunRow
            /\ [s.run[i] EXCEPT !.live = FALSE].live = FALSE
            /\ [s.run[i] EXCEPT !.live = FALSE].rearm = s.run[i].rearm
            /\ [s.run[i] EXCEPT !.live = FALSE].epoch = s.run[i].epoch
    BY <1>2 DEF RunRow
  <1>4. over \in [DOMAIN s.run -> RunRow] BY <1>2, <1>3
  <1>5. over \in RunMap BY <1>2, <1>4, RunMapIntro
  <1>6. DOMAIN over = DOMAIN s.run BY <1>4
  <1>7. /\ \A i \in DOMAIN s.run \ ids : over[i] = s.run[i]
        /\ \A i \in ids : /\ ~over[i].live
                          /\ over[i].rearm = s.run[i].rearm
                          /\ over[i].epoch = s.run[i].epoch
    BY <1>3
  <1>8. "after" \in Key /\ s.trigger \in [Key -> Trigger \cup {None}] /\ After \in Nat
    BY <1>1, ScheduleAssumption DEF Key, Rows
  <1>9. wanted => due \in Trigger /\ due.epoch = armed.epoch /\ due # None
    BY <1>8, NoneAssumption DEF Trigger, Instant
  <1>10. t = [s EXCEPT !.run = over, !.trigger = trg]
    <2>1. CASE wanted BY <2>1, <1>1 DEF Rearm, Rows
    <2>2. CASE ~wanted
      <3>1. t = [s EXCEPT !.run = over] BY <2>2 DEF Rearm
      <3>2. trg = s.trigger BY <2>2
      <3> HIDE DEF over, trg, t
      <3>3. [s EXCEPT !.run = over] = [s EXCEPT !.run = over, !.trigger = s.trigger]
        BY <1>1 DEF Rows
      <3> QED BY <3>1, <3>2, <3>3
    <2> QED BY <2>1, <2>2
  <1>11. trg \in [Key -> Trigger \cup {None}] BY <1>8, <1>9
  <1>12. \A k \in Key :
          \/ trg[k] = s.trigger[k]
          \/ /\ trg[k] # None /\ s.trigger[k] # None
             /\ trg[k].epoch = s.trigger[k].epoch
             /\ s.trigger[k].at = None
             /\ \E i \in ids : s.run[i].rearm = s.trigger[k]
    BY <1>8, <1>9
  <1> HIDE DEF over, trg, wanted, due, t
  <1>13. /\ t \in Rows /\ t.run = over /\ t.trigger = trg /\ Keeps(s, t)
         /\ t.trip = s.trip /\ t.owned = s.owned /\ t.queue = s.queue
         /\ t.drain = s.drain /\ t.faults = s.faults /\ t.notice = s.notice
    BY <1>1, <1>5, <1>10, <1>11 DEF Rows, Keeps
  <1>14. Ends(s, t, ids) BY <1>6, <1>7, <1>12, <1>13 DEF Ends
  <1>15. Sched(t)
    <2>1. \A k \in Key : t.trigger[k] = None <=> s.trigger[k] = None BY <1>12, <1>13
    <2>2. \A k \in Key : t.trigger[k] # None => t.trigger[k].epoch = s.trigger[k].epoch
      BY <1>12, <1>13
    <2> QED BY <1>13, <2>1, <2>2 DEF Good, Sched, Armed, ManualTrip, PausedOK, Keeps
  <1>16. Reported(t, h) BY <1>13 DEF Good, Reported, BreakerTrip, Keeps
  <1>17. Finite(t) BY <1>6, <1>13 DEF Good, Finite
  <1> QED BY <1>13, <1>14, <1>15, <1>16, <1>17 DEF Good, t

\* With no slot buffered a drain does nothing.
LEMMA NothingToDrain ==
    ASSUME NEW s \in Rows, ~s.stopped, \A k \in Key : s.queue[k] = None, NEW at
    PROVE  DrainQueues(s, at) = s
  <1>1. \A k \in Key : Promote(s, k, at) = s BY DEF Promote, Ready
  <1>2. Promote(s, "after", at) = s /\ Promote(s, "at", at) = s /\ Promote(s, "every", at) = s
    BY <1>1 DEF Key
  <1> QED BY <1>2 DEF DrainQueues, PromoteAll

\* A firing that still finds the trigger it read: of this epoch, by the policy
\* of the active version.
Current(s, f) ==
    /\ f \in Commit
    /\ ~s.stopped
    /\ s.trigger[f.key] = f.expected
    /\ f.version = s.active
    /\ f.policy = Overlap[s.active]
    /\ f.next.epoch = s.epoch /\ f.busy.epoch = s.epoch

\* The runs a firing replaces end, and no drain of theirs promotes anything:
\* what is buffered is buffered under another policy.
LEMMA ReplacedGood ==
    ASSUME NEW s, NEW h, Good(s, h), NEW f, Current(s, f)
    PROVE  LET r == Replaced(s, f)
               ids == IF f.policy = "Replace" THEN TriggerLive(s, f.key) ELSE {}
           IN  /\ Good(r, h) /\ Ends(s, r, ids)
               /\ f.policy = "Replace" => r = Rearm(s, ids, f.now) /\ TriggerLive(r, f.key) = {}
               /\ f.policy # "Replace" => r = s
  <1>1. s \in Rows /\ f.now \in Nat BY DEF Good, Current, Commit
  <1>2. CASE f.policy = "Replace"
    <2> DEFINE ids == TriggerLive(s, f.key)
               u == Rearm(s, ids, f.now)
    <2>1. ids \in SUBSET DOMAIN s.run BY DEF TriggerLive, Live
    <2>2. Good(u, h) /\ Ends(s, u, ids) BY <1>1, <2>1, RearmGood
    <2>3. Replaced(s, f) = DrainQueues(u, f.now) BY <1>2 DEF Replaced
    <2> HIDE DEF u
    <2>4. \A k \in Key : s.queue[k] = None BY <1>2 DEF Good, Sched, Current
    <2>5. u \in Rows /\ ~u.stopped /\ \A k \in Key : u.queue[k] = None
      BY <2>2, <2>4 DEF Good, Ends, Keeps, Current
    <2>6. Replaced(s, f) = u BY <2>3, <2>5, NothingToDrain
    <2>7. TriggerLive(u, f.key) = {}
      <3> SUFFICES ASSUME NEW i \in TriggerLive(u, f.key) PROVE FALSE OBVIOUS
      <3>1. i \in DOMAIN s.run /\ u.run[i].live /\ u.run[i].key = f.key
        BY <2>2 DEF TriggerLive, Live, Ends
      <3>2. i \notin ids BY <2>2, <3>1 DEF Ends
      <3>3. u.run[i] = s.run[i] BY <2>2, <3>1, <3>2 DEF Ends
      <3> QED BY <3>1, <3>2, <3>3 DEF TriggerLive, Live
    <2> QED BY <1>2, <2>2, <2>6, <2>7 DEF u
  <1>3. CASE f.policy # "Replace"
    <2>1. Replaced(s, f) = s BY <1>3 DEF Replaced
    <2>2. Ends(s, s, {}) BY DEF Ends, Keeps
    <2> QED BY <1>3, <2>1, <2>2
  <1> QED BY <1>2, <1>3

\* A trigger of the epoch gives way to another.
LEMMA StoreTriggerGood ==
    ASSUME NEW s, NEW h, Good(s, h), NEW f, f.key \in Key, s.trigger[f.key] # None,
           NEW g \in Trigger, g.epoch = s.epoch
    PROVE  LET t == StoreTrigger(s, f, g)
           IN  /\ Good(t, h) /\ Keeps(s, t)
               /\ t.trip = s.trip /\ t.owned = s.owned /\ t.queue = s.queue
               /\ t.run = s.run /\ t.faults = s.faults /\ t.drain = s.drain
               /\ t.trigger[f.key] = g
               /\ \A k \in Key \ {f.key} : t.trigger[k] = s.trigger[k]
  <1>1. s \in Rows /\ s.trigger \in [Key -> Trigger \cup {None}] BY DEF Good, Rows
  <1>2. PICK trg : trg = [s.trigger EXCEPT ![f.key] = g] OBVIOUS
  <1>3. /\ trg \in [Key -> Trigger \cup {None}] /\ trg[f.key] = g
        /\ \A k \in Key \ {f.key} : trg[k] = s.trigger[k]
    BY <1>1, <1>2
  <1>4. PICK t : t = [s EXCEPT !.trigger = trg] OBVIOUS
  <1>5. t = StoreTrigger(s, f, g) BY <1>2, <1>4 DEF StoreTrigger
  <1>6. /\ t \in Rows /\ Keeps(s, t) /\ t.trigger = trg
        /\ t.trip = s.trip /\ t.owned = s.owned /\ t.queue = s.queue
        /\ t.run = s.run /\ t.faults = s.faults /\ t.drain = s.drain /\ t.notice = s.notice
    BY <1>1, <1>3, <1>4 DEF Rows, Keeps
  <1>7. g # None BY NoneAssumption
  <1>8. \A k \in Key : t.trigger[k] = None <=> s.trigger[k] = None BY <1>3, <1>6, <1>7
  <1>9. \A k \in Key : t.trigger[k] # None => t.trigger[k].epoch = s.epoch
    BY <1>3, <1>6 DEF Good, Sched
  <1>10. Sched(t) BY <1>6, <1>8, <1>9 DEF Good, Sched, Armed, ManualTrip, PausedOK, Keeps
  <1>11. Reported(t, h) BY <1>6 DEF Good, Reported, BreakerTrip, Keeps
  <1> QED BY <1>3, <1>5, <1>6, <1>10, <1>11 DEF Good, Finite

\* A slot is buffered for the active version, under its `queue' policy.
LEMMA BufferedGood ==
    ASSUME NEW s, NEW h, Good(s, h), NEW f, Current(s, f), f.policy = "Queue"
    PROVE  LET t == Buffered(s, f)
           IN  /\ Good(t, h) /\ Keeps(s, t)
               /\ t.trip = s.trip /\ t.owned = s.owned /\ t.trigger = s.trigger
               /\ t.run = s.run /\ t.faults = s.faults /\ t.drain = s.drain
               /\ \A k \in Key \ {f.key} : t.queue[k] = s.queue[k]
  <1> DEFINE slot == [id |-> f.id, version |-> f.version, refused |-> f.how = "refuse",
                      rearm |-> f.how = "admit" /\ f.key = "after"]
  <1>1. s \in Rows /\ s.queue \in [Key -> Slot \cup {None}] BY DEF Good, Rows
  <1>2. f.key \in Key /\ f.id \in SlotIds /\ f.version \in Version BY DEF Current, Commit
  <1>3. slot \in Slot BY <1>2, Zenon DEF Slot
  <1>4. slot.version = f.version OBVIOUS
  <1>5. PICK q : q = [s.queue EXCEPT ![f.key] = slot] OBVIOUS
  <1>6. PICK t : t = [s EXCEPT !.queue = q] OBVIOUS
  <1>7. t = Buffered(s, f) BY <1>5, <1>6 DEF Buffered
  <1> HIDE DEF slot
  <1>8. /\ q \in [Key -> Slot \cup {None}] /\ q[f.key] = slot
        /\ \A k \in Key \ {f.key} : q[k] = s.queue[k]
    BY <1>1, <1>2, <1>3, <1>5
  <1>9. /\ t \in Rows /\ Keeps(s, t) /\ t.queue = q
        /\ t.trip = s.trip /\ t.owned = s.owned /\ t.trigger = s.trigger
        /\ t.run = s.run /\ t.faults = s.faults /\ t.drain = s.drain /\ t.notice = s.notice
    BY <1>1, <1>6, <1>8 DEF Rows, Keeps
  <1>10. s.trigger[f.key] # None BY NoneAssumption DEF Current, Commit
  <1>11. f.version = s.active /\ Overlap[s.active] = "Queue" BY DEF Current
  <1>12. \A k \in Key : t.queue[k] # None =>
            t.trigger[k] # None /\ t.queue[k].version = t.active /\ Overlap[t.active] = "Queue"
    BY <1>4, <1>8, <1>9, <1>10, <1>11 DEF Good, Sched, Keeps
  <1>13. Sched(t) BY <1>9, <1>12 DEF Good, Sched, Armed, ManualTrip, PausedOK, Keeps
  <1>14. Reported(t, h) BY <1>9 DEF Good, Reported, BreakerTrip, Keeps
  <1> QED BY <1>7, <1>8, <1>9, <1>13, <1>14 DEF Good, Finite

-----------------------------------------------------------------------------
(* The commit of a firing.                                                 *)

\* A slot's run is stored with the trigger's next state.
LEMMA CommitSlotGood ==
    ASSUME NEW s, NEW h, Good(s, h), NEW f \in Commit, s.trigger[f.key] # None,
           f.next.epoch = s.epoch
    PROVE  LET t == CommitSlot(s, f)
           IN  /\ Good(t, h) /\ Keeps(s, t) /\ t.drain = s.drain
               /\ DOMAIN s.run \subseteq DOMAIN t.run
               /\ \A i \in DOMAIN s.run : t.run[i] = s.run[i]
               /\ Fresh(s, t) \subseteq {f.id}
               /\ (t.trip = s.trip /\ t.queue = s.queue) \/ Disarmed(t)
               /\ \A k \in Key \ {f.key} : t.trigger[k] = s.trigger[k] \/ Disarmed(t)
               /\ t.faults > s.faults =>
                     \E i \in Fresh(s, t) : ~t.run[i].live /\ t.run[i].epoch = s.epoch
               /\ \A i \in FreshLive(s, t) :
                     i = f.id /\ t.run[i].key = f.key /\ t.run[i].version = f.version
  <1> DEFINE t == CommitSlot(s, f)
             m == StoreTrigger(s, f, f.next)
  <1>1. /\ f.key \in Key /\ f.next \in Trigger /\ f.id \in Id /\ f.version \in Version
        /\ f.now \in Nat /\ f.id \in SlotIds /\ (f.key = "after") \in BOOLEAN
    BY DEF Commit, Id
  <1>2. /\ Good(m, h) /\ Keeps(s, m)
        /\ m.trip = s.trip /\ m.owned = s.owned /\ m.queue = s.queue
        /\ m.run = s.run /\ m.faults = s.faults /\ m.drain = s.drain
        /\ \A k \in Key \ {f.key} : m.trigger[k] = s.trigger[k]
    BY <1>1, StoreTriggerGood
  <1>3. s.faults \in Nat BY DEF Good, Rows
  <1>4. t = IF f.how = "refuse" THEN Refuse(m, f.id, f.version, f.now)
            ELSE AdmitFiring(m, f.key, f.id, f.version, f.key = "after")
    BY DEF CommitSlot
  <1> HIDE DEF m, t
  <1>5. CASE f.how = "refuse"
    <2>1. t = Refuse(m, f.id, f.version, f.now) BY <1>4, <1>5
    <2>2. /\ Good(t, h) /\ Drains(m, t) /\ FreshLive(m, t) = {}
          /\ SameSchedule(m, t) \/ Disarmed(t)
          /\ t.drain = m.drain
      BY <1>1, <1>2, <2>1, RefuseGood
    <2>3. Fresh(m, t) = Fresh(s, t) /\ FreshLive(s, t) = {} BY <1>2, <2>2 DEF Fresh, FreshLive
    <2>4. Fresh(s, t) \subseteq {f.id}
      <3>1. CASE f.id \in DOMAIN m.run
        <4>1. t = m BY <2>1, <3>1 DEF Refuse
        <4> QED BY <1>2, <4>1 DEF Fresh
      <3>2. CASE f.id \notin DOMAIN m.run
        <4> DEFINE row == [NewRun(m, f.version) EXCEPT !.live = FALSE]
                   u == WithRun(m, f.id, row)
        <4>1. m \in Rows BY <1>2 DEF Good
        <4>2. row \in RunRow BY <1>1, <4>1, RefusedRunType
        <4>3. t = Breaker(u, row, "Faulted", f.now) BY <2>1, <3>2 DEF Refuse
        <4> HIDE DEF row
        <4>4. Good(u, h) /\ DOMAIN u.run = DOMAIN m.run \cup {f.id}
          BY <1>1, <1>2, <4>1, <4>2, WithRunGood, WithRunType
        <4> HIDE DEF u
        <4>5. t.run = u.run BY <1>1, <4>2, <4>3, <4>4, BreakerGood
        <4> QED BY <1>2, <4>4, <4>5 DEF Fresh
      <3> QED BY <3>1, <3>2
    <2>5. (t.trip = s.trip /\ t.queue = s.queue) \/ Disarmed(t) BY <1>2, <2>2 DEF SameSchedule
    <2>6. \A k \in Key \ {f.key} : t.trigger[k] = s.trigger[k] \/ Disarmed(t)
      BY <1>2, <2>2 DEF SameSchedule
    <2>7. Keeps(s, t) /\ t.drain = s.drain /\ s.epoch = m.epoch BY <1>2, <2>2 DEF Keeps, Drains
    <2> QED BY <1>2, <2>2, <2>3, <2>4, <2>5, <2>6, <2>7 DEF Drains, t
  <1>6. CASE f.how # "refuse"
    <2>0. PICK b \in BOOLEAN : b = (f.key = "after") OBVIOUS
    <2>1. t = AdmitFiring(m, f.key, f.id, f.version, b) BY <1>4, <1>6, <2>0
    <2>2. /\ Good(t, h) /\ Keeps(m, t) /\ SameSchedule(m, t)
          /\ t.drain = m.drain /\ t.faults = m.faults
          /\ f.id \in DOMAIN m.run => t = m
          /\ DOMAIN t.run = DOMAIN m.run \cup {f.id}
          /\ \A j \in DOMAIN m.run : t.run[j] = m.run[j]
          /\ f.id \notin DOMAIN m.run =>
                t.run[f.id].live /\ t.run[f.id].key = f.key /\ t.run[f.id].version = f.version
      BY <1>1, <1>2, <2>1, AdmitFiringGood
    <2>3. Fresh(s, t) \subseteq {f.id} BY <1>2, <2>2 DEF Fresh
    <2>4. \A i \in FreshLive(s, t) :
             i = f.id /\ t.run[i].key = f.key /\ t.run[i].version = f.version
      BY <1>2, <2>2, <2>3 DEF FreshLive, Fresh
    <2>5. ~(t.faults > s.faults) BY <1>2, <1>3, <2>2
    <2> QED BY <1>2, <2>2, <2>3, <2>4, <2>5 DEF Keeps, SameSchedule, t
  <1> QED BY <1>5, <1>6

\* What a committed firing f does from s to t: only f's own trigger moves, and
\* triggers whose runs f ended; the run it starts is the only one of its
\* trigger unless the policy allows others, stays under the ceiling, and starts
\* only where nothing is buffered.
Fires(s, t, f) ==
    /\ Keeps(s, t)
    /\ DOMAIN s.run \subseteq DOMAIN t.run
    /\ \A i \in DOMAIN s.run :
          \/ t.run[i] = s.run[i]
          \/ s.run[i].live /\ ~t.run[i].live /\ t.run[i].rearm = s.run[i].rearm
    /\ \A k \in Key \ {f.key} :
          \/ t.trigger[k] = s.trigger[k]
          \/ Disarmed(t)
          \/ \E i \in DOMAIN s.run :
                s.run[i].live /\ ~t.run[i].live /\ t.run[i].rearm = s.trigger[k]
    /\ t.faults > s.faults => \E i \in Fresh(s, t) : ~t.run[i].live /\ t.run[i].epoch = s.epoch
    /\ \A i \in FreshLive(s, t) :
          /\ t.run[i].key = f.key /\ s.queue[f.key] = None /\ t.run[i].version = s.active
          /\ Overlap[t.run[i].version] # "Allow" => TriggerLive(t, f.key) = {i}
    /\ FreshLive(s, t) # {} => Cardinality(Live(t)) <= Ceiling


\* Moving the trigger, with runs ended or not, starts nothing.
LEMMA MoveFires ==
    ASSUME NEW s, NEW h, Good(s, h), NEW f, Current(s, f), NEW r, NEW ids, NEW u, NEW g \in Trigger,
           Good(r, h), Ends(s, r, ids), ids \subseteq Live(s), g.epoch = s.epoch,
           Good(u, h), Keeps(r, u), u.trigger = r.trigger, u.run = r.run, u.faults = r.faults,
           u.drain = r.drain
    PROVE  LET t == StoreTrigger(u, f, g)
           IN  /\ Good(t, h) /\ Fires(s, t, f) /\ t.drain = s.drain
               /\ t.run = r.run /\ t.queue = u.queue
  <1> DEFINE t == StoreTrigger(u, f, g)
  <1>1. f.key \in Key /\ s.trigger[f.key] # None BY NoneAssumption DEF Current, Commit
  <1>2. u.trigger[f.key] # None BY <1>1 DEF Ends
  <1>3. g.epoch = u.epoch BY DEF Ends, Keeps
  <1>4. /\ Good(t, h) /\ Keeps(u, t) /\ t.queue = u.queue
        /\ t.run = u.run /\ t.faults = u.faults /\ t.drain = u.drain
        /\ \A k \in Key \ {f.key} : t.trigger[k] = u.trigger[k]
    BY <1>1, <1>2, <1>3, StoreTriggerGood
  <1> HIDE DEF t
  <1>5. Keeps(s, t) BY <1>4 DEF Ends, Keeps
  <1>6. DOMAIN t.run = DOMAIN s.run BY <1>4 DEF Ends
  <1>7. Fresh(s, t) = {} BY <1>6 DEF Fresh
  <1>8. FreshLive(s, t) = {} BY <1>7 DEF FreshLive
  <1>9. \A i \in DOMAIN s.run :
          \/ t.run[i] = s.run[i]
          \/ s.run[i].live /\ ~t.run[i].live /\ t.run[i].rearm = s.run[i].rearm
    BY <1>4 DEF Ends, Live
  <1>10. \A k \in Key \ {f.key} :
          \/ t.trigger[k] = s.trigger[k]
          \/ \E i \in DOMAIN s.run :
                s.run[i].live /\ ~t.run[i].live /\ t.run[i].rearm = s.trigger[k]
    BY <1>4 DEF Ends, Live
  <1>11. ~(t.faults > s.faults)
    <2>1. s.faults \in Nat BY DEF Good, Rows
    <2> QED BY <1>4, <2>1 DEF Ends
  <1>12. Fires(s, t, f) BY <1>5, <1>6, <1>8, <1>9, <1>10, <1>11 DEF Fires
  <1> QED BY <1>4, <1>12 DEF Ends, t

\* A slot's run is committed only where the ceiling and the policy let it.
LEMMA CommitFires ==
    ASSUME NEW s, NEW h, Good(s, h), NEW f, Current(s, f), NEW r, NEW ids,
           Good(r, h), Ends(s, r, ids), ids \subseteq Live(s),
           \/ f.id \in DOMAIN s.run
           \/ /\ Capacity(r) /\ s.queue[f.key] = None
              /\ f.policy # "Allow" => TriggerLive(r, f.key) = {}
    PROVE  LET t == CommitSlot(r, f)
           IN  /\ Good(t, h) /\ Fires(s, t, f) /\ t.drain = s.drain
               /\ \A i \in DOMAIN r.run : i \in DOMAIN t.run /\ t.run[i] = r.run[i]
               /\ \A k \in Key : t.queue[k] # None => t.queue[k] = r.queue[k]
  <1> DEFINE t == CommitSlot(r, f)
  <1>1. f \in Commit /\ f.key \in Key /\ s.trigger[f.key] # None
    BY NoneAssumption DEF Current, Commit
  <1>2. r.trigger[f.key] # None BY <1>1 DEF Ends
  <1>3. f.next.epoch = r.epoch BY DEF Ends, Keeps, Current
  <1>4. /\ Good(t, h) /\ Keeps(r, t) /\ t.drain = r.drain
        /\ DOMAIN r.run \subseteq DOMAIN t.run
        /\ \A i \in DOMAIN r.run : t.run[i] = r.run[i]
        /\ Fresh(r, t) \subseteq {f.id}
        /\ (t.trip = r.trip /\ t.queue = r.queue) \/ Disarmed(t)
        /\ \A k \in Key \ {f.key} : t.trigger[k] = r.trigger[k] \/ Disarmed(t)
        /\ t.faults > r.faults =>
              \E i \in Fresh(r, t) : ~t.run[i].live /\ t.run[i].epoch = r.epoch
        /\ \A i \in FreshLive(r, t) :
              i = f.id /\ t.run[i].key = f.key /\ t.run[i].version = f.version
    BY <1>1, <1>2, <1>3, CommitSlotGood
  <1> HIDE DEF t
  <1>5. Keeps(s, t) BY <1>4 DEF Ends, Keeps
  <1>6. DOMAIN r.run = DOMAIN s.run /\ Fresh(s, t) = Fresh(r, t) /\ FreshLive(s, t) = FreshLive(r, t)
    BY DEF Ends, Fresh, FreshLive
  <1>7. \A i \in DOMAIN s.run :
          \/ t.run[i] = s.run[i]
          \/ s.run[i].live /\ ~t.run[i].live /\ t.run[i].rearm = s.run[i].rearm
    BY <1>4, <1>6 DEF Ends, Live
  <1>8. \A k \in Key \ {f.key} :
          \/ t.trigger[k] = s.trigger[k]
          \/ Disarmed(t)
          \/ \E i \in DOMAIN s.run :
                s.run[i].live /\ ~t.run[i].live /\ t.run[i].rearm = s.trigger[k]
    BY <1>4, <1>6 DEF Ends, Live
  <1>9. t.faults > s.faults => \E i \in Fresh(s, t) : ~t.run[i].live /\ t.run[i].epoch = s.epoch
    BY <1>4, <1>6 DEF Ends, Keeps
  <1>10. \A i \in FreshLive(s, t) :
            /\ i = f.id /\ f.id \notin DOMAIN s.run
            /\ t.run[i].key = f.key /\ t.run[i].version = f.version
    BY <1>4, <1>6 DEF FreshLive, Fresh
  <1>11. Live(t) = Live(r) \cup FreshLive(r, t)
    BY <1>4 DEF Live, FreshLive, Fresh
  <1>12. \A i \in FreshLive(s, t) :
          /\ t.run[i].key = f.key /\ s.queue[f.key] = None /\ t.run[i].version = s.active
          /\ Overlap[t.run[i].version] # "Allow" => TriggerLive(t, f.key) = {i}
    <2> SUFFICES ASSUME NEW i \in FreshLive(s, t)
                 PROVE  /\ t.run[i].key = f.key /\ s.queue[f.key] = None
                        /\ t.run[i].version = s.active
                        /\ Overlap[t.run[i].version] # "Allow" => TriggerLive(t, f.key) = {i}
      OBVIOUS
    <2>1. /\ i = f.id /\ f.id \notin DOMAIN s.run
          /\ t.run[i].key = f.key /\ t.run[i].version = f.version
      BY <1>10
    <2>2. s.queue[f.key] = None /\ (f.policy # "Allow" => TriggerLive(r, f.key) = {}) BY <2>1
    <2>3. f.policy = Overlap[t.run[i].version] /\ f.version = s.active BY <2>1 DEF Current
    <2>4. FreshLive(r, t) = {i} BY <1>6, <1>10, <2>1
    <2>5. TriggerLive(t, f.key) = TriggerLive(r, f.key) \cup {i}
      BY <1>4, <1>11, <2>1, <2>4 DEF TriggerLive, Live
    <2> QED BY <2>1, <2>2, <2>3, <2>5
  <1>13. FreshLive(s, t) # {} => Cardinality(Live(t)) <= Ceiling
    <2> SUFFICES ASSUME FreshLive(s, t) # {} PROVE Cardinality(Live(t)) <= Ceiling
      OBVIOUS
    <2>1. FreshLive(r, t) = {f.id} /\ f.id \notin DOMAIN s.run BY <1>6, <1>10
    <2>2. Capacity(r) BY <2>1
    <2>3. f.id \notin Live(r) BY <1>6, <2>1 DEF Live
    <2>4. IsFiniteSet(Live(r)) BY FS_Subset DEF Good, Finite, Live
    <2>5. Cardinality(Live(r)) \in Nat BY <2>4, FS_CardinalityType
    <2>8. Live(t) = Live(r) \cup {f.id} BY <1>11, <2>1
    <2>6. Cardinality(Live(t)) = Cardinality(Live(r)) + 1
      BY <2>3, <2>4, <2>8, FS_AddElement
    <2>7. Ceiling \in Nat BY ScheduleAssumption
    <2> QED BY <2>2, <2>5, <2>6, <2>7 DEF Capacity
  <1>14. Fires(s, t, f) BY <1>4, <1>5, <1>6, <1>7, <1>8, <1>9, <1>12, <1>13 DEF Fires
  <1>15. \A k \in Key : t.queue[k] # None => t.queue[k] = r.queue[k] BY <1>4 DEF Disarmed
  <1> QED BY <1>4, <1>14, <1>15 DEF Ends, t


\* fire_checked, of a firing that finds its trigger and with every slot that
\* could go gone.
LEMMA FireCheckedGood ==
    ASSUME NEW s, NEW h, Good(s, h), NEW f, Current(s, f), Waits(s),
           f.how # "move" => \A k \in Key : ~Ready(s, k)
    PROVE  LET t == FireChecked(s, f)
           IN  Good(t, h) /\ Fires(s, t, f) /\ Waits(t)
  <1> DEFINE t == FireChecked(s, f)
             r == Replaced(s, f)
             ids == IF f.policy = "Replace" THEN TriggerLive(s, f.key) ELSE {}
             overlaps == TriggerLive(s, f.key) # {} /\ f.policy \in {"Skip", "Queue"}
  <1>1. /\ s \in Rows /\ f.key \in Key /\ f.next \in Trigger /\ f.busy \in Trigger
        /\ f.next.epoch = s.epoch /\ f.busy.epoch = s.epoch
        /\ f.policy \in {"Skip", "Allow", "Queue", "Replace"}
        /\ f.policy = Overlap[s.active]
    BY DEF Good, Current, Commit
  <1>2. Ends(s, s, {}) BY DEF Ends, Keeps
  <1>3. Keeps(s, s) BY DEF Keeps
  <1>4. CASE f.how = "move"
    <2>1. t = StoreTrigger(s, f, f.next) BY <1>4 DEF FireChecked
    <2> HIDE DEF t
    <2>2. Good(t, h) /\ Fires(s, t, f) /\ t.drain = s.drain /\ t.run = s.run /\ t.queue = s.queue
      BY <1>1, <1>2, <1>3, <2>1, MoveFires
    <2>3. \A k \in Key : Ready(t, k) <=> Ready(s, k)
      BY <2>2 DEF Ready, TriggerLive, Live, Capacity
    <2> QED BY <2>2, <2>3 DEF Waits, t
  <1>5. CASE f.how # "move" /\ f.id \in DOMAIN s.run
    <2>1. t = CommitSlot(s, f) BY <1>5 DEF FireChecked
    <2> HIDE DEF t
    <2>2. /\ Good(t, h) /\ Fires(s, t, f) /\ t.drain = s.drain
          /\ \A i \in DOMAIN s.run : i \in DOMAIN t.run /\ t.run[i] = s.run[i]
          /\ \A k \in Key : t.queue[k] # None => t.queue[k] = s.queue[k]
      BY <1>1, <1>2, <1>5, <2>1, CommitFires
    <2>3. t \in Rows /\ Finite(t) BY <2>2 DEF Good
    <2>4. \A k \in Key : ~Ready(t, k) BY <1>1, <1>5, <2>2, <2>3, ReadyFalls
    <2> QED BY <2>2, <2>4 DEF Waits, t
  <1>6. CASE f.how # "move" /\ f.id \notin DOMAIN s.run
    <2>1. /\ Good(r, h) /\ Ends(s, r, ids)
          /\ f.policy = "Replace" => TriggerLive(r, f.key) = {}
          /\ f.policy # "Replace" => r = s
      BY ReplacedGood
    <2>2. ids \subseteq Live(s) BY DEF TriggerLive
    <2>3. f.policy = "Replace" => \A k \in Key : s.queue[k] = None /\ r.queue[k] = None
      BY <1>1, <2>1 DEF Good, Sched, Ends
    <2>4. \A k \in Key : ~Ready(r, k) BY <1>6, <2>1, <2>3 DEF Ready
    <2>5. r \in Rows /\ Finite(r) /\ Keeps(r, r) BY <2>1 DEF Good, Keeps
    <2>6. /\ ~Capacity(r) => t = StoreTrigger(r, f, f.busy)
          /\ Capacity(r) /\ ~overlaps => t = CommitSlot(r, f)
          /\ Capacity(r) /\ overlaps /\ f.policy = "Queue" /\ s.queue[f.key] = None
                => t = StoreTrigger(Buffered(r, f), f, f.next)
          /\ Capacity(r) /\ overlaps /\ ~(f.policy = "Queue" /\ s.queue[f.key] = None)
                => t = StoreTrigger(r, f, f.busy)
      BY <1>6 DEF FireChecked
    <2> HIDE DEF t, r, ids
    <2>7. ASSUME t = StoreTrigger(r, f, f.busy)
          PROVE  Good(t, h) /\ Fires(s, t, f) /\ Waits(t)
      <3>1. Good(t, h) /\ Fires(s, t, f) /\ t.run = r.run /\ t.queue = r.queue
        BY <1>1, <2>1, <2>2, <2>5, <2>7, MoveFires
      <3>2. \A k \in Key : Ready(t, k) <=> Ready(r, k)
        BY <3>1 DEF Ready, TriggerLive, Live, Capacity
      <3> QED BY <2>4, <3>1, <3>2 DEF Waits
    <2>8. CASE ~Capacity(r) BY <2>6, <2>7, <2>8 DEF t
    <2>9. CASE Capacity(r) /\ ~overlaps
      <3>1. t = CommitSlot(r, f) BY <2>6, <2>9
      <3>2. f.policy # "Allow" => TriggerLive(r, f.key) = {} BY <1>1, <2>1, <2>9
      <3>3. s.queue[f.key] = None
        <4>1. CASE f.policy = "Queue"
          <5>1. r = s /\ TriggerLive(s, f.key) = {} BY <2>1, <2>9, <4>1
          <5> QED BY <1>1, <2>4, <2>9, <5>1 DEF Ready
        <4>2. CASE f.policy # "Queue" BY <1>1, <4>2 DEF Good, Sched
        <4> QED BY <4>1, <4>2
      <3>4. /\ Good(t, h) /\ Fires(s, t, f)
            /\ \A i \in DOMAIN r.run : i \in DOMAIN t.run /\ t.run[i] = r.run[i]
            /\ \A k \in Key : t.queue[k] # None => t.queue[k] = r.queue[k]
        BY <2>1, <2>2, <2>9, <3>1, <3>2, <3>3, CommitFires
      <3>5. t \in Rows /\ Finite(t) BY <3>4 DEF Good
      <3>6. \A k \in Key : ~Ready(t, k) BY <2>4, <2>5, <3>4, <3>5, ReadyFalls
      <3> QED BY <3>4, <3>6 DEF Waits, t
    <2>10. CASE Capacity(r) /\ overlaps /\ f.policy = "Queue" /\ s.queue[f.key] = None
      <3> DEFINE u == Buffered(r, f)
      <3>1. t = StoreTrigger(u, f, f.next) BY <2>6, <2>10
      <3>2. r = s BY <2>1, <2>10
      <3>3. /\ Good(u, h) /\ Keeps(r, u) /\ u.trigger = r.trigger
            /\ u.run = r.run /\ u.faults = r.faults /\ u.drain = r.drain
            /\ \A k \in Key \ {f.key} : u.queue[k] = r.queue[k]
        BY <2>10, <3>2, BufferedGood
      <3> HIDE DEF u
      <3>4. Good(t, h) /\ Fires(s, t, f) /\ t.run = r.run /\ t.queue = u.queue
        BY <1>1, <2>1, <2>2, <3>1, <3>3, MoveFires
      <3>5. \A k \in Key \ {f.key} : ~Ready(t, k)
        BY <2>4, <3>3, <3>4 DEF Ready, TriggerLive, Live, Capacity
      <3>6. ~Ready(t, f.key) BY <2>10, <3>2, <3>4 DEF Ready, TriggerLive, Live
      <3> QED BY <3>4, <3>5, <3>6 DEF Waits, t
    <2>11. CASE Capacity(r) /\ overlaps /\ ~(f.policy = "Queue" /\ s.queue[f.key] = None)
      BY <2>6, <2>7, <2>11 DEF t
    <2> QED BY <2>8, <2>9, <2>10, <2>11 DEF t
  <1> QED BY <1>4, <1>5, <1>6

-----------------------------------------------------------------------------
(* What a worker holds between its transactions.                           *)

\* A plan read in the current epoch is of the active version and its policy; a
\* plan of an earlier epoch can no longer match the trigger it read.
PlanOK(s, p) ==
    \/ p = None
    \/ /\ p \in Decision /\ p.expected.at # None /\ s.active # None
       /\ p.expected.epoch <= s.epoch
       /\ p.expected.epoch = s.epoch => p.version = s.active
    \/ /\ p \in Commit
       /\ p.expected.epoch <= s.epoch
       /\ p.next.epoch = p.expected.epoch /\ p.busy.epoch = p.expected.epoch
       /\ p.expected.epoch = s.epoch => p.version = s.active /\ p.policy = Overlap[s.active]
    \/ p \in Activation /\ p.epoch < MaxEpoch

\* The whole commit of a firing: a drain, and then nothing more or a firing of
\* the trigger the plan read.
LEMMA FireGood ==
    ASSUME NEW s, NEW h, Good(s, h), Waits(s), NEW f \in Commit, PlanOK(s, f)
    PROVE  /\ Good(Fire(s, f), h) /\ Waits(Fire(s, f))
           /\ s.stopped => Fire(s, f) = s
           /\ ~s.stopped =>
                \E d : /\ Good(d, h) /\ Drains(s, d)
                       /\ \/ Fire(s, f) = d
                          \/ d.trigger[f.key] = f.expected /\ Fires(d, Fire(s, f), f)
  <1> DEFINE t == Fire(s, f)
             d == IF f.how = "move" THEN s ELSE DrainMarked(s, f.now)
  <1>1. s \in Rows /\ f.now \in Nat /\ f.key \in Key /\ f.expected \in Trigger BY DEF Good, Commit
  <1>2. /\ f \notin Decision /\ f \notin Activation /\ f # None
    BY NoneAssumption DEF Commit, Decision, Activation
  <1>3. /\ f.next.epoch = f.expected.epoch /\ f.busy.epoch = f.expected.epoch
        /\ f.expected.epoch = s.epoch => f.version = s.active /\ f.policy = Overlap[s.active]
    BY <1>2 DEF PlanOK
  <1>4. CASE s.stopped
    <2>1. t = s BY <1>4 DEF Fire
    <2> QED BY <1>4, <2>1
  <1>5. CASE ~s.stopped
    <2>1. /\ Good(d, h) /\ Drains(s, d) /\ Waits(d)
          /\ f.how # "move" => \A k \in Key : ~Ready(d, k)
      <3>1. CASE f.how = "move" BY <1>1, <3>1, DrainsReflexive
      <3>2. CASE f.how # "move" BY <1>1, <1>5, <3>2, DrainMarkedGood
      <3> QED BY <3>1, <3>2
    <2>2. t = d \/ (d.trigger[f.key] = f.expected /\ t = FireChecked(d, f))
      BY <1>5 DEF Fire
    <2> HIDE DEF d, t
    <2>3. CASE t = d BY <1>5, <2>1, <2>3 DEF t
    <2>4. CASE d.trigger[f.key] = f.expected /\ t = FireChecked(d, f)
      <3>1. f.expected # None BY <1>1, NoneAssumption
      <3>2. f.expected.epoch = d.epoch BY <1>1, <2>1, <2>4, <3>1 DEF Good, Sched
      <3>3. d.epoch = s.epoch /\ d.active = s.active /\ d.stopped = s.stopped
        BY <2>1 DEF Drains, Keeps
      <3>4. Current(d, f) BY <1>3, <1>5, <2>4, <3>2, <3>3 DEF Current
      <3>5. Good(t, h) /\ Fires(d, t, f) /\ Waits(t)
        BY <2>1, <2>4, <3>4, FireCheckedGood
      <3> QED BY <1>5, <2>1, <2>4, <3>5 DEF t
    <2> QED BY <2>2, <2>3, <2>4
  <1> QED BY <1>4, <1>5

\* The end of a run, drains included.
LEMMA TerminateGood ==
    ASSUME NEW s, NEW h, Good(s, h), NEW i \in DOMAIN s.run, NEW at \in Nat
    PROVE  /\ Good(Terminate(s, i, at), h) /\ Waits(Terminate(s, i, at))
           /\ \E u : /\ Good(u, h) /\ Ends(s, u, {i}) /\ Drains(u, Terminate(s, i, at))
                     /\ s.stopped => /\ SameSchedule(u, Terminate(s, i, at))
                                     /\ Terminate(s, i, at).run = u.run
  <1> DEFINE u == Rearm(s, {i}, at)
  <1>1. Good(u, h) /\ Ends(s, u, {i}) BY RearmGood
  <1>2. Terminate(s, i, at) = DrainQueues(u, at) BY DEF Terminate
  <1> HIDE DEF u
  <1>3. u.stopped = s.stopped BY <1>1 DEF Ends, Keeps
  <1> QED BY <1>1, <1>2, <1>3, DrainQueuesGood

-----------------------------------------------------------------------------
(* Activation and the operator's commands.                                 *)

\* next_every's slots are instants.
LEMMA NextEveryType ==
    ASSUME NEW a \in Int
    PROVE  NextEvery(a) \in Int
  <1>1. Every \in Nat \ {0} BY ScheduleAssumption
  <1> QED BY <1>1 DEF NextEvery

\* arming yields triggers of the new epoch.
LEMMA ArmingType ==
    ASSUME NEW v \in Version, NEW e \in Nat, NEW at \in Nat
    PROVE  /\ Arming(v, e, at) \in [Key -> Trigger \cup {None}]
           /\ \A k \in Key : Arming(v, e, at)[k] # None => Arming(v, e, at)[k].epoch = e
  <1>1. At \in Nat BY ScheduleAssumption
  <1>2. NextEvery(at) \in Int BY NextEveryType
  <1>3. \A a \in Int : NewTrigger(a, e) \in Trigger /\ NewTrigger(a, e).epoch = e
    BY DEF NewTrigger, Trigger, Instant
  <1> DEFINE due(k) == CASE k = "every" -> NextEvery(at) [] k = "after" -> at [] k = "at" -> At
  <1>4. \A k \in Key : due(k) \in Int BY <1>1, <1>2 DEF Key
  <1> DEFINE new(k) == IF k \notin Arms[v] THEN None ELSE NewTrigger(due(k), e)
  <1>5. Arming(v, e, at) = [k \in Key |-> new(k)] BY DEF Arming
  <1> HIDE DEF due
  <1>6. \A k \in Key : /\ new(k) \in Trigger \cup {None}
                       /\ new(k) # None => new(k).epoch = e
    BY <1>3, <1>4
  <1> HIDE DEF new
  <1> QED BY <1>5, <1>6

\* activate: a new epoch with its own triggers and nothing else.
LEMMA ActivatedGood ==
    ASSUME NEW s, NEW h, Good(s, h), NEW v \in Version, NEW at \in Nat
    PROVE  LET t == Activated(s, v, s.epoch, at)
           IN  /\ Good(t, h) /\ Waits(t)
               /\ t.epoch = s.epoch + 1 /\ t.active = v /\ t.run = s.run
               /\ t.stopped = s.stopped
  <1> DEFINE t == Activated(s, v, s.epoch, at)
             wanted == Arming(v, s.epoch + 1, at)
  <1>1. s \in Rows /\ s.epoch \in Nat /\ s.epoch + 1 \in Nat BY DEF Good, Rows
  <1>2. /\ wanted \in [Key -> Trigger \cup {None}]
        /\ \A k \in Key : wanted[k] # None => wanted[k].epoch = s.epoch + 1
    BY <1>1, ArmingType
  <1>3. PICK u : u = [s EXCEPT !.active = v, !.epoch = s.epoch + 1, !.faults = 0, !.trip = None,
                               !.paused = None]
    OBVIOUS
  <1>4. t = Arm(u, wanted) BY <1>3 DEF Activated
  <1>5. /\ u \in Rows /\ u.active = v /\ u.epoch = s.epoch + 1 /\ u.faults = 0
        /\ u.trip = None /\ u.paused = None /\ u.owned = s.owned /\ u.trigger = s.trigger
        /\ u.queue = s.queue /\ u.run = s.run /\ u.notice = s.notice /\ u.stopped = s.stopped
    BY <1>1, <1>3 DEF Rows
  <1>6. u.owned = Armed(u) /\ \A k \in Key : u.queue[k] # None => u.trigger[k] # None
    BY <1>5 DEF Good, Sched, Armed
  <1> HIDE DEF t, wanted
  <1>7. /\ t \in Rows
        /\ t.owned = {k \in Key : wanted[k] # None}
        /\ t.trigger = wanted
        /\ \A k \in Key : t.queue[k] = None
        /\ Keeps(u, t) /\ t.trip = u.trip /\ t.run = u.run /\ t.faults = u.faults
        /\ t.notice = u.notice
    BY <1>2, <1>4, <1>5, <1>6, ArmEffect
  <1>8. t.active = v /\ v # None /\ t.epoch = s.epoch + 1 /\ t.paused = None /\ t.trip = None
    BY <1>5, <1>7, NoneAssumption DEF Keeps
  <1>9. Sched(t)
    <2>1. t.owned = Armed(t) BY <1>7 DEF Armed
    <2>2. ~ManualTrip(t) BY <1>8 DEF ManualTrip
    <2> QED BY <1>1, <1>2, <1>7, <1>8, <2>1, <2>2 DEF Sched
  <1>10. Reported(t, h)
    <2>1. ~BreakerTrip(t) BY <1>8 DEF BreakerTrip
    <2>2. t.faults < Threshold BY <1>5, <1>7, ScheduleAssumption
    <2>3. \A n \in t.notice \cup h : n.epoch \in 1..s.epoch BY <1>5, <1>7 DEF Good, Reported
    <2>4. \A m, n \in t.notice \cup h : m.epoch = n.epoch => m = n
      BY <1>5, <1>7 DEF Good, Reported
    <2>5. \A n \in t.notice \cup h : n.epoch \in 1..t.epoch /\ n.epoch # t.epoch
      BY <1>1, <1>8, <2>3
    <2> QED BY <2>1, <2>2, <2>4, <2>5 DEF Reported
  <1>11. Waits(t) BY <1>7 DEF Waits, Ready
  <1>12. Good(t, h) BY <1>5, <1>7, <1>9, <1>10 DEF Good, Finite
  <1> QED BY <1>5, <1>7, <1>8, <1>11, <1>12 DEF Keeps, t

\* Command::Pause: what was armed and buffered is set aside for this epoch.
LEMMA PauseGood ==
    ASSUME NEW s, NEW h, Good(s, h), s.active # None, ~ManualTrip(s),
           NEW trip \in Trip, trip.manual, trip.breaker <=> BreakerTrip(s)
    PROVE  LET t == [Suspended(s) EXCEPT !.trip = trip]
           IN  /\ Good(t, h) /\ Waits(t)
               /\ t.epoch = s.epoch /\ t.active = s.active /\ t.run = s.run
               /\ t.stopped = s.stopped /\ t.faults = s.faults /\ t.trip = trip
               /\ \A k \in Key : t.trigger[k] = None
  <1> DEFINE held == [epoch |-> s.epoch,
                      trigger |-> [k \in Key |-> IF k \in s.owned THEN s.trigger[k] ELSE None],
                      queue |-> [k \in Key |-> IF k \in s.owned THEN s.queue[k] ELSE None]]
             u == [s EXCEPT !.paused = held]
             a == Arm(u, NoTriggers)
             t == [Suspended(s) EXCEPT !.trip = trip]
  <1>1. s \in Rows /\ s.epoch \in Nat BY DEF Good, Rows
  <1>2. held \in Paused BY <1>1 DEF Rows, Paused
  <1>3. /\ held.epoch = s.epoch
        /\ \A k \in Key : held.trigger[k] = s.trigger[k] /\ held.queue[k] = s.queue[k]
    BY DEF Good, Sched, Armed
  <1>4. Suspended(s) = a BY DEF Suspended
  <1> HIDE DEF held
  <1>5. /\ u \in Rows /\ u.paused = held /\ u.active = s.active /\ u.epoch = s.epoch
        /\ u.owned = s.owned /\ u.trigger = s.trigger /\ u.faults = s.faults
        /\ u.queue = s.queue /\ u.run = s.run /\ u.notice = s.notice /\ u.stopped = s.stopped
    BY <1>1, <1>2 DEF Rows
  <1> HIDE DEF u
  <1>6. u.owned = Armed(u) /\ \A k \in Key : u.queue[k] # None => u.trigger[k] # None
    BY <1>5 DEF Good, Sched, Armed
  <1>7. /\ a \in Rows /\ a.owned = {}
        /\ \A k \in Key : a.trigger[k] = None /\ a.queue[k] = None
        /\ Keeps(u, a) /\ a.run = u.run /\ a.faults = u.faults /\ a.notice = u.notice
    BY <1>5, <1>6, ArmNone
  <1> HIDE DEF a
  <1>8. /\ t \in Rows /\ t.trip = trip /\ t.paused = held /\ t.active = s.active
        /\ t.epoch = s.epoch /\ t.owned = {} /\ t.faults = s.faults /\ t.run = s.run
        /\ t.notice = s.notice /\ t.stopped = s.stopped
        /\ \A k \in Key : t.trigger[k] = None /\ t.queue[k] = None
    BY <1>4, <1>5, <1>7 DEF Rows, Keeps
  <1> HIDE DEF t
  <1>9. t.trip # None /\ t.paused # None BY <1>2, <1>8, NoneAssumption
  <1>10. t.trip.manual /\ (t.trip.breaker <=> BreakerTrip(s)) BY <1>8
  <1>11. PausedOK(t)
    <2>1. BreakerTrip(s) => \A k \in Key : s.trigger[k] = None /\ s.queue[k] = None
      BY DEF Good, Sched, BreakerTrip
    <2> QED BY <1>3, <1>8, <1>10, <2>1 DEF PausedOK, Good, Sched
  <1>12. Sched(t)
    <2>1. t.owned = Armed(t) BY <1>8 DEF Armed
    <2>2. ManualTrip(t) BY <1>9, <1>10 DEF ManualTrip
    <2> QED BY <1>8, <1>9, <1>10, <1>11, <2>1, <2>2 DEF Sched, Good
  <1>13. Reported(t, h)
    <2>1. BreakerTrip(t) <=> BreakerTrip(s) BY <1>9, <1>10 DEF BreakerTrip
    <2> QED BY <1>8, <2>1 DEF Good, Reported
  <1>14. Waits(t) BY <1>8 DEF Waits, Ready
  <1>15. Good(t, h) BY <1>8, <1>12, <1>13 DEF Good, Finite
  <1> QED BY <1>8, <1>14, <1>15 DEF t

\* Command::Resume, before its drain: what the pause set aside is back.
LEMMA ResumedGood ==
    ASSUME NEW s, NEW h, Good(s, h), ManualTrip(s)
    PROVE  LET t == Resumed(s)
           IN  /\ Good(t, h) /\ t.paused = None
               /\ t.epoch = s.epoch /\ t.active = s.active /\ t.run = s.run
               /\ t.stopped = s.stopped /\ t.faults = s.faults /\ t.drain = s.drain
  <1> DEFINE trip == IF s.trip.breaker THEN [s.trip EXCEPT !.manual = FALSE] ELSE None
             wanted == s.paused.trigger
             u == [s EXCEPT !.trip = trip]
             a == Arm(u, wanted)
             q == [k \in Key |-> IF s.paused.queue[k] # None THEN s.paused.queue[k]
                                 ELSE a.queue[k]]
             t == Resumed(s)
  <1>1. s \in Rows /\ s.paused # None /\ s.trip # None /\ PausedOK(s)
    BY DEF Good, Sched, ManualTrip
  <1>2. s.paused \in Paused /\ s.trip \in Trip BY <1>1 DEF Rows
  <1>3. wanted \in [Key -> Trigger \cup {None}] /\ s.paused.queue \in [Key -> Slot \cup {None}]
    BY <1>2 DEF Paused
  <1>4. /\ [s.trip EXCEPT !.manual = FALSE] \in Trip
        /\ [s.trip EXCEPT !.manual = FALSE].manual = FALSE
        /\ [s.trip EXCEPT !.manual = FALSE].breaker = s.trip.breaker
    BY <1>2 DEF Trip
  <1>5. /\ trip \in Trip \cup {None}
        /\ s.trip.breaker => trip # None /\ ~trip.manual /\ trip.breaker
        /\ ~s.trip.breaker => trip = None
    BY <1>4, NoneAssumption
  <1>6. t = [a EXCEPT !.queue = q, !.paused = None] BY DEF Resumed
  <1> HIDE DEF trip
  <1>7. /\ u \in Rows /\ u.trip = trip /\ u.active = s.active /\ u.epoch = s.epoch
        /\ u.owned = s.owned /\ u.trigger = s.trigger /\ u.faults = s.faults
        /\ u.queue = s.queue /\ u.run = s.run /\ u.notice = s.notice /\ u.stopped = s.stopped
        /\ u.drain = s.drain
    BY <1>1, <1>5 DEF Rows
  <1> HIDE DEF u
  <1>8. u.owned = Armed(u) /\ \A k \in Key : u.queue[k] # None => u.trigger[k] # None
    BY <1>7 DEF Good, Sched, Armed
  <1> HIDE DEF wanted
  <1>9. /\ a \in Rows /\ a.owned = {k \in Key : wanted[k] # None} /\ a.trigger = wanted
        /\ \A k \in Key : a.queue[k] = None
        /\ Keeps(u, a) /\ a.trip = u.trip /\ a.run = u.run /\ a.faults = u.faults
        /\ a.notice = u.notice /\ a.drain = u.drain
    BY <1>3, <1>7, <1>8, ArmEffect
  <1> HIDE DEF a
  <1>10. q \in [Key -> Slot \cup {None}] /\ \A k \in Key : q[k] = s.paused.queue[k]
    BY <1>3, <1>9
  <1> HIDE DEF q, t
  <1>11. /\ t \in Rows /\ t.trip = trip /\ t.paused = None /\ t.active = s.active
         /\ t.epoch = s.epoch /\ t.owned = {k \in Key : wanted[k] # None} /\ t.faults = s.faults
         /\ t.trigger = wanted /\ t.queue = q /\ t.run = s.run
         /\ t.notice = s.notice /\ t.stopped = s.stopped /\ t.drain = s.drain
    BY <1>6, <1>7, <1>9, <1>10 DEF Rows, Keeps
  <1>12. s.active # None BY <1>1 DEF Good, Sched
  <1>13. \A k \in Key : t.trigger[k] = s.paused.trigger[k] /\ t.queue[k] = s.paused.queue[k]
    BY <1>10, <1>11 DEF wanted
  <1>14. Sched(t)
    <2>1. t.owned = Armed(t) BY <1>11 DEF Armed
    <2>2. ~ManualTrip(t) BY <1>5, <1>11 DEF ManualTrip
    <2>3. t.active # None <=> t.epoch >= 1 BY <1>11 DEF Good, Sched
    <2>4. \A k \in Key : t.trigger[k] # None => t.trigger[k].epoch = t.epoch /\ t.active # None
      BY <1>1, <1>11, <1>12, <1>13 DEF PausedOK
    <2>5. \A k \in Key : t.queue[k] # None =>
            /\ t.trigger[k] # None
            /\ t.queue[k].version = t.active
            /\ Overlap[t.active] = "Queue"
      BY <1>1, <1>11, <1>13 DEF PausedOK
    <2>6. t.trip # None =>
          /\ \A k \in Key : t.trigger[k] = None
          /\ t.trip.manual \/ t.trip.breaker
          /\ t.active # None
      BY <1>1, <1>5, <1>11, <1>12, <1>13 DEF PausedOK
    <2> QED BY <1>11, <2>1, <2>2, <2>3, <2>4, <2>5, <2>6 DEF Sched
  <1>15. Reported(t, h)
    <2>1. BreakerTrip(t) <=> BreakerTrip(s) BY <1>1, <1>5, <1>11 DEF BreakerTrip
    <2> QED BY <1>11, <2>1 DEF Good, Reported
  <1>16. Good(t, h) BY <1>11, <1>14, <1>15 DEF Good, Finite
  <1> QED BY <1>11, <1>16 DEF t

\* The emergency stop, set or lifted, changes nothing else.
LEMMA StoppedGood ==
    ASSUME NEW s, NEW h, Good(s, h), NEW b \in BOOLEAN
    PROVE  LET t == [s EXCEPT !.stopped = b]
           IN  /\ Good(t, h) /\ t.stopped = b /\ t.drain = s.drain
               /\ t.epoch = s.epoch /\ t.active = s.active /\ t.run = s.run /\ t.faults = s.faults
               /\ SameSchedule(s, t)
               /\ Waits(s) => Waits(t)
  <1>1. s \in Rows BY DEF Good
  <1>2. PICK t : t = [s EXCEPT !.stopped = b] OBVIOUS
  <1>3. /\ t \in Rows /\ SameSchedule(s, t) /\ t.stopped = b /\ t.active = s.active
        /\ t.epoch = s.epoch /\ t.paused = s.paused
        /\ t.run = s.run /\ t.faults = s.faults /\ t.notice = s.notice /\ t.drain = s.drain
    BY <1>1, <1>2 DEF Rows, SameSchedule
  <1>4. Sched(t) BY <1>3 DEF Good, Sched, Armed, ManualTrip, PausedOK, SameSchedule
  <1>5. Reported(t, h) BY <1>3 DEF Good, Reported, BreakerTrip, SameSchedule
  <1>6. Waits(s) => Waits(t)
    BY <1>3 DEF Waits, Ready, TriggerLive, Live, Capacity, SameSchedule
  <1> QED BY <1>2, <1>3, <1>4, <1>5, <1>6 DEF Good, Finite

\* A notice that is handed on is still reported.
LEMMA AcknowledgedGood ==
    ASSUME NEW s, NEW h, Good(s, h), Waits(s), NEW n \in s.notice
    PROVE  LET t == [s EXCEPT !.notice = s.notice \ {n}]
           IN  /\ Good(t, h \cup {n}) /\ Waits(t)
               /\ t.epoch = s.epoch /\ t.active = s.active /\ t.run = s.run
               /\ t.stopped = s.stopped /\ t.faults = s.faults
               /\ SameSchedule(s, t)
  <1>1. s \in Rows /\ n \in Notice BY DEF Good, Rows
  <1>2. PICK t : t = [s EXCEPT !.notice = s.notice \ {n}] OBVIOUS
  <1>3. /\ t \in Rows /\ SameSchedule(s, t) /\ t.stopped = s.stopped /\ t.active = s.active
        /\ t.epoch = s.epoch /\ t.paused = s.paused
        /\ t.run = s.run /\ t.faults = s.faults /\ t.notice = s.notice \ {n} /\ t.drain = s.drain
    BY <1>1, <1>2 DEF Rows, SameSchedule
  <1>4. Sched(t) BY <1>3 DEF Good, Sched, Armed, ManualTrip, PausedOK, SameSchedule
  <1>5. t.notice \cup (h \cup {n}) = s.notice \cup h BY <1>3
  <1>6. Reported(t, h \cup {n}) BY <1>3, <1>5 DEF Good, Reported, BreakerTrip, SameSchedule
  <1>7. Waits(t) BY <1>3 DEF Waits, Ready, TriggerLive, Live, Capacity, SameSchedule
  <1>8. h \cup {n} \subseteq Notice BY <1>1 DEF Good
  <1> QED BY <1>2, <1>3, <1>4, <1>6, <1>7, <1>8 DEF Good, Finite

-----------------------------------------------------------------------------
(* What the workers compute.                                               *)

\* A slot's instant, of a trigger that is due.
LEMMA SlotOfType ==
    ASSUME NEW g \in Trigger, g.at # None
    PROVE  SlotOf(g) \in Int
  BY DEF SlotOf, Trigger, Instant

\* A slot's run has the slot's own id.
LEMMA SlotIdType ==
    ASSUME NEW k \in Key, NEW g \in Trigger, g.at # None
    PROVE  SlotId(k, g) \in SlotIds
  <1>1. SlotOf(g) \in Int BY SlotOfType
  <1>2. g.n \in Int /\ g.epoch \in Nat BY DEF Trigger
  <1> QED BY <1>1, <1>2 DEF SlotId, SlotIds

\* A back-off is capped.
LEMMA CappedType ==
    ASSUME NEW ms
    PROVE  Capped(ms) \in Nat
  <1>1. RetryMaxMs \in Nat BY ScheduleAssumption
  <1> QED BY <1>1 DEF Capped

\* The trigger after its slot was taken or passed over is of the same epoch.
LEMMA NextTriggerType ==
    ASSUME NEW k \in Key, NEW g \in Trigger, g.at # None, NEW at \in Nat, NEW how
    PROVE  /\ Taken(k, g, at, how) \in Trigger /\ Taken(k, g, at, how).epoch = g.epoch
           /\ Busy(k, g, at) \in Trigger /\ Busy(k, g, at).epoch = g.epoch
  <1> DEFINE u == [g EXCEPT !.retry = None, !.failures = 0]
             n == NextEvery(MaxOf(SlotOf(g), at))
  <1>1. u \in Trigger /\ u.epoch = g.epoch /\ u.n \in Nat BY DEF Trigger, Instant
  <1>2. MaxOf(SlotOf(g), at) \in Int BY SlotOfType DEF MaxOf
  <1>3. n \in Instant BY <1>2, NextEveryType DEF Instant
  <1>4. at + After \in Instant BY ScheduleAssumption DEF Instant
  <1>5. None \in Instant BY DEF Instant
  <1> HIDE DEF u, n
  <1>6. \A a \in Instant : [u EXCEPT !.at = a] \in Trigger /\ [u EXCEPT !.at = a].epoch = g.epoch
    BY <1>1 DEF Trigger
  <1>7. \A a \in Instant : /\ [u EXCEPT !.at = a, !.n = u.n + 1] \in Trigger
                           /\ [u EXCEPT !.at = a, !.n = u.n + 1].epoch = g.epoch
    <2>1. PICK m \in Nat : m = u.n + 1 BY <1>1
    <2>2. \A a \in Instant : /\ [u EXCEPT !.at = a, !.n = m] \in Trigger
                             /\ [u EXCEPT !.at = a, !.n = m].epoch = g.epoch
      BY <1>1 DEF Trigger
    <2> QED BY <2>1, <2>2
  <1> DEFINE later == IF how = "refuse" THEN at + After ELSE None
  <1>8. later \in Instant BY <1>4, <1>5
  <1>9. /\ k = "every" => Taken(k, g, at, how) = [u EXCEPT !.at = n]
        /\ k = "after" => Taken(k, g, at, how) = [u EXCEPT !.at = later, !.n = u.n + 1]
        /\ k = "at" => Taken(k, g, at, how) = [u EXCEPT !.at = None]
    BY DEF Taken, u, n
  <1>10. /\ k = "every" => Busy(k, g, at) = [u EXCEPT !.at = n]
         /\ k = "after" => Busy(k, g, at) = [u EXCEPT !.at = at + After]
         /\ k = "at" => Busy(k, g, at) = [u EXCEPT !.at = None]
    BY DEF Busy, u, n
  <1> HIDE DEF later
  <1>11. k = "every" \/ k = "after" \/ k = "at" BY DEF Key
  <1>12. Taken(k, g, at, how) \in Trigger /\ Taken(k, g, at, how).epoch = g.epoch
    BY <1>3, <1>5, <1>6, <1>7, <1>8, <1>9, <1>11
  <1>13. Busy(k, g, at) \in Trigger /\ Busy(k, g, at).epoch = g.epoch
    BY <1>3, <1>4, <1>5, <1>6, <1>10, <1>11
  <1> QED BY <1>12, <1>13

\* A decided firing carries the trigger it was read from.
LEMMA FiringType ==
    ASSUME NEW s \in Rows, NEW p \in Decision, PlanOK(s, p),
           NEW how \in {"move", "admit", "refuse"}, NEW v \in Version, NEW g \in Trigger,
           g.epoch = p.expected.epoch, v = p.version \/ v = s.active
    PROVE  PlanOK(s, Firing(p, how, v, g))
  <1>1. p # None /\ p \notin Commit /\ p \notin Activation
    BY NoneAssumption DEF Decision, Commit, Activation
  <1>2. /\ p.expected.at # None /\ p.expected.epoch <= s.epoch
        /\ p.expected.epoch = s.epoch => p.version = s.active
    BY <1>1 DEF PlanOK
  <1>3. /\ p.key \in Key /\ p.expected \in Trigger /\ p.now \in Nat /\ p.version \in Version
    BY DEF Decision
  <1>4. Busy(p.key, p.expected, p.now) \in Trigger
          /\ Busy(p.key, p.expected, p.now).epoch = p.expected.epoch
    BY <1>2, <1>3, NextTriggerType
  <1>5. SlotId(p.key, p.expected) \in SlotIds BY <1>2, <1>3, SlotIdType
  <1>6. Overlap[p.version] \in {"Skip", "Allow", "Queue", "Replace"}
    BY <1>3, ScheduleAssumption
  <1>7. PICK f : f = Firing(p, how, v, g) OBVIOUS
  <1>8. /\ f \in Commit /\ f.expected = p.expected /\ f.next = g
        /\ f.busy = Busy(p.key, p.expected, p.now) /\ f.version = v
        /\ f.policy = Overlap[p.version]
    BY <1>3, <1>4, <1>5, <1>6, <1>7 DEF Firing, Commit
  <1> QED BY <1>2, <1>4, <1>7, <1>8 DEF PlanOK

-----------------------------------------------------------------------------
(* The inductive invariant of the specification.                           *)

Inv ==
    /\ Good(rows, handed) /\ Waits(rows)
    /\ rows.epoch <= MaxEpoch
    /\ now \in Nat
    /\ plan \in [Worker -> {None} \cup Decision \cup Commit \cup Activation]
    /\ \A w \in Worker : PlanOK(rows, plan[w])

\* A step of the rows alone keeps every plan good within the epoch.
LEMMA PlansKept ==
    ASSUME Inv, NEW t, t.epoch = rows.epoch, t.active = rows.active
    PROVE  \A w \in Worker : PlanOK(t, plan[w])
  BY DEF Inv, PlanOK

\* A worker's own step replaces its plan.
LEMMA PlanChanges ==
    ASSUME Inv, NEW w \in Worker, NEW p, PlanOK(rows, p), plan' = [plan EXCEPT ![w] = p],
           NEW t, t.epoch = rows.epoch, t.active = rows.active
    PROVE  /\ plan' \in [Worker -> {None} \cup Decision \cup Commit \cup Activation]
           /\ \A v \in Worker : PlanOK(t, plan'[v])
  <1>1. p \in {None} \cup Decision \cup Commit \cup Activation BY DEF PlanOK
  <1>2. \A v \in Worker : PlanOK(rows, plan'[v]) BY DEF Inv
  <1>3. \A v \in Worker : PlanOK(t, plan'[v]) BY <1>2 DEF PlanOK
  <1> QED BY <1>1, <1>3 DEF Inv

\* The definition starts inactive, with nothing armed.
LEMMA InitInv ==
    ASSUME Init
    PROVE  Inv
  <1>1. << >> \in [{} -> RunRow] /\ DOMAIN << >> = {} OBVIOUS
  <1>2. rows.run = << >> BY DEF Init
  <1>3. rows.run \in RunMap BY <1>1, <1>2, RunMapIntro
  <1>4. NoTriggers \in [Key -> Trigger \cup {None}] /\ NoTriggers \in [Key -> Slot \cup {None}]
          /\ \A k \in Key : NoTriggers[k] = None
    BY DEF NoTriggers
  <1>5. /\ rows = [active |-> None, epoch |-> 0, faults |-> 0, trip |-> None,
                   owned |-> {}, trigger |-> NoTriggers, queue |-> NoTriggers,
                   paused |-> None, drain |-> FALSE, stopped |-> FALSE,
                   run |-> << >>, notice |-> {}]
        /\ plan = [w \in Worker |-> None] /\ handed = {} /\ now = 0
    BY DEF Init
  <1>6. /\ rows.active = None /\ rows.epoch = 0 /\ rows.faults = 0 /\ rows.trip = None
        /\ rows.owned = {} /\ rows.trigger = NoTriggers /\ rows.queue = NoTriggers
        /\ rows.paused = None /\ rows.notice = {}
    BY <1>5
  <1>7. rows \in Rows
    <2>1. rows.drain \in BOOLEAN /\ rows.stopped \in BOOLEAN BY <1>5
    <2>2. rows = [active |-> rows.active, epoch |-> rows.epoch, faults |-> rows.faults,
                  trip |-> rows.trip, owned |-> rows.owned, trigger |-> rows.trigger,
                  queue |-> rows.queue, paused |-> rows.paused, drain |-> rows.drain,
                  stopped |-> rows.stopped, run |-> rows.run, notice |-> rows.notice]
      BY <1>5
    <2> QED BY <1>3, <1>4, <1>6, <2>1, <2>2 DEF Rows
  <1>8. Finite(rows) BY <1>1, <1>2, FS_EmptySet DEF Finite
  <1>9. Sched(rows) BY <1>4, <1>6 DEF Sched, Armed, ManualTrip
  <1>10. Reported(rows, handed) BY <1>5, <1>6, ScheduleAssumption DEF Reported, BreakerTrip
  <1>11. Waits(rows) BY <1>4, <1>6 DEF Waits, Ready
  <1>12. \A w \in Worker : PlanOK(rows, plan[w]) BY <1>5 DEF PlanOK
  <1>13. rows.epoch <= MaxEpoch BY <1>6, ScheduleAssumption
  <1>14. handed \subseteq Notice /\ now \in Nat BY <1>5
  <1>15. plan \in [Worker -> {None} \cup Decision \cup Commit \cup Activation] BY <1>5
  <1>16. Good(rows, handed) BY <1>7, <1>8, <1>9, <1>10, <1>14 DEF Good
  <1> QED BY <1>11, <1>12, <1>13, <1>14, <1>15, <1>16 DEF Inv

\* fire_due's read, its decisions and a worker's end change no row.
LEMMA WorkerReads ==
    ASSUME Inv, NEW w \in Worker,
           \/ \E k \in Key : ReadDue(w, k)
           \/ DecideSkip(w)
           \/ \E how \in {"admit", "refuse"} : DecideRun(w, how)
           \/ DecideRetry(w)
           \/ Abandon(w)
           \/ \E v \in Version : ReadEpoch(w, v)
    PROVE  Inv'
  <1>1. SUFFICES \E p : PlanOK(rows, p) /\ plan' = [plan EXCEPT ![w] = p]
                          /\ rows' = rows /\ handed' = handed /\ now' = now
    <2>1. PICK p : PlanOK(rows, p) /\ plan' = [plan EXCEPT ![w] = p]
                          /\ rows' = rows /\ handed' = handed /\ now' = now
      BY <1>1
    <2>2. /\ plan' \in [Worker -> {None} \cup Decision \cup Commit \cup Activation]
          /\ \A v \in Worker : PlanOK(rows', plan'[v])
      BY <2>1, PlanChanges
    <2> QED BY <2>1, <2>2 DEF Inv
  <1> DEFINE p == plan[w]
  <1>2. /\ rows \in Rows /\ Sched(rows) /\ now \in Nat /\ PlanOK(rows, p)
        /\ rows.epoch \in Nat /\ MaxEpoch \in Nat
    BY ScheduleAssumption DEF Inv, Good, Rows
  <1>3. p.step = "decide" /\ p # None => p \in Decision
    BY <1>2 DEF PlanOK, Commit, Activation
  <1>4. p \in Decision => /\ p.expected \in Trigger /\ p.expected.at # None /\ p.key \in Key
                          /\ p.now \in Nat /\ p.version \in Version /\ rows.active \in Version
    <2>1. p \in Decision => p # None /\ p \notin Commit /\ p \notin Activation
      BY NoneAssumption DEF Decision, Commit, Activation
    <2> QED BY <1>2, <2>1 DEF PlanOK, Decision, Rows
  <1>5. PlanOK(rows, None) BY DEF PlanOK
  <1>6. CASE \E k \in Key : ReadDue(w, k)
    <2>1. PICK k \in Key : ReadDue(w, k) BY <1>6
    <2>2. PICK q : q = [step |-> "decide", key |-> k, expected |-> rows.trigger[k], now |-> now,
                        version |-> rows.active]
      OBVIOUS
    <2>3. /\ rows.trigger[k] # None /\ rows.trigger[k].at # None
          /\ rows.trigger[k].epoch = rows.epoch
          /\ plan' = [plan EXCEPT ![w] = q]
          /\ rows' = rows /\ handed' = handed /\ now' = now
      BY <2>1, <2>2 DEF ReadDue
    <2>4. rows.trigger[k] \in Trigger /\ rows.active \in Version /\ rows.active # None
      BY <1>2, <2>3 DEF Rows, Sched
    <2>5. q \in Decision BY <1>2, <2>2, <2>4 DEF Decision
    <2>6. PlanOK(rows, q) BY <1>2, <2>2, <2>3, <2>4, <2>5 DEF PlanOK
    <2> QED BY <2>3, <2>6
  <1>7. CASE DecideSkip(w)
    <2>1. PICK q : q = Firing(p, "move", p.version, Taken(p.key, p.expected, p.now, "move"))
      OBVIOUS
    <2>2. p \in Decision /\ plan' = [plan EXCEPT ![w] = q]
            /\ rows' = rows /\ handed' = handed /\ now' = now
      BY <1>3, <1>7, <2>1 DEF DecideSkip, Idle
    <2>3. PICK g \in Trigger : g = Taken(p.key, p.expected, p.now, "move")
                                /\ g.epoch = p.expected.epoch
      BY <1>4, <2>2, NextTriggerType
    <2>4. PlanOK(rows, q) BY <1>2, <1>4, <2>1, <2>2, <2>3, FiringType
    <2> QED BY <2>2, <2>4
  <1>8. CASE \E how \in {"admit", "refuse"} : DecideRun(w, how)
    <2>1. PICK how \in {"admit", "refuse"} : DecideRun(w, how) BY <1>8
    <2>2. PICK q : q = Firing(p, how, rows.active, Taken(p.key, p.expected, p.now, how))
      OBVIOUS
    <2>3. p \in Decision /\ plan' = [plan EXCEPT ![w] = q]
            /\ rows' = rows /\ handed' = handed /\ now' = now
      BY <1>3, <2>1, <2>2 DEF DecideRun, Idle
    <2>4. PICK g \in Trigger : g = Taken(p.key, p.expected, p.now, how)
                                /\ g.epoch = p.expected.epoch
      BY <1>4, <2>3, NextTriggerType
    <2>5. PlanOK(rows, q) BY <1>2, <1>4, <2>1, <2>2, <2>3, <2>4, FiringType
    <2> QED BY <2>3, <2>5
  <1>9. CASE DecideRetry(w)
    <2> DEFINE failures == p.expected.failures + 1
               g == [p.expected EXCEPT !.at = RetryAt(p.now, failures),
                                       !.retry = SlotOf(p.expected), !.failures = failures]
    <2>1. PICK q : q = Firing(p, "move", p.version, g) OBVIOUS
    <2>2. p \in Decision /\ plan' = [plan EXCEPT ![w] = q]
            /\ rows' = rows /\ handed' = handed /\ now' = now
      BY <1>3, <1>9, <2>1 DEF DecideRetry, Idle
    <2>3. SlotOf(p.expected) \in Instant BY <1>4, <2>2, SlotOfType DEF Instant
    <2>4. RetryAt(p.now, failures) \in Instant
      <3>1. PICK c \in Nat : c = Capped(BackOff(failures)) BY CappedType
      <3>2. RetryAt(p.now, failures) = p.now + c BY <3>1 DEF RetryAt
      <3> QED BY <1>4, <2>2, <3>2 DEF Instant
    <2>5. failures \in Nat BY <1>4, <2>2 DEF Trigger
    <2> HIDE DEF failures
    <2>6. g \in Trigger /\ g.epoch = p.expected.epoch
      BY <1>4, <2>2, <2>3, <2>4, <2>5 DEF Trigger
    <2> HIDE DEF g
    <2>7. PlanOK(rows, q) BY <1>2, <1>4, <2>1, <2>2, <2>6, FiringType
    <2> QED BY <2>2, <2>7
  <1>10. CASE Abandon(w) BY <1>5, <1>10 DEF Abandon
  <1>11. CASE \E v \in Version : ReadEpoch(w, v)
    <2>1. PICK v \in Version : ReadEpoch(w, v) BY <1>11
    <2>2. PICK q : q = [step |-> "activate", version |-> v, epoch |-> rows.epoch, now |-> now]
      OBVIOUS
    <2>3. rows.epoch < MaxEpoch /\ plan' = [plan EXCEPT ![w] = q]
            /\ rows' = rows /\ handed' = handed /\ now' = now
      BY <2>1, <2>2 DEF ReadEpoch
    <2>4. q \in Activation /\ q.epoch = rows.epoch BY <1>2, <2>2 DEF Activation
    <2>5. PlanOK(rows, q) BY <2>3, <2>4 DEF PlanOK
    <2> QED BY <2>3, <2>5
  <1> QED BY <1>6, <1>7, <1>8, <1>9, <1>10, <1>11


\* A worker's commit or activation changes the rows and ends its plan.
LEMMA CommitFiringKeeps ==
    ASSUME Inv, NEW w \in Worker, CommitFiring(w)
    PROVE  Inv'
  <1> DEFINE f == plan[w]
  <1>1. /\ f # None /\ f.step = "fire" /\ rows' = Fire(rows, f)
        /\ plan' = [plan EXCEPT ![w] = None] /\ handed' = handed /\ now' = now
    BY DEF CommitFiring, Idle
  <1>2. f \in Commit /\ PlanOK(rows, f)
    BY <1>1 DEF Inv, PlanOK, Decision, Activation
  <1>3. Good(rows, handed) /\ Waits(rows) BY DEF Inv
  <1> HIDE DEF f
  <1>4. /\ Good(rows', handed) /\ Waits(rows')
        /\ rows.stopped => rows' = rows
        /\ ~rows.stopped =>
             \E d : /\ Good(d, handed) /\ Drains(rows, d)
                    /\ rows' = d \/ Fires(d, rows', f)
    BY <1>1, <1>2, <1>3, FireGood
  <1>5. rows'.epoch = rows.epoch /\ rows'.active = rows.active
    BY <1>4 DEF Drains, Fires, Keeps
  <1>6. PlanOK(rows, None) BY DEF PlanOK
  <1>7. /\ plan' \in [Worker -> {None} \cup Decision \cup Commit \cup Activation]
        /\ \A v \in Worker : PlanOK(rows', plan'[v])
    BY <1>1, <1>5, <1>6, PlanChanges
  <1> QED BY <1>1, <1>4, <1>5, <1>7 DEF Inv

\* An activation makes every plan of the epochs before stale.
LEMMA ActivateKeeps ==
    ASSUME Inv, NEW w \in Worker, Activate(w)
    PROVE  Inv'
  <1> DEFINE p == plan[w]
  <1>1. /\ p # None /\ p.step = "activate"
        /\ rows' = IF rows.epoch = p.epoch THEN Activated(rows, p.version, p.epoch, p.now)
                   ELSE rows
        /\ plan' = [plan EXCEPT ![w] = None] /\ handed' = handed /\ now' = now
    BY DEF Activate, Idle
  <1>2. /\ p \in Activation /\ p.epoch < MaxEpoch
    BY <1>1 DEF Inv, PlanOK, Decision, Commit
  <1>3. p.version \in Version /\ p.epoch \in Nat /\ p.now \in Nat BY <1>2 DEF Activation
  <1>4. Good(rows, handed) /\ Waits(rows) /\ rows.epoch <= MaxEpoch /\ rows.epoch \in Nat
    BY DEF Inv, Good, Rows
  <1>5. MaxEpoch \in Nat BY ScheduleAssumption
  <1>6. PlanOK(rows, None) BY DEF PlanOK
  <1> HIDE DEF p
  <1>7. /\ plan' \in [Worker -> {None} \cup Decision \cup Commit \cup Activation]
        /\ \A v \in Worker : PlanOK(rows, plan'[v])
    BY <1>1, <1>6, PlanChanges
  <1>8. CASE rows.epoch # p.epoch
    BY <1>1, <1>4, <1>7, <1>8 DEF Inv
  <1>9. CASE rows.epoch = p.epoch
    <2>1. rows' = Activated(rows, p.version, rows.epoch, p.now) BY <1>1, <1>9
    <2>2. /\ Good(rows', handed) /\ Waits(rows')
          /\ rows'.epoch = rows.epoch + 1 /\ rows'.active = p.version
      BY <1>3, <1>4, <2>1, ActivatedGood
    <2>3. rows'.epoch <= MaxEpoch BY <1>2, <1>3, <1>4, <1>5, <1>9, <2>2
    <2>4. rows'.active # None BY <1>3, <2>2, NoneAssumption
    <2>5. \A v \in Worker : PlanOK(rows', plan'[v])
      <3> SUFFICES ASSUME NEW v \in Worker, NEW q, q = plan'[v] PROVE PlanOK(rows', q)
        OBVIOUS
      <3>1. PlanOK(rows, q) BY <1>7
      <3>2. (q \in Decision \/ q \in Commit) => q.expected.epoch \in Nat
        BY DEF Decision, Commit, Trigger
      <3>3. (q \in Decision \/ q \in Commit) /\ q.expected.epoch <= rows.epoch =>
              q.expected.epoch <= rows'.epoch /\ q.expected.epoch # rows'.epoch
        BY <1>4, <2>2, <3>2
      <3> QED BY <2>4, <3>1, <3>3 DEF PlanOK
    <2> QED BY <1>1, <1>7, <2>2, <2>3, <2>5 DEF Inv
  <1> QED BY <1>8, <1>9

\* A step of the rows alone, in the epoch, keeps the rest.
LEMMA RowsKeep ==
    ASSUME Inv, plan' = plan, now' = now, Good(rows', handed'), Waits(rows'),
           rows'.epoch = rows.epoch, rows'.active = rows.active
    PROVE  Inv'
  <1>1. \A w \in Worker : PlanOK(rows', plan[w]) BY PlansKept
  <1> QED BY <1>1 DEF Inv

\* A host's start, after the deferred drain.
LEMMA StartRunKeeps ==
    ASSUME Inv, NEW x \in Host, NEW v \in Version, StartRun(x, v)
    PROVE  /\ Inv' /\ ~rows.stopped
           /\ \E d : /\ Good(d, handed) /\ Drains(rows, d)
                     /\ \/ rows' = d
                        \/ rows' = WithRun(d, HostId(x), NewRun(d, v))
  <1> DEFINE d == DrainMarked(rows, now)
  <1>1. /\ ~rows.stopped
        /\ rows' = IF Barred(d, v) THEN d ELSE WithRun(d, HostId(x), NewRun(d, v))
        /\ plan' = plan /\ handed' = handed /\ now' = now
    BY DEF StartRun
  <1>2. Good(rows, handed) /\ Waits(rows) /\ now \in Nat BY DEF Inv
  <1>3. /\ Good(d, handed) /\ Drains(rows, d) /\ Waits(d)
        /\ \A k \in Key : ~Ready(d, k)
    BY <1>1, <1>2, DrainMarkedGood
  <1> HIDE DEF d
  <1>4. d.epoch = rows.epoch /\ d.active = rows.active /\ d \in Rows BY <1>3 DEF Drains, Keeps, Good
  <1>5. CASE Barred(d, v)
    <2>1. rows' = d BY <1>1, <1>5
    <2> QED BY <1>1, <1>3, <1>4, <2>1, RowsKeep
  <1>6. CASE ~Barred(d, v)
    <2> DEFINE i == HostId(x)
               row == NewRun(d, v)
    <2>1. i \in Id /\ row \in RunRow BY <1>4, NewRunType DEF HostId, HostIds, Id
    <2>2. rows' = WithRun(d, i, row) BY <1>1, <1>6
    <2>3. i \notin DOMAIN rows.run /\ i \notin SlotIds BY DEF StartRun, HostId, SlotIds, Key
    <2>4. i \notin DOMAIN d.run BY <1>3, <2>3 DEF Drains, Fresh
    <2> HIDE DEF i, row
    <2>5. /\ Good(rows', handed) /\ Keeps(d, rows') /\ SameSchedule(d, rows')
          /\ rows'.drain = d.drain
      BY <1>3, <2>1, <2>2, WithRunGood
    <2>6. /\ DOMAIN rows'.run = DOMAIN d.run \cup {i}
          /\ \A j \in DOMAIN d.run : rows'.run[j] = d.run[j]
      BY <1>4, <2>1, <2>2, <2>4, WithRunType
    <2>7. rows' \in Rows /\ Finite(rows') BY <2>5 DEF Good
    <2>8. \A k \in Key : ~Ready(rows', k)
      BY <1>3, <1>4, <2>5, <2>6, <2>7, ReadyFalls DEF SameSchedule
    <2>9. Waits(rows') BY <2>8 DEF Waits
    <2>10. rows'.epoch = rows.epoch /\ rows'.active = rows.active BY <1>4, <2>5 DEF Keeps
    <2>11. Inv' BY <1>1, <2>5, <2>9, <2>10, RowsKeep
    <2> QED BY <1>1, <1>3, <2>2, <2>11 DEF i, row
  <1> QED BY <1>5, <1>6

\* From s to t, with the breaker's observation and a drain, the run i ends.
Ending(s, t, i) ==
    \E b, u :
        /\ Keeps(s, b) /\ b.run = s.run
        /\ SameSchedule(s, b) \/ Disarmed(b)
        /\ b.faults > s.faults => Counts(s, s.run[i])
        /\ u.faults \in Nat /\ Ends(b, u, {i}) /\ Drains(u, t)

\* A run's end.
LEMMA CancelKeeps ==
    ASSUME Inv, NEW i \in DOMAIN rows.run, Cancel(i)
    PROVE  /\ Inv' /\ Ending(rows, rows', i) /\ i \in Live(rows)
           /\ rows.stopped => /\ DOMAIN rows'.run = DOMAIN rows.run
                              /\ rows'.queue = rows.queue
                              /\ \A k \in Key : rows'.trigger[k] = rows.trigger[k]
                                                  \/ rows.trigger[k].at = None
  <1>1. /\ rows' = Terminate(rows, i, now) /\ i \in Live(rows)
        /\ plan' = plan /\ handed' = handed /\ now' = now
    BY DEF Cancel
  <1>2. Good(rows, handed) /\ now \in Nat /\ rows.faults \in Nat BY DEF Inv, Good, Rows
  <1>3. /\ Good(rows', handed) /\ Waits(rows')
        /\ \E u : /\ Good(u, handed) /\ Ends(rows, u, {i}) /\ Drains(u, rows')
                  /\ rows.stopped => SameSchedule(u, rows') /\ rows'.run = u.run
    BY <1>1, <1>2, TerminateGood
  <1>4. PICK u : /\ Good(u, handed) /\ Ends(rows, u, {i}) /\ Drains(u, rows')
                 /\ rows.stopped => SameSchedule(u, rows') /\ rows'.run = u.run
    BY <1>3
  <1>5. rows'.epoch = rows.epoch /\ rows'.active = rows.active BY <1>4 DEF Drains, Ends, Keeps
  <1>6. Inv' BY <1>1, <1>3, <1>5, RowsKeep
  <1>7. Keeps(rows, rows) /\ SameSchedule(rows, rows) /\ ~(rows.faults > rows.faults)
    BY <1>2 DEF Keeps, SameSchedule
  <1>8. Ending(rows, rows', i) BY <1>4, <1>7 DEF Ending, Good, Rows
  <1>9. rows.stopped => /\ DOMAIN rows'.run = DOMAIN rows.run
                        /\ rows'.queue = rows.queue
                        /\ \A k \in Key : rows'.trigger[k] = rows.trigger[k]
                                            \/ rows.trigger[k].at = None
    BY <1>4 DEF Ends, SameSchedule
  <1> QED BY <1>1, <1>6, <1>8, <1>9

\* A run's end, observed by the breaker.
LEMMA FinishKeeps ==
    ASSUME Inv, NEW i \in DOMAIN rows.run, NEW outcome, Finish(i, outcome)
    PROVE  Inv' /\ Ending(rows, rows', i) /\ i \in Live(rows) /\ ~rows.stopped
  <1> DEFINE b == Breaker(rows, rows.run[i], outcome, now)
  <1>1. /\ rows' = Terminate(b, i, now) /\ i \in Live(rows) /\ ~rows.stopped
        /\ plan' = plan /\ handed' = handed /\ now' = now
    BY DEF Finish
  <1>2. Good(rows, handed) /\ now \in Nat /\ rows \in Rows BY DEF Inv, Good
  <1>3. rows.run[i] \in RunRow BY <1>2, RunMapFacts DEF Rows
  <1>4. /\ Good(b, handed) /\ Keeps(rows, b) /\ b.run = rows.run
        /\ SameSchedule(rows, b) \/ Disarmed(b)
        /\ b.faults > rows.faults => Counts(rows, rows.run[i])
    BY <1>2, <1>3, BreakerGood
  <1> HIDE DEF b
  <1>5. i \in DOMAIN b.run BY <1>4
  <1>6. /\ Good(rows', handed) /\ Waits(rows')
        /\ \E u : Good(u, handed) /\ Ends(b, u, {i}) /\ Drains(u, rows')
    BY <1>1, <1>2, <1>4, <1>5, TerminateGood
  <1>7. PICK u : Good(u, handed) /\ Ends(b, u, {i}) /\ Drains(u, rows') BY <1>6
  <1>8. rows'.epoch = rows.epoch /\ rows'.active = rows.active
    BY <1>4, <1>7 DEF Drains, Ends, Keeps
  <1>9. Inv' BY <1>1, <1>6, <1>8, RowsKeep
  <1>10. Ending(rows, rows', i) BY <1>4, <1>7 DEF Ending, Good, Rows
  <1> QED BY <1>1, <1>9, <1>10

\* From s to t no run starts or ends, but for a drain: the schedule stays, is
\* suspended, or is restored.
Quiet(s, t) ==
    \E u :
        /\ Sched(u) /\ u.epoch = s.epoch /\ u.run = s.run /\ u.faults = s.faults
        /\ \/ SameSchedule(s, u)
           \/ \A k \in Key : s.trigger[k] = None
           \/ \A k \in Key : u.trigger[k] = None
        /\ Drains(u, t)

\* A pause.
LEMMA PauseKeeps ==
    ASSUME Inv, Pause
    PROVE  Inv' /\ Quiet(rows, rows') /\ rows'.trip # rows.trip /\ rows'.run = rows.run
  <1> DEFINE trip == IF rows.trip # None THEN [rows.trip EXCEPT !.manual = TRUE]
                     ELSE [manual |-> TRUE, breaker |-> FALSE, version |-> rows.active]
  <1>1. /\ rows.active # None /\ ~ManualTrip(rows)
        /\ rows' = [Suspended(rows) EXCEPT !.trip = trip]
        /\ plan' = plan /\ handed' = handed /\ now' = now
    BY DEF Pause
  <1>2. Good(rows, handed) /\ rows \in Rows BY DEF Inv, Good
  <1>3. rows.trip \in Trip \cup {None} /\ rows.active \in Version BY <1>1, <1>2 DEF Rows
  <1>4. rows.trip # None =>
          /\ [rows.trip EXCEPT !.manual = TRUE] \in Trip
          /\ [rows.trip EXCEPT !.manual = TRUE].manual
          /\ [rows.trip EXCEPT !.manual = TRUE].breaker = rows.trip.breaker
    BY <1>3 DEF Trip
  <1>5. [manual |-> TRUE, breaker |-> FALSE, version |-> rows.active] \in Trip
    BY <1>3, Zenon DEF Trip
  <1>6. trip \in Trip /\ trip.manual /\ (trip.breaker <=> BreakerTrip(rows))
    <2>1. CASE rows.trip # None BY <1>4, <2>1 DEF BreakerTrip
    <2>2. CASE rows.trip = None BY <1>5, <2>2 DEF BreakerTrip
    <2> QED BY <2>1, <2>2
  <1> HIDE DEF trip
  <1>7. /\ Good(rows', handed) /\ Waits(rows')
        /\ rows'.epoch = rows.epoch /\ rows'.active = rows.active /\ rows'.run = rows.run
        /\ rows'.faults = rows.faults /\ rows'.trip = trip
        /\ \A k \in Key : rows'.trigger[k] = None
    BY <1>1, <1>2, <1>6, PauseGood
  <1>8. Inv' BY <1>1, <1>7, RowsKeep
  <1>9. rows' \in Rows BY <1>7 DEF Good
  <1>10. Quiet(rows, rows') BY <1>7, <1>9, DrainsReflexive DEF Quiet, Good
  <1>11. rows'.trip # rows.trip BY <1>1, <1>6, <1>7, NoneAssumption DEF ManualTrip
  <1> QED BY <1>7, <1>8, <1>10, <1>11

\* A resume.
LEMMA ResumeKeeps ==
    ASSUME Inv, Resume
    PROVE  /\ Inv' /\ Quiet(rows, rows') /\ rows'.trip # rows.trip
           /\ rows.stopped => rows'.run = rows.run
  <1> DEFINE u == Resumed(rows)
  <1>1. /\ ManualTrip(rows) /\ rows' = DrainQueues(u, now)
        /\ plan' = plan /\ handed' = handed /\ now' = now
    BY DEF Resume
  <1>2. Good(rows, handed) /\ now \in Nat BY DEF Inv
  <1>3. /\ Good(u, handed) /\ u.paused = None
        /\ u.epoch = rows.epoch /\ u.active = rows.active /\ u.run = rows.run
        /\ u.faults = rows.faults /\ u.stopped = rows.stopped
    BY <1>1, <1>2, ResumedGood
  <1> HIDE DEF u
  <1>4. /\ Good(rows', handed) /\ Drains(u, rows') /\ Waits(rows')
        /\ u.stopped => rows'.run = u.run
    BY <1>1, <1>2, <1>3, DrainQueuesGood
  <1>5. rows'.epoch = rows.epoch /\ rows'.active = rows.active /\ rows'.paused = None
    BY <1>3, <1>4 DEF Drains, Keeps
  <1>6. Inv' BY <1>1, <1>4, <1>5, RowsKeep
  <1>7. \A k \in Key : rows.trigger[k] = None BY <1>1, <1>2 DEF Good, Sched, ManualTrip
  <1>8. Quiet(rows, rows') BY <1>3, <1>4, <1>7 DEF Quiet, Good
  <1>9. ~ManualTrip(rows') BY <1>4, <1>5 DEF Good, Sched
  <1>10. rows'.trip # rows.trip BY <1>1, <1>9 DEF ManualTrip
  <1> QED BY <1>3, <1>4, <1>6, <1>8, <1>10

\* The emergency stop, and its clearing with the deferred drain.
LEMMA StopKeeps ==
    ASSUME Inv, Stop \/ \E late \in BOOLEAN : ClearStop(late)
    PROVE  Inv' /\ Quiet(rows, rows') /\ ~(rows.stopped /\ rows'.stopped)
  <1>1. /\ plan' = plan /\ handed' = handed /\ now' = now BY DEF Stop, ClearStop
  <1>2. Good(rows, handed) /\ Waits(rows) /\ now \in Nat BY DEF Inv
  <1>3. CASE Stop
    <2>1. rows' = [rows EXCEPT !.stopped = TRUE] /\ ~rows.stopped BY <1>3 DEF Stop
    <2>2. PICK b \in BOOLEAN : b = TRUE OBVIOUS
    <2>3. rows' = [rows EXCEPT !.stopped = b] BY <2>1, <2>2
    <2>4. /\ Good(rows', handed) /\ Waits(rows') /\ SameSchedule(rows, rows')
          /\ rows'.epoch = rows.epoch /\ rows'.active = rows.active /\ rows'.run = rows.run
          /\ rows'.faults = rows.faults
      BY <1>2, <2>3, StoppedGood
    <2>5. Inv' BY <1>1, <2>4, RowsKeep
    <2>6. Quiet(rows, rows') BY <2>4, DrainsReflexive DEF Quiet, Good
    <2> QED BY <2>1, <2>5, <2>6
  <1>4. CASE \E late \in BOOLEAN : ClearStop(late)
    <2> PICK late \in BOOLEAN : ClearStop(late) BY <1>4
    <2>1. PICK b \in BOOLEAN : b = FALSE OBVIOUS
    <2>2. PICK u : u = [rows EXCEPT !.stopped = b] OBVIOUS
    <2>3. rows' = (IF late THEN u ELSE DrainMarked(u, now)) BY <2>1, <2>2 DEF ClearStop
    <2>4. /\ Good(u, handed) /\ Waits(u) /\ SameSchedule(rows, u) /\ ~u.stopped
          /\ u.epoch = rows.epoch /\ u.active = rows.active /\ u.run = rows.run
          /\ u.faults = rows.faults
      BY <1>2, <2>1, <2>2, StoppedGood
    <2>5. Good(rows', handed) /\ Waits(rows') /\ Drains(u, rows')
      <3>1. CASE late BY <2>3, <2>4, <3>1, DrainsReflexive DEF Good
      <3>2. CASE ~late BY <1>2, <2>3, <2>4, <3>2, DrainMarkedGood
      <3> QED BY <3>1, <3>2
    <2>6. /\ rows'.epoch = rows.epoch /\ rows'.active = rows.active /\ ~rows'.stopped
      BY <2>4, <2>5 DEF Drains, Keeps
    <2>7. Inv' BY <1>1, <2>5, <2>6, RowsKeep
    <2>8. Quiet(rows, rows') BY <2>4, <2>5 DEF Quiet, Good
    <2> QED BY <2>6, <2>7, <2>8
  <1> QED BY <1>3, <1>4

\* A notice handed on.
LEMMA AcknowledgeKeeps ==
    ASSUME Inv, NEW n \in rows.notice, Acknowledge(n)
    PROVE  /\ Inv' /\ Quiet(rows, rows')
           /\ rows'.run = rows.run /\ SameSchedule(rows, rows')
  <1>1. /\ rows' = [rows EXCEPT !.notice = rows.notice \ {n}] /\ handed' = handed \cup {n}
        /\ plan' = plan /\ now' = now
    BY DEF Acknowledge
  <1>2. Good(rows, handed) /\ Waits(rows) BY DEF Inv
  <1>3. /\ Good(rows', handed') /\ Waits(rows') /\ SameSchedule(rows, rows')
        /\ rows'.epoch = rows.epoch /\ rows'.active = rows.active /\ rows'.run = rows.run
        /\ rows'.faults = rows.faults
    BY <1>1, <1>2, AcknowledgedGood
  <1>4. Quiet(rows, rows') BY <1>3, DrainsReflexive DEF Quiet, Good
  <1> QED BY <1>1, <1>3, <1>4, RowsKeep

-----------------------------------------------------------------------------
(* The steps.                                                              *)

\* A firing of the plan f: a drain, and then nothing more or the firing.
Fired(s, t, f) ==
    \E d : /\ Good(d, handed) /\ Drains(s, d)
           /\ \/ t = d
              \/ d.trigger[f.key] = f.expected /\ Fires(d, t, f)

\* A host's start: a drain, and then nothing more or the host's run.
HostStarts(s, t) ==
    \E d, x, v : /\ Good(d, handed) /\ Drains(s, d) /\ v \in Version
                 /\ HostId(x) \notin DOMAIN s.run
                 /\ \/ t = d
                    \/ t = WithRun(d, HostId(x), NewRun(d, v))

\* What a step under the emergency stop leaves alone.
Frozen(s, t) ==
    s.stopped /\ t.stopped =>
        /\ DOMAIN t.run = DOMAIN s.run
        /\ t.epoch = s.epoch /\ t.trip = s.trip =>
              /\ t.queue = s.queue
              /\ \A k \in Key : t.trigger[k] = s.trigger[k] \/ s.trigger[k].at = None

\* The plans of firings that this step commits.
Committed == {plan[w] : w \in {v \in Worker : /\ plan[v] # None /\ plan'[v] = None
                                              /\ plan[v].step = "fire"}}

\* The kinds of step there are.
Kinds ==
    \/ Quiet(rows, rows')
    \/ HostStarts(rows, rows')
    \/ \E i \in Live(rows) : Ending(rows, rows', i)
    \/ \E f \in Committed \cap Commit : Fired(rows, rows', f)
    \/ rows'.epoch # rows.epoch /\ rows'.run = rows.run

\* A worker that commits nothing leaves the rows as they are.
LEMMA SameRows ==
    ASSUME Inv, rows' = rows
    PROVE  Quiet(rows, rows') /\ Frozen(rows, rows')
  <1>1. rows \in Rows /\ Sched(rows) BY DEF Inv, Good
  <1>2. Quiet(rows, rows) BY <1>1, DrainsReflexive DEF Quiet, SameSchedule
  <1> QED BY <1>2 DEF Frozen

\* A committed firing.
LEMMA CommitFiringKind ==
    ASSUME Inv, NEW w \in Worker, CommitFiring(w)
    PROVE  Kinds /\ Frozen(rows, rows')
  <1> DEFINE f == plan[w]
  <1>1. /\ f # None /\ f.step = "fire" /\ rows' = Fire(rows, f)
        /\ plan' = [plan EXCEPT ![w] = None]
    BY DEF CommitFiring, Idle
  <1>2. f \in Commit /\ PlanOK(rows, f)
    BY <1>1 DEF Inv, PlanOK, Decision, Activation
  <1>3. Good(rows, handed) /\ Waits(rows) BY DEF Inv
  <1>4. plan'[w] = None BY <1>1 DEF Inv
  <1>5. f \in Committed BY <1>1, <1>4 DEF Committed
  <1> HIDE DEF f
  <1>6. CASE rows.stopped
    <2>1. rows' = rows BY <1>1, <1>2, <1>3, <1>6, FireGood
    <2> QED BY <2>1, SameRows DEF Kinds
  <1>7. CASE ~rows.stopped
    <2>1. Fired(rows, rows', f) BY <1>1, <1>2, <1>3, <1>7, FireGood DEF Fired
    <2> QED BY <1>2, <1>5, <1>7, <2>1 DEF Kinds, Frozen
  <1> QED BY <1>6, <1>7

\* An activation.
LEMMA ActivateKind ==
    ASSUME Inv, NEW w \in Worker, Activate(w)
    PROVE  Kinds /\ Frozen(rows, rows')
  <1> DEFINE p == plan[w]
  <1>1. /\ p # None /\ p.step = "activate"
        /\ rows' = IF rows.epoch = p.epoch THEN Activated(rows, p.version, p.epoch, p.now)
                   ELSE rows
    BY DEF Activate, Idle
  <1>2. p \in Activation BY <1>1 DEF Inv, PlanOK, Decision, Commit
  <1>3. p.version \in Version /\ p.now \in Nat BY <1>2 DEF Activation
  <1>4. Good(rows, handed) /\ rows.epoch \in Nat BY DEF Inv, Good, Rows
  <1> HIDE DEF p
  <1>5. CASE rows.epoch # p.epoch BY <1>1, <1>5, SameRows DEF Kinds
  <1>6. CASE rows.epoch = p.epoch
    <2>1. rows' = Activated(rows, p.version, rows.epoch, p.now) BY <1>1, <1>6
    <2>2. rows'.epoch = rows.epoch + 1 /\ rows'.run = rows.run
      BY <1>3, <1>4, <2>1, ActivatedGood
    <2>3. rows'.epoch # rows.epoch BY <1>4, <2>2
    <2> QED BY <2>2, <2>3 DEF Kinds, Frozen
  <1> QED BY <1>5, <1>6

\* Every step keeps the invariant, is of one of the kinds, and starts nothing
\* under a stop.
LEMMA NextKinds ==
    ASSUME Inv, [Next]_vars
    PROVE  Inv' /\ Kinds /\ Frozen(rows, rows')
  <1>1. CASE UNCHANGED vars
    <2>1. rows' = rows /\ plan' = plan /\ handed' = handed /\ now' = now BY <1>1 DEF vars
    <2>2. Inv' BY <2>1 DEF Inv
    <2> QED BY <2>1, <2>2, SameRows DEF Kinds
  <1>2. CASE \E w \in Worker : Step(w)
    <2> PICK w \in Worker : Step(w) BY <1>2
    <2>1. CASE \/ \E k \in Key : ReadDue(w, k)
               \/ DecideSkip(w)
               \/ \E how \in {"admit", "refuse"} : DecideRun(w, how)
               \/ DecideRetry(w)
               \/ Abandon(w)
               \/ \E v \in Version : ReadEpoch(w, v)
      <3>1. rows' = rows
        BY <2>1 DEF ReadDue, DecideSkip, DecideRun, DecideRetry, Abandon, ReadEpoch
      <3> QED BY <2>1, <3>1, WorkerReads, SameRows DEF Kinds
    <2>2. CASE CommitFiring(w) BY <2>2, CommitFiringKeeps, CommitFiringKind
    <2>3. CASE Activate(w) BY <2>3, ActivateKeeps, ActivateKind
    <2> QED BY <2>1, <2>2, <2>3 DEF Step
  <1>3. CASE \E x \in Host, v \in Version : StartRun(x, v)
    <2> PICK x \in Host, v \in Version : StartRun(x, v) BY <1>3
    <2>1. /\ Inv' /\ ~rows.stopped
          /\ \E d : /\ Good(d, handed) /\ Drains(rows, d)
                    /\ \/ rows' = d
                       \/ rows' = WithRun(d, HostId(x), NewRun(d, v))
      BY StartRunKeeps
    <2>2. HostId(x) \notin DOMAIN rows.run BY DEF StartRun
    <2>3. HostStarts(rows, rows') BY <2>1, <2>2 DEF HostStarts
    <2> QED BY <2>1, <2>3 DEF Kinds, Frozen
  <1>4. CASE \E i \in DOMAIN rows.run :
                \/ Cancel(i)
                \/ \E outcome \in {"Completed", "Faulted", "Cancelled"} : Finish(i, outcome)
    <2> PICK i \in DOMAIN rows.run :
                \/ Cancel(i)
                \/ \E outcome \in {"Completed", "Faulted", "Cancelled"} : Finish(i, outcome)
      BY <1>4
    <2>1. CASE Cancel(i) BY <2>1, CancelKeeps DEF Kinds, Frozen
    <2>2. CASE \E outcome \in {"Completed", "Faulted", "Cancelled"} : Finish(i, outcome)
      BY <2>2, FinishKeeps DEF Kinds, Frozen
    <2> QED BY <2>1, <2>2
  <1>5. CASE Pause BY <1>5, PauseKeeps DEF Kinds, Frozen
  <1>6. CASE Resume BY <1>6, ResumeKeeps DEF Kinds, Frozen
  <1>7. CASE Stop \/ \E late \in BOOLEAN : ClearStop(late)
    BY <1>7, StopKeeps DEF Kinds, Frozen
  <1>8. CASE \E n \in rows.notice : Acknowledge(n)
    BY <1>8, AcknowledgeKeeps DEF Kinds, Frozen, SameSchedule
  <1>9. CASE Tick
    <2>1. rows' = rows /\ plan' = plan /\ handed' = handed /\ now' = now + 1 BY <1>9 DEF Tick
    <2>2. Inv' BY <2>1 DEF Inv
    <2> QED BY <2>1, <2>2, SameRows DEF Kinds
  <1> QED BY <1>1, <1>2, <1>3, <1>4, <1>5, <1>6, <1>7, <1>8, <1>9 DEF Next

\* The invariant holds in every state.
THEOREM Invariance == Spec => []Inv
  <1>1. Init => Inv BY InitInv
  <1>2. Inv /\ [Next]_vars => Inv' BY NextKinds
  <1> QED BY <1>1, <1>2, PTL DEF Spec

-----------------------------------------------------------------------------
(* The invariants.                                                         *)

\* A buffered slot is of an armed trigger of the epoch, of the active version,
\* and nothing bars its run, so that no drain in a run's end can fail on it.
THEOREM SlotsAreArmed == Spec => []QueueIsArmed
  <1>1. Inv => QueueIsArmed BY DEF Inv, Good, Sched, QueueIsArmed, Queues, Armed, Barred
  <1> QED BY <1>1, Invariance, PTL

\* While a slot is buffered, a run of its trigger is live, the definition is at
\* its ceiling, or a deferred drain is recorded.
THEOREM SlotsAreKept == Spec => []NoForgottenSlot
  <1>1. Inv => NoForgottenSlot BY DEF Inv, Waits, Ready, NoForgottenSlot, Queues
  <1> QED BY <1>1, Invariance, PTL

\* The rows have their types.
LEMMA InvTypes ==
    ASSUME Inv
    PROVE  TypeOK
  <1>1. rows \in Rows /\ Sched(rows) /\ Reported(rows, handed) /\ rows.epoch <= MaxEpoch
    BY DEF Inv, Good
  <1>2. rows.active \in Version \cup {None} /\ rows.epoch \in Nat /\ MaxEpoch \in Nat
    BY <1>1, ScheduleAssumption DEF Rows
  <1>3. rows.epoch \in 0..MaxEpoch BY <1>1, <1>2
  <1>4. \A k \in Key :
          /\ rows.trigger[k] \in Trigger \cup {None}
          /\ rows.queue[k] # None => rows.queue[k].version \in Version
    <2> SUFFICES ASSUME NEW k \in Key
                 PROVE  /\ rows.trigger[k] \in Trigger \cup {None}
                        /\ rows.queue[k] # None => rows.queue[k].version \in Version
      OBVIOUS
    <2>1. rows.trigger[k] \in Trigger \cup {None} /\ rows.queue[k] \in Slot \cup {None}
      BY <1>1 DEF Rows
    <2>2. rows.queue[k] \in Slot => rows.queue[k].version \in Version BY DEF Slot
    <2> QED BY <2>1, <2>2
  <1>5. \A i \in DOMAIN rows.run : rows.run[i] \in RunRow BY <1>1, RunMapFacts DEF Rows
  <1>6. \A i \in DOMAIN rows.run : /\ rows.run[i].version \in Version
                                   /\ rows.run[i].rearm \in Trigger \cup {None}
    BY <1>5 DEF RunRow
  <1>7. \A n \in rows.notice \cup handed : n.epoch \in 1..rows.epoch BY <1>1 DEF Reported
  <1>8. rows.owned = Armed(rows) BY <1>1 DEF Sched
  <1> QED BY <1>2, <1>3, <1>4, <1>6, <1>7, <1>8 DEF TypeOK

\* Trips disarm, pauses can be resumed, and every trip is reported, once.
THEOREM Soundness == Spec => []ScheduleIsSound
  <1>1. Inv => ScheduleIsSound
    <2> SUFFICES ASSUME Inv PROVE ScheduleIsSound
      OBVIOUS
    <2>1. rows \in Rows /\ Sched(rows) /\ Reported(rows, handed) BY DEF Inv, Good
    <2>2. QueueIsArmed BY <2>1 DEF Sched, QueueIsArmed, Queues, Armed, Barred
    <2>3. TripDisarms
      BY <2>1 DEF Sched, PausedOK, TripDisarms, Armed, Queues, BreakerTrip
    <2>4. PauseIsResumable BY <2>1 DEF Sched, PausedOK, PauseIsResumable
    <2>5. TripIsReported BY <2>1 DEF Reported, TripIsReported
    <2> QED BY <2>2, <2>3, <2>4, <2>5, InvTypes DEF ScheduleIsSound
  <1> QED BY <1>1, Invariance, PTL

-----------------------------------------------------------------------------
(* What a step may never do.                                               *)

ByTrigger(s, t) == {i \in FreshLive(s, t) : t.run[i].key # None}

\* The runs a trigger starts stay under the ceiling, overlap none that the
\* policy excludes, and go after what was buffered.
Admits(s, t) ==
    /\ ByTrigger(s, t) # {} =>
          Cardinality(Live(t) \ (FreshLive(s, t) \ ByTrigger(s, t))) <= Ceiling
    /\ \A i \in ByTrigger(s, t) :
          LET k == t.run[i].key
          IN  /\ Overlap[t.run[i].version] # "Allow" => TriggerLive(t, k) = {i}
              /\ s.queue[k] # None => s.queue[k].id \in DOMAIN t.run

\* A drain whose buffered slots are those of s, or gone.
LEMMA DrainAdmits ==
    ASSUME NEW s, NEW u, NEW t, DOMAIN u.run = DOMAIN s.run, Drains(u, t),
           \A k \in Key : u.queue[k] = None \/ s.queue[k] = None \/ u.queue[k] = s.queue[k]
    PROVE  Admits(s, t)
  <1>1. FreshLive(s, t) = FreshLive(u, t) BY DEF FreshLive, Fresh
  <1>2. \A i \in FreshLive(s, t) :
            LET k == t.run[i].key
            IN  /\ k \in Key /\ u.queue[k] # None /\ u.queue[k].id = i
                /\ TriggerLive(t, k) = {i}
    BY <1>1 DEF Drains
  <1>3. ByTrigger(s, t) = FreshLive(s, t) BY <1>2, NoneAssumption DEF ByTrigger
  <1>4. Live(t) \ (FreshLive(s, t) \ ByTrigger(s, t)) = Live(t) BY <1>3
  <1>5. ByTrigger(s, t) # {} => Cardinality(Live(t)) <= Ceiling BY <1>1, <1>3 DEF Drains
  <1>6. FreshLive(s, t) \subseteq DOMAIN t.run BY DEF FreshLive, Fresh
  <1>7. \A i \in ByTrigger(s, t) :
            LET k == t.run[i].key
            IN  /\ Overlap[t.run[i].version] # "Allow" => TriggerLive(t, k) = {i}
                /\ s.queue[k] # None => s.queue[k].id \in DOMAIN t.run
    <2> SUFFICES ASSUME NEW i \in FreshLive(s, t), NEW k, k = t.run[i].key
                 PROVE  /\ TriggerLive(t, k) = {i}
                        /\ s.queue[k] # None => s.queue[k].id \in DOMAIN t.run
      BY <1>3
    <2>1. k \in Key /\ u.queue[k] # None /\ u.queue[k].id = i /\ TriggerLive(t, k) = {i}
      BY <1>2
    <2> QED BY <1>6, <2>1
  <1> QED BY <1>4, <1>5, <1>7 DEF Admits

\* A host's start counts toward no trigger.
LEMMA HostAdmits ==
    ASSUME NEW s, NEW t, HostStarts(s, t)
    PROVE  Admits(s, t)
  <1> PICK d, x, v : /\ Good(d, handed) /\ Drains(s, d) /\ v \in Version
                     /\ HostId(x) \notin DOMAIN s.run
                     /\ \/ t = d
                        \/ t = WithRun(d, HostId(x), NewRun(d, v))
    BY DEF HostStarts
  <1>1. Admits(s, d) BY DrainAdmits
  <1>2. CASE t = WithRun(d, HostId(x), NewRun(d, v))
    <2> DEFINE i == HostId(x)
               row == NewRun(d, v)
               r == [j \in DOMAIN d.run \cup {i} |-> IF j = i THEN row ELSE d.run[j]]
    <2>1. i \notin SlotIds BY DEF HostId, SlotIds, Key
    <2>2. i \notin DOMAIN d.run BY <2>1 DEF Drains, Fresh
    <2>3. row.live /\ row.key = None BY DEF NewRun
    <2>4. t = [d EXCEPT !.run = r] BY <1>2 DEF WithRun
    <2>5. DOMAIN r = DOMAIN d.run \cup {i} /\ r[i] = row /\ \A j \in DOMAIN d.run : r[j] = d.run[j]
      BY <2>2
    <2> HIDE DEF i, row, r
    <2>6. t.run = r BY <2>4 DEF Good, Rows
    <2>7. FreshLive(s, t) = FreshLive(s, d) \cup {i}
      BY <2>2, <2>3, <2>5, <2>6 DEF FreshLive, Fresh, Drains, i
    <2>8. ByTrigger(s, t) = ByTrigger(s, d)
      BY <2>2, <2>3, <2>5, <2>6, <2>7 DEF ByTrigger, FreshLive, Fresh
    <2>9. Live(t) = Live(d) \cup {i} /\ i \notin Live(d) /\ i \notin ByTrigger(s, d)
            /\ i \notin FreshLive(s, d)
      BY <2>2, <2>3, <2>5, <2>6 DEF Live, ByTrigger, FreshLive, Fresh
    <2>10. Live(t) \ (FreshLive(s, t) \ ByTrigger(s, t))
             = Live(d) \ (FreshLive(s, d) \ ByTrigger(s, d))
      BY <2>7, <2>8, <2>9
    <2>11. \A j \in ByTrigger(s, d) :
              /\ t.run[j] = d.run[j] /\ d.run[j].key # None
              /\ TriggerLive(t, d.run[j].key) = TriggerLive(d, d.run[j].key)
      BY <2>3, <2>5, <2>6, <2>9 DEF TriggerLive, Live, ByTrigger, FreshLive, Fresh
    <2>12. DOMAIN d.run \subseteq DOMAIN t.run BY <2>5, <2>6
    <2>13. ByTrigger(s, t) # {} =>
              Cardinality(Live(t) \ (FreshLive(s, t) \ ByTrigger(s, t))) <= Ceiling
      BY <1>1, <2>8, <2>10 DEF Admits
    <2>14. \A j \in ByTrigger(s, t) :
              LET k == t.run[j].key
              IN  /\ Overlap[t.run[j].version] # "Allow" => TriggerLive(t, k) = {j}
                  /\ s.queue[k] # None => s.queue[k].id \in DOMAIN t.run
      <3> SUFFICES ASSUME NEW j \in ByTrigger(s, d), NEW k, k = t.run[j].key
                   PROVE  /\ Overlap[t.run[j].version] # "Allow" => TriggerLive(t, k) = {j}
                          /\ s.queue[k] # None => s.queue[k].id \in DOMAIN t.run
        BY <2>8
      <3>1. t.run[j] = d.run[j] /\ TriggerLive(t, k) = TriggerLive(d, k) BY <2>11
      <3>2. /\ Overlap[d.run[j].version] # "Allow" => TriggerLive(d, d.run[j].key) = {j}
            /\ s.queue[d.run[j].key] # None => s.queue[d.run[j].key].id \in DOMAIN d.run
        BY <1>1 DEF Admits
      <3> QED BY <2>12, <3>1, <3>2
    <2> QED BY <2>13, <2>14 DEF Admits
  <1> QED BY <1>1, <1>2

\* A firing, and the drain before it.
LEMMA FiredAdmits ==
    ASSUME NEW s, Good(s, handed), NEW t, Finite(t), NEW f \in Commit, Fired(s, t, f)
    PROVE  Admits(s, t)
  <1> PICK d : /\ Good(d, handed) /\ Drains(s, d)
               /\ \/ t = d
                  \/ d.trigger[f.key] = f.expected /\ Fires(d, t, f)
    BY DEF Fired
  <1>1. Admits(s, d) BY DrainAdmits
  <1>2. f.key \in Key /\ f.expected # None BY NoneAssumption DEF Commit
  <1>3. CASE d.trigger[f.key] = f.expected /\ Fires(d, t, f)
    <2>1. FreshLive(s, t) \subseteq FreshLive(s, d) \cup FreshLive(d, t)
      BY <1>3 DEF FreshLive, Fresh, Fires
    <2>2. \A i \in FreshLive(s, d) :
             LET k == d.run[i].key
             IN  /\ k \in Key /\ s.queue[k] # None /\ s.queue[k].id = i
                 /\ TriggerLive(d, k) = {i}
      BY DEF Drains
    <2>3. \A i \in FreshLive(d, t) : t.run[i].key = f.key BY <1>3 DEF Fires
    <2>4. \A i \in FreshLive(s, t) \cap FreshLive(s, d) : t.run[i] = d.run[i]
      BY <1>3 DEF FreshLive, Fresh, Fires
    <2>5. ByTrigger(s, t) = FreshLive(s, t)
      BY <1>2, <2>1, <2>2, <2>3, <2>4, NoneAssumption DEF ByTrigger
    <2>6. Live(t) \subseteq Live(d) \cup FreshLive(d, t)
      BY <1>3 DEF Live, FreshLive, Fresh, Fires
    <2>7. Live(t) \ (FreshLive(s, t) \ ByTrigger(s, t)) = Live(t) BY <2>5
    <2>8. FreshLive(s, t) # {} => Cardinality(Live(t)) <= Ceiling
      <3>1. CASE FreshLive(d, t) # {} BY <1>3, <3>1 DEF Fires
      <3>2. CASE FreshLive(d, t) = {} /\ FreshLive(s, t) # {}
        <4>1. Cardinality(Live(d)) <= Ceiling BY <2>1, <3>2 DEF Drains
        <4>2. IsFiniteSet(Live(d)) BY FS_Subset DEF Good, Finite, Live
        <4>3. IsFiniteSet(Live(t)) /\ Cardinality(Live(t)) <= Cardinality(Live(d))
          BY <2>6, <3>2, <4>2, FS_Subset
        <4>4. Cardinality(Live(t)) \in Nat /\ Cardinality(Live(d)) \in Nat /\ Ceiling \in Nat
          BY <4>2, <4>3, FS_CardinalityType, ScheduleAssumption
        <4> QED BY <4>1, <4>3, <4>4
      <3> QED BY <3>1, <3>2
    <2>9. \A i \in FreshLive(s, t) :
             LET k == t.run[i].key
             IN  /\ Overlap[t.run[i].version] # "Allow" => TriggerLive(t, k) = {i}
                 /\ s.queue[k] # None => s.queue[k].id \in DOMAIN t.run
      <3> SUFFICES ASSUME NEW i \in FreshLive(s, t), NEW k, k = t.run[i].key
                   PROVE  /\ Overlap[t.run[i].version] # "Allow" => TriggerLive(t, k) = {i}
                          /\ s.queue[k] # None => s.queue[k].id \in DOMAIN t.run
        OBVIOUS
      <3>1. i \in DOMAIN t.run /\ t.run[i].live BY DEF FreshLive, Fresh
      <3>2. CASE i \in FreshLive(s, d)
        <4>1. t.run[i] = d.run[i] BY <2>4, <3>2
        <4>2. k \in Key /\ s.queue[k] # None /\ s.queue[k].id = i /\ TriggerLive(d, k) = {i}
          BY <2>2, <3>2, <4>1
        <4>3. Overlap[s.active] = "Queue" BY <4>2 DEF Good, Sched
        <4>4. d.active = s.active BY DEF Drains, Keeps
        <4>5. \A j \in FreshLive(d, t) : t.run[j].key # k
          <5> SUFFICES ASSUME NEW j \in FreshLive(d, t), t.run[j].key = k PROVE FALSE
            OBVIOUS
          <5>1. /\ t.run[j].version = d.active /\ k = f.key
                /\ Overlap[t.run[j].version] # "Allow" => TriggerLive(t, f.key) = {j}
            BY <1>3, <2>3 DEF Fires
          <5>2. TriggerLive(t, k) = {j} BY <4>3, <4>4, <5>1
          <5>3. i \in TriggerLive(t, k) BY <3>1 DEF TriggerLive, Live
          <5>4. i \in DOMAIN d.run /\ j \notin DOMAIN d.run BY <3>2 DEF FreshLive, Fresh
          <5> QED BY <5>2, <5>3, <5>4
        <4>6. TriggerLive(t, k) \subseteq TriggerLive(d, k)
          BY <1>3, <2>6, <4>5 DEF TriggerLive, Live, FreshLive, Fresh, Fires
        <4>7. i \in TriggerLive(t, k) BY <3>1 DEF TriggerLive, Live
        <4> QED BY <3>1, <4>2, <4>6, <4>7
      <3>3. CASE i \in FreshLive(d, t)
        <4>1. /\ k = f.key /\ d.queue[k] = None
              /\ Overlap[t.run[i].version] # "Allow" => TriggerLive(t, k) = {i}
          BY <1>3, <3>3 DEF Fires
        <4>2. ~Disarmed(d) BY <1>2, <1>3 DEF Disarmed
        <4>3. s.queue[k] # None => s.queue[k].id \in DOMAIN d.run
          BY <1>2, <4>1, <4>2 DEF Drains
        <4>4. DOMAIN d.run \subseteq DOMAIN t.run BY <1>3 DEF Fires
        <4> QED BY <4>1, <4>3, <4>4
      <3> QED BY <2>1, <3>2, <3>3
    <2> QED BY <2>5, <2>7, <2>8, <2>9 DEF Admits
  <1> QED BY <1>1, <1>3

\* The end of a run.
LEMMA EndingAdmits ==
    ASSUME NEW s, NEW t, NEW i \in DOMAIN s.run, Ending(s, t, i)
    PROVE  Admits(s, t)
  <1> PICK b, u : /\ Keeps(s, b) /\ b.run = s.run
                  /\ SameSchedule(s, b) \/ Disarmed(b)
                  /\ Ends(b, u, {i}) /\ Drains(u, t)
    BY DEF Ending
  <1>1. DOMAIN u.run = DOMAIN s.run BY DEF Ends
  <1>2. \A k \in Key : u.queue[k] = None \/ u.queue[k] = s.queue[k]
    BY DEF Ends, SameSchedule, Disarmed
  <1> QED BY <1>1, <1>2, DrainAdmits

\* A step that starts and ends nothing but for its drain.
LEMMA QuietAdmits ==
    ASSUME NEW s, Sched(s), NEW t, Quiet(s, t)
    PROVE  Admits(s, t)
  <1> PICK u : /\ Sched(u) /\ u.run = s.run
               /\ \/ SameSchedule(s, u)
                  \/ \A k \in Key : s.trigger[k] = None
                  \/ \A k \in Key : u.trigger[k] = None
               /\ Drains(u, t)
    BY DEF Quiet
  <1>1. \A k \in Key : u.queue[k] = None \/ s.queue[k] = None \/ u.queue[k] = s.queue[k]
    BY DEF Sched, SameSchedule
  <1> QED BY <1>1, DrainAdmits

\* Every step.
LEMMA NextAdmits ==
    ASSUME Inv, [Next]_vars
    PROVE  Admits(rows, rows')
  <1>1. Inv' /\ Kinds BY NextKinds
  <1>2. Good(rows, handed) /\ Sched(rows) /\ Finite(rows') BY <1>1 DEF Inv, Good
  <1>3. CASE Quiet(rows, rows') BY <1>2, <1>3, QuietAdmits
  <1>4. CASE HostStarts(rows, rows') BY <1>4, HostAdmits
  <1>5. CASE \E i \in Live(rows) : Ending(rows, rows', i) BY <1>5, EndingAdmits DEF Live
  <1>6. CASE \E f \in Committed \cap Commit : Fired(rows, rows', f)
    BY <1>2, <1>6, FiredAdmits
  <1>7. CASE rows'.epoch # rows.epoch /\ rows'.run = rows.run
    <2>1. ByTrigger(rows, rows') = {} BY <1>7 DEF ByTrigger, FreshLive, Fresh
    <2> QED BY <2>1 DEF Admits
  <1> QED BY <1>1, <1>3, <1>4, <1>5, <1>6, <1>7 DEF Kinds

\* The runs that end, or are stored ended, from s to t.
Ended(s, t) == {i \in DOMAIN t.run : ~t.run[i].live /\ (i \in DOMAIN s.run => s.run[i].live)}

\* Within the epoch only runs of the epoch count as faults, and a trigger that
\* stays armed is moved by the firing that read it, or by the run it waits for.
Isolates(s, t) ==
    t.epoch = s.epoch =>
        /\ t.faults > s.faults => \E i \in Ended(s, t) : t.run[i].epoch = s.epoch
        /\ \A k \in Armed(s) \cap Armed(t) :
              t.trigger[k] # s.trigger[k] =>
                 \/ \E i \in Ended(s, t) : t.run[i].rearm = s.trigger[k]
                 \/ \E f \in Committed : f.expected = s.trigger[k]

\* A step whose schedule is that of s, or gone, but for its drain.
LEMMA QuietIsolates ==
    ASSUME NEW s, NEW t, Quiet(s, t)
    PROVE  Isolates(s, t)
  <1> PICK u : /\ Sched(u) /\ u.epoch = s.epoch /\ u.run = s.run /\ u.faults = s.faults
               /\ \/ SameSchedule(s, u)
                  \/ \A k \in Key : s.trigger[k] = None
                  \/ \A k \in Key : u.trigger[k] = None
               /\ Drains(u, t)
    BY DEF Quiet
  <1>1. t.faults > s.faults => \E i \in Ended(s, t) : t.run[i].epoch = s.epoch
    BY DEF Drains, Fresh, Ended
  <1>2. t.trigger = u.trigger \/ \A k \in Key : t.trigger[k] = None BY DEF Drains, Disarmed
  <1>3. \A k \in Armed(s) \cap Armed(t) : t.trigger[k] = s.trigger[k]
    BY <1>2 DEF Armed, SameSchedule
  <1> QED BY <1>1, <1>3 DEF Isolates

\* A host's start.
LEMMA HostIsolates ==
    ASSUME NEW s, NEW t, HostStarts(s, t)
    PROVE  Isolates(s, t)
  <1> PICK d, x, v : /\ Good(d, handed) /\ Drains(s, d) /\ v \in Version
                     /\ \/ t = d
                        \/ t = WithRun(d, HostId(x), NewRun(d, v))
    BY DEF HostStarts
  <1> DEFINE i == HostId(x)
             row == NewRun(d, v)
             r == [j \in DOMAIN d.run \cup {i} |-> IF j = i THEN row ELSE d.run[j]]
  <1>1. i \notin SlotIds BY DEF HostId, SlotIds, Key
  <1>2. i \notin Fresh(s, d) BY <1>1 DEF Drains
  <1>3. t = d \/ t = [d EXCEPT !.run = r] BY DEF WithRun
  <1>4. \A j \in DOMAIN d.run \ {i} : r[j] = d.run[j] OBVIOUS
  <1>5. DOMAIN d.run \subseteq DOMAIN r OBVIOUS
  <1> HIDE DEF i, row, r
  <1>6. t.faults = d.faults /\ t.trigger = d.trigger BY <1>3 DEF Good, Rows
  <1>7. DOMAIN d.run \subseteq DOMAIN t.run /\ \A j \in DOMAIN d.run \ {i} : t.run[j] = d.run[j]
    BY <1>3, <1>4, <1>5 DEF Good, Rows
  <1>8. t.faults > s.faults => \E j \in Ended(s, t) : t.run[j].epoch = s.epoch
    <2> SUFFICES ASSUME t.faults > s.faults
                 PROVE  \E j \in Ended(s, t) : t.run[j].epoch = s.epoch
      OBVIOUS
    <2>1. PICK j \in Fresh(s, d) : ~d.run[j].live /\ d.run[j].epoch = s.epoch
      BY <1>6 DEF Drains
    <2>2. j \in DOMAIN d.run /\ j \notin DOMAIN s.run /\ j # i BY <1>2, <2>1 DEF Fresh
    <2>3. j \in Ended(s, t) BY <1>7, <2>1, <2>2 DEF Ended
    <2> QED BY <1>7, <2>1, <2>2, <2>3
  <1>9. \A k \in Armed(s) \cap Armed(t) : t.trigger[k] = s.trigger[k]
    BY <1>6 DEF Armed, Drains, Disarmed
  <1> QED BY <1>8, <1>9 DEF Isolates

\* A firing, and the drain before it.
LEMMA FiredIsolates ==
    ASSUME NEW s \in Rows, NEW t \in Rows, NEW f \in Commit, f \in Committed, Fired(s, t, f)
    PROVE  Isolates(s, t)
  <1> PICK d : /\ Good(d, handed) /\ Drains(s, d)
               /\ \/ t = d
                  \/ d.trigger[f.key] = f.expected /\ Fires(d, t, f)
    BY DEF Fired
  <1>1. f.key \in Key /\ f.expected # None BY NoneAssumption DEF Commit
  <1>2. CASE t = d
    <2>1. t.faults > s.faults => \E i \in Ended(s, t) : t.run[i].epoch = s.epoch
      BY <1>2 DEF Drains, Fresh, Ended
    <2>2. \A k \in Armed(s) \cap Armed(t) : t.trigger[k] = s.trigger[k]
      BY <1>2 DEF Armed, Drains, Disarmed
    <2> QED BY <2>1, <2>2 DEF Isolates
  <1>3. CASE d.trigger[f.key] = f.expected /\ Fires(d, t, f)
    <2>1. ~Disarmed(d) BY <1>1, <1>3 DEF Disarmed
    <2>2. d.trigger = s.trigger BY <2>1 DEF Drains
    <2>3. \A i \in DOMAIN s.run : i \in DOMAIN d.run /\ d.run[i] = s.run[i] BY DEF Drains
    <2>4. \A i \in DOMAIN d.run :
            /\ i \in DOMAIN t.run
            /\ \/ t.run[i] = d.run[i]
               \/ d.run[i].live /\ ~t.run[i].live /\ t.run[i].rearm = d.run[i].rearm
      BY <1>3 DEF Fires
    <2>5. t.faults > s.faults => \E i \in Ended(s, t) : t.run[i].epoch = s.epoch
      <3> SUFFICES ASSUME t.faults > s.faults
                   PROVE  \E i \in Ended(s, t) : t.run[i].epoch = s.epoch
        OBVIOUS
      <3>1. CASE d.faults > s.faults
        <4>1. PICK i \in Fresh(s, d) : ~d.run[i].live /\ d.run[i].epoch = s.epoch
          BY <3>1 DEF Drains
        <4>2. i \in DOMAIN d.run /\ i \notin DOMAIN s.run BY DEF Fresh
        <4>3. i \in DOMAIN t.run /\ t.run[i] = d.run[i] BY <2>4, <4>1, <4>2
        <4> QED BY <4>1, <4>2, <4>3 DEF Ended
      <3>2. CASE t.faults > d.faults
        <4>1. PICK i \in Fresh(d, t) : ~t.run[i].live /\ t.run[i].epoch = d.epoch
          BY <1>3, <3>2 DEF Fires
        <4>2. i \in DOMAIN t.run /\ i \notin DOMAIN s.run BY <2>3 DEF Fresh
        <4>3. d.epoch = s.epoch BY DEF Drains, Keeps
        <4> QED BY <4>1, <4>2, <4>3 DEF Ended
      <3>3. s.faults \in Nat /\ d.faults \in Nat /\ t.faults \in Nat BY DEF Good, Rows
      <3> QED BY <3>1, <3>2, <3>3
    <2>6. \A k \in Armed(s) \cap Armed(t) :
            t.trigger[k] # s.trigger[k] =>
               \/ \E i \in Ended(s, t) : t.run[i].rearm = s.trigger[k]
               \/ \E g \in Committed : g.expected = s.trigger[k]
      <3> SUFFICES ASSUME NEW k \in Armed(s) \cap Armed(t), t.trigger[k] # s.trigger[k]
                   PROVE  \/ \E i \in Ended(s, t) : t.run[i].rearm = s.trigger[k]
                          \/ \E g \in Committed : g.expected = s.trigger[k]
        OBVIOUS
      <3>1. CASE k = f.key BY <1>3, <2>2, <3>1
      <3>2. CASE k # f.key
        <4>1. ~Disarmed(t) BY DEF Armed, Disarmed
        <4>2. PICK i \in DOMAIN d.run :
                d.run[i].live /\ ~t.run[i].live /\ t.run[i].rearm = d.trigger[k]
          BY <1>3, <2>2, <3>2, <4>1 DEF Fires, Armed
        <4>3. i \in Ended(s, t) BY <2>3, <2>4, <4>2 DEF Ended
        <4> QED BY <2>2, <4>2, <4>3
      <3> QED BY <3>1, <3>2
    <2> QED BY <2>5, <2>6 DEF Isolates
  <1> QED BY <1>2, <1>3

\* The end of a run.
LEMMA EndingIsolates ==
    ASSUME NEW s \in Rows, NEW t \in Rows, NEW i \in Live(s), Ending(s, t, i)
    PROVE  Isolates(s, t)
  <1> PICK b, u : /\ Keeps(s, b) /\ b.run = s.run
                  /\ SameSchedule(s, b) \/ Disarmed(b)
                  /\ b.faults > s.faults => Counts(s, s.run[i])
                  /\ u.faults \in Nat /\ Ends(b, u, {i}) /\ Drains(u, t)
    BY DEF Ending
  <1>1. /\ DOMAIN u.run = DOMAIN s.run /\ u.epoch = s.epoch /\ u.faults = b.faults
        /\ ~u.run[i].live /\ u.run[i].rearm = s.run[i].rearm /\ u.run[i].epoch = s.run[i].epoch
    BY DEF Ends, Keeps
  <1>2. i \in DOMAIN s.run /\ s.run[i].live BY DEF Live
  <1>3. i \in DOMAIN t.run /\ t.run[i] = u.run[i] BY <1>1, <1>2 DEF Drains
  <1>4. i \in Ended(s, t) BY <1>1, <1>2, <1>3 DEF Ended
  <1>5. t.faults > s.faults => \E j \in Ended(s, t) : t.run[j].epoch = s.epoch
    <2>1. CASE t.faults > u.faults
      <3>1. PICK j \in Fresh(u, t) : ~t.run[j].live /\ t.run[j].epoch = u.epoch
        BY <2>1 DEF Drains
      <3>2. j \in Ended(s, t) BY <1>1, <3>1 DEF Fresh, Ended
      <3> QED BY <1>1, <3>1, <3>2
    <2>2. CASE b.faults > s.faults
      <3>1. s.run[i].epoch = s.epoch BY <2>2 DEF Counts
      <3> QED BY <1>1, <1>3, <1>4, <3>1
    <2>3. s.faults \in Nat /\ t.faults \in Nat BY DEF Rows
    <2> QED BY <1>1, <2>1, <2>2, <2>3
  <1>6. \A k \in Armed(s) \cap Armed(t) :
           t.trigger[k] # s.trigger[k] => t.run[i].rearm = s.trigger[k]
    <2> SUFFICES ASSUME NEW k \in Armed(s) \cap Armed(t), t.trigger[k] # s.trigger[k]
                 PROVE  t.run[i].rearm = s.trigger[k]
      OBVIOUS
    <2>1. k \in Key /\ t.trigger[k] # None /\ s.trigger[k] # None BY DEF Armed
    <2>2. t.trigger[k] = u.trigger[k] BY <2>1 DEF Drains, Disarmed
    <2>3. b.trigger[k] = s.trigger[k] BY <2>1, <2>2 DEF Ends, SameSchedule, Disarmed
    <2>4. b.run[i].rearm = s.trigger[k] BY <2>1, <2>2, <2>3 DEF Ends
    <2> QED BY <1>1, <1>3, <2>4
  <1> QED BY <1>4, <1>5, <1>6 DEF Isolates

\* Every step.
LEMMA NextIsolates ==
    ASSUME Inv, [Next]_vars
    PROVE  Isolates(rows, rows')
  <1>1. Inv' /\ Kinds BY NextKinds
  <1>2. rows \in Rows /\ rows' \in Rows BY <1>1 DEF Inv, Good
  <1>3. CASE Quiet(rows, rows') BY <1>3, QuietIsolates
  <1>4. CASE HostStarts(rows, rows') BY <1>4, HostIsolates
  <1>5. CASE \E i \in Live(rows) : Ending(rows, rows', i) BY <1>2, <1>5, EndingIsolates
  <1>6. CASE \E f \in Committed \cap Commit : Fired(rows, rows', f)
    BY <1>2, <1>6, FiredIsolates
  <1>7. CASE rows'.epoch # rows.epoch BY <1>7 DEF Isolates
  <1> QED BY <1>1, <1>3, <1>4, <1>5, <1>6, <1>7 DEF Kinds

\* The runs a step starts are those of Triggers' own definition.
LEMMA StartedRuns == Started = FreshLive(rows, rows') /\ StartedByTrigger = ByTrigger(rows, rows')
  <1>1. Started = FreshLive(rows, rows') BY DEF Started, FreshLive, Fresh
  <1> QED BY <1>1 DEF StartedByTrigger, ByTrigger

\* No schedule takes the definition past its ceiling, whatever a drain, a
\* replacement and a host's own start put into the same commit.
THEOREM Ceilings == Spec => CeilingHolds
  <1>1. Inv /\ [Next]_vars =>
          [StartedByTrigger # {} =>
              Cardinality(Live(rows') \ (Started \ StartedByTrigger)) <= Ceiling]_vars
    BY NextAdmits, StartedRuns DEF Admits
  <1> QED BY <1>1, Invariance, PTL DEF Spec, CeilingHolds

\* A trigger's run starts where no other run of the trigger is live.
LEMMA StepOverlapsNone ==
    ASSUME Inv, [Next]_vars
    PROVE  \A i \in StartedByTrigger :
              Overlap[rows'.run[i].version] # "Allow" =>
                  TriggerLive(rows', rows'.run[i].key) = {i}
  BY NextAdmits, StartedRuns DEF Admits

\* A buffered slot of the trigger goes before the slot that starts a run.
LEMMA StepKeepsOrder ==
    ASSUME Inv, [Next]_vars
    PROVE  \A i \in StartedByTrigger :
              LET q == rows.queue[rows'.run[i].key]
              IN  q # None => q.id \in DOMAIN rows'.run
  BY NextAdmits, StartedRuns DEF Admits

\* Nothing of an earlier epoch counts as a fault or moves a trigger.
LEMMA StepIsolates ==
    ASSUME Inv, [Next]_vars, rows'.epoch = rows.epoch
    PROVE  LET ended == {i \in DOMAIN rows'.run : ~rows'.run[i].live /\
                           (i \in DOMAIN rows.run => rows.run[i].live)}
               commits == {w \in Worker : plan[w] # None /\ plan'[w] = None}
           IN  /\ rows'.faults > rows.faults =>
                     \E i \in ended : rows'.run[i].epoch = rows.epoch
               /\ \A k \in Armed(rows) \cap Armed(rows') :
                     rows'.trigger[k] # rows.trigger[k] =>
                        \/ \E i \in ended : rows'.run[i].rearm = rows.trigger[k]
                        \/ \E w \in commits : /\ plan[w].step = "fire"
                                              /\ plan[w].expected = rows.trigger[k]
  <1> DEFINE ended == {i \in DOMAIN rows'.run : ~rows'.run[i].live /\
                           (i \in DOMAIN rows.run => rows.run[i].live)}
             commits == {w \in Worker : plan[w] # None /\ plan'[w] = None}
  <1>1. Isolates(rows, rows') BY NextIsolates
  <1>2. ended = Ended(rows, rows') BY DEF Ended
  <1>3. \A g : (\E f \in Committed : f.expected = g) =>
                 \E w \in commits : plan[w].step = "fire" /\ plan[w].expected = g
    BY DEF Committed
  <1> HIDE DEF ended, commits
  <1>4. rows'.faults > rows.faults => \E i \in ended : rows'.run[i].epoch = rows.epoch
    BY <1>1, <1>2 DEF Isolates
  <1>5. \A k \in Armed(rows) \cap Armed(rows') :
          rows'.trigger[k] # rows.trigger[k] =>
             \/ \E i \in ended : rows'.run[i].rearm = rows.trigger[k]
             \/ \E w \in commits : /\ plan[w].step = "fire"
                                   /\ plan[w].expected = rows.trigger[k]
    BY <1>1, <1>2, <1>3 DEF Isolates
  <1> QED BY <1>4, <1>5 DEF ended, commits

\* Each firing acts on the trigger it read, in its own epoch, overlaps no run,
\* leaves no buffered slot behind, and none happens under a stop.
THEOREM Firings == Spec => FiringsAreSound
  <1>1. Inv /\ [Next]_vars =>
          [rows'.epoch = rows.epoch =>
             LET ended == {i \in DOMAIN rows'.run : ~rows'.run[i].live /\
                              (i \in DOMAIN rows.run => rows.run[i].live)}
                 commits == {w \in Worker : plan[w] # None /\ plan'[w] = None}
             IN  /\ rows'.faults > rows.faults =>
                       \E i \in ended : rows'.run[i].epoch = rows.epoch
                 /\ \A k \in Armed(rows) \cap Armed(rows') :
                       rows'.trigger[k] # rows.trigger[k] =>
                          \/ \E i \in ended : rows'.run[i].rearm = rows.trigger[k]
                          \/ \E w \in commits : /\ plan[w].step = "fire"
                                                /\ plan[w].expected = rows.trigger[k]]_vars
    BY StepIsolates
  <1>2. Inv /\ [Next]_vars =>
          [\A i \in StartedByTrigger :
              Overlap[rows'.run[i].version] # "Allow" =>
                  TriggerLive(rows', rows'.run[i].key) = {i}]_vars
    BY StepOverlapsNone
  <1>3. Inv /\ [Next]_vars =>
          [\A i \in StartedByTrigger :
              LET q == rows.queue[rows'.run[i].key]
              IN  q # None => q.id \in DOMAIN rows'.run]_vars
    BY StepKeepsOrder
  <1>4. Inv /\ [Next]_vars =>
          [rows.stopped /\ rows'.stopped =>
              /\ DOMAIN rows'.run = DOMAIN rows.run
              /\ rows'.epoch = rows.epoch /\ rows'.trip = rows.trip =>
                    /\ rows'.queue = rows.queue
                    /\ \A k \in Key : rows'.trigger[k] = rows.trigger[k]
                                        \/ rows.trigger[k].at = None]_vars
    BY NextKinds DEF Frozen
  <1>5. Spec => EpochsAreIsolated BY <1>1, Invariance, PTL DEF Spec, EpochsAreIsolated
  <1>6. Spec => NoOverlap BY <1>2, Invariance, PTL DEF Spec, NoOverlap
  <1>7. Spec => BufferedFirst BY <1>3, Invariance, PTL DEF Spec, BufferedFirst
  <1>8. Spec => StopIsFinal BY <1>4, Invariance, PTL DEF Spec, StopIsFinal
  <1> QED BY <1>5, <1>6, <1>7, <1>8 DEF FiringsAreSound

=============================================================================
