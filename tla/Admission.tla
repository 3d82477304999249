------------------------------ MODULE Admission ------------------------------
(***************************************************************************)
(* How runs come to be: started by a caller, by a `run: workflow` task, by *)
(* the reserved start_child, or by a host function of a run (execution.rs  *)
(* sections 1 and 4).                                                      *)
(*                                                                         *)
(* Every start reads first and commits later: the row under its id, the    *)
(* catalog, the health of the definition on this host, and then one store  *)
(* transaction that looks again. Between the two another process starts    *)
(* the same id, takes the parent over, holds or cancels it, or trips the   *)
(* definition. A task is dispatched again after a crash (same reference)   *)
(* and retried (its own reference).                                        *)
(*                                                                         *)
(* Child ids are modelled as what they hash: the starting run, the call's  *)
(* reference and, for a host child, its key. Input is left out: no start   *)
(* compares it.                                                            *)
(***************************************************************************)
EXTENDS Naturals, FiniteSets

CONSTANTS None, Roots, Names, MaxVersion, Task, Attempts, Procs, MaxGen,
          Hosts,      \* host data callers and handlers may give, None included
          Big,        \* host data past MAX_HOST_BYTES
          Declared,   \* the jump budget a definition declares, None for none
          Limits,     \* the ceilings a process may be configured with
          Ills,       \* what a definition's health may become on this host
          MaxIlls,    \* and how often
          Starts,     \* the starts callers make: root, name, version, host data
          Tripping,   \* the definitions whose breaker may trip
          Holdable,   \* the roots an operator may hold
          Endable     \* the definitions whose runs end within the instance

\* Tasks start definitions there are, ceilings are numbers, an ill is one of
\* the answers to an admission, and None is none.
AdmissionConstants ==
    /\ \A t \in DOMAIN Task : Task[t].kind \in {"run", "reserved", "host"} /\ Task[t].name \in Names
    /\ \A s \in Starts : s[1] \in Roots /\ s[2] \in Names
    /\ \A lim \in Limits : lim.depth \in Nat /\ lim.jumps \in Nat
    /\ \A n \in Names : Declared[n] \in Nat \union {None}
    /\ Ills \subseteq {"missing", "invalid", "unavailable"}
    /\ None \notin Nat

VARIABLES runs, catalog, ills, limits, proc

vars == <<runs, catalog, ills, limits, proc>>

(* Task: what each `run: workflow` task, start_child call or host call is: the
   definitions it appears in, the child's name, owned, inheriting host data. *)
Tasks == DOMAIN Task
Least(a, b) == IF a <= b THEN a ELSE b

-----------------------------------------------------------------------------
(* Ids (registry.rs child_id, host_child_id). The reference of a call is its
   task and its attempt. *)
RootId(r) == <<r>>
ChildId(run, ref) == <<"child", run, ref>>
HostChildId(run, ref, key) == <<"hostchild", run, ref, key>>

IdOf(run, t, ref) ==
    IF Task[t].kind = "host" THEN HostChildId(run, ref, Task[t].key) ELSE ChildId(run, ref)

(* ChildLink: the logical key, and the reference of the attempt. *)
LinkOf(run, t, ref) == [parent |-> run, key |-> t, reference |-> ref]

(* host_data: refused past MAX_HOST_BYTES, before anything is stored. *)
TooBig(host) == host = Big

(* Admission::joins. *)
Joins(row, name, version, host) ==
    /\ row.name = name
    /\ version # None => row.version = version
    /\ row.host = host

-----------------------------------------------------------------------------
(* Lineage: the jump budget pinned at admission and the nesting depth. A
   definition only tightens the budget. *)
Tighten(name, jumps) ==
    IF Declared[name] = None THEN jumps ELSE Least(Declared[name], jumps)

(* Lineage::of, and the definition's own budget on top. *)
Lineage(row, lim) == [jumps |-> Tighten(row.name, row.jumps), depth |-> row.depth]

TooDeep(lin, lim) == lin.depth + 1 > lim.depth

(* An independent run starts a tree of its own, one level deeper. *)
Child(lin, lim, owned) ==
    [jumps |-> IF owned THEN lin.jumps ELSE lim.jumps, depth |-> lin.depth + 1]

-----------------------------------------------------------------------------
(* Admitter::active_in and pinned_in: why a definition gives no admission
   now, or None. "unavailable" stands for a schema resolver or a catalog
   read that fails now; the others are definite. *)
Inadmissible(name, version) ==
    IF version = None /\ catalog[name].tripped THEN "tripped"
    ELSE IF version = None /\ catalog[name].active = 0 THEN "unknown"
    ELSE IF version # None /\ version > MaxVersion THEN "unknown"
    ELSE ills[name].now

Versioned(name, version) == IF version = None THEN catalog[name].active ELSE version

(* child_error and reserved_child_error: only these are interruptions. *)
Transient == {"unavailable", "lost", "stopped"}

(* Children::start maps every failure of the admitter to an answer the
   parent may catch. *)
RunTaskTransient == {"lost", "stopped"}

(* barred: a tripped definition admits no run of its active version. *)
Barred(row) == catalog[row.name].tripped /\ row.version = catalog[row.name].active

Row(name, version, host, lin, starter, lim, pinned) ==
    [name |-> name, version |-> version, host |-> host, jumps |-> lin.jumps,
     depth |-> lin.depth, link |-> None, ended |-> FALSE, held |-> FALSE, gen |-> 0,
     pinned |-> pinned, starter |-> starter, under |-> lim]

Idle == [pc |-> "idle", id |-> None, row |-> None, run |-> None, gen |-> 0,
         lin |-> None, task |-> None, ref |-> None, ask |-> None, there |-> FALSE]

Init ==
    /\ runs = <<>>
    /\ catalog = [n \in Names |-> [active |-> 1, tripped |-> FALSE]]
    /\ ills = [n \in Names |-> [now |-> None, n |-> 0]]
    /\ limits \in [Procs -> Limits]
    /\ proc = [p \in Procs |-> Idle]

-----------------------------------------------------------------------------
(* Runtime::start_with, start, start_at. *)

(* Host data is bounded before anything is read; an existing row is joined
   or refused; a fresh one is admitted by a later commit. *)
StartRead(p, start) ==
    LET s == [root |-> start[1], name |-> start[2], version |-> start[3], host |-> start[4]]
        id == RootId(s.root)
        asked == [Idle EXCEPT !.id = id, !.ask = s]
        row == Row(s.name, Versioned(s.name, s.version), s.host,
                   [jumps |-> limits[p].jumps, depth |-> 0], None, limits[p], s.version # None)
    IN
    /\ proc[p].pc = "idle"
    /\ IF TooBig(s.host) THEN proc' = [proc EXCEPT ![p] = [asked EXCEPT !.pc = "toobig"]]
       ELSE IF id \in DOMAIN runs
       THEN proc' = [proc EXCEPT ![p] = [asked EXCEPT !.pc =
                IF Joins(runs[id], s.name, s.version, s.host) THEN "joined" ELSE "mismatch"]]
       ELSE IF Inadmissible(s.name, s.version) # None
       THEN proc' = [proc EXCEPT ![p] = [asked EXCEPT !.pc = Inadmissible(s.name, s.version)]]
       ELSE proc' = [proc EXCEPT ![p] = [asked EXCEPT !.pc = "admit", !.row = row]]
    /\ UNCHANGED <<runs, catalog, ills, limits>>

(* engine.rs `admitted`, Join::Root. *)
RootJoins(p) ==
    LET row == proc[p].row IN
    Joins(runs[proc[p].id], row.name, IF row.pinned THEN row.version ELSE None, row.host)

Put(id, row) == [i \in DOMAIN runs \union {id} |-> IF i = id THEN row ELSE runs[i]]

(* RunStore::admit: in one transaction, the run of that id is joined or
   refused, a barred one refused. *)
StartCommit(p) ==
    LET id == proc[p].id IN
    /\ proc[p].pc = "admit"
    /\ IF id \in DOMAIN runs
       THEN /\ runs' = runs
            /\ proc' = [proc EXCEPT ![p].pc = IF RootJoins(p) THEN "joined" ELSE "mismatch"]
       ELSE IF Barred(proc[p].row)
       THEN runs' = runs /\ proc' = [proc EXCEPT ![p].pc = "tripped"]
       ELSE /\ runs' = Put(id, proc[p].row)
            /\ proc' = [proc EXCEPT ![p].pc = "joined"]
    /\ UNCHANGED <<catalog, ills, limits>>

Refusals == {"toobig", "mismatch", "missing", "invalid", "tripped", "unknown", "unavailable"}

(* The caller hears of it. *)
StartAnswer(p) ==
    /\ proc[p].ask # None /\ proc[p].pc \in Refusals \union {"joined"}
    /\ proc' = [proc EXCEPT ![p] = Idle]
    /\ UNCHANGED <<runs, catalog, ills, limits>>

-----------------------------------------------------------------------------
(* A worker drives a run (module Runs) under the budget pinned in it. *)
Claim(p, id) ==
    /\ proc[p].pc = "idle"
    /\ ~runs[id].ended /\ ~runs[id].held /\ runs[id].gen < MaxGen
    /\ runs' = [runs EXCEPT ![id].gen = @ + 1]
    /\ proc' = [proc EXCEPT ![p] = [Idle EXCEPT !.pc = "drive", !.run = id,
                    !.gen = runs[id].gen + 1, !.lin = Lineage(runs[id], limits[p])]]
    /\ UNCHANGED <<catalog, ills, limits>>

(* Altered: the fence is compared, the state of the run is not. *)
HoldsGeneration(p) == runs[proc[p].run].gen = proc[p].gen

(* The fence of the store's commits: current, live and not held. *)
Holds(p) ==
    LET r == runs[proc[p].run] IN r.gen = proc[p].gen /\ ~r.ended /\ ~r.held

(* What a task's start may compute: a handler's version and host data are
   its own; a workflow only inherits its parent's. *)
Computed(p, t) ==
    IF Task[t].kind = "host" THEN {None, 1} \X Hosts
    ELSE {<<None, IF Task[t].inherit THEN runs[proc[p].run].host ELSE None>>}

(* A dispatch of task t under its reference. *)
On(p, t, ref) ==
    LET id == IdOf(proc[p].run, t, ref) IN
    [proc[p] EXCEPT !.id = id, !.task = t, !.ref = ref, !.there = id \in DOMAIN runs]

(* A fresh child needs room below its parent, bounded host data and a
   definition this host admits. *)
Fresh(p, t, on, c) ==
    LET name == Task[t].name
        lin == Child(proc[p].lin, limits[p], Task[t].owned)
    IN  IF TooDeep(proc[p].lin, limits[p]) THEN [on EXCEPT !.pc = "depth"]
        ELSE IF TooBig(c[2]) THEN [on EXCEPT !.pc = "toobig"]
        ELSE IF Inadmissible(name, c[1]) # None
        THEN [on EXCEPT !.pc = Inadmissible(name, c[1])]
        ELSE [on EXCEPT !.pc = "commit",
                        !.row = Row(name, Versioned(name, c[1]), c[2], lin,
                                    proc[p].run, limits[p], c[1] # None)]

Joined(t, on) ==
    IF runs[on.id].name # Task[t].name THEN [on EXCEPT !.pc = "mismatch"]
    ELSE [on EXCEPT !.pc = "commit", !.row = runs[on.id]]

(* Children::start of `run: workflow`: a started child keeps the version it
   was admitted with. *)
RunTask(p, t, ref, c) ==
    LET on == On(p, t, ref) IN
    IF on.there THEN [on EXCEPT !.pc = "commit", !.row = runs[on.id]] ELSE Fresh(p, t, on, c)

(* The reserved start_child. *)
Reserved(p, t, ref, c) ==
    LET on == On(p, t, ref) IN IF on.there THEN Joined(t, on) ELSE Fresh(p, t, on, c)

(* HostChildren::start_child: the depth is checked before the row is read. *)
HostChild(p, t, ref, c) ==
    LET on == On(p, t, ref) IN
    IF TooDeep(proc[p].lin, limits[p]) THEN [on EXCEPT !.pc = "depth"]
    ELSE IF on.there THEN Joined(t, on) ELSE Fresh(p, t, on, c)

Dispatch(p, t, a) ==
    /\ proc[p].pc = "drive" /\ runs[proc[p].run].name \in Task[t].of
    /\ \E c \in Computed(p, t) :
         proc' = [proc EXCEPT ![p] =
             CASE Task[t].kind = "run" -> RunTask(p, t, <<t, a>>, c)
               [] Task[t].kind = "reserved" -> Reserved(p, t, <<t, a>>, c)
               [] Task[t].kind = "host" -> HostChild(p, t, <<t, a>>, c)]
    /\ UNCHANGED <<runs, catalog, ills, limits>>

(* RunStore::start_child: fenced; the definition, then the link, must be the
   stored child's; the first commit wins. *)
CommitOwned(p) ==
    LET id == proc[p].id
        link == LinkOf(proc[p].run, proc[p].task, proc[p].ref)
    IN
    /\ proc[p].pc = "commit" /\ Task[proc[p].task].owned
    /\ IF ~Holds(p) THEN runs' = runs /\ proc' = [proc EXCEPT ![p].pc = "lost"]
       ELSE IF id \in DOMAIN runs
       THEN /\ runs' = runs
            /\ proc' = [proc EXCEPT ![p].pc =
                  IF runs[id].name = proc[p].row.name /\ runs[id].link = link
                  THEN "joined" ELSE "mismatch"]
       ELSE IF Barred(proc[p].row)
       THEN runs' = runs /\ proc' = [proc EXCEPT ![p].pc = "tripped"]
       ELSE /\ runs' = Put(id, [proc[p].row EXCEPT !.link = link])
            /\ proc' = [proc EXCEPT ![p].pc = "joined"]
    /\ UNCHANGED <<catalog, ills, limits>>

(* `await: false`: RunStore::admit, which has no fence. *)
CommitFree(p) ==
    LET id == proc[p].id IN
    /\ proc[p].pc = "commit" /\ ~Task[proc[p].task].owned
    /\ IF id \in DOMAIN runs
       THEN runs' = runs /\ proc' = [proc EXCEPT ![p].pc = "joined"]
       ELSE IF Barred(proc[p].row)
       THEN runs' = runs /\ proc' = [proc EXCEPT ![p].pc = "tripped"]
       ELSE /\ runs' = Put(id, proc[p].row)
            /\ proc' = [proc EXCEPT ![p].pc = "joined"]
    /\ UNCHANGED <<catalog, ills, limits>>

Interrupting(t) == IF Task[t].kind = "run" THEN RunTaskTransient ELSE Transient

(* The task's answer: the child, a refusal the workflow may catch, or an
   interruption, after which a later drive dispatches the task again. *)
TaskAnswer(p) ==
    LET pc == proc[p].pc
        back == [Idle EXCEPT !.pc = "drive", !.run = proc[p].run, !.gen = proc[p].gen,
                             !.lin = proc[p].lin]
    IN
    /\ proc[p].task # None /\ pc \in Refusals \union {"joined", "depth", "lost"}
    /\ proc' = [proc EXCEPT ![p] = IF pc \in Interrupting(proc[p].task) THEN Idle ELSE back]
    /\ UNCHANGED <<runs, catalog, ills, limits>>

-----------------------------------------------------------------------------
(* A process stops anywhere and comes back under other ceilings. *)
Redeploy(p, lim) ==
    /\ proc[p] # Idle \/ limits[p] # lim
    /\ proc' = [proc EXCEPT ![p] = Idle]
    /\ limits' = [limits EXCEPT ![p] = lim]
    /\ UNCHANGED <<runs, catalog, ills>>

(* A run ends with its owned descendants (module Runs). *)
Owned(id) == {i \in DOMAIN runs : runs[i].link # None /\ runs[i].link.parent = id}
Tree(id) ==
    LET tree[n \in 0..Cardinality(DOMAIN runs)] ==
            IF n = 0 THEN {id}
            ELSE LET above == tree[n - 1] IN above \union UNION {Owned(i) : i \in above}
    IN  tree[Cardinality(DOMAIN runs)]
End(id) ==
    /\ ~runs[id].ended
    /\ runs' = [i \in DOMAIN runs |->
                  IF i \in Tree(id) THEN [runs[i] EXCEPT !.ended = TRUE, !.held = FALSE] ELSE runs[i]]
    /\ UNCHANGED <<catalog, ills, limits, proc>>

(* Control: a hold of the run and its live owned descendants. *)
Hold(id) ==
    /\ ~runs[id].ended /\ ~runs[id].held
    /\ runs' = [i \in DOMAIN runs |->
                  IF i \in Tree(id) /\ ~runs[i].ended THEN [runs[i] EXCEPT !.held = TRUE] ELSE runs[i]]
    /\ UNCHANGED <<catalog, ills, limits, proc>>

(* The catalog changes: another version is activated, or the breaker trips. *)
Activate(name, v) ==
    /\ catalog[name].active # v
    /\ catalog' = [catalog EXCEPT ![name] = [active |-> v, tripped |-> FALSE]]
    /\ UNCHANGED <<runs, ills, limits, proc>>
Trip(name) ==
    /\ ~catalog[name].tripped
    /\ catalog' = [catalog EXCEPT ![name].tripped = TRUE]
    /\ UNCHANGED <<runs, ills, limits, proc>>

(* The definition's health on this host changes (module Registry). *)
Ail(name, ill) ==
    /\ ills[name].n < MaxIlls /\ ills[name].now # ill
    /\ ills' = [ills EXCEPT ![name] = [now |-> ill, n |-> @.n + 1]]
    /\ UNCHANGED <<runs, catalog, limits, proc>>

Next ==
    \/ \E p \in Procs :
         \/ \E start \in Starts : StartRead(p, start)
         \/ StartCommit(p) \/ StartAnswer(p)
         \/ \E id \in DOMAIN runs : Claim(p, id)
         \/ \E t \in Tasks, a \in Attempts : Dispatch(p, t, a)
         \/ CommitOwned(p) \/ CommitFree(p) \/ TaskAnswer(p)
         \/ \E lim \in Limits : Redeploy(p, lim)
    \/ \E id \in DOMAIN runs : runs[id].name \in Endable /\ End(id)
    \/ \E id \in {RootId(r) : r \in Holdable} \cap DOMAIN runs : Hold(id)
    \/ \E n \in Names : \/ \E v \in 1..MaxVersion : Activate(n, v)
                        \/ n \in Tripping /\ Trip(n)
                        \/ \E i \in Ills : Ail(n, i)

Spec == Init /\ [][Next]_vars

-----------------------------------------------------------------------------
(* CallRuns: the runs a handler may see and deliver to, found by walking the
   child links up, at most one step more than the nesting depth allows. *)
ParentOf(id) ==
    IF id = None \/ runs[id].link = None THEN None ELSE runs[id].link.parent

Up(id, n) ==
    LET up[k \in 0..n] == IF k = 0 THEN id ELSE ParentOf(up[k - 1])
    IN  up[n]

(* CallRuns::below: the call's run or a descendant. *)
Below(run, id, max) == id = run \/ \E n \in 1..(max + 1) : Up(id, n) = run

(* CallRuns::lineage: an ancestor, too. *)
InLineage(run, id, max) ==
    Below(run, id, max) \/ \E n \in 1..(max + 1) : Up(run, n) = id

-----------------------------------------------------------------------------

(* A caller that is given a run gets what it asked for: of concurrent starts
   of one id that differ in definition, named version or host data, all but
   one kind are refused (AdmissionMismatch). *)
StartIsTold ==
    \A p \in Procs : proc[p].ask # None /\ proc[p].pc = "joined" =>
        LET s == proc[p].ask IN Joins(runs[proc[p].id], s.name, s.version, s.host)

(* A dispatch joins or starts the child of its own attempt, whatever its
   handler computed before and whichever version is active by now; its id is
   never found held by another run. *)
JoinsOwnChild ==
    \A p \in Procs : proc[p].task # None =>
        /\ proc[p].pc # "mismatch"
        /\ proc[p].pc = "joined" =>
             /\ runs[proc[p].id].name = Task[proc[p].task].name
             /\ Task[proc[p].task].owned =>
                  runs[proc[p].id].link = LinkOf(proc[p].run, proc[p].task, proc[p].ref)

(* Nesting is counted through owned and independent children alike and never
   exceeds the ceiling of the host that admitted the run: recursion through
   either kind of child ends. *)
DepthCounts ==
    \A id \in DOMAIN runs :
        /\ runs[id].depth <= runs[id].under.depth
        /\ runs[id].starter # None => runs[id].depth = runs[runs[id].starter].depth + 1

(* An owned child is admitted with no more jumps than its parent's budget as
   pinned and declared, whatever ceiling its host has by then; a root and an
   independent run with the ceiling of the host that admitted it. *)
BudgetNarrows ==
    \A id \in DOMAIN runs :
        IF runs[id].link = None THEN runs[id].jumps = runs[id].under.jumps
        ELSE LET up == runs[runs[id].link.parent] IN runs[id].jumps <= Tighten(up.name, up.jumps)

(* No workflow gives a run host data: what it starts has none, or exactly
   its parent's where the task says so. *)
HostIsVouched ==
    \A id \in DOMAIN runs : runs[id].starter # None =>
        LET t == id[3][1] IN
        Task[t].kind # "host" =>
            runs[id].host = IF Task[t].inherit THEN runs[runs[id].starter].host ELSE None

(* No owned child is live once its parent has ended, however a start races
   with the end. *)
NoOrphan ==
    \A id \in DOMAIN runs :
        runs[id].link # None /\ runs[runs[id].link.parent].ended => runs[id].ended

(* What a handler sees is its run, its descendants and its ancestors: the
   bounded walks over the links agree with the trees. *)
ScopeIsLineage ==
    \A p \in Procs : \A run, id \in DOMAIN runs :
        /\ Below(run, id, limits[p].depth) <=> id \in Tree(run)
        /\ InLineage(run, id, limits[p].depth) <=> id \in Tree(run) \/ run \in Tree(id)

(* A refusal means nothing happened: the attempt has no child. *)
RefusedDidNothing ==
    \A p \in Procs :
        proc[p].task # None /\ proc[p].pc \in (Refusals \ {"unavailable"}) \union {"depth"} =>
            ~proc[p].there

=============================================================================
