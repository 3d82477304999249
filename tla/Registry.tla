------------------------------ MODULE Registry ------------------------------
(***************************************************************************)
(* The functions a runtime has installed and the check every run passes    *)
(* before its first step and before each later drive.                      *)
(*                                                                         *)
(* A host replaces the registry while workers check, admit and drive runs  *)
(* (registry.rs section 2). A check walks the definitions a run can reach  *)
(* through `run: workflow`, reading the catalog at every child, and caches *)
(* what each definition version needs (section 3). The worker keeps the    *)
(* registry it took when it began (Runtime::admitter), however often the   *)
(* host replaces it meanwhile.                                             *)
(*                                                                         *)
(* A definition text is a value of Texts; Doc says what it contains. A     *)
(* function's schemas and delivery are one value of Shapes, and a call's   *)
(* literal arguments are named by the shape they fit (None: they hold an   *)
(* expression, checked only when the call is made). Process runners        *)
(* (`run:<kind>`) are functions the host's capabilities never change.      *)
(***************************************************************************)
EXTENDS Naturals, Sequences, FiniteSets

CONSTANTS None, Names, Fns, Shapes, Texts, Doc, Registries, Workers, Runs,
          MaxGen, MaxVersions,
          Savable,  \* the name and text of each definition a host may save
          Foreign   \* and of each one a dry run checks

(* `start_child` and `child_outcome`, which the runtime answers itself. *)
CONSTANT Builtins

VARIABLES installed, past, checks, catalog, runs, worker

vars == <<installed, past, checks, catalog, runs, worker>>

-----------------------------------------------------------------------------
(* Definitions and what they need. *)

Range(s) == {s[i] : i \in DOMAIN s}

(* A definition version as a check names it; its text is immutable. *)
Def(name, version, text) == [name |-> name, version |-> version, text |-> text]

Stored(name, v) == Def(name, v, catalog[name].texts[v])

Sites(text) == Doc[text].sites

Has(reg, f) == f \in DOMAIN reg \/ f \in Builtins

(* The first call, in definition order, to a function nobody registered. *)
Unregistered(reg, text) ==
    {i \in DOMAIN Sites(text) : ~Has(reg, Sites(text)[i].fn)}

FirstOf(S) == CHOOSE i \in S : \A j \in S : i <= j

(* Needs::of: a definition that does not parse calls nothing. *)
NeedsOf(text, reg) ==
    IF ~Doc[text].parses THEN [missing |-> None, kids |-> <<>>]
    ELSE [missing |-> IF Unregistered(reg, text) = {} THEN None
                      ELSE Sites(text)[FirstOf(Unregistered(reg, text))].fn,
          kids |-> Doc[text].kids]

(* Registry::validate_with: it parses, every call is known, and literal
   arguments fit the function's input schema. *)
Validates(reg, text) ==
    /\ Doc[text].parses
    /\ \A s \in Range(Sites(text)) :
         /\ Has(reg, s.fn)
         /\ s.fn \in DOMAIN reg /\ s.with # None => s.with = reg[s.fn]

(* Registry::bindings: the shapes of the registered functions it calls. *)
Bindings(reg, text) ==
    [f \in {s.fn : s \in Range(Sites(text))} \cap DOMAIN reg |-> reg[f]]

(* Admitter::target: the active version for `latest`, else the newest saved
   version with that semantic version; its namespace must match. *)
Newest(name, sem) ==
    {v \in DOMAIN catalog[name].texts :
        /\ Doc[catalog[name].texts[v]].sem = sem
        /\ \A u \in DOMAIN catalog[name].texts :
             Doc[catalog[name].texts[u]].sem = sem => u <= v}

Candidate(kid) ==
    IF kid[2] = "latest"
    THEN {catalog[kid[1]].active} \ {0}
    ELSE Newest(kid[1], kid[2])

Target(kid) ==
    {Stored(kid[1], v) : v \in
        {v \in Candidate(kid) : Doc[catalog[kid[1]].texts[v]].ns = kid[3]}}

-----------------------------------------------------------------------------
(* Workers. `stack` is the recursion of check_tree: each frame a definition
   and the children it has left to resolve; the path a missing function is
   reported with is the definitions on it. *)

Idle == [pc |-> "idle", job |-> None, run |-> None, name |-> None, gen |-> 0,
         reg |-> <<>>, stack |-> <<>>, seen |-> {}, missing |-> None,
         quiet |-> TRUE]

Top(w) == worker[w].stack[Len(worker[w].stack)]

Path(w) == [i \in DOMAIN worker[w].stack |-> worker[w].stack[i].def]

Frame(d, kids) == [def |-> d, kids |-> kids]

(* Altered: an entry is stored under the generation installed by then. *)
KeyedNow(d, gen) == [def |-> d, gen |-> installed.gen]

(* Definition name, version, digest of its text, registry generation. *)
CheckKey(d, gen) == [def |-> d, gen |-> gen]

(* Runtime::admitter: the registry and its generation, read together. *)
Admitter == [gen |-> installed.gen, reg |-> installed.reg]

Init ==
    /\ \E reg \in Registries :
         installed = [reg |-> reg, gen |-> 0] /\ past = <<reg>>
    /\ checks = <<>>
    /\ catalog = [n \in Names |-> [texts |-> <<>>, active |-> 0, tripped |-> FALSE]]
    /\ runs = [r \in Runs |-> None]
    /\ worker = [w \in Workers |-> Idle]

(* Every change of the catalog is seen by the checks that are walking it. *)
Disturb == worker' = [w \in Workers |-> [worker[w] EXCEPT !.quiet = FALSE]]

(* Installed::replace: a new generation, and no check of an older one. *)
Replace(reg) ==
    /\ installed.gen < MaxGen
    /\ installed' = [reg |-> reg, gen |-> installed.gen + 1]
    /\ past' = Append(past, reg)
    /\ checks' = <<>>
    /\ UNCHANGED <<catalog, runs, worker>>

(* Runtime::save: validated as the host is now; versions are appended. *)
Save(name, text) ==
    /\ Len(catalog[name].texts) < MaxVersions[name]
    /\ Validates(installed.reg, text)
    /\ catalog' = [catalog EXCEPT ![name].texts = Append(@, text)]
    /\ Disturb
    /\ UNCHANGED <<installed, past, checks, runs>>

(* Runtime::activated: a saved version that still validates. *)
Activate(name, v) ==
    /\ catalog[name].active # v \/ catalog[name].tripped
    /\ Validates(installed.reg, catalog[name].texts[v])
    /\ catalog' = [catalog EXCEPT ![name].active = v, ![name].tripped = FALSE]
    /\ Disturb
    /\ UNCHANGED <<installed, past, checks, runs>>

(* The breaker (module Triggers) trips the active version. *)
Trip(name) ==
    /\ catalog[name].active # 0 /\ ~catalog[name].tripped
    /\ catalog' = [catalog EXCEPT ![name].tripped = TRUE]
    /\ UNCHANGED <<installed, past, checks, runs, worker>>

(* Runtime::start_with, a fresh id: the admitter first, then the catalog. *)
BeginStart(w, r, name) ==
    /\ worker[w].pc = "idle" /\ runs[r] = None
    /\ \A u \in Workers : worker[u].run # r
    /\ worker' = [worker EXCEPT ![w] =
          [Idle EXCEPT !.pc = "current", !.job = "start", !.run = r, !.name = name,
                       !.gen = Admitter.gen, !.reg = Admitter.reg]]
    /\ UNCHANGED <<installed, past, checks, catalog, runs>>

(* Checks::needs, first lock: a cached entry of this very definition, text
   and generation. A miss is computed outside the lock. *)
Look(w, d) ==
    LET s == [worker[w] EXCEPT !.seen = @ \union {[name |-> d.name, version |-> d.version]}]
        k == CheckKey(d, worker[w].gen)
    IN  IF k \notin DOMAIN checks
        THEN [s EXCEPT !.pc = "compute", !.stack = Append(@, Frame(d, <<>>))]
        ELSE IF checks[k].missing # None
        THEN [s EXCEPT !.pc = "missing", !.missing = checks[k].missing,
                       !.stack = Append(@, Frame(d, <<>>))]
        ELSE [s EXCEPT !.pc = "walk", !.stack = Append(@, Frame(d, checks[k].kids))]

(* Admitter::current: the active version, unless its breaker tripped. *)
Current(w) ==
    /\ worker[w].pc = "current"
    /\ LET c == catalog[worker[w].name] IN
       IF c.tripped \/ c.active = 0
       THEN worker' = [worker EXCEPT ![w] = Idle]
       ELSE worker' = [worker EXCEPT ![w] = [Look(w, Stored(worker[w].name, c.active))
                                               EXCEPT !.quiet = TRUE]]
    /\ UNCHANGED <<installed, past, checks, catalog, runs>>

(* Runtime::execute: a drive checks its own admitted definition again. *)
BeginDrive(w, r) ==
    /\ worker[w].pc = "idle"
    /\ runs[r] # None /\ runs[r].state = "due"
    /\ runs' = [runs EXCEPT ![r].state = "driven"]
    /\ worker' = [worker EXCEPT ![w] =
          [Idle EXCEPT !.pc = "begin", !.job = "drive", !.run = r,
                       !.gen = Admitter.gen, !.reg = Admitter.reg]]
    /\ UNCHANGED <<installed, past, checks, catalog>>

CheckOwn(w) ==
    /\ worker[w].pc = "begin"
    /\ worker' = [worker EXCEPT ![w] = [Look(w, runs[worker[w].run].def) EXCEPT !.quiet = TRUE]]
    /\ UNCHANGED <<installed, past, checks, catalog, runs>>

(* Runtime::dry_run_opts checks a text of its own under a name and version
   the host's catalog may hold too. *)
CheckForeign(w, name, text) ==
    /\ worker[w].pc = "idle"
    /\ Validates(installed.reg, text)
    /\ worker' = [worker EXCEPT ![w] =
          [Idle EXCEPT !.pc = "foreign", !.job = "dry", !.name = Def(name, 1, text),
                       !.gen = Admitter.gen, !.reg = Admitter.reg]]
    /\ UNCHANGED <<installed, past, checks, catalog, runs>>

EnterForeign(w) ==
    /\ worker[w].pc = "foreign"
    /\ worker' = [worker EXCEPT ![w] = [Look(w, worker[w].name) EXCEPT !.quiet = TRUE]]
    /\ UNCHANGED <<installed, past, checks, catalog, runs>>

(* Checks::needs, second lock: the first entry stored under the key stays. *)
Insert(w) ==
    /\ worker[w].pc = "compute"
    /\ LET k == CheckKey(Top(w).def, worker[w].gen)
           n == IF k \in DOMAIN checks THEN checks[k]
                ELSE NeedsOf(Top(w).def.text, worker[w].reg)
           l == Len(worker[w].stack)
       IN  /\ checks' = [q \in DOMAIN checks \union {k} |-> IF q = k THEN n ELSE checks[q]]
           /\ worker' = [worker EXCEPT ![w] =
                 IF n.missing # None
                 THEN [@ EXCEPT !.pc = "missing", !.missing = n.missing]
                 ELSE [@ EXCEPT !.pc = "walk", !.stack[l].kids = n.kids]]
    /\ UNCHANGED <<installed, past, catalog, runs>>

(* A definition reached twice was checked already. *)
Seen(w, d) == [name |-> d.name, version |-> d.version] \in worker[w].seen

(* check_tree's loop: the next child, as the catalog resolves it now; one
   that does not resolve is left to the run. *)
Walk(w) ==
    /\ worker[w].pc = "walk" /\ Top(w).kids # <<>>
    /\ LET l == Len(worker[w].stack)
           t == Target(Head(Top(w).kids))
           rest == [worker[w] EXCEPT !.stack[l].kids = Tail(@)]
       IN  IF \/ t = {} \/ \E d \in t : Seen(w, d)
           THEN worker' = [worker EXCEPT ![w] = rest]
           ELSE \E d \in t : worker' = [worker EXCEPT ![w] =
                   [Look(w, d) EXCEPT !.stack = [@ EXCEPT ![l] = rest.stack[l]]]]
    /\ UNCHANGED <<installed, past, checks, catalog, runs>>

(* The loop's end: path.pop, and the check's when nothing is left. *)
Pop(w) ==
    /\ worker[w].pc = "walk" /\ Top(w).kids = <<>>
    /\ LET rest == SubSeq(worker[w].stack, 1, Len(worker[w].stack) - 1)
       IN  worker' = [worker EXCEPT ![w].stack = IF rest = <<>> THEN @ ELSE rest,
                                    ![w].pc = IF rest = <<>> THEN "checked" ELSE @]
    /\ UNCHANGED <<installed, past, checks, catalog, runs>>

(* A missing function refuses a start and faults a run that resumes. *)
Missing(w) ==
    /\ worker[w].pc = "missing"
    /\ runs' = IF worker[w].job = "drive"
               THEN [runs EXCEPT ![worker[w].run].state = "faulted"] ELSE runs
    /\ worker' = [worker EXCEPT ![w] = Idle]
    /\ UNCHANGED <<installed, past, checks, catalog>>

(* Admitter::of after the check: validated and bound, or refused. *)
Admits(w) ==
    /\ worker[w].pc = "checked" /\ worker[w].job = "start"
    /\ LET d == worker[w].stack[1].def IN
       runs' = IF Validates(worker[w].reg, d.text)
               THEN [runs EXCEPT ![worker[w].run] =
                       [def |-> d, at |-> 1, state |-> "due",
                        bindings |-> Bindings(worker[w].reg, d.text)]]
               ELSE runs
    /\ worker' = [worker EXCEPT ![w] = Idle]
    /\ UNCHANGED <<installed, past, checks, catalog>>

(* Runtime::execute after the check: the definition must still validate, and
   the bindings must be the admitted ones; else the drive is interrupted. *)
Proceeds(w) ==
    LET r == runs[worker[w].run] IN
    /\ Validates(worker[w].reg, r.def.text)
    /\ r.bindings = Bindings(worker[w].reg, r.def.text)
Resume(w) ==
    /\ worker[w].pc = "checked" /\ worker[w].job = "drive"
    /\ IF Proceeds(w)
       THEN /\ worker' = [worker EXCEPT ![w].pc = "drive", ![w].stack = <<>>]
            /\ UNCHANGED runs
       ELSE /\ worker' = [worker EXCEPT ![w] = Idle]
            /\ runs' = [runs EXCEPT ![worker[w].run].state = "due"]
    /\ UNCHANGED <<installed, past, checks, catalog>>

FinishDry(w) ==
    /\ worker[w].pc = "checked" /\ worker[w].job = "dry"
    /\ worker' = [worker EXCEPT ![w] = Idle]
    /\ UNCHANGED <<installed, past, checks, catalog, runs>>

(* The next call goes through the drive's registry. *)
NextCall(w) == LET r == runs[worker[w].run] IN Sites(r.def.text)[r.at].fn
Call(w) ==
    /\ worker[w].pc = "drive"
    /\ LET r == runs[worker[w].run] IN
       IF r.at > Len(Sites(r.def.text))
       THEN /\ runs' = [runs EXCEPT ![worker[w].run].state = "completed"]
            /\ worker' = [worker EXCEPT ![w] = Idle]
       ELSE /\ runs' = [runs EXCEPT ![worker[w].run].at = @ + 1]
            /\ UNCHANGED worker
    /\ UNCHANGED <<installed, past, checks, catalog>>

(* A drive stops where it is and the run is due again. *)
Stop(w) ==
    /\ worker[w].pc = "drive"
    /\ runs' = [runs EXCEPT ![worker[w].run].state = "due"]
    /\ worker' = [worker EXCEPT ![w] = Idle]
    /\ UNCHANGED <<installed, past, checks, catalog>>

Steps(w) ==
    \/ Current(w) \/ CheckOwn(w) \/ EnterForeign(w) \/ Insert(w) \/ Walk(w) \/ Pop(w)
    \/ Missing(w) \/ Admits(w) \/ Resume(w) \/ FinishDry(w)

Next ==
    \/ \E reg \in Registries : Replace(reg)
    \/ \E d \in Savable : Save(d[1], d[2])
    \/ \E n \in Names : \/ \E v \in DOMAIN catalog[n].texts : Activate(n, v)
                        \/ Trip(n)
    \/ \E w \in Workers :
         \/ \E r \in Runs : BeginDrive(w, r) \/ \E n \in Names : BeginStart(w, r, n)
         \/ \E d \in Foreign : CheckForeign(w, d[1], d[2])
         \/ Steps(w) \/ Call(w) \/ Stop(w)

Spec == Init /\ [][Next]_vars

-----------------------------------------------------------------------------

(* A cached check is what the definition needs of the registry of its own
   generation: an entry computed against a registry that was replaced before
   it was stored never stands for the new one, and two texts of one name and
   version (a dry run's and the catalog's) never share one. *)
CacheIsTrue ==
    \A k \in DOMAIN checks : checks[k] = NeedsOf(k.def.text, past[k.gen + 1])

(* What a check reports is so: the last definition of its path calls the
   function, the worker's registry does not hold it, and each definition of
   the path names the next one as its child. *)
MissingIsReal ==
    \A w \in Workers : worker[w].pc = "missing" =>
        /\ worker[w].missing \in {s.fn : s \in Range(Sites(Top(w).def.text))}
        /\ ~Has(worker[w].reg, worker[w].missing)
        /\ \A i \in 1..(Len(Path(w)) - 1) :
             Path(w)[i + 1].name \in {k[1] : k \in Range(Doc[Path(w)[i].text].kids)}

(* The definitions a run of d can reach as the catalog stands, in at most n
   child starts. *)
Reach(d) ==
    LET reach[n \in 0..Cardinality(Texts)] ==
            IF n = 0 THEN {d}
            ELSE LET near == reach[n - 1] IN
                 near \union
                 UNION {Target(k) : k \in UNION {Range(Doc[e.text].kids) :
                        e \in {e \in near : Doc[e.text].parses}}}
    IN  reach[Cardinality(Texts)]

(* A check that passed while nobody changed the catalog found every function
   of every definition the run can reach, recursive ones included. *)
CheckIsComplete ==
    \A w \in Workers :
        worker[w].pc = "checked" /\ worker[w].quiet /\ worker[w].job # "dry" =>
            \A d \in Reach(worker[w].stack[1].def) :
                Doc[d.text].parses => Unregistered(worker[w].reg, d.text) = {}

(* A path never holds a definition version twice, so recursion through child
   workflows ends. *)
PathIsSimple ==
    \A w \in Workers : \A i, j \in DOMAIN worker[w].stack :
        /\ i # j
        /\ Path(w)[i].name = Path(w)[j].name /\ Path(w)[i].version = Path(w)[j].version
        => FALSE

(* A run being driven calls only functions its drive's registry holds, with
   the schemas and delivery it was admitted with, whatever the host replaced
   since its admission or since the drive began. *)
CallsAsBound ==
    \A w \in Workers :
        worker[w].pc = "drive" /\ runs[worker[w].run].at <= Len(Sites(runs[worker[w].run].def.text)) =>
            LET f == NextCall(w) IN
            /\ Has(worker[w].reg, f)
            /\ f \notin Builtins => runs[worker[w].run].bindings[f] = worker[w].reg[f]

=============================================================================
