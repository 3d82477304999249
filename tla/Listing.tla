------------------------------ MODULE Listing ------------------------------
(***************************************************************************)
(* The operator's pages: list, history and waits (runtime/src/control.rs,  *)
(* page_rows, query_runs and pending_waits of durable/src/engine.rs) over  *)
(* the index rows that each write of a run row derives (indexes).          *)
(*                                                                         *)
(* A page is one transaction and a listing is several: runs are admitted,  *)
(* wait, stop waiting and end between its pages, and processes whose clock *)
(* is behind put rows before the cursor.  A key is the time and the id of  *)
(* its run, ordered as page_rows scans them.                               *)
(***************************************************************************)
EXTENDS Integers, Sequences, SequencesExt, FiniteSets

CONSTANTS
    Run,        \* the runs, numbered: ids break ties of time
    Limits,     \* page limits
    Skew,       \* how far a process's clock is behind
    MaxTime,
    None

ListingConstants ==
    /\ Run \subseteq Nat /\ Skew \in Nat /\ MaxTime \in Nat
    /\ Limits \subseteq Nat \ {0}

VARIABLES
    now,
    run,        \* the rows: admitted, ended and waiting since, or None
    pager       \* one listing: its query, cursor, what it showed, and the rows
                \* that are in it since it began
vars == <<now, run, pager>>

Views == {"list", "live", "history", "waits"}
Clocks == (IF now > Skew THEN now - Skew ELSE 0) .. now

Before(k, l) == k[1] < l[1] \/ (k[1] = l[1] /\ k[2] < l[2])

\* indexes: the keys of a view.  A run is listed by its admission and, once it
\* ended, in the history by its end; an open wait by when it began.
KeyOf(r, view) ==
    CASE view \in {"list", "live"} -> <<run[r].admitted, r>>
      [] view = "history" -> <<run[r].ended, r>>
      [] view = "waits" -> <<run[r].since, r>>
Indexed(view) ==
    {r \in Run : /\ run[r].admitted # None
                 /\ view = "history" => run[r].ended # None
                 /\ view = "waits" => run[r].since # None}
Index(view) == {KeyOf(r, view) : r \in Indexed(view)}

\* The residual filter, on the row as the page reads it.
Shown(view, k) == view = "live" => run[k[2]].ended = None

Init ==
    /\ now = 0
    /\ run = [r \in Run |-> [admitted |-> None, ended |-> None, since |-> None,
                             waited |-> FALSE]]
    /\ pager = [at |-> "idle"]

-----------------------------------------------------------------------------
(* page_rows.                                                              *)

\* The first n keys of S from `start' on.
Scan(S, start, n) ==
    LET from == {k \in S : start = None \/ ~Before(k, start)} IN
    SubSeq(SetToSortSeq(from, Before), 1,
           IF n < Cardinality(from) THEN n ELSE Cardinality(from))

\* Altered: the scan does not count the cursor's own row.
WindowShort(S, cursor, limit) == Scan(S, cursor, limit)
\* The scan of a page starts at the cursor's row, which may be gone.
Window(S, cursor, limit) ==
    Scan(S, cursor, IF cursor = None THEN limit ELSE limit + 1)

After(k, cursor) == cursor = None \/ Before(cursor, k)

Page(S, cursor, limit) ==
    LET found == SelectSeq(Window(S, cursor, limit), LAMBDA k : After(k, cursor)) IN
    SubSeq(found, 1, IF limit < Len(found) THEN limit ELSE Len(found))

\* A full page has a continuation.
Continues(page, limit) == Len(page) = limit

\* A host lists: its first page, and each after it from the last cursor.
Begin(view, limit) ==
    /\ pager.at = "idle"
    /\ pager' = [at |-> "listing", view |-> view, limit |-> limit, cursor |-> None,
                 shown |-> <<>>, last |-> <<>>,
                 stable |-> {r \in Indexed(view) : Shown(view, KeyOf(r, view))}]
    /\ UNCHANGED <<now, run>>
NextPage ==
    LET page == Page(Index(pager.view), pager.cursor, pager.limit) IN
    /\ pager.at = "listing"
    /\ pager' = [pager EXCEPT
          !.shown = @ \o SelectSeq(page, LAMBDA k : Shown(pager.view, k)),
          !.last = page,
          !.cursor = IF page = <<>> THEN @ ELSE page[Len(page)],
          !.at = IF Continues(page, pager.limit) THEN @ ELSE "done"]
    /\ UNCHANGED <<now, run>>

-----------------------------------------------------------------------------
(* The runs.  What a listing must show is what stays in its view.          *)

Kept(rows) ==
    IF pager.at # "listing" THEN pager
    ELSE [pager EXCEPT !.stable =
            {r \in @ : /\ pager.view = "waits" => rows[r].since # None
                       /\ pager.view = "live" => rows[r].ended = None}]

Write(r, row) ==
    /\ run' = [run EXCEPT ![r] = row]
    /\ pager' = Kept([run EXCEPT ![r] = row])
    /\ UNCHANGED now

Admit(r) ==
    /\ run[r].admitted = None
    /\ \E t \in Clocks : Write(r, [run[r] EXCEPT !.admitted = t])

\* terminate: a wait ends with its run.
End(r) ==
    /\ run[r].admitted # None /\ run[r].ended = None
    /\ \E t \in Clocks : Write(r, [run[r] EXCEPT !.ended = t, !.since = None])

\* describe_wait, at each execution of a listen: a wait keeps its beginning.
SinceFirst(old, t) == IF old # None THEN old ELSE t
Describe(r) ==
    /\ run[r].admitted # None /\ run[r].ended = None
    /\ run[r].since # None \/ ~run[r].waited
    /\ \E t \in Clocks :
          Write(r, [run[r] EXCEPT !.since = SinceFirst(@, t), !.waited = TRUE])

\* unsubscribe: the listen is over.
Unsubscribe(r) ==
    /\ run[r].since # None
    /\ Write(r, [run[r] EXCEPT !.since = None])

Tick ==
    /\ now < MaxTime
    /\ now' = now + 1
    /\ UNCHANGED <<run, pager>>

Next ==
    \/ \E view \in Views, limit \in Limits : Begin(view, limit)
    \/ NextPage \/ Tick
    \/ \E r \in Run : Admit(r) \/ End(r) \/ Describe(r) \/ Unsubscribe(r)

Spec == Init /\ [][Next]_vars

-----------------------------------------------------------------------------
ShownRuns == {pager.shown[i][2] : i \in DOMAIN pager.shown}

\* A listing followed to its end shows every run and every wait that was in it
\* from its first page to its last, whatever came and went meanwhile, the
\* cursor's own row included.
ListingIsComplete == pager.at = "done" => pager.stable \subseteq ShownRuns

\* ... and none of them twice: no row moves while it is listed.
ListedOnce ==
    pager.at # "idle"
    => \A i, j \in DOMAIN pager.shown :
          pager.shown[i][2] = pager.shown[j][2] => i = j

\* A listing's pages go forward in the order of their keys and hold at most
\* the limit, so a listing of finitely many rows ends.
PagesAdvance ==
    pager.at # "idle"
    => /\ Len(pager.last) <= pager.limit
       /\ \A i \in 1 .. Len(pager.shown) - 1 :
             Before(pager.shown[i], pager.shown[i + 1])
=============================================================================
