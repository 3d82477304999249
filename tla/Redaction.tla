------------------------------ MODULE Redaction ------------------------------
(***************************************************************************)
(* The secrets of a run: resolved at every start, replaced by markers in   *)
(* what the run persists, put back when its records are loaded.            *)
(*                                                                         *)
(* A text is a sequence of characters, since what can go wrong here is the *)
(* encoding itself. A secret is one string (the leaves of a structured one *)
(* are secrets of their own, with their own marker paths). A run has an    *)
(* admission with an input, and one call whose answer, a value or an       *)
(* error, is recorded; the host may change its vault between two starts.   *)
(***************************************************************************)
EXTENDS Naturals, Sequences, SequencesExt

CONSTANTS Mark,       \* the character that delimits a marker
          Name,       \* the declared secrets, a sequence in path order
          Path,       \* a secret's marker path, a text
          Secret,     \* the texts a secret may have
          Text,       \* the texts a call may answer
          Input,      \* the texts a run may be admitted with
          Kept,       \* secrets whose value the host never changes
          MaxChanges, \* bound on the changes of the vault
          None

MarkAssumption ==
  /\ <<>> \notin Secret
  /\ \A n \in ToSet(Name) : Path[n] # <<>> /\ Mark \notin ToSet(Path[n])
  /\ Kept \subseteq ToSet(Name)

VARIABLES vault,    \* the host's secrets: a text, or None
          changes,  \* how often the vault changed
          input,    \* the input the run was admitted with
          stored,   \* the records: the input, the answer and whether it is one
          process,  \* the execution: its state, redaction and view of the answer
          history,  \* the answer as it was given, and the redaction it was saved under
          replayed  \* the outcome a replay reports, or None

vars == <<vault, changes, input, stored, process, history, replayed>>

Names == ToSet(Name)

-----------------------------------------------------------------------------
\* The redaction.

Starts(what, t, i) ==
  /\ i + Len(what) - 1 <= Len(t)
  /\ SubSeq(t, i, i + Len(what) - 1) = what

\* str::replace, leftmost and not overlapping.
Replace(t, what, by) ==
  LET from[i \in 1..(Len(t) + Len(what))] ==
        IF i > Len(t) THEN <<>>
        ELSE IF Starts(what, t, i) THEN by \o from[i + Len(what)]
        ELSE <<t[i]>> \o from[i + 1]
  IN from[1]

Escape(t) == Replace(t, <<Mark>>, <<Mark, Mark>>)

Marker(path) == <<Mark>> \o path \o <<Mark>>

\* Every secret string with its path, longest first and then by path, of
\* neighbours with the same string the first.
Resolve(v) ==
  LET index(n) == CHOOSE i \in 1..Len(Name) : Name[i] = n
      before(m, n) == \/ Len(v[m]) > Len(v[n])
                      \/ Len(v[m]) = Len(v[n]) /\ index(m) < index(n)
      sorted == SetToSortSeq({n \in Names : v[n] # None}, before)
      add(out, n) == IF out # <<>> /\ Last(out).text = v[n] THEN out
                     ELSE Append(out, [text |-> v[n], path |-> Path[n]])
  IN FoldLeft(add, <<>>, sorted)

\* Altered: what was hidden before is not escaped.
RedactUnescaped(red, t) ==
  FoldLeft(LAMBDA out, s : Replace(out, s.text, Marker(s.path)), t, red)

\* Hides one secret at a time, in the order of the redaction.
Redact(red, t) ==
  IF red = <<>> THEN t
  ELSE FoldLeft(LAMBDA out, s : Replace(out, Escape(s.text), Marker(s.path)),
                Escape(t), red)

\* The end of the marker that starts at i: the next Mark, or past the end.
MarkerEnd(t, i) ==
  LET ends == {j \in (i + 1)..Len(t) : t[j] = Mark}
  IN IF ends = {} THEN Len(t) + 1 ELSE CHOOSE j \in ends : \A k \in ends : j <= k

SecretAt(red, path) == {s \in ToSet(red) : s.path = path}

\* None when a marker names a secret that is not in the redaction.
Restore(red, t) ==
  LET add(c, rest) == IF rest = None THEN None ELSE c \o rest
      from[i \in 1..(Len(t) + 2)] ==
        IF i > Len(t) THEN <<>>
        ELSE IF t[i] # Mark THEN add(<<t[i]>>, from[i + 1])
        ELSE LET e == MarkerEnd(t, i)
                 path == SubSeq(t, i + 1, e - 1)
                 found == SecretAt(red, path)
             IN IF path = <<>> THEN add(<<Mark>>, from[e + 1])
                ELSE IF found = {} THEN None
                ELSE add((CHOOSE s \in found : TRUE).text, from[e + 1])
  IN IF red = <<>> THEN t ELSE from[1]

-----------------------------------------------------------------------------
\* The run.

Down(state) == [state |-> state, red |-> <<>>, seen |-> None]

Init ==
  /\ vault \in [Names -> Secret \union {None}]
  /\ \A n \in Kept : vault[n] # None
  /\ changes = 0
  /\ input \in Input
  /\ stored = [input |-> None, answer |-> None, ok |-> TRUE]
  /\ process = Down("down")
  /\ history = [answer |-> None, red |-> <<>>]
  /\ replayed = None

\* Resolves the secrets, then loads the records: a marker whose secret is
\* gone interrupts the run, another input than the admission's ends it, and a
\* run without records saves its execution record.
Start ==
  /\ process.state \in {"down", "interrupted"}
  /\ LET red == Resolve(vault)
         was == IF stored.input = None THEN None ELSE Restore(red, stored.input)
         seen == IF stored.answer = None THEN None ELSE Restore(red, stored.answer)
         lost == \/ stored.input # None /\ was = None
                 \/ stored.answer # None /\ seen = None
     IN \/ /\ stored.input = None
           /\ stored' = [stored EXCEPT !.input = Redact(red, input)]
           /\ process' = [state |-> "running", red |-> red, seen |-> None]
        \/ /\ stored.input # None
           /\ UNCHANGED stored
           /\ process' = IF lost THEN Down("interrupted")
                         ELSE IF was # input THEN Down("faulted")
                         ELSE [state |-> "running", red |-> red, seen |-> seen]
  /\ UNCHANGED <<vault, changes, input, history, replayed>>

\* The call answers, with a value or an error, and the answer is recorded.
Answer ==
  /\ process.state = "running" /\ stored.answer = None
  /\ \E t \in Text, ok \in BOOLEAN :
       /\ stored' = [stored EXCEPT !.answer = Redact(process.red, t), !.ok = ok]
       /\ process' = [process EXCEPT !.seen = t]
       /\ history' = [answer |-> t, red |-> process.red]
  /\ UNCHANGED <<vault, changes, input, replayed>>

Crash ==
  /\ process.state = "running"
  /\ process' = Down("down")
  /\ UNCHANGED <<vault, changes, input, stored, history, replayed>>

\* The host gives a secret another value or withdraws it.
Change ==
  /\ changes < MaxChanges
  /\ changes' = changes + 1
  /\ \E n \in Names \ Kept, v \in Secret \union {None} :
       v # vault[n] /\ vault' = [vault EXCEPT ![n] = v]
  /\ UNCHANGED <<input, stored, process, history, replayed>>

\* A replay of a run that ended with its call's answer. It resolves the
\* secrets itself; the recorded value gets them back, a recorded error does
\* not, and the outcome is redacted.
Replay ==
  /\ stored.answer # None /\ replayed = None
  /\ LET red == Resolve(vault)
         got == IF stored.ok THEN Restore(red, stored.answer) ELSE stored.answer
     IN got # None /\ replayed' = [red |-> red, outcome |-> Redact(red, got)]
  /\ UNCHANGED <<vault, changes, input, stored, process, history>>

Next == Start \/ Answer \/ Crash \/ Change \/ Replay

Spec == Init /\ [][Next]_vars

-----------------------------------------------------------------------------
\* Properties.

\* An execution started again with the secrets its answer was saved under
\* sees the answer as it was given, whatever characters and secrets are in it.
RestoredAsSaved ==
  process.state = "running" /\ process.seen # None /\ process.red = history.red
    => process.seen = history.answer

Within(what, t) == \E i \in 1..Len(t) : Starts(what, t, i)

\* No secret the execution knew is left in the record of an answer or in what
\* a replay with the same secrets reports.
Hidden ==
  \A s \in ToSet(history.red) :
    /\ stored.answer # None => ~Within(Escape(s.text), stored.answer)
    /\ replayed # None /\ replayed.red = history.red
         => ~Within(Escape(s.text), replayed.outcome)

\* The secrets the record of an answer stands for: those of the redaction it
\* was saved under whose marker is in it.
Needs ==
  IF stored.answer = None THEN {}
  ELSE {n \in Names : /\ \E s \in ToSet(history.red) : s.path = Path[n]
                      /\ Within(Marker(Path[n]), stored.answer)}

\* A run whose record refers to a secret the host no longer has is not
\* continued with something else in its place.
LostIsRefused ==
  process.state = "running" /\ process.seen # None /\ process.red # history.red
    => \A n \in Needs : SecretAt(process.red, Path[n]) # {}

=============================================================================
