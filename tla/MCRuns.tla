------------------------------- MODULE MCRuns -------------------------------
(***************************************************************************)
(* Small instances of Runs for TLC.                                        *)
(***************************************************************************)
EXTENDS Runs, TLC

\* Run ids and processes are interchangeable.
Symmetry == Permutations(Run) \cup Permutations(Process)

=============================================================================
