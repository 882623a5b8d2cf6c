-------------------------- MODULE MCConsoleSession --------------------------
(* ConsoleSession with interchangeable requests and workspace ids. *)
EXTENDS ConsoleSession, TLC

Symmetry == Permutations(Launches) \cup Permutations(Cancels) \cup Permutations(Ids)
============================================================================
