------------------------------ MODULE MCRuntime ------------------------------
(* Model-checking instance of Runtime: the ids are interchangeable.        *)
EXTENDS Runtime, TLC

Symmetry == Permutations(Workspaces) \cup Permutations(Tasks)
=============================================================================
