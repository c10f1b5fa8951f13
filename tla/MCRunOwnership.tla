---------------------------- MODULE MCRunOwnership ----------------------------
(* Small instances of RunOwnership for TLC.                                 *)
EXTENDS RunOwnership, TLC

Symmetry == Permutations(Procs) \cup Permutations(Tasks)
===============================================================================
