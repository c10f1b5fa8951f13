--------------------------- MODULE MCRunLineage ---------------------------
(* Small instances of RunLineage for TLC.                                  *)
EXTENDS RunLineage, TLC

Symmetry == Permutations(Units) \cup Permutations(Runs \ OldRuns)
=============================================================================
