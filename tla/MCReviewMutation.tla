--------------------------- MODULE MCReviewMutation ---------------------------
(* Small instances of ReviewMutation for TLC.                               *)
EXTENDS ReviewMutation, TLC

Symmetry == Permutations(Ids)
===============================================================================
