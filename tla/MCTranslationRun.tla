--------------------------- MODULE MCTranslationRun ---------------------------
(* Small instances of TranslationRun for TLC.                               *)
EXTENDS TranslationRun, TLC

CONSTANTS f1, f2, u1, u2, u3

\* A file of two units, which a batch of both may split, and one of a single unit.
TwoAndOne == (f1 :> {u1, u2}) @@ (f2 :> {u3})

\* One file of three units: a split leaves a batch that splits again.
Three == f1 :> {u1, u2, u3}

\* Threads differ in nothing, and neither do the units of the first file.
Symmetry == Permutations(Workers) \cup Permutations({u1, u2})
===============================================================================
