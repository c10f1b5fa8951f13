------------------------- MODULE MCTranslationMemory -------------------------
(* Small instances of TranslationMemory for TLC.                            *)
EXTENDS TranslationMemory, TLC

Symmetry == Permutations(Ids) \cup Permutations(Txts)
=============================================================================
