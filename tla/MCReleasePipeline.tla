-------------------------- MODULE MCReleasePipeline --------------------------
EXTENDS ReleasePipeline, TLC

Symmetry == Permutations(Runs) \cup Permutations(Versions) \cup Permutations(Contents)
==============================================================================
