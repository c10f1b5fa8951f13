---------------------------- MODULE MCTMAuthority ----------------------------
EXTENDS TMAuthority, TLC

CONSTANTS i1, i2, f1, t1, t2

(* Two coordinates with one source text, one of them still in the game; the second text fails the checks  *)
(* of import at the second coordinate.                                     *)
SourceNow == [i \in Ids |-> f1]
Game == {i1}
OldFile == {[i \in Ids |-> [fp |-> f1, txt |-> t1]]}
FailsImport == {<<i2, t2>>} \cap (Ids \X Txts)
==============================================================================
