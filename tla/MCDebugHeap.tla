------------------------------ MODULE MCDebugHeap ------------------------------
(***************************************************************************)
(* Instances of DebugHeap: a cell is the unit of size and the default      *)
(* alignment, as 16 bytes are on x64, where header and sentinel fill two   *)
(* such cells. Alignments 1 and 2 put the user block at the same place, so *)
(* that a wrong one is read from the right header, and 4 reads a header    *)
(* elsewhere. Size 1 at alignment 2 leaves a cell of slack. An arena of 8  *)
(* has room for two blocks of size 1, at any distance from one another     *)
(* that an earlier block may have left its metadata at.                    *)
(***************************************************************************)
EXTENDS DebugHeapInvariant

MCSizes  == {0, 1, 2}
MCAligns == {0, 2, 4}

\* The hypothesis of the theorems about DebugHeap.
ASSUME MCSizesFit == SizesFit
=============================================================================
