--------------------------- MODULE MCMemoryResource ---------------------------
(***************************************************************************)
(* Addresses of 3 bits for MemoryResource: three bytes of heap, a byte of  *)
(* the program's own after it, and addresses 0 (null) and 5 to 7 outside   *)
(* of both.                                                                *)
(***************************************************************************)
EXTENDS MemoryResourceInvariant, TLC

MCHeap   == 1..3
MCBuffer == {4}
Symmetry == Permutations(Resources)
=============================================================================
