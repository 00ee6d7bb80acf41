----------------------------- MODULE MCSharedPtr -----------------------------
(***************************************************************************)
(* Model values for SharedPtr.  Threads, variables, objects and counters   *)
(* are interchangeable, so safety is checked up to their permutations;     *)
(* liveness is checked without symmetry.                                   *)
(***************************************************************************)
EXTENDS SharedPtrInvariant, TLC

Symmetry == Permutations(Threads) \cup Permutations(Slots)
              \cup Permutations(Objects) \cup Permutations(Counters)
=============================================================================
