----------------------------- MODULE MCSmartArray -----------------------------
(***************************************************************************)
(* Model values for SmartArray.  Handles, arrays and counters are          *)
(* interchangeable and only safety is checked, so states are explored up   *)
(* to their permutations.                                                  *)
(***************************************************************************)
EXTENDS SmartArrayInvariant, TLC

Symmetry == Permutations(Slots) \cup Permutations(Uniques)
              \cup Permutations(Arrays) \cup Permutations(Counters)
=============================================================================
