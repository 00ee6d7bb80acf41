-------------------------- MODULE MCNestedOwnership --------------------------
(***************************************************************************)
(* Model values for NestedOwnership.                                       *)
(***************************************************************************)
EXTENDS NestedOwnershipInvariant, TLC

AllKinds  == {"unique_ptr", "unique_array", "shared_ptr"}
OnlyArray == {"unique_array"}

Symmetry == Permutations(Roots) \cup Permutations(Nodes)
=============================================================================
