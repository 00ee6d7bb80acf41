-------------------------- MODULE MCObjectManagement --------------------------
(***************************************************************************)
(* Model values for ObjectManagement: one allocator that shares the arena  *)
(* of the default one (another system_allocator), and one of its own.      *)
(***************************************************************************)
EXTENDS ObjectManagement, TLC

CONSTANTS system2, pool

MCCustoms == {system2, pool}
MCArena   == (Default :> "heap") @@ (system2 :> "heap") @@ (pool :> "pool")

Symmetry == Permutations(Threads) \cup Permutations(Addresses)
=============================================================================
