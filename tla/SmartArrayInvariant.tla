-------------------------- MODULE SmartArrayInvariant --------------------------
(***************************************************************************)
(* The inductive invariant of SmartArray, for programs that do not call    *)
(* reset() on an array others share.                                       *)
(***************************************************************************)
EXTENDS SmartArray

\* What the program answers for is an array, and no handle is half empty.
RawAreArrays == \A p \in raw : p.ptr # Null

NullHasNoSize == \A h \in Handles : h.ptr = Null => h.size = 0

UncountedIsEmpty == \A s \in Slots : shr[s].ctr = Null => shr[s] = EmptyShared

\* A counter stands for one array: its owners have the same pointer and size.
SharersAgree == \A s, r \in Slots : shr[s].ctr # Null /\ shr[s].ctr = shr[r].ctr =>
                  shr[s] = shr[r]

IInv == /\ TypeOK
        /\ CountMatchesOwners
        /\ SizeIsCount
        /\ SoleOwner
        /\ RawAreArrays /\ NullHasNoSize
        /\ UncountedIsEmpty /\ SharersAgree
=============================================================================
