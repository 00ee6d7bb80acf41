------------------------ MODULE MemoryResourceInvariant ------------------------
(***************************************************************************)
(* The inductive invariant of MemoryResource.                              *)
(***************************************************************************)
EXTENDS MemoryResource

\* Blocks lie in the heap, and whatever a resource refers to are bytes that exist.
BlocksInHeap == \A b \in live : Bytes(b.ptr, b.size) \subseteq Heap

FieldsAreBytes == \A r \in Resources : Bytes(res[r].ptr, res[r].size) \subseteq Byte

IInv == TypeOK /\ OwnersMatchBlocks /\ BlocksInHeap /\ FieldsAreBytes
=============================================================================
