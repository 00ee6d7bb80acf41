------------------------------ MODULE SmartArray ------------------------------
(***************************************************************************)
(* unique_array and shared_array (mjxsdk/memory/smart_pointer.hpp).        *)
(*                                                                         *)
(* A step is a whole call: the way shared_array counts its owners is that  *)
(* of shared_ptr, whose interleavings SharedPtr explores.  What is new     *)
(* here is the size that travels with the pointer, reset() that works on   *)
(* the handle in place, arrays of no elements, and the calls that throw.   *)
(***************************************************************************)
EXTENDS Integers, FiniteSets

CONSTANTS Slots,        \* the shared_array variables of the program
          Uniques,      \* its unique_array variables
          Arrays,       \* addresses of arrays
          Counters,     \* addresses of reference counters
          Null,         \* the null pointer
          MaxSize,      \* bound on the number of elements of an array
          MayThrow,     \* may an allocation or an element's constructor throw?
          SharedReset   \* may reset() be called on an array others share?

ASSUME SmartArrayAssumption ==
  /\ IsFiniteSet(Slots)
  /\ Null \notin Arrays \cup Counters
  /\ MaxSize \in Nat
  /\ {MayThrow, SharedReset} \subseteq BOOLEAN

VARIABLES
  shr,    \* _Myptr, _Mysize and _Myctr of each shared_array
  uni,    \* _Myptr and _Mysize of each unique_array
  raw,    \* the arrays the program itself answers for, by pointer and size
  heap,   \* elements of the array at each address, 0 if there is none
  refs    \* _Myrefs of the counter at each address, 0 if there is none

vars == <<shr, uni, raw, heap, refs>>

Pointer == Arrays \cup {Null}
Pair    == [ptr : Pointer, size : 0..MaxSize]
Shared  == [ptr : Pointer, size : 0..MaxSize, ctr : Counters \cup {Null}]

EmptyPair   == [ptr |-> Null, size |-> 0]
EmptyShared == [ptr |-> Null, size |-> 0, ctr |-> Null]

TypeOK ==
  /\ shr \in [Slots -> Shared]
  /\ uni \in [Uniques -> Pair]
  /\ raw \subseteq Pair
  /\ heap \in [Arrays -> 0..MaxSize]
  /\ refs \in [Counters -> Nat]

Init ==
  /\ shr = [s \in Slots |-> EmptyShared]
  /\ uni = [u \in Uniques |-> EmptyPair]
  /\ raw = {}
  /\ heap = [a \in Arrays |-> 0]
  /\ refs = [c \in Counters |-> 0]
-----------------------------------------------------------------------------
(***************************************************************************)
(* Faulty variants of definitions below, to confirm that the properties    *)
(* notice them: a copy that is not counted, a move assignment that leaves  *)
(* the source as it was or forgets the size, an index test off by one, and *)
(* a constructor that releases the unique_array before the counter is      *)
(* there.                                                                  *)
(***************************************************************************)
CopyNotCounted(h) == refs
SourceKept(u, v) == [uni EXCEPT ![u] = uni[v]]
SizeForgotten(u, v) == [uni EXCEPT ![u].ptr = uni[v].ptr, ![v] = EmptyPair]
AcceptsEnd(h, i) == i <= h.size
ReleasedFirst(u) == [uni EXCEPT ![u] = EmptyPair]
-----------------------------------------------------------------------------
\* delete_object_array: nothing to do for a null pointer or no elements.
Deletes(h)      == h.ptr # Null /\ h.size > 0
HeapWithout(h)  == IF Deletes(h) THEN [heap EXCEPT ![h.ptr] = 0] ELSE heap

\* The handle after unique_array::_Delete_array: the fields are cleared only
\* if there was an array to delete.
AfterDelete(h) == IF Deletes(h) THEN EmptyPair ELSE h

\* shared_array::_Release of handle h when the counters are R.
IsLast(h, R)      == h.ctr # Null /\ R[h.ctr] - 1 = 0
RefsAfter(h, R)   == IF h.ctr = Null THEN R ELSE [R EXCEPT ![h.ctr] = @ - 1]
HeapAfter(h, R)   == IF IsLast(h, R) THEN HeapWithout(h) ELSE heap
HandleAfter(h, R) == IF IsLast(h, R) THEN EmptyShared ELSE h

\* The counters once h has been copied.
RefsCopied(h) == IF h.ctr = Null THEN refs ELSE [refs EXCEPT ![h.ctr] = @ + 1]

\* The old value of s is released when the counters are R.
ReplaceShared(s, R) == /\ refs' = RefsAfter(shr[s], R)
                       /\ heap' = HeapAfter(shr[s], R)

FreeCounters == {c \in Counters : refs[c] = 0}

\* What a program may pass as (pointer, size): an array it answers for, or null
\* with size zero. (Null with another size keeps that size through reset().)
Passable(p) == p \in raw \cup {EmptyPair}

\* The index test of operator[]; a failed one raises resource_overrun.
Accepts(h, i) == i < h.size
-----------------------------------------------------------------------------
(***************************************************************************)
(* Arrays without a smart pointer (object.hpp).  create_object_array of no *)
(* elements gives the null pointer, which is always passable.              *)
(***************************************************************************)
CreateArray(a, n) ==
  /\ heap[a] = 0
  /\ heap' = [heap EXCEPT ![a] = n]
  /\ raw' = raw \cup {[ptr |-> a, size |-> n]}
  /\ UNCHANGED <<shr, uni, refs>>

DeleteArray(p) ==
  /\ p \in raw
  /\ heap' = HeapWithout(p)
  /\ raw' = raw \ {p}
  /\ UNCHANGED <<shr, uni, refs>>

\* An element's constructor throws in create_object_array or make_*_array,
\* or the allocation of the counter does in make_shared_array: the array
\* is allocated and nothing refers to it.
MakeThrows(a, n) ==
  /\ MayThrow
  /\ heap[a] = 0
  /\ heap' = [heap EXCEPT ![a] = n]
  /\ UNCHANGED <<shr, uni, raw, refs>>
-----------------------------------------------------------------------------
(***************************************************************************)
(* unique_array.  Construction is an assignment to an empty handle.        *)
(***************************************************************************)
\* reset(pointer, size); make_unique_array passes what it has just created.
ResetUnique(u, p) ==
  /\ Passable(p)
  /\ heap' = HeapWithout(uni[u])
  /\ uni' = [uni EXCEPT ![u] = p]
  /\ raw' = raw \ {p}
  /\ UNCHANGED <<shr, refs>>

\* reset() and operator=(nullptr).
DeleteUnique(u) ==
  /\ heap' = HeapWithout(uni[u])
  /\ uni' = [uni EXCEPT ![u] = AfterDelete(uni[u])]
  /\ UNCHANGED <<shr, raw, refs>>

\* operator=(unique_array&&) is reset(other) and then clears other: a
\* self-move deletes the array and ends empty.
AfterMove(u, v) == [uni EXCEPT ![u] = uni[v], ![v] = EmptyPair]

MoveUnique(u, v) ==
  /\ heap' = HeapWithout(uni[u])
  /\ uni' = AfterMove(u, v)
  /\ UNCHANGED <<shr, raw, refs>>

\* release(); the program had asked for size() before.
ReleaseUnique(u) ==
  /\ uni[u].ptr # Null
  /\ raw' = raw \cup {uni[u]}
  /\ uni' = [uni EXCEPT ![u] = EmptyPair]
  /\ UNCHANGED <<shr, heap, refs>>

SwapUnique(u, v) ==
  /\ uni' = [uni EXCEPT ![u] = uni[v], ![v] = uni[u]]
  /\ UNCHANGED <<shr, raw, heap, refs>>
-----------------------------------------------------------------------------
(***************************************************************************)
(* shared_array.  An assignment builds a temporary, swaps it with *this    *)
(* and destroys it; construction is the same with an empty *this.          *)
(***************************************************************************)
\* shared_array(pointer, size) and reset(pointer, size); make_shared_array
\* passes what it has just created.
ResetShared(s, p) ==
  /\ Passable(p)
  /\ \E c \in FreeCounters :
       /\ shr' = [shr EXCEPT ![s] = [ptr |-> p.ptr, size |-> p.size, ctr |-> c]]
       /\ ReplaceShared(s, [refs EXCEPT ![c] = 1])
  /\ raw' = raw \ {p}
  /\ UNCHANGED uni

\* shared_array(unique_array&&): release() comes after the counter is there.
FromUnique(s, u) ==
  /\ \E c \in FreeCounters :
       /\ shr' = [shr EXCEPT ![s] = [ptr |-> uni[u].ptr, size |-> uni[u].size, ctr |-> c]]
       /\ ReplaceShared(s, [refs EXCEPT ![c] = 1])
  /\ uni' = [uni EXCEPT ![u] = EmptyPair]
  /\ UNCHANGED raw

\* The unique_arrays if the counter could not be created.
AfterFailure(u) == uni

FromUniqueThrows(u) ==
  /\ MayThrow
  /\ uni' = AfterFailure(u)
  /\ UNCHANGED <<shr, raw, heap, refs>>

Copy(s, r) ==
  /\ shr' = [shr EXCEPT ![s] = shr[r]]
  /\ ReplaceShared(s, RefsCopied(shr[r]))
  /\ UNCHANGED <<uni, raw>>

\* A self-move swaps the value into a temporary and back.
Move(s, r) ==
  /\ IF s = r THEN UNCHANGED <<shr, refs, heap>>
     ELSE /\ shr' = [shr EXCEPT ![s] = shr[r], ![r] = EmptyShared]
          /\ ReplaceShared(s, refs)
  /\ UNCHANGED <<uni, raw>>

\* reset() is _Release(), in place: on an array that others share it gives
\* up the share and keeps the pointer.
Reset(s) ==
  /\ ~SharedReset /\ shr[s].ctr # Null => refs[shr[s].ctr] = 1
  /\ shr' = [shr EXCEPT ![s] = HandleAfter(shr[s], refs)]
  /\ ReplaceShared(s, refs)
  /\ UNCHANGED <<uni, raw>>

Destruct(s) ==
  /\ shr' = [shr EXCEPT ![s] = EmptyShared]
  /\ ReplaceShared(s, refs)
  /\ UNCHANGED <<uni, raw>>

SwapShared(s, r) ==
  /\ shr' = [shr EXCEPT ![s] = shr[r], ![r] = shr[s]]
  /\ UNCHANGED <<uni, raw, heap, refs>>
-----------------------------------------------------------------------------
Next ==
  \/ \E a \in Arrays, n \in 1..MaxSize : CreateArray(a, n) \/ MakeThrows(a, n)
  \/ \E p \in raw : DeleteArray(p)
  \/ \E u \in Uniques :
       \/ \E p \in Pair : ResetUnique(u, p)
       \/ DeleteUnique(u)
       \/ ReleaseUnique(u)
       \/ FromUniqueThrows(u)
       \/ \E v \in Uniques : MoveUnique(u, v) \/ SwapUnique(u, v)
  \/ \E s \in Slots :
       \/ \E p \in Pair : ResetShared(s, p)
       \/ \E u \in Uniques : FromUnique(s, u)
       \/ Reset(s)
       \/ Destruct(s)
       \/ \E r \in Slots : Copy(s, r) \/ Move(s, r) \/ SwapShared(s, r)

Spec == Init /\ [][Next]_vars
-----------------------------------------------------------------------------
Owners(c) == {s \in Slots : shr[s].ctr = c}

(***************************************************************************)
(* The counter of an array is the number of shared_arrays that refer to    *)
(* it, no more and no fewer: the call that takes it to zero deletes an     *)
(* array nobody else can reach (smart_pointer.hpp:510-519).                *)
(***************************************************************************)
CountMatchesOwners == \A c \in Counters : refs[c] = Cardinality(Owners(c))

Handles == {shr[s] : s \in Slots} \cup {uni[u] : u \in Uniques} \cup raw

(***************************************************************************)
(* Shared ownership, "smart pointer with shared object ownership           *)
(* semantics for arrays" (smart_pointer.hpp:418): an array exists as long  *)
(* as something refers to it.                                              *)
(***************************************************************************)
HeldArrayExists == \A h \in Handles : h.ptr # Null => heap[h.ptr] > 0

(***************************************************************************)
(* The size next to a pointer is the number of elements of the array it    *)
(* points to, through every move, swap, release and conversion: that is    *)
(* what delete_object_array destroys and what the allocator is told to     *)
(* take back (object.hpp:85-99).                                           *)
(***************************************************************************)
SizeIsCount ==
  \A h \in Handles : h.ptr # Null => h.size = heap[h.ptr] /\ h.size > 0

(***************************************************************************)
(* An array has one unique_array, or one counter, or the program itself to *)
(* answer for it: no two of them would ever delete it.                     *)
(***************************************************************************)
SoleOwner ==
  /\ \A u, v \in Uniques : uni[u].ptr # Null /\ uni[u].ptr = uni[v].ptr => u = v
  /\ \A s, r \in Slots : shr[s].ptr # Null /\ shr[s].ptr = shr[r].ptr =>
       shr[s].ctr # Null /\ shr[s].ctr = shr[r].ctr
  /\ \A u \in Uniques, s \in Slots : uni[u].ptr # Null => uni[u].ptr # shr[s].ptr
  /\ \A p \in raw : /\ \A s \in Slots : shr[s].ptr # p.ptr
                    /\ \A u \in Uniques : uni[u].ptr # p.ptr

(***************************************************************************)
(* operator[] lets an index through only if the element exists             *)
(* (smart_pointer.hpp:173-179 and 475-481).                                *)
(***************************************************************************)
AcceptedIndexExists ==
  \A h \in Handles, i \in 0..MaxSize :
    Accepts(h, i) => h.ptr # Null /\ i < heap[h.ptr]

(***************************************************************************)
(* No call loses an array: one that a handle or the program answers for    *)
(* is afterwards still answered for, or destroyed.  That includes the      *)
(* calls that throw: shared_array(unique_array&&) leaves the unique_array  *)
(* its array (smart_pointer.hpp:447-450).                                  *)
(***************************************************************************)
Owned(a) == \E h \in Handles : h.ptr = a

NothingLost == [][\A a \in Arrays : Owned(a) => Owned(a)' \/ heap'[a] = 0]_vars
=============================================================================
