---------------------------- MODULE MemoryResource ----------------------------
(***************************************************************************)
(* memory_resource (mjxsdk/memory/memory_resource.hpp and .cpp): a block   *)
(* of bytes it owns, or a view of bytes somebody else owns.                *)
(*                                                                         *)
(* A step is a call of a member function; an object is not shared between  *)
(* threads.  Addresses are the numbers below 2^Width and pointer           *)
(* arithmetic wraps around there.                                          *)
(***************************************************************************)
EXTENDS Integers, FiniteSets

CONSTANTS Resources,  \* the memory_resource variables of the program
          Heap,       \* addresses the internal allocator hands out
          Buffer,     \* addresses of a buffer of the program itself
          Data,       \* what the program writes to a byte
          Junk,       \* a byte nobody has written, or that was freed
          Width,      \* bits of an address
          MayFail,    \* may an allocation fail?
          Aliasing    \* may a view of its own block be assigned to a resource?

Word == 2^Width
Null == 0

ASSUME MemoryResourceAssumption ==
  /\ Width \in Nat
  /\ Heap \cup Buffer \subseteq 1..(Word - 2)  \* so the end of a block is an address
  /\ Heap \cap Buffer = {}
  /\ Junk \notin Data
  /\ {MayFail, Aliasing} \subseteq BOOLEAN

VARIABLES
  res,    \* _Myptr, _Mysize and _Myowns of each resource
  live,   \* the blocks the internal allocator has handed out
  mem     \* the bytes

vars == <<res, live, mem>>

Byte  == Heap \cup Buffer
Sizes == 0..Cardinality(Byte)
Empty == [ptr |-> Null, size |-> 0, owns |-> FALSE]

\* The addresses of n bytes from p on.
Bytes(p, n) == p..(p + n - 1)

Content(h) == [i \in 0..(h.size - 1) |-> mem[h.ptr + i]]

LiveBytes == UNION {Bytes(b.ptr, b.size) : b \in live}

TypeOK ==
  /\ res \in [Resources -> [ptr : Byte \cup {Null}, size : Sizes, owns : BOOLEAN]]
  /\ live \subseteq [ptr : Heap, size : Sizes \ {0}]
  /\ mem \in [Byte -> Data \cup {Junk}]

Init ==
  /\ res = [r \in Resources |-> Empty]
  /\ live = {}
  /\ mem = [a \in Byte |-> Junk]
-----------------------------------------------------------------------------
(***************************************************************************)
(* Faulty variants of definitions below, to confirm that the properties    *)
(* notice them: a zero-length block that counts as allocated, a move that  *)
(* leaves the source as it was, a memcpy one byte short, and a range test  *)
(* that admits the byte after the end.                                     *)
(***************************************************************************)
BlockAlways(p, n) == {[ptr |-> p, size |-> n]}
SourceKept(s, r) == [res EXCEPT ![s] = res[r]]
CopiedShort(m, p, h) ==
  [a \in Byte |-> IF a \in Bytes(p, h.size - 1) THEN m[h.ptr + (a - p)] ELSE m[a]]
WithinOrNext(lo, hi, first, last) == first >= lo /\ last <= hi + 1
-----------------------------------------------------------------------------
\* _Adjust_address_by_offset and _Is_within_memory_block.
Adjusted(p, n) == (p + n) % Word
Within(lo, hi, first, last) == first >= lo /\ last <= hi

\* contains(block, n) of a resource with fields h.
Contains(h, block, n) ==
  /\ h.ptr # Null /\ h.size # 0
  /\ \/ n = 0
     \/ /\ block # Null
        /\ Within(h.ptr, Adjusted(h.ptr, h.size), block, Adjusted(block, n))

\* destroy(): what it frees, and what is left of the handle.
Full(h)      == h.ptr # Null /\ h.size > 0
Freed(h)     == IF Full(h) /\ h.owns THEN {[ptr |-> h.ptr, size |-> h.size]} ELSE {}
Destroyed(h) == IF Full(h) THEN Empty ELSE h

\* The bytes once h has been destroyed.
MemWithout(h) ==
  [a \in Byte |-> IF \E b \in Freed(h) : a \in Bytes(b.ptr, b.size) THEN Junk ELSE mem[a]]

\* system_allocator::allocate(n) may return p when the blocks L are in use.
MayAllocate(p, n, L) ==
  IF n = 0 THEN p = Null
  ELSE /\ Bytes(p, n) \subseteq Heap
       /\ \A b \in L : Bytes(p, n) \cap Bytes(b.ptr, b.size) = {}

Block(p, n) == IF n = 0 THEN {} ELSE {[ptr |-> p, size |-> n]}

\* The fields after _Copy_resource of n bytes to a block at p.
CopyOf(p, n) == [ptr |-> p, size |-> n, owns |-> TRUE]

\* The bytes m after memcpy of the bytes of h to p.
Copied(m, p, h) ==
  [a \in Byte |-> IF a \in Bytes(p, h.size) THEN m[h.ptr + (a - p)] ELSE m[a]]

\* The fields of s and r after _Move_resource.
Moved(s, r) == [res EXCEPT ![s] = res[r], ![r] = Empty]

Fields(p, n) == IF p = Null \/ n = 0 THEN Empty
                ELSE [ptr |-> p, size |-> n, owns |-> FALSE]
-----------------------------------------------------------------------------
\* Bytes the program may use: its buffer, and blocks that are live.
Usable(p, n) == p # Null => Bytes(p, n) \subseteq LiveBytes \cup Buffer

\* Destroying g frees bytes that h refers to.
Aliases(h, g) == \E b \in Freed(g) : Bytes(h.ptr, h.size) \cap Bytes(b.ptr, b.size) # {}

\* memory_resource(n), assigned to r: the temporary allocates, then r is
\* destroyed.
Create(r, p, n) ==
  /\ MayAllocate(p, n, live)
  /\ live' = (live \cup Block(p, n)) \ Freed(res[r])
  /\ res' = [res EXCEPT ![r] = [ptr |-> p, size |-> n, owns |-> n > 0]]
  /\ mem' = MemWithout(res[r])

\* memory_resource(p, n), assigned to r.
View(r, p, n) ==
  /\ Usable(p, n)
  /\ live' = live \ Freed(res[r])
  /\ res' = [res EXCEPT ![r] = Fields(p, n)]
  /\ mem' = MemWithout(res[r])

\* s = r: s is destroyed before a block is allocated and r's bytes are read.
Copy(s, r, p) ==
  /\ s # r
  /\ Usable(res[r].ptr, res[r].size)
  /\ ~Aliasing => ~Aliases(res[r], res[s])
  /\ MayAllocate(p, res[r].size, live \ Freed(res[s]))
  /\ live' = (live \ Freed(res[s])) \cup Block(p, res[r].size)
  /\ res' = [res EXCEPT ![s] = CopyOf(p, res[r].size)]
  /\ mem' = Copied(MemWithout(res[s]), p, res[r])

\* The allocation fails: s is destroyed already.
CopyThrows(s, r) ==
  /\ MayFail
  /\ s # r /\ res[r].size > 0
  /\ live' = live \ Freed(res[s])
  /\ res' = [res EXCEPT ![s] = Destroyed(res[s])]
  /\ mem' = MemWithout(res[s])

Move(s, r) ==
  /\ s # r
  /\ live' = live \ Freed(res[s])
  /\ res' = Moved(s, r)
  /\ mem' = MemWithout(res[s])

Swap(s, r) ==
  /\ res' = [res EXCEPT ![s] = res[r], ![r] = res[s]]
  /\ UNCHANGED <<live, mem>>

Destroy(r) ==
  /\ live' = live \ Freed(res[r])
  /\ res' = [res EXCEPT ![r] = Destroyed(res[r])]
  /\ mem' = MemWithout(res[r])

\* The program writes to a byte of r through data().
Write(r, a, v) ==
  /\ Usable(res[r].ptr, res[r].size)
  /\ a \in Bytes(res[r].ptr, res[r].size)
  /\ mem' = [mem EXCEPT ![a] = v]
  /\ UNCHANGED <<res, live>>

Next == \E r \in Resources :
  \/ \E q \in Resources : \/ \E p \in Byte \cup {Null} : Copy(r, q, p)
                         \/ CopyThrows(r, q)
                         \/ Move(r, q)
                         \/ Swap(r, q)
  \/ \E p \in Byte \cup {Null}, n \in Sizes : Create(r, p, n) \/ View(r, p, n)
  \/ Destroy(r)
  \/ \E a \in Byte, v \in Data : Write(r, a, v)

Spec == Init /\ [][Next]_vars
-----------------------------------------------------------------------------
(***************************************************************************)
(* Blocks and owners match one to one: a block the internal allocator has  *)
(* handed out is owned by exactly one resource, which gives it back with   *)
(* the size it was allocated with (memory_resource.cpp:120-130), and a     *)
(* resource that owns bytes owns such a block.  No resource is half empty. *)
(***************************************************************************)
OwnersMatchBlocks ==
  /\ \A r \in Resources : res[r].ptr = Null <=> res[r].size = 0
  /\ \A r \in Resources : Freed(res[r]) \subseteq live
  /\ \A b \in live : \E r \in Resources :
       Freed(res[r]) = {b} /\ \A q \in Resources \ {r} : b \notin Freed(res[q])

(***************************************************************************)
(* Assignment "copies other resource" (memory_resource.hpp:54): afterwards *)
(* the target holds the bytes the source had, as the tests of copy_assign  *)
(* compare them (tests/src/memory/memory_resource/test.cpp).               *)
(***************************************************************************)
CopyIsFaithful ==
  [][\A s, r \in Resources : (\E p \in Byte \cup {Null} : Copy(s, r, p)) =>
       Content(res[s])' = Content(res[r])]_vars

(***************************************************************************)
(* contains() answers whether a block of n bytes "comes from this          *)
(* resource" (memory_resource.hpp:44), for every block that does not run   *)
(* past the end of the address space.                                      *)
(***************************************************************************)
ComesFrom(h, block, n) ==
  h.size > 0 /\ Bytes(block, n) \subseteq Bytes(h.ptr, h.size)

ContainsIsExact ==
  \A r \in Resources, block, n \in 0..(Word - 1) :
    block + n < Word => (Contains(res[r], block, n) <=> ComesFrom(res[r], block, n))
=============================================================================
