-------------------------- MODULE ObjectManagement --------------------------
(***************************************************************************)
(* Objects, arrays and raw storage obtained through the global allocator   *)
(* (mjxsdk/memory/object.hpp, object_allocator.hpp, allocator.cpp and      *)
(* impl/global_allocator.hpp), by several threads, while allocators are    *)
(* switched, created and destroyed.  Every call looks the allocator up     *)
(* once, at its beginning: a deletion before it runs the destructors.      *)
(* Constructors and destructors are code of the program; what they call is *)
(* what any other thread may call at that moment.                          *)
(***************************************************************************)
EXTENDS Integers

CONSTANTS Threads,
          Customs,       \* allocators of the program
          Default,       \* _Mydef
          Arena,         \* where each allocator gets its blocks from:
                         \* two with one arena are equal (is_equal)
          Addresses, Null,
          Width,         \* bits of size_t
          Size,          \* sizeof(_Ty)
          Counts,        \* numbers of elements to ask for
          Aligns,        \* alignments to ask object_allocator for
          RequiredAlign, \* object_allocator::required_alignment
          MayThrow       \* may allocations and constructors throw?

Allocators == Customs \cup {Default}
Word       == 2^Width

ASSUME ObjectManagementAssumption ==
  /\ Default \notin Customs
  /\ DOMAIN Arena = Allocators
  /\ Null \notin Addresses
  /\ Width \in Nat \ {0} /\ Size \in 1..(Word - 1)
  /\ Counts \subseteq Nat /\ Aligns \subseteq Nat /\ RequiredAlign \in Nat
  /\ MayThrow \in BOOLEAN

VARIABLES current,  \* _Mycur
          exists,   \* the allocators that exist
          blocks,   \* the blocks given out: where from, how many bytes, alignment
          owned,    \* what the program holds, and how it asked for it
          lost,     \* blocks whose constructor threw
          frame     \* the call each thread is in

vars == <<current, exists, blocks, owned, lost, frame>>
-----------------------------------------------------------------------------
(***************************************************************************)
(* Faulty variants of definitions below, to confirm that the properties    *)
(* notice them: looking the allocator up again after the destructors; the  *)
(* size of one element for an array; a largest count in bytes; arrays of   *)
(* one element taken for empty ones; one element too many.                 *)
(***************************************************************************)
LookedUpAgain(f)  == current
OneElement(r)     == Size
CountedInBytes    == Word - 1
MoreThanOne(r)    == r.count > 1
OneTooMany(f)     == f.done <= f.req.count
-----------------------------------------------------------------------------
\* object_allocator::max_size, for an allocator without a limit of its own
MaxCount == (Word - 1) \div Size

\* create_object, create_object_array, allocate_object_array (allocate_object
\* is one of one element), object_allocator::allocate
APIs == {"object", "array", "storage", "allocator"}

\* Storage without objects in it
Bare(r) == r.api \in {"storage", "allocator"}

\* No call compares its count with max_size(). Storage that is too small because
\* the product wraps around is handed out like any other; constructing elements
\* outside of it is undefined, so the client does not ask for more than MaxCount.
Requests == {r \in [api : APIs, count : Counts, align : Aligns \cup {0}] :
               /\ Bare(r) \/ r.count <= MaxCount
               /\ r.api = "object" => r.count = 1
               /\ r.api # "allocator" => r.align = 0}

\* _Count * sizeof(_Ty), to allocate and to deallocate
Bytes(r)         == (r.count * Size) % Word
BytesReturned(r) == (r.count * Size) % Word

\* The alignment the allocator is called with
ChooseAlign(a) == IF a > RequiredAlign THEN a ELSE RequiredAlign
Align(r)       == IF r.api = "allocator" THEN ChooseAlign(r.align) ELSE 0

\* The for loops over the elements
Remaining(f) == f.done < f.req.count

\* delete_object_array does nothing for an array without elements.
Deletes(r) == r.count > 0

\* The reference the call got from get_global_allocator
Found(f) == f.al

NoBlock == [arena |-> Null]
NoReq   == [api |-> "none"]
Idle    == [pc |-> "idle"]

Creating(t) == frame[t].pc \in {"allocate", "construct"}
Deleting(t) == frame[t].pc \in {"destroy", "deallocate"}

Goes(t, f) == frame' = [frame EXCEPT ![t] = f]
-----------------------------------------------------------------------------
BeginCreate(t, r) ==
  /\ frame[t] = Idle
  /\ Goes(t, [pc |-> "allocate", al |-> current, req |-> r])
  /\ UNCHANGED <<current, exists, blocks, owned, lost>>

\* Nothing is allocated for no bytes (system_allocator::allocate); a count
\* that wraps around to no bytes has elements to construct all the same.
AllocateNothing(t) ==
  LET f == frame[t] IN
  /\ f.pc = "allocate" /\ Bytes(f.req) = 0
  /\ Goes(t, IF f.req.count = 0 \/ Bare(f.req) THEN Idle
             ELSE [pc |-> "construct", al |-> f.al, req |-> f.req, addr |-> Null, done |-> 0])
  /\ UNCHANGED <<current, exists, blocks, owned, lost>>

AllocateThrows(t) ==
  /\ MayThrow
  /\ frame[t].pc = "allocate"
  /\ Goes(t, Idle)
  /\ UNCHANGED <<current, exists, blocks, owned, lost>>

Allocate(t, a) ==
  LET f == frame[t] IN
  /\ f.pc = "allocate" /\ Bytes(f.req) > 0 /\ blocks[a] = NoBlock
  /\ blocks' = [blocks EXCEPT ![a] =
                  [arena |-> Arena[f.al], bytes |-> Bytes(f.req), align |-> Align(f.req)]]
  /\ IF Bare(f.req)
     THEN owned' = [owned EXCEPT ![a] = f.req] /\ Goes(t, Idle)
     ELSE /\ Goes(t, [pc |-> "construct", al |-> f.al, req |-> f.req, addr |-> a, done |-> 0])
          /\ UNCHANGED owned
  /\ UNCHANGED <<current, exists, lost>>

ConstructElement(t) ==
  LET f == frame[t] IN
  /\ f.pc = "construct" /\ Remaining(f)
  /\ Goes(t, [f EXCEPT !.done = @ + 1])
  /\ UNCHANGED <<current, exists, blocks, owned, lost>>

\* Neither the block nor the elements built so far are given back.
ConstructorThrows(t) ==
  LET f == frame[t] IN
  /\ MayThrow
  /\ f.pc = "construct" /\ Remaining(f)
  /\ lost' = lost \cup {f.addr}
  /\ Goes(t, Idle)
  /\ UNCHANGED <<current, exists, blocks, owned>>

EndCreate(t) ==
  LET f == frame[t] IN
  /\ f.pc = "construct" /\ ~Remaining(f)
  /\ owned' = [owned EXCEPT ![f.addr] = f.req]
  /\ Goes(t, Idle)
  /\ UNCHANGED <<current, exists, blocks, lost>>

BeginDelete(t, a) ==
  /\ frame[t] = Idle /\ owned[a] # NoReq
  /\ owned' = [owned EXCEPT ![a] = NoReq]
  /\ Goes(t, IF Deletes(owned[a])
             THEN [pc |-> IF Bare(owned[a]) THEN "deallocate" ELSE "destroy",
                   al |-> current, req |-> owned[a], addr |-> a, done |-> 0]
             ELSE Idle)
  /\ UNCHANGED <<current, exists, blocks, lost>>

DestroyElement(t) ==
  LET f == frame[t] IN
  /\ f.pc = "destroy"
  /\ Goes(t, IF Remaining(f) THEN [f EXCEPT !.done = @ + 1] ELSE [f EXCEPT !.pc = "deallocate"])
  /\ UNCHANGED <<current, exists, blocks, owned, lost>>

Deallocate(t) ==
  /\ frame[t].pc = "deallocate"
  /\ blocks' = [blocks EXCEPT ![frame[t].addr] = NoBlock]
  /\ Goes(t, Idle)
  /\ UNCHANGED <<current, exists, owned, lost>>
-----------------------------------------------------------------------------
(***************************************************************************)
(* The program may switch to an allocator that can take back whatever is   *)
(* looked up for it later: what it holds, and what is being created.  A    *)
(* deletion that has begun does not matter, its destructors may switch.    *)
(***************************************************************************)
MaySwitch(al) ==
  /\ \A a \in Addresses : owned[a] # NoReq => blocks[a].arena = Arena[al]
  /\ \A t \in Threads : Creating(t) => Arena[frame[t].al] = Arena[al]

SetGlobal(al) == /\ al \in exists /\ MaySwitch(al)
                 /\ current' = al
                 /\ UNCHANGED <<exists, blocks, owned, lost, frame>>

ResetGlobal == /\ MaySwitch(Default)
               /\ current' = Default
               /\ UNCHANGED <<exists, blocks, owned, lost, frame>>

CreateAllocator(al) == /\ al \notin exists
                       /\ exists' = exists \cup {al}
                       /\ UNCHANGED <<current, blocks, owned, lost, frame>>

\* An allocator may go when no call has it and no call will find it.
DestroyAllocator(al) == /\ al \in exists \ {Default, current}
                        /\ \A t \in Threads : frame[t] # Idle => frame[t].al # al
                        /\ exists' = exists \ {al}
                        /\ UNCHANGED <<current, blocks, owned, lost, frame>>

Init == /\ current = Default
        /\ exists = {Default}
        /\ blocks = [a \in Addresses |-> NoBlock]
        /\ owned = [a \in Addresses |-> NoReq]
        /\ lost = {}
        /\ frame = [t \in Threads |-> Idle]

Calls(t) == \/ \E r \in Requests : BeginCreate(t, r)
            \/ AllocateNothing(t) \/ AllocateThrows(t)
            \/ ConstructElement(t) \/ ConstructorThrows(t) \/ EndCreate(t)
            \/ \E a \in Addresses : Allocate(t, a) \/ BeginDelete(t, a)
            \/ DestroyElement(t) \/ Deallocate(t)

Next == \/ \E t \in Threads : Calls(t)
        \/ \E al \in Customs : SetGlobal(al) \/ CreateAllocator(al) \/ DestroyAllocator(al)
        \/ ResetGlobal

Spec == Init /\ [][Next]_vars
-----------------------------------------------------------------------------
Blocks == [arena : {Arena[al] : al \in Allocators}, bytes : 1..(Word - 1), align : Nat]

Frames == [pc : {"allocate"}, al : Allocators, req : Requests]
          \cup [pc : {"construct", "destroy"}, al : Allocators,
                req : {r \in Requests : ~Bare(r)}, addr : Addresses, done : Nat]
          \cup [pc : {"deallocate"}, al : Allocators,
                req : Requests, addr : Addresses, done : Nat]
          \cup {Idle}

(***************************************************************************)
(* Every variable has its type; the allocator that will be looked up next  *)
(* exists; loops are over elements, and none goes past the last one.       *)
(***************************************************************************)
TypeOK == /\ exists \subseteq Allocators /\ {current, Default} \subseteq exists
          /\ blocks \in [Addresses -> Blocks \cup {NoBlock}]
          /\ owned \in [Addresses -> Requests \cup {NoReq}]
          /\ lost \subseteq Addresses
          /\ frame \in [Threads -> Frames]
          /\ \A t \in Threads : frame[t].pc \in {"construct", "destroy"} =>
                                  frame[t].done <= frame[t].req.count

(***************************************************************************)
(* A block goes back to an allocator that exists and shares the arena it   *)
(* came from, whatever was switched since: while the destructors run, or   *)
(* between the creation of the object and its deletion.                    *)
(***************************************************************************)
BlocksReturnHome ==
  \A t \in Threads :
    /\ frame[t] # Idle => Found(frame[t]) \in exists
    /\ frame[t].pc = "deallocate" =>
         Arena[Found(frame[t])] = blocks[frame[t].addr].arena

(***************************************************************************)
(* It goes back with the size and alignment it was allocated with, counts  *)
(* whose product with the size wraps around included.                      *)
(***************************************************************************)
ReturnedAsAllocated ==
  \A t \in Threads : frame[t].pc = "deallocate" =>
    LET f == frame[t] IN
    /\ blocks[f.addr].bytes = BytesReturned(f.req)
    /\ blocks[f.addr].align = Align(f.req)

(***************************************************************************)
(* Every element that is constructed or destroyed lies inside the block,   *)
(* for counts up to max_size(): the product of count and size does not     *)
(* wrap around.                                                            *)
(***************************************************************************)
ElementsFit ==
  \A t \in Threads :
    LET f == frame[t] IN
    f.pc \in {"construct", "destroy"} /\ Remaining(f) =>
      f.addr # Null /\ (f.done + 1) * Size <= blocks[f.addr].bytes

(***************************************************************************)
(* Every block belongs to the program, to one call underway, or to an      *)
(* object whose constructor threw, and to one of them only.                *)
(***************************************************************************)
Uses(a) == {t \in Threads : frame[t].pc \in {"construct", "destroy", "deallocate"}
                            /\ frame[t].addr = a}

NothingLost ==
  \A a \in Addresses :
    /\ (blocks[a] # NoBlock) <=> (owned[a] # NoReq \/ a \in lost \/ Uses(a) # {})
    /\ a \in lost => owned[a] = NoReq /\ Uses(a) = {}
    /\ owned[a] # NoReq => Uses(a) = {}
    /\ \A t, u \in Uses(a) : t = u
=============================================================================
