--------------------------- MODULE NestedOwnership ---------------------------
(***************************************************************************)
(* Smart pointers inside the objects they own: lists and trees built from  *)
(* unique_ptr, unique_array or shared_ptr members                          *)
(* (mjxsdk/memory/smart_pointer.hpp).  Deleting an object runs its         *)
(* destructor, which may itself call the smart pointers, and then the      *)
(* destructor of its member, which may delete another object: calls nest.  *)
(*                                                                         *)
(* One thread.  todo is its call stack, unrolled: what the calls underway  *)
(* have still to do, innermost call first.  An array has one element, and  *)
(* an object one member.                                                   *)
(***************************************************************************)
EXTENDS Integers, Sequences, FiniteSets

CONSTANTS Roots,       \* handles that are variables of the program
          Nodes,       \* objects; the name also stands for the member handle
          Null,
          Kinds,       \* the kinds of handle to look at
          MayDescend   \* may a unique_array be moved from inside its target?

ASSUME NestedOwnershipAssumption ==
  /\ IsFiniteSet(Roots \cup Nodes)
  /\ Null \notin Roots \cup Nodes
  /\ Roots \cap Nodes = {}
  /\ Kinds \subseteq {"unique_ptr", "unique_array", "shared_ptr"}
  /\ MayDescend \in BOOLEAN

VARIABLES kind,  \* the kind of every handle, fixed for a behaviour
          ptr,   \* _Myptr of each handle
          refs,  \* the counter of each object (shared_ptr)
          heap,  \* the objects whose storage is allocated
          raw,   \* objects the program took out with release()
          todo   \* what is left to do

vars == <<kind, ptr, refs, heap, raw, todo>>

Handles == Roots \cup Nodes
Shared  == kind = "shared_ptr"

-----------------------------------------------------------------------------
(***************************************************************************)
(* Faulty variants of definitions below, to confirm that the properties    *)
(* notice them: every move clears its source last, as unique_array does; a *)
(* copy is not counted; a share given up before the last one deletes; a    *)
(* counter that starts at zero.                                            *)
(***************************************************************************)
ClearedLast(h, g) ==
  [ptr |-> ptr,
   rest |-> (IF ptr[h] = Null THEN <<>> ELSE <<[op |-> "delete", at |-> ptr[h], to |-> Null]>>)
            \o <<[op |-> "store", at |-> h, to |-> ptr[g]],
                 [op |-> "store", at |-> g, to |-> Null]>>]
CopyNotCounted(p) == refs
LastTooEarly(n)   == refs[n] <= 2
StartsAtZero      == 0
-----------------------------------------------------------------------------
\* What a call can leave to be done.
Delete(n)   == [op |-> "delete",  at |-> n, to |-> Null]  \* delete_object
Body(n)     == [op |-> "body",    at |-> n, to |-> Null]  \* the body of ~T
Members(n)  == [op |-> "members", at |-> n, to |-> Null]  \* the members of T
Free(n)     == [op |-> "free",    at |-> n, to |-> Null]  \* deallocate_object
Release(n)  == [op |-> "release", at |-> n, to |-> Null]  \* _Release
Store(h, p) == [op |-> "store",   at |-> h, to |-> p]     \* _Myptr = p

Pending(ops)  == {i \in DOMAIN todo : todo[i].op \in ops}
Waits(op, at) == \E i \in Pending({op}) : todo[i].at = at

Exists(h) == h \in Roots \cup heap

\* Its destructor runs, or it will be written when the calls underway end.
Busy(h) == \/ Waits("store", h)
           \/ Waits("free", h) /\ ~Waits("members", h)

Dying(n) == Waits("free", n)

\* p and the objects it owns through members, directly or not.
Below(p) ==
  {n \in Nodes :
     \A S \in SUBSET Nodes :
       p \in S \cup {Null} /\ (\A x \in S : ptr[x] \in S \cup {Null}) => n \in S}

Quiet(p) == \A n \in Below(p) : ~Busy(n)

(***************************************************************************)
(* What a call may be given: not a handle another call is in the middle    *)
(* of, nor one that owns such a handle; nor a unique handle inside the     *)
(* object it owns, which nobody else can reach.                            *)
(***************************************************************************)
Usable(h) == /\ Exists(h) /\ ~Busy(h) /\ Quiet(ptr[h])
             /\ Shared \/ h \notin Below(ptr[h])

-----------------------------------------------------------------------------
Deleting(p) == IF p = Null THEN <<>> ELSE <<Delete(p)>>

GivenUp(p) == IF p = Null THEN <<>> ELSE IF Shared THEN <<Release(p)>> ELSE <<Delete(p)>>

(***************************************************************************)
(* h takes p: unique_ptr and unique_array delete what they hold and then   *)
(* store; a shared_ptr swaps with a temporary, which then gives up the old *)
(* object.  at is _Myptr of every handle when this begins.                 *)
(***************************************************************************)
Taken(h, p, at) ==
  IF Shared THEN [ptr |-> [at EXCEPT ![h] = p], rest |-> GivenUp(at[h])]
  ELSE [ptr |-> at, rest |-> GivenUp(at[h]) \o <<Store(h, p)>>]

\* unique_array reads its source, deletes, stores, and only then clears it;
\* the others take the pointer away from the source first.
Moved(h, g) ==
  IF kind = "unique_array"
  THEN [ptr |-> ptr, rest |-> Deleting(ptr[h]) \o <<Store(h, ptr[g]), Store(g, Null)>>]
  ELSE Taken(h, ptr[g], [ptr EXCEPT ![g] = Null])

Incremented(p) == IF p = Null THEN refs ELSE [refs EXCEPT ![p] = @ + 1]

IsLast(n) == refs[n] = 1

FirstCount == 1

-----------------------------------------------------------------------------
\* The program calls, or a destructor does (once).
Calls(result) ==
  /\ todo # <<>> => Head(todo).op = "body"
  /\ ptr' = result.ptr
  /\ todo' = result.rest \o (IF todo = <<>> THEN <<>> ELSE Tail(todo))
  /\ UNCHANGED kind

\* h = make_unique(), make_unique_array(1) or make_shared()
Make(h) ==
  /\ Usable(h)
  /\ \E n \in Nodes \ heap :
       /\ Calls(Taken(h, n, [ptr EXCEPT ![n] = Null]))
       /\ heap' = heap \cup {n}
       /\ refs' = [refs EXCEPT ![n] = IF Shared THEN FirstCount ELSE 0]
  /\ UNCHANGED raw

\* h.reset(), h = nullptr, or h goes out of scope
Reset(h) == /\ Usable(h)
            /\ Calls(Taken(h, Null, ptr))
            /\ UNCHANGED <<refs, heap, raw>>

\* h = std::move(g)
Move(h, g) == /\ Usable(h) /\ Usable(g)
              /\ MayDescend \/ kind # "unique_array" \/ g \notin Below(ptr[h])
              /\ Calls(Moved(h, g))
              /\ UNCHANGED <<refs, heap, raw>>

\* h = g
Copy(h, g) == /\ Shared /\ Usable(h) /\ Usable(g)
              /\ refs' = Incremented(ptr[g])
              /\ Calls(Taken(h, ptr[g], ptr))
              /\ UNCHANGED <<heap, raw>>

Swap(h, g) == /\ h # g /\ Usable(h) /\ Usable(g)
              /\ Calls([ptr |-> [ptr EXCEPT ![h] = ptr[g], ![g] = ptr[h]], rest |-> <<>>])
              /\ UNCHANGED <<refs, heap, raw>>

\* The program takes over what h holds,
Extract(h) == /\ ~Shared /\ Usable(h) /\ ptr[h] # Null
              /\ Calls([ptr |-> [ptr EXCEPT ![h] = Null], rest |-> <<>>])
              /\ raw' = raw \cup {ptr[h]}
              /\ UNCHANGED <<refs, heap>>

\* and hands it to a handle again.
ResetPtr(h) == /\ Usable(h)
               /\ \E p \in raw : /\ Quiet(p)
                                 /\ Calls(Taken(h, p, ptr))
                                 /\ raw' = raw \ {p}
               /\ UNCHANGED <<refs, heap>>

-----------------------------------------------------------------------------
\* The innermost call goes on.
Goes(op) == todo # <<>> /\ Head(todo).op = op /\ UNCHANGED <<kind, raw>>
Then(rest) == todo' = rest \o Tail(todo)
This == Head(todo).at

DeleteObject == /\ Goes("delete")
                /\ Then(<<Body(This), Members(This), Free(This)>>)
                /\ UNCHANGED <<ptr, refs, heap>>

EndBody == Goes("body") /\ Then(<<>>) /\ UNCHANGED <<ptr, refs, heap>>

DestroyMembers == /\ Goes("members")
                  /\ Then(GivenUp(ptr[This]))
                  /\ UNCHANGED <<ptr, refs, heap>>

Deallocate == /\ Goes("free")
              /\ Then(<<>>)
              /\ heap' = heap \ {This}
              /\ ptr' = [ptr EXCEPT ![This] = Null]
              /\ UNCHANGED refs

StorePtr == /\ Goes("store")
            /\ Then(<<>>)
            /\ ptr' = [ptr EXCEPT ![This] = Head(todo).to]
            /\ UNCHANGED <<refs, heap>>

ReleaseShare == /\ Goes("release")
                /\ Then(IF IsLast(This) THEN <<Delete(This)>> ELSE <<>>)
                /\ refs' = [refs EXCEPT ![This] = @ - 1]
                /\ UNCHANGED <<ptr, heap>>

Init == /\ kind \in Kinds
        /\ ptr = [h \in Handles |-> Null]
        /\ refs = [n \in Nodes |-> 0]
        /\ heap = {}
        /\ raw = {}
        /\ todo = <<>>

Next == \/ \E h \in Handles :
             \/ Make(h) \/ Reset(h) \/ Extract(h) \/ ResetPtr(h)
             \/ \E g \in Handles : Move(h, g) \/ Copy(h, g) \/ Swap(h, g)
        \/ DeleteObject \/ EndBody \/ DestroyMembers
        \/ Deallocate \/ StorePtr \/ ReleaseShare

Spec == Init /\ [][Next]_vars
-----------------------------------------------------------------------------
Ops == {"delete", "body", "members", "free", "release", "store"}

(***************************************************************************)
(* Every variable has its type; no counter goes below zero.                *)
(***************************************************************************)
TypeOK ==
  /\ kind \in Kinds
  /\ ptr \in [Handles -> Nodes \cup {Null}]
  /\ refs \in [Nodes -> Nat]
  /\ heap \subseteq Nodes /\ raw \subseteq heap
  /\ todo \in Seq([op : Ops, at : Handles, to : Nodes \cup {Null}])

(***************************************************************************)
(* No call goes on in an object whose storage has been freed: in           *)
(* particular an assignment whose source or target is a member of an       *)
(* object that the assignment itself deletes.                              *)
(***************************************************************************)
NothingTouchedAfterFree == todo # <<>> => Exists(This)

(***************************************************************************)
(* No object is destroyed twice, however destructors nest.                 *)
(***************************************************************************)
DestroyedOnce ==
  \A i, j \in Pending({"delete", "free"}) : todo[i].at = todo[j].at => i = j

(***************************************************************************)
(* Those who answer for n: handles that are not in the middle of a call,   *)
(* the program, and what is left to do (the last store into a handle       *)
(* counts).                                                                *)
(***************************************************************************)
Claims(n) ==
  Cardinality({h \in Handles : Exists(h) /\ ~Busy(h) /\ ptr[h] = n})
  + Cardinality({n} \cap raw)
  + Cardinality({i \in Pending({"delete", "release"}) : todo[i].at = n})
  + Cardinality({i \in Pending({"store"}) :
                   /\ todo[i].to = n
                   /\ \A j \in Pending({"store"}) : j > i => todo[j].at # todo[i].at})

(***************************************************************************)
(* At every moment, inside nested calls too, an object that is not being   *)
(* destroyed has exactly one owner, or as many as its counter says, and a  *)
(* destroyed one has none: nothing is lost, nothing dangles.               *)
(***************************************************************************)
OwnersExact ==
  \A n \in Nodes :
    IF n \notin heap \/ Dying(n) THEN Claims(n) = 0
    ELSE IF Shared /\ ~Waits("delete", n) THEN Claims(n) = refs[n] /\ refs[n] > 0
    ELSE Claims(n) = 1
=============================================================================
