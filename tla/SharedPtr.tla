------------------------------ MODULE SharedPtr ------------------------------
(***************************************************************************)
(* shared_ptr, unique_ptr and reference_counter                            *)
(* (mjxsdk/memory/smart_pointer.hpp and .cpp) used by several threads.     *)
(*                                                                         *)
(* A step is one access to state another thread can see: an atomic         *)
(* operation on a reference_counter, the deletion of an object or of a     *)
(* counter, or a stretch of code that only touches handles the calling     *)
(* thread has to itself.  A call of a member function is a chain of steps, *)
(* and the frame of the thread says where in the chain it is.              *)
(*                                                                         *)
(* The client obeys the rule every standard smart pointer sets: two        *)
(* threads may use different handles of one object freely, but a handle    *)
(* being written is used by one thread only, and the arguments of a call   *)
(* stay put until it returns (CanRead, CanWrite).                          *)
(***************************************************************************)
EXTENDS Integers, FiniteSets

CONSTANTS Threads,   \* each has a temporary shared_ptr and a unique_ptr
          Slots,     \* the shared_ptr variables of the program
          Objects,   \* addresses of managed objects
          Counters,  \* addresses of reference counters
          Null,      \* the null pointer; also "no location" in a frame
          MayFail    \* may the allocation of a reference_counter fail?

\* Where a shared_ptr can live: the temporary of thread t is location t.
Locations == Slots \cup Threads

ASSUME SharedPtrAssumption ==
  /\ IsFiniteSet(Slots)
  /\ IsFiniteSet(Threads)
  /\ Slots \cap Threads = {}
  /\ Locations \cap ({"unique"} \X Threads) = {}
  /\ Null \notin Locations \cup Objects \cup Counters
  /\ MayFail \in BOOLEAN

VARIABLES
  hnd,         \* the handles: fields _Myptr and _Myctr of each location
  uniq,        \* _Myptr of the unique_ptr of each thread
  alive,       \* the objects that exist
  ctrs,        \* the counters that exist
  refs,        \* _Myrefs of each counter
  frame,       \* what each thread is doing
  terminated   \* std::terminate was called

vars == <<hnd, uniq, alive, ctrs, refs, frame, terminated>>

Handle == [ptr : Objects \cup {Null}, ctr : Counters \cup {Null}]

\* A default-constructed handle; also the storage of a destroyed one.
Empty == [ptr |-> Null, ctr |-> Null]

PC == {"idle", "new_counter", "new_counter_noexcept", "increment", "swap",
       "release", "del_object", "del_counter"}

\* this: the handle under construction or destruction;
\* dst: the handle *this is swapped with once constructed (assignments);
\* src: the handle it is copied from.
Frame == [pc : PC, this : Locations \cup {Null}, dst : Slots \cup {Null},
          src : Slots \cup {Null}]

IdleFrame == [pc |-> "idle", this |-> Null, dst |-> Null, src |-> Null]

TypeOK ==
  /\ hnd \in [Locations -> Handle]
  /\ uniq \in [Threads -> Objects \cup {Null}]
  /\ alive \subseteq Objects
  /\ ctrs \subseteq Counters
  /\ refs \in [Counters -> Nat]
  /\ frame \in [Threads -> Frame]
  /\ terminated \in BOOLEAN

Init ==
  /\ hnd = [x \in Locations |-> Empty]
  /\ uniq = [t \in Threads |-> Null]
  /\ alive = {}
  /\ ctrs = {}
  /\ refs = [c \in Counters |-> 0]
  /\ frame = [t \in Threads |-> IdleFrame]
  /\ terminated = FALSE
-----------------------------------------------------------------------------
(***************************************************************************)
(* Faulty variants of definitions below, to confirm that the properties    *)
(* notice them: a copy that is not counted, a move that leaves the source  *)
(* as it was, a reset() that forgets the old object, and a _Release() that *)
(* deletes one owner early or tests the value from before the decrement.   *)
(***************************************************************************)
IncrementLost(n) == n
SourceKept(s, r) == [hnd EXCEPT ![s] = hnd[r]]
OldForgotten(t, u) == {}
LastTooEarly(n) == n <= 1
LastByOldValue(n) == n + 1 = 0
-----------------------------------------------------------------------------
\* The locations a call in progress may write, and those it relies on.
Written(t) == {frame[t].this, frame[t].dst}
Touched(t) == Written(t) \cup {frame[t].src}

CanRead(s)  == \A u \in Threads : s \notin Written(u)
CanWrite(s) == \A u \in Threads : s \notin Touched(u)

Idle(t) == ~terminated /\ frame[t].pc = "idle"
At(t, pc) == ~terminated /\ frame[t].pc = pc

Call(t, pc, this, dst, src) ==
  frame' = [frame EXCEPT ![t] = [pc |-> pc, this |-> this, dst |-> dst, src |-> src]]

Goto(t, pc) == frame' = [frame EXCEPT ![t].pc = pc]
Return(t)   == frame' = [frame EXCEPT ![t] = IdleFrame]

\* The handle is constructed: a constructor returns, an assignment goes on
\* with .swap(*this).
Constructed(t) == IF frame[t].dst = Null THEN Return(t) ELSE Goto(t, "swap")

\* Bound: a call that needs a counter starts only if one is left for it.
CounterLeft ==
  Cardinality({t \in Threads : frame[t].pc \in {"new_counter", "new_counter_noexcept"}})
    < Cardinality(Counters \ ctrs)

\* std::atomic<long>: ++_Myrefs and --_Myrefs.
Incremented(n) == n + 1
Decremented(n) == n - 1

\* The test _Release makes on the value decrement() returned.
IsLast(n) == n = 0

\* The fields of s and r after s(std::move(r)).
Moved(s, r) == [hnd EXCEPT ![s] = hnd[r], ![r] = Empty]
-----------------------------------------------------------------------------
(***************************************************************************)
(* unique_ptr.  Each thread owns one and works on it without interleaving. *)
(***************************************************************************)
MakeUnique(t, o) ==
  /\ Idle(t)
  /\ uniq[t] = Null
  /\ o \in Objects \ alive
  /\ uniq' = [uniq EXCEPT ![t] = o]
  /\ alive' = alive \cup {o}
  /\ UNCHANGED <<hnd, ctrs, refs, frame, terminated>>

\* reset(), operator=(nullptr) and the destructor.
DeleteUnique(t) ==
  /\ Idle(t)
  /\ uniq[t] # Null
  /\ alive' = alive \ {uniq[t]}
  /\ uniq' = [uniq EXCEPT ![t] = Null]
  /\ UNCHANGED <<hnd, ctrs, refs, frame, terminated>>

\* The new value of both pointers after *this = std::move(other), which is
\* reset(other.release()), and the object reset() deletes.  On a self-move
\* release() has emptied the handle before reset() looks at it.
AfterMove(t, u) ==
  IF t = u THEN uniq ELSE [uniq EXCEPT ![t] = uniq[u], ![u] = Null]
DeletedByMove(t, u) == IF t = u THEN {} ELSE {uniq[t]}

MoveUnique(t, u) ==
  /\ Idle(t) /\ Idle(u)
  /\ uniq' = AfterMove(t, u)
  /\ alive' = alive \ DeletedByMove(t, u)
  /\ UNCHANGED <<hnd, ctrs, refs, frame, terminated>>

SwapUnique(t, u) ==
  /\ Idle(t) /\ Idle(u)
  /\ uniq' = [uniq EXCEPT ![t] = uniq[u], ![u] = uniq[t]]
  /\ UNCHANGED <<hnd, alive, ctrs, refs, frame, terminated>>
-----------------------------------------------------------------------------
(***************************************************************************)
(* shared_ptr: the first step of each call.                                *)
(***************************************************************************)
\* shared_ptr(create_object<T>()): the object exists, the counter does not yet.
MakeShared(t, s, o) ==
  /\ Idle(t) /\ CanWrite(s) /\ CounterLeft
  /\ hnd[s] = Empty
  /\ o \in Objects \ alive
  /\ alive' = alive \cup {o}
  /\ hnd' = [hnd EXCEPT ![s] = [ptr |-> o, ctr |-> Null]]
  /\ Call(t, "new_counter", s, Null, Null)
  /\ UNCHANGED <<uniq, ctrs, refs, terminated>>

\* shared_ptr(unique_ptr&&): release() comes before the counter is created.
FromUnique(t, s) ==
  /\ Idle(t) /\ CanWrite(s) /\ CounterLeft
  /\ hnd[s] = Empty
  /\ hnd' = [hnd EXCEPT ![s] = [ptr |-> uniq[t], ctr |-> Null]]
  /\ uniq' = [uniq EXCEPT ![t] = Null]
  /\ Call(t, "new_counter", s, Null, Null)
  /\ UNCHANGED <<alive, ctrs, refs, terminated>>

\* operator=(unique_ptr&&): the same, into a temporary.
AssignUnique(t, s) ==
  /\ Idle(t) /\ CanWrite(s) /\ CounterLeft
  /\ hnd' = [hnd EXCEPT ![t] = [ptr |-> uniq[t], ctr |-> Null]]
  /\ uniq' = [uniq EXCEPT ![t] = Null]
  /\ Call(t, "new_counter", t, s, Null)
  /\ UNCHANGED <<alive, ctrs, refs, terminated>>

\* reset(create_object<T>()); reset(pointer) is noexcept.
ResetPtr(t, s, o) ==
  /\ Idle(t) /\ CanWrite(s) /\ CounterLeft
  /\ o \in Objects \ alive
  /\ alive' = alive \cup {o}
  /\ hnd' = [hnd EXCEPT ![t] = [ptr |-> o, ctr |-> Null]]
  /\ Call(t, "new_counter_noexcept", t, s, Null)
  /\ UNCHANGED <<uniq, ctrs, refs, terminated>>

\* shared_ptr(const shared_ptr&): read both fields, then increment if there
\* is a counter.
CopyConstruct(t, s, r) ==
  /\ Idle(t) /\ CanWrite(s) /\ CanRead(r)
  /\ hnd[s] = Empty /\ s # r
  /\ hnd' = [hnd EXCEPT ![s] = hnd[r]]
  /\ IF hnd[r].ctr = Null THEN UNCHANGED frame
                          ELSE Call(t, "increment", s, Null, r)
  /\ UNCHANGED <<uniq, alive, ctrs, refs, terminated>>

\* operator=(const shared_ptr&): copy into a temporary, then swap.
CopyAssign(t, s, r) ==
  /\ Idle(t) /\ CanWrite(s) /\ CanRead(r)
  /\ hnd' = [hnd EXCEPT ![t] = hnd[r]]
  /\ Call(t, IF hnd[r].ctr = Null THEN "swap" ELSE "increment", t, s, r)
  /\ UNCHANGED <<uniq, alive, ctrs, refs, terminated>>

MoveConstruct(t, s, r) ==
  /\ Idle(t) /\ CanWrite(s) /\ CanWrite(r)
  /\ hnd[s] = Empty /\ s # r
  /\ hnd' = Moved(s, r)
  /\ UNCHANGED <<uniq, alive, ctrs, refs, frame, terminated>>

\* operator=(shared_ptr&&): move into a temporary, then swap; s = r allowed.
MoveAssign(t, s, r) ==
  /\ Idle(t) /\ CanWrite(s) /\ CanWrite(r)
  /\ hnd' = Moved(t, r)
  /\ Call(t, "swap", t, s, r)
  /\ UNCHANGED <<uniq, alive, ctrs, refs, terminated>>

\* reset(): shared_ptr().swap(*this).
Reset(t, s) ==
  /\ Idle(t) /\ CanWrite(s)
  /\ Call(t, "swap", t, s, Null)
  /\ UNCHANGED <<hnd, uniq, alive, ctrs, refs, terminated>>

Destruct(t, s) ==
  /\ Idle(t) /\ CanWrite(s)
  /\ Call(t, "release", s, Null, Null)
  /\ UNCHANGED <<hnd, uniq, alive, ctrs, refs, terminated>>

SwapSlots(t, s, r) ==
  /\ Idle(t) /\ CanWrite(s) /\ CanWrite(r)
  /\ hnd' = [hnd EXCEPT ![s] = hnd[r], ![r] = hnd[s]]
  /\ UNCHANGED <<uniq, alive, ctrs, refs, frame, terminated>>
-----------------------------------------------------------------------------
(***************************************************************************)
(* shared_ptr: the later steps of a call.                                  *)
(***************************************************************************)
\* create_object<reference_counter>(1).
CreateCounter(t) ==
  /\ At(t, "new_counter") \/ At(t, "new_counter_noexcept")
  /\ \E c \in Counters \ ctrs :
       /\ ctrs' = ctrs \cup {c}
       /\ refs' = [refs EXCEPT ![c] = 1]
       /\ hnd' = [hnd EXCEPT ![frame[t].this].ctr = c]
  /\ Constructed(t)
  /\ UNCHANGED <<uniq, alive, terminated>>

\* The allocation throws.  The handle was never constructed, so no
\* destructor runs: the exception leaves the constructor, the object stays.
CreateCounterThrows(t) ==
  /\ MayFail /\ At(t, "new_counter")
  /\ hnd' = [hnd EXCEPT ![frame[t].this] = Empty]
  /\ Return(t)
  /\ UNCHANGED <<uniq, alive, ctrs, refs, terminated>>

\* The same exception meets the noexcept of reset(pointer).
CreateCounterTerminates(t) ==
  /\ MayFail /\ At(t, "new_counter_noexcept")
  /\ terminated' = TRUE
  /\ UNCHANGED <<hnd, uniq, alive, ctrs, refs, frame>>

Increment(t) ==
  /\ At(t, "increment")
  /\ refs' = [refs EXCEPT ![hnd[frame[t].this].ctr] = Incremented(@)]
  /\ Constructed(t)
  /\ UNCHANGED <<hnd, uniq, alive, ctrs, terminated>>

\* .swap(*this); then the temporary is destroyed.
Swap(t) ==
  /\ At(t, "swap")
  /\ hnd' = [hnd EXCEPT ![t] = hnd[frame[t].dst], ![frame[t].dst] = hnd[t]]
  /\ Goto(t, "release")
  /\ UNCHANGED <<uniq, alive, ctrs, refs, terminated>>

\* ~shared_ptr with no counter: nothing to release.
ReleaseEmpty(t) ==
  LET x == frame[t].this
  IN  /\ At(t, "release")
      /\ hnd[x].ctr = Null
      /\ hnd' = [hnd EXCEPT ![x] = Empty]
      /\ Return(t)
      /\ UNCHANGED <<uniq, alive, ctrs, refs, terminated>>

\* _Myctr->decrement(), and the decision on the value it returned.
Release(t) ==
  LET x == frame[t].this
      c == hnd[x].ctr
  IN  /\ At(t, "release")
      /\ c # Null
      /\ refs' = [refs EXCEPT ![c] = Decremented(@)]
      /\ IF IsLast(refs'[c]) THEN Goto(t, "del_object") /\ UNCHANGED hnd
         ELSE Return(t) /\ hnd' = [hnd EXCEPT ![x] = Empty]
      /\ UNCHANGED <<uniq, alive, ctrs, terminated>>

\* delete_object(_Myptr).
DeleteObject(t) ==
  /\ At(t, "del_object")
  /\ alive' = alive \ {hnd[frame[t].this].ptr}
  /\ Goto(t, "del_counter")
  /\ UNCHANGED <<hnd, uniq, ctrs, refs, terminated>>

\* delete_object(_Myctr), then both fields are set to null.
DeleteCounter(t) ==
  /\ At(t, "del_counter")
  /\ ctrs' = ctrs \ {hnd[frame[t].this].ctr}
  /\ hnd' = [hnd EXCEPT ![frame[t].this] = Empty]
  /\ Return(t)
  /\ UNCHANGED <<uniq, alive, refs, terminated>>
-----------------------------------------------------------------------------
\* A thread with no call in progress starts one.
Start(t) ==
  \/ \E o \in Objects : MakeUnique(t, o)
  \/ DeleteUnique(t)
  \/ \E u \in Threads : MoveUnique(t, u) \/ SwapUnique(t, u)
  \/ \E s \in Slots :
       \/ \E o \in Objects : MakeShared(t, s, o) \/ ResetPtr(t, s, o)
       \/ FromUnique(t, s)
       \/ AssignUnique(t, s)
       \/ Reset(t, s)
       \/ Destruct(t, s)
       \/ \E r \in Slots : \/ CopyConstruct(t, s, r)
                           \/ CopyAssign(t, s, r)
                           \/ MoveConstruct(t, s, r)
                           \/ MoveAssign(t, s, r)
                           \/ SwapSlots(t, s, r)

\* A thread goes on with its call.
Continue(t) ==
  \/ CreateCounter(t)
  \/ CreateCounterThrows(t)
  \/ CreateCounterTerminates(t)
  \/ Increment(t)
  \/ Swap(t)
  \/ ReleaseEmpty(t)
  \/ Release(t)
  \/ DeleteObject(t)
  \/ DeleteCounter(t)

Next == \E t \in Threads : Start(t) \/ Continue(t)

Spec == Init /\ [][Next]_vars

\* Threads are scheduled: a call in progress goes on.  Nothing makes a
\* thread start another call.
FairSpec == Spec /\ \A t \in Threads : WF_vars(Continue(t))
-----------------------------------------------------------------------------
\* Threads whose frame says that the handle it works on is not counted: its
\* increment is still to come, or its decrement has been done.
Dying(t) == frame[t].pc \in {"del_object", "del_counter"}
Uncounted == {frame[t].this : t \in {u \in Threads : Dying(u) \/ frame[u].pc = "increment"}}

Owners(c) == {x \in Locations \ Uncounted : hnd[x].ctr = c}

(***************************************************************************)
(* The counter is exact between any two steps: the value of _Myrefs is the *)
(* number of handles that own the object, not counting a copy whose        *)
(* increment is pending (smart_pointer.hpp:302-304) nor the handle that    *)
(* took the counter to zero (:372-374).                                    *)
(***************************************************************************)
CountMatchesOwners == \A c \in ctrs : refs[c] = Cardinality(Owners(c))

(***************************************************************************)
(* No use after free: the counter of every handle exists as long as the    *)
(* handle refers to it (an increment or a decrement can come any time),    *)
(* and so does the object, until the thread that deletes it is past        *)
(* delete_object(_Myptr) at smart_pointer.hpp:373.                         *)
(***************************************************************************)
Deleted(x) == \E t \in Threads : frame[t].this = x /\ frame[t].pc = "del_counter"

NoUseAfterFree ==
  /\ \A x \in Locations : hnd[x].ctr # Null => hnd[x].ctr \in ctrs
  /\ \A x \in Locations :
       hnd[x].ptr # Null => hnd[x].ptr \in alive \/ Deleted(x)
  /\ \A t \in Threads : uniq[t] # Null => uniq[t] \in alive

(***************************************************************************)
(* Whoever deletes is alone: when a thread is about to delete an object    *)
(* and its counter (smart_pointer.hpp:373-374) no other handle refers to   *)
(* either, so no second thread can reach the same branch.  (A handle whose *)
(* own deletion is past the object keeps a stale _Myptr, which may equal   *)
(* the address of a newer object, until line 375 clears it.)               *)
(***************************************************************************)
SoleDeleter ==
  \A t \in Threads : Dying(t) =>
    LET x == frame[t].this
    IN  /\ \A y \in Locations \ {x} : hnd[y].ctr # hnd[x].ctr
        /\ frame[t].pc = "del_object" /\ hnd[x].ptr # Null =>
             /\ \A y \in Locations \ {x} : hnd[y].ptr = hnd[x].ptr => Deleted(y)
             /\ \A u \in Threads : uniq[u] # hnd[x].ptr

(***************************************************************************)
(* Nothing is leaked: every object that exists is reachable from a handle  *)
(* or a unique_ptr, and so is every counter.  Holds as long as counters    *)
(* can be allocated (MayFail = FALSE).                                     *)
(***************************************************************************)
NoLeak ==
  /\ \A o \in alive : \/ \E x \in Locations : hnd[x].ptr = o
                      \/ \E t \in Threads : uniq[t] = o
  /\ \A c \in ctrs : \E x \in Locations : hnd[x].ctr = c
-----------------------------------------------------------------------------
(***************************************************************************)
(* The refinement: a handle holds its object until the decrement that      *)
(* takes the counter to zero; then the object waits to be reclaimed.       *)
(***************************************************************************)
Holders == Locations \cup ({"unique"} \X Threads)

HeldBy(h) == IF h \in Locations
             THEN IF \E t \in Threads : Dying(t) /\ frame[t].this = h
                  THEN Null ELSE hnd[h].ptr
             ELSE uniq[h[2]]

Ownership == INSTANCE SharedOwnership
               WITH None <- Null, holds <- [h \in Holders |-> HeldBy(h)]

(***************************************************************************)
(* The counting scheme implements shared ownership: an object is created   *)
(* held, is destroyed only when nobody holds it, and is destroyed once     *)
(* nobody does.                                                            *)
(***************************************************************************)
ImplementsOwnership == Ownership!Spec
=============================================================================
