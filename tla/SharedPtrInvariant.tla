-------------------------- MODULE SharedPtrInvariant --------------------------
(***************************************************************************)
(* The inductive invariant of SharedPtr: what is true between any two      *)
(* steps, whatever the number of threads, handles, objects and counters.   *)
(***************************************************************************)
EXTENDS SharedPtr

(***************************************************************************)
(* Frames.  A thread rests, works on its temporary (an assignment or a     *)
(* reset), or constructs or destroys a slot.                               *)
(***************************************************************************)
NewCounter(t) == frame[t].pc \in {"new_counter", "new_counter_noexcept"}
Copying(t)    == frame[t].pc = "increment"

Resting(t) == frame[t] = IdleFrame /\ hnd[t] = Empty

OnTemporary(t) == /\ frame[t].pc # "idle"
                  /\ frame[t].this = t
                  /\ frame[t].dst \in Slots

OnSlot(t) == /\ frame[t].pc \notin {"idle", "swap", "new_counter_noexcept"}
             /\ frame[t].this \in Slots
             /\ frame[t].dst = Null
             /\ hnd[t] = Empty

FrameOK == \A t \in Threads : Resting(t) \/ OnTemporary(t) \/ OnSlot(t)

\* What one call writes no other call touches.
Exclusive == \A t, u \in Threads : t # u =>
               \A x \in Locations : x \in Written(t) => x \notin Touched(u)

(***************************************************************************)
(* Counters.  A handle refers to a live counter; one that refers to none   *)
(* is empty unless its counter is being created.  A pending copy has a     *)
(* counted handle as its source, and a dying handle is the last one.       *)
(***************************************************************************)
CounterLives == \A x \in Locations : hnd[x].ctr # Null => hnd[x].ctr \in ctrs

NewHasNone == \A t \in Threads : NewCounter(t) => hnd[frame[t].this].ctr = Null

Creating(x) == \E t \in Threads : NewCounter(t) /\ frame[t].this = x

NoneIsEmpty == \A x \in Locations :
  hnd[x].ctr = Null => hnd[x] = Empty \/ Creating(x)

CopyHasSource == \A t \in Threads : Copying(t) =>
  /\ frame[t].src \in Slots
  /\ frame[t].src # frame[t].this
  /\ hnd[frame[t].this].ctr # Null
  /\ hnd[frame[t].src] = hnd[frame[t].this]

DyingIsLast == \A t \in Threads : Dying(t) =>
  /\ hnd[frame[t].this].ctr # Null
  /\ \A y \in Locations : y # frame[t].this => hnd[y].ctr # hnd[frame[t].this].ctr

(***************************************************************************)
(* Objects.  Handles agree on which counter belongs to which object, and   *)
(* an object a unique_ptr manages is in no handle.                         *)
(***************************************************************************)
\* The object x keeps alive: none once delete_object(_Myptr) is done.
Managed(x, o) == o # Null /\ hnd[x].ptr = o /\ ~Deleted(x)

ManagedLives == \A x \in Locations, o \in Objects : Managed(x, o) => o \in alive

OneCounter == \A x, y \in Locations, o \in Objects :
  x # y /\ Managed(x, o) /\ Managed(y, o) =>
    hnd[x].ctr # Null /\ hnd[x].ctr = hnd[y].ctr

OneObject == \A x, y \in Locations :
  hnd[x].ctr # Null /\ hnd[x].ctr = hnd[y].ctr => hnd[x].ptr = hnd[y].ptr

UniqueIsSole == \A t \in Threads : uniq[t] # Null =>
  /\ uniq[t] \in alive
  /\ \A u \in Threads : uniq[u] = uniq[t] => u = t
  /\ \A x \in Locations : ~Managed(x, uniq[t])

IInv == /\ TypeOK
        /\ FrameOK
        /\ Exclusive
        /\ CounterLives /\ NewHasNone /\ NoneIsEmpty /\ CopyHasSource /\ DyingIsLast
        /\ ManagedLives /\ OneCounter /\ OneObject /\ UniqueIsSole
        /\ CountMatchesOwners
=============================================================================
