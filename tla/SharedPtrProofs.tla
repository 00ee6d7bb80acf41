--------------------------- MODULE SharedPtrProofs ---------------------------
(***************************************************************************)
(* Proofs about SharedPtr, for any number of threads, handles, objects and *)
(* counters.                                                               *)
(***************************************************************************)
EXTENDS SharedPtrInvariant, FiniteSetTheorems, TLAPS

LEMMA InitInv ==
  ASSUME Init
  PROVE  IInv
<1> USE SharedPtrAssumption DEF Init
<1>1. TypeOK
  BY DEF TypeOK, Empty, Handle, IdleFrame, Frame, PC
<1>2. FrameOK /\ Exclusive
  BY DEF FrameOK, Resting, Exclusive, Written, Touched, IdleFrame, Locations
<1>3. CounterLives /\ NoneIsEmpty
  BY DEF CounterLives, NoneIsEmpty, Empty
<1>4. NewHasNone /\ CopyHasSource /\ DyingIsLast
  BY DEF NewHasNone, CopyHasSource, DyingIsLast, NewCounter, Copying, Dying, IdleFrame
<1>5. ManagedLives /\ OneCounter /\ OneObject /\ UniqueIsSole
  BY DEF ManagedLives, OneCounter, OneObject, UniqueIsSole, Managed, Empty
<1>6. CountMatchesOwners
  BY DEF CountMatchesOwners
<1> QED
  BY <1>1, <1>2, <1>3, <1>4, <1>5, <1>6 DEF IInv

\* A thread between calls: its temporary is nobody's business.
LEMMA IdleThread ==
  ASSUME IInv, NEW t \in Threads, Idle(t)
  PROVE  /\ t \in Locations
         /\ frame[t] = IdleFrame
         /\ hnd[t] = Empty
         /\ \A u \in Threads : t \notin Touched(u)
<1>1. t \in Locations /\ t \notin Slots /\ t # Null
  BY SharedPtrAssumption DEF Locations
<1>2. frame[t] = IdleFrame /\ hnd[t] = Empty
  BY SMT DEF IInv, FrameOK, Resting, OnTemporary, OnSlot, Idle, IdleFrame
<1>3. ASSUME NEW u \in Threads
      PROVE  t \notin Touched(u)
  <2>1. frame[u].dst \in Slots \cup {Null} /\ frame[u].src \in Slots \cup {Null}
    BY DEF IInv, TypeOK, Frame
  <2>2. frame[u].this # t
    BY <1>1, <1>2 DEF IInv, FrameOK, Resting, OnTemporary, OnSlot, IdleFrame
  <2> QED
    BY <1>1, <2>1, <2>2 DEF Touched, Written
<1> QED
  BY <1>1, <1>2, <1>3

\* A thread in a call: what it works on is its own.
LEMMA BusyThread ==
  ASSUME IInv, NEW t \in Threads, frame[t].pc # "idle"
  PROVE  /\ frame[t].this \in Locations
         /\ \A u \in Threads : u # t => frame[t].this \notin Touched(u)
         /\ \/ frame[t].this = t /\ frame[t].dst \in Slots
            \/ frame[t].this \in Slots /\ frame[t].dst = Null /\ hnd[t] = Empty
         /\ \A u \in Threads : u # t /\ frame[t].dst # Null => frame[t].dst \notin Touched(u)
<1>1. OnTemporary(t) \/ OnSlot(t)
  BY DEF IInv, FrameOK, Resting, IdleFrame
<1>2. frame[t].this \in Locations /\ (frame[t].dst # Null => frame[t].dst \in Locations)
  BY <1>1, SharedPtrAssumption DEF OnTemporary, OnSlot, Locations
<1>3. ASSUME NEW u \in Threads, u # t
      PROVE  /\ frame[t].this \notin Touched(u)
             /\ frame[t].dst # Null => frame[t].dst \notin Touched(u)
  BY <1>2, <1>3 DEF IInv, Exclusive, Written
<1> QED
  BY <1>1, <1>2, <1>3 DEF OnTemporary, OnSlot

-----------------------------------------------------------------------------
(***************************************************************************)
(* Every step is local: thread t alone changes its frame, it writes the    *)
(* locations W only, and W is touched by no other call.                    *)
(***************************************************************************)
LocalStep(t, W) ==
  /\ W \subseteq Locations
  /\ W \cap Threads \subseteq {t}
  /\ \A u \in Threads \ {t} : frame'[u] = frame[u] /\ W \cap Touched(u) = {}
  /\ \A y \in Locations \ W : hnd'[y] = hnd[y]
  /\ {frame[t].this, frame'[t].this, frame'[t].dst} \subseteq W \cup {Null}
  /\ \A u \in Threads \ {t} : frame'[t].src \in Written(u) => frame'[t].src = Null

\* What a frame says of the location it works on.
LEMMA LocalRoles ==
  ASSUME NEW t \in Threads, NEW W, LocalStep(t, W)
  PROVE  /\ \A y \in Locations \ W : /\ Deleted(y)' <=> Deleted(y)
                                     /\ y \in Uncounted' <=> y \in Uncounted
                                     /\ Creating(y)' <=> Creating(y)
         /\ \A y \in W :
              /\ Deleted(y) <=> y = frame[t].this /\ frame[t].pc = "del_counter"
              /\ Deleted(y)' <=> y = frame'[t].this /\ frame'[t].pc = "del_counter"
              /\ y \in Uncounted <=> y = frame[t].this /\ (Dying(t) \/ Copying(t))
              /\ y \in Uncounted' <=> y = frame'[t].this /\ (Dying(t) \/ Copying(t))'
              /\ Creating(y) <=> y = frame[t].this /\ NewCounter(t)
              /\ Creating(y)' <=> y = frame'[t].this /\ NewCounter(t)'
<1>. W \subseteq Locations /\ Null \notin Locations
  BY SharedPtrAssumption DEF LocalStep
<1>1. \A u \in Threads \ {t} : frame'[u] = frame[u] /\ frame[u].this \notin W
  BY DEF LocalStep, Touched, Written
<1>2. \A y \in Locations \ W : y # frame[t].this /\ y # frame'[t].this
  BY DEF LocalStep
<1>3. ASSUME NEW y \in Locations \ W
      PROVE  Deleted(y)' <=> Deleted(y)
  BY <1>1, <1>2 DEF Deleted
<1>4. ASSUME NEW y \in Locations \ W
      PROVE  y \in Uncounted' <=> y \in Uncounted
  BY <1>1, <1>2 DEF Uncounted, Dying
<1>5. ASSUME NEW y \in Locations \ W
      PROVE  Creating(y)' <=> Creating(y)
  BY <1>1, <1>2 DEF Creating, NewCounter
<1>6. ASSUME NEW y \in W
      PROVE  /\ Deleted(y) <=> y = frame[t].this /\ frame[t].pc = "del_counter"
             /\ Deleted(y)' <=> y = frame'[t].this /\ frame'[t].pc = "del_counter"
  BY <1>1 DEF Deleted
<1>7. ASSUME NEW y \in W
      PROVE  /\ y \in Uncounted <=> y = frame[t].this /\ (Dying(t) \/ Copying(t))
             /\ y \in Uncounted' <=> y = frame'[t].this /\ (Dying(t) \/ Copying(t))'
  BY <1>1 DEF Uncounted, Dying, Copying
<1>8. ASSUME NEW y \in W
      PROVE  /\ Creating(y) <=> y = frame[t].this /\ NewCounter(t)
             /\ Creating(y)' <=> y = frame'[t].this /\ NewCounter(t)'
  BY <1>1 DEF Creating, NewCounter
<1> QED
  BY <1>3, <1>4, <1>5, <1>6, <1>7, <1>8

\* The frames are in order after a step when the frame of its thread is.
LEMMA LocalFrames ==
  ASSUME IInv, NEW t \in Threads, NEW W, LocalStep(t, W),
         (Resting(t) \/ OnTemporary(t) \/ OnSlot(t))'
  PROVE  FrameOK' /\ Exclusive'
<1>1. ASSUME NEW u \in Threads \ {t}
      PROVE  (Resting(u) \/ OnTemporary(u) \/ OnSlot(u))'
  <2>1. u \in Locations /\ hnd'[u] = hnd[u] /\ frame'[u] = frame[u]
    BY DEF LocalStep, Locations
  <2> QED
    BY <2>1 DEF IInv, FrameOK, Resting, OnTemporary, OnSlot
<1>2. FrameOK'
  BY <1>1 DEF FrameOK
<1>3. ASSUME NEW u \in Threads \ {t}, NEW x \in Locations
      PROVE  /\ x \in Written(t)' => x \notin Touched(u)'
             /\ x \in Written(u)' => x \notin Touched(t)'
  <2>1. x \notin W \/ x \notin Touched(u)
    BY DEF LocalStep
  <2>2. x \in Written(t)' => x \in W
    BY SharedPtrAssumption DEF LocalStep, Written
  <2>3. Written(u)' = Written(u) /\ Touched(u)' = Touched(u)
    BY DEF LocalStep, Written, Touched
  <2>4. x \in Written(u) => x \in Touched(u) /\ x # frame'[t].src
    BY SharedPtrAssumption DEF LocalStep, Touched
  <2> QED
    BY <2>1, <2>2, <2>3, <2>4 DEF Touched
<1>4. ASSUME NEW u \in Threads \ {t}, NEW v \in Threads \ {t}, u # v, NEW x \in Locations
      PROVE  x \in Written(u)' => x \notin Touched(v)'
  BY <1>4 DEF LocalStep, IInv, Exclusive, Written, Touched
<1> QED
  BY <1>2, <1>3, <1>4 DEF Exclusive

\* What the other threads rely on is as it was.
LEMMA LocalOthers ==
  ASSUME IInv, NEW t \in Threads, NEW W, LocalStep(t, W), NEW u \in Threads \ {t}
  PROVE  /\ NewCounter(u)' => hnd'[frame'[u].this].ctr = Null
         /\ Copying(u)' => /\ frame'[u].src \in Slots
                           /\ frame'[u].src # frame'[u].this
                           /\ hnd'[frame'[u].this].ctr # Null
                           /\ hnd'[frame'[u].src] = hnd'[frame'[u].this]
         /\ Dying(u)' <=> Dying(u)
         /\ Dying(u) => /\ frame[u].this \in Locations \ W
                        /\ hnd'[frame'[u].this] = hnd[frame[u].this]
<1>1. frame'[u] = frame[u] /\ W \cap Touched(u) = {}
  BY DEF LocalStep
<1>2. frame[u].pc # "idle" => /\ frame[u].this \in Locations \ W
                              /\ hnd'[frame[u].this] = hnd[frame[u].this]
  BY <1>1, BusyThread DEF LocalStep, Touched, Written
<1>3. frame[u].src \in Slots => hnd'[frame[u].src] = hnd[frame[u].src]
  BY <1>1 DEF LocalStep, Touched, Locations
<1>4. Copying(u)' => /\ frame'[u].src \in Slots
                     /\ frame'[u].src # frame'[u].this
                     /\ hnd'[frame'[u].this].ctr # Null
                     /\ hnd'[frame'[u].src] = hnd'[frame'[u].this]
  BY <1>1, <1>2, <1>3 DEF IInv, CopyHasSource, Copying
<1> QED
  BY <1>1, <1>2, <1>4 DEF IInv, NewHasNone, NewCounter, Dying
-----------------------------------------------------------------------------
(***************************************************************************)
(* Counting owners.                                                        *)
(***************************************************************************)
LEMMA OwnersFinite ==
  \A c : IsFiniteSet(Owners(c)) /\ Cardinality(Owners(c)) \in Nat
<1>1. IsFiniteSet(Locations)
  BY SharedPtrAssumption, FS_Union DEF Locations
<1>2. ASSUME NEW c
      PROVE  Owners(c) \subseteq Locations
  BY DEF Owners
<1> QED
  BY <1>1, <1>2, FS_Subset, FS_CardinalityType

\* Exchanging one member for another does not change how many there are.
LEMMA CardinalityExchange ==
  ASSUME NEW S, IsFiniteSet(S), NEW a \in S, NEW b, b \notin S
  PROVE  Cardinality((S \ {a}) \cup {b}) = Cardinality(S)
<1>1. /\ IsFiniteSet(S \ {a})
      /\ Cardinality(S \ {a}) = Cardinality(S) - 1
      /\ Cardinality(S) \in Nat
  BY FS_RemoveElement, FS_CardinalityType
<1>2. Cardinality((S \ {a}) \cup {b}) = Cardinality(S \ {a}) + 1
  BY <1>1, FS_AddElement
<1> QED
  BY <1>1, <1>2

\* The counts stay exact when two handles trade places (or when a = b: when
\* nobody does).
LEMMA CountPermuted ==
  ASSUME CountMatchesOwners, UNCHANGED <<ctrs, refs>>,
         NEW a \in Locations, NEW b \in Locations,
         \A c \in ctrs :
           /\ \A y \in Locations \ {a, b} : y \in Owners(c)' <=> y \in Owners(c)
           /\ a \in Owners(c)' <=> b \in Owners(c)
           /\ b \in Owners(c)' <=> a \in Owners(c)
  PROVE  CountMatchesOwners'
<1>1. ASSUME NEW c \in ctrs
      PROVE  Cardinality(Owners(c)') = Cardinality(Owners(c))
  <2>1. Owners(c) \subseteq Locations /\ Owners(c)' \subseteq Locations
    BY DEF Owners
  <2>2. CASE a \in Owners(c) <=> b \in Owners(c)
    <3>1. Owners(c)' = Owners(c)
      BY <2>1, <2>2
    <3> QED
      BY <3>1
  <2>3. CASE a \in Owners(c) /\ b \notin Owners(c)
    <3>1. Owners(c)' = (Owners(c) \ {a}) \cup {b}
      BY <2>1, <2>3
    <3> QED
      BY <2>3, <3>1, OwnersFinite, CardinalityExchange
  <2>4. CASE b \in Owners(c) /\ a \notin Owners(c)
    <3>1. Owners(c)' = (Owners(c) \ {b}) \cup {a}
      BY <2>1, <2>4
    <3> QED
      BY <2>4, <3>1, OwnersFinite, CardinalityExchange
  <2> QED
    BY <2>2, <2>3, <2>4
<1> QED
  BY <1>1 DEF CountMatchesOwners
-----------------------------------------------------------------------------
(***************************************************************************)
(* Steps by what they do to the handles.                                   *)
(***************************************************************************)
InOrder(t) == Resting(t) \/ OnTemporary(t) \/ OnSlot(t)

\* Neither creating a counter, nor copying, nor deleting.
Plain(t) == frame[t].pc \in {"idle", "swap", "release"}

\* Two handles trade places, or (a = b) none does.
LEMMA ExchangeKeeps ==
  ASSUME IInv, NEW t \in Threads, NEW W, LocalStep(t, W), NEW a \in W, NEW b \in W,
         hnd' \in [Locations -> Handle], hnd'[a] = hnd[b], hnd'[b] = hnd[a],
         \A y \in Locations \ {a, b} : hnd'[y] = hnd[y],
         frame' \in [Threads -> Frame], InOrder(t)', Plain(t), Plain(t)',
         UNCHANGED <<uniq, alive, ctrs, refs, terminated>>
  PROVE  IInv'
<1>. a \in Locations /\ b \in Locations /\ W \subseteq Locations
  BY DEF LocalStep
<1>1. TypeOK'
  BY DEF IInv, TypeOK
<1>2. FrameOK' /\ Exclusive'
  BY LocalFrames DEF InOrder
<1>3. frame[t].this \in W \cup {Null} /\ frame'[t].this \in W \cup {Null}
  BY DEF LocalStep
<1>4. /\ \A y \in Locations : /\ Deleted(y)' <=> Deleted(y)
                              /\ y \in Uncounted' <=> y \in Uncounted
                              /\ Creating(y)' <=> Creating(y)
      /\ \A y \in W : ~Deleted(y) /\ y \notin Uncounted /\ ~Creating(y)
  BY LocalRoles DEF Plain, Dying, Copying, NewCounter
<1>5. NewHasNone' /\ CopyHasSource'
  BY LocalOthers DEF NewHasNone, NewCounter, CopyHasSource, Copying, Plain
<1>6. CounterLives'
  BY <1>3 DEF IInv, CounterLives
<1>7. NoneIsEmpty'
  BY <1>3, <1>4 DEF IInv, NoneIsEmpty
<1>8. DyingIsLast'
  <2>1. ASSUME NEW u \in Threads, Dying(u)'
        PROVE  /\ frame'[u] = frame[u] /\ Dying(u)
               /\ frame[u].this \in Locations \ W
    BY <2>1, LocalOthers DEF Dying, Plain, LocalStep
  <2> QED
    BY <1>3, <2>1 DEF IInv, DyingIsLast
<1>9. ManagedLives'
  BY <1>3, <1>4 DEF IInv, ManagedLives, Managed
<1>10. OneCounter'
  BY <1>3, <1>4 DEF IInv, OneCounter, Managed
<1>11. OneObject'
  BY <1>3 DEF IInv, OneObject
<1>12. UniqueIsSole'
  BY <1>3, <1>4 DEF IInv, UniqueIsSole, Managed
<1>13. CountMatchesOwners'
  <2>1. \A c \in ctrs : /\ \A y \in Locations \ {a, b} : y \in Owners(c)' <=> y \in Owners(c)
                        /\ a \in Owners(c)' <=> b \in Owners(c)
                        /\ b \in Owners(c)' <=> a \in Owners(c)
    BY <1>3, <1>4 DEF Owners
  <2> QED
    BY <1>3, <2>1, CountPermuted DEF IInv
<1> QED
  BY <1>1, <1>2, <1>5, <1>6, <1>7, <1>8, <1>9, <1>10, <1>11, <1>12, <1>13 DEF IInv

\* A handle under construction takes an object and waits for its counter.
LEMMA PendingKeeps ==
  ASSUME IInv, NEW t \in Threads, NEW W, LocalStep(t, W), NEW a \in W,
         NEW p \in Objects \cup {Null},
         hnd[a] = Empty, hnd' \in [Locations -> Handle], hnd'[a] = [ptr |-> p, ctr |-> Null],
         \A y \in Locations \ {a} : hnd'[y] = hnd[y],
         p # Null => /\ p \in alive'
                     /\ \A x \in Locations : ~Managed(x, p)
                     /\ \A u \in Threads : uniq'[u] # p,
         \A u \in Threads : uniq'[u] \in {uniq[u], Null},
         uniq' \in [Threads -> Objects \cup {Null}],
         alive \subseteq alive', alive' \subseteq Objects,
         frame' \in [Threads -> Frame], InOrder(t)', Plain(t), NewCounter(t)',
         frame'[t].this = a,
         UNCHANGED <<ctrs, refs, terminated>>
  PROVE  IInv'
<1>. /\ a \in Locations /\ W \subseteq Locations
     /\ Null \notin Locations \cup Objects
  BY SharedPtrAssumption DEF LocalStep
<1>1. TypeOK'
  BY DEF IInv, TypeOK, Handle
<1>2. FrameOK' /\ Exclusive'
  BY LocalFrames DEF InOrder
<1>3. /\ hnd[a].ptr = Null /\ hnd[a].ctr = Null
      /\ hnd'[a].ptr = p /\ hnd'[a].ctr = Null
      /\ \A y \in Locations \ {a} : hnd'[y] = hnd[y]
      /\ UNCHANGED <<ctrs, refs>>
  BY DEF IInv, TypeOK, Empty
<1>4. /\ \A y \in Locations : /\ Deleted(y)' <=> Deleted(y)
                              /\ y \in Uncounted' <=> y \in Uncounted
      /\ \A y \in Locations \ {a} : Creating(y)' <=> Creating(y)
      /\ ~Deleted(a) /\ Creating(a)'
  BY LocalRoles DEF Plain, Dying, Copying, NewCounter
<1>5. NewHasNone' /\ CopyHasSource'
  BY <1>3, LocalOthers DEF NewHasNone, NewCounter, CopyHasSource, Copying
<1>6. CounterLives'
  BY <1>3 DEF IInv, CounterLives
<1>7. NoneIsEmpty'
  BY <1>3, <1>4 DEF IInv, NoneIsEmpty
<1>8. DyingIsLast'
  <2>1. ASSUME NEW u \in Threads, Dying(u)'
        PROVE  /\ frame'[u] = frame[u] /\ Dying(u)
               /\ frame[u].this \in Locations \ W
    BY <2>1, LocalOthers DEF Dying, NewCounter, LocalStep
  <2> QED
    BY <1>3, <2>1 DEF IInv, DyingIsLast
<1>9. ManagedLives'
  BY <1>3, <1>4 DEF IInv, ManagedLives, Managed
<1>10. OneCounter'
  BY <1>3, <1>4 DEF IInv, OneCounter, Managed
<1>11. OneObject'
  BY <1>3 DEF IInv, OneObject
<1>12. UniqueIsSole'
  BY <1>3, <1>4 DEF IInv, UniqueIsSole, Managed
<1>13. CountMatchesOwners'
  <2>1. \A c \in ctrs, y \in Locations : y \in Owners(c)' <=> y \in Owners(c)
    BY <1>3, <1>4, SharedPtrAssumption DEF Owners, IInv, TypeOK
  <2> QED
    BY <1>3, <2>1, CountPermuted DEF IInv
<1> QED
  BY <1>1, <1>2, <1>5, <1>6, <1>7, <1>8, <1>9, <1>10, <1>11, <1>12, <1>13 DEF IInv

\* A handle under construction takes the fields of r and is not counted yet.
LEMMA CopyKeeps ==
  ASSUME IInv, NEW t \in Threads, NEW W, LocalStep(t, W), NEW a \in W,
         NEW r \in Slots, r # a, CanRead(r), hnd[r].ctr # Null,
         hnd[a] = Empty, hnd' \in [Locations -> Handle], hnd'[a] = hnd[r],
         \A y \in Locations \ {a} : hnd'[y] = hnd[y],
         frame' \in [Threads -> Frame], InOrder(t)', Plain(t), Copying(t)',
         frame'[t].this = a, frame'[t].src = r,
         UNCHANGED <<uniq, alive, ctrs, refs, terminated>>
  PROVE  IInv'
<1>. /\ a \in Locations /\ r \in Locations /\ W \subseteq Locations
     /\ Null \notin Locations \cup Objects
  BY SharedPtrAssumption DEF LocalStep, Locations
<1>1. TypeOK'
  BY DEF IInv, TypeOK
<1>2. FrameOK' /\ Exclusive'
  BY LocalFrames DEF InOrder
<1>3. /\ hnd[a].ptr = Null /\ hnd[a].ctr = Null
      /\ hnd'[a] = hnd[r]
      /\ \A y \in Locations \ {a} : hnd'[y] = hnd[y]
      /\ UNCHANGED <<uniq, alive, ctrs, refs>>
  BY DEF IInv, TypeOK, Empty
<1>4. /\ \A y \in Locations : /\ Deleted(y)' <=> Deleted(y)
                              /\ Creating(y)' <=> Creating(y)
      /\ \A y \in Locations \ {a} : y \in Uncounted' <=> y \in Uncounted
      /\ ~Deleted(a) /\ ~Deleted(r) /\ a \in Uncounted'
  BY LocalRoles DEF Plain, Dying, Copying, NewCounter, CanRead, Written, Deleted
<1>5. NewHasNone' /\ CopyHasSource'
  BY <1>3, LocalOthers DEF NewHasNone, NewCounter, CopyHasSource, Copying
<1>6. CounterLives'
  BY <1>3 DEF IInv, CounterLives
<1>7. NoneIsEmpty'
  BY <1>3, <1>4 DEF IInv, NoneIsEmpty
<1>8. DyingIsLast'
  <2>1. ASSUME NEW u \in Threads, Dying(u)'
        PROVE  /\ frame'[u] = frame[u] /\ Dying(u)
               /\ frame[u].this \in Locations \ W /\ frame[u].this # r
    BY <2>1, LocalOthers DEF Dying, Copying, LocalStep, CanRead, Written
  <2> QED
    BY <1>3, <2>1 DEF IInv, DyingIsLast
<1>9. ManagedLives'
  BY <1>3, <1>4 DEF IInv, ManagedLives, Managed
<1>10. OneCounter'
  BY <1>3, <1>4 DEF IInv, OneCounter, Managed
<1>11. OneObject'
  BY <1>3 DEF IInv, OneObject
<1>12. UniqueIsSole'
  BY <1>3, <1>4 DEF IInv, UniqueIsSole, Managed
<1>13. CountMatchesOwners'
  <2>1. \A c \in ctrs, y \in Locations : y \in Owners(c)' <=> y \in Owners(c)
    BY <1>3, <1>4, SharedPtrAssumption DEF Owners, IInv, TypeOK
  <2> QED
    BY <1>3, <2>1, CountPermuted DEF IInv
<1> QED
  BY <1>1, <1>2, <1>5, <1>6, <1>7, <1>8, <1>9, <1>10, <1>11, <1>12, <1>13 DEF IInv

\* Only the unique_ptrs change, and the objects they delete or create.
LEMMA UniqueKeeps ==
  ASSUME IInv, UNCHANGED <<hnd, ctrs, refs, frame, terminated>>,
         uniq' \in [Threads -> Objects \cup {Null}], alive' \subseteq Objects,
         ManagedLives', UniqueIsSole'
  PROVE  IInv'
<1>1. TypeOK'
  BY DEF IInv, TypeOK
<1>2. FrameOK' /\ Exclusive'
  BY DEF IInv, FrameOK, Resting, OnTemporary, OnSlot, Exclusive, Written, Touched
<1>3. CounterLives' /\ NewHasNone' /\ NoneIsEmpty' /\ CopyHasSource' /\ DyingIsLast'
  BY DEF IInv, CounterLives, NewHasNone, NoneIsEmpty, CopyHasSource, DyingIsLast,
         NewCounter, Creating, Copying, Dying
<1>4. OneCounter' /\ OneObject'
  BY DEF IInv, OneCounter, OneObject, Managed, Deleted
<1>5. CountMatchesOwners'
  BY DEF IInv, CountMatchesOwners, Owners, Uncounted, Dying
<1> QED
  BY <1>1, <1>2, <1>3, <1>4, <1>5 DEF IInv
-----------------------------------------------------------------------------
(***************************************************************************)
(* The first step of each call.                                            *)
(***************************************************************************)
LEMMA UniqueStarts ==
  ASSUME IInv, NEW t \in Threads,
         \/ \E o \in Objects : MakeUnique(t, o)
         \/ DeleteUnique(t)
         \/ \E u \in Threads : MoveUnique(t, u) \/ SwapUnique(t, u)
  PROVE  IInv'
<1>. Null \notin Objects
  BY SharedPtrAssumption
<1>1. ASSUME NEW o \in Objects, MakeUnique(t, o)
      PROVE  IInv'
  <2>1. ManagedLives'
    BY <1>1 DEF MakeUnique, IInv, ManagedLives, Managed, Deleted
  <2>2. \A x \in Locations : ~Managed(x, o)
    BY <1>1 DEF MakeUnique, IInv, ManagedLives
  <2>3. UniqueIsSole'
    BY <1>1, <2>2 DEF MakeUnique, IInv, TypeOK, UniqueIsSole, Managed, Deleted
  <2> QED
    BY <1>1, <2>1, <2>3, UniqueKeeps DEF MakeUnique, IInv, TypeOK
<1>2. CASE DeleteUnique(t)
  <2>1. ManagedLives'
    BY <1>2 DEF DeleteUnique, IInv, ManagedLives, UniqueIsSole, Managed, Deleted
  <2>2. UniqueIsSole'
    BY <1>2 DEF DeleteUnique, IInv, TypeOK, UniqueIsSole, Managed, Deleted
  <2> QED
    BY <1>2, <2>1, <2>2, UniqueKeeps DEF DeleteUnique, IInv, TypeOK
<1>3. ASSUME NEW u \in Threads, MoveUnique(t, u)
      PROVE  IInv'
  <2>1. ManagedLives'
    BY <1>3 DEF MoveUnique, DeletedByMove, IInv, ManagedLives, UniqueIsSole, Managed, Deleted
  <2>2. UniqueIsSole'
    BY <1>3 DEF MoveUnique, DeletedByMove, AfterMove, IInv, TypeOK, UniqueIsSole, Managed, Deleted
  <2> QED
    BY <1>3, <2>1, <2>2, UniqueKeeps DEF MoveUnique, DeletedByMove, AfterMove, IInv, TypeOK
<1>4. ASSUME NEW u \in Threads, SwapUnique(t, u)
      PROVE  IInv'
  <2>1. ManagedLives'
    BY <1>4 DEF SwapUnique, IInv, ManagedLives, Managed, Deleted
  <2>2. UniqueIsSole'
    BY <1>4 DEF SwapUnique, IInv, TypeOK, UniqueIsSole, Managed, Deleted
  <2> QED
    BY <1>4, <2>1, <2>2, UniqueKeeps DEF SwapUnique, IInv, TypeOK
<1> QED
  BY <1>1, <1>2, <1>3, <1>4

\* A call may start on slots nobody is using, and on the temporary.
LEMMA StartIsLocal ==
  ASSUME IInv, NEW t \in Threads, Idle(t), NEW W, W \subseteq Slots \cup {t},
         \A s \in W \ {t} : CanWrite(s),
         NEW f \in Frame, frame' = [frame EXCEPT ![t] = f],
         f.this \in W \cup {Null}, f.dst \in W \cup {Null},
         f.src # Null => CanRead(f.src),
         \A y \in Locations \ W : hnd'[y] = hnd[y]
  PROVE  /\ LocalStep(t, W)
         /\ frame'[t] = f
         /\ frame' \in [Threads -> Frame]
<1>1. frame' \in [Threads -> Frame] /\ frame'[t] = f
  BY DEF IInv, TypeOK
<1>2. \A u \in Threads \ {t} : frame'[u] = frame[u]
  BY DEF IInv, TypeOK
<1>3. \A u \in Threads : W \cap Touched(u) = {}
  BY IdleThread DEF CanWrite
<1>4. W \subseteq Locations /\ W \cap Threads \subseteq {t}
  BY SharedPtrAssumption DEF Locations
<1>5. frame[t].this = Null
  BY IdleThread DEF IdleFrame
<1>6. \A u \in Threads : frame'[t].src \in Written(u) => frame'[t].src = Null
  BY <1>1 DEF CanRead
<1> QED
  BY <1>1, <1>2, <1>3, <1>4, <1>5, <1>6 DEF LocalStep

LEMMA NewObjectStarts ==
  ASSUME IInv, NEW t \in Threads, NEW s \in Slots, NEW o \in Objects,
         MakeShared(t, s, o) \/ ResetPtr(t, s, o)
  PROVE  IInv'
<1>. /\ Idle(t) /\ CanWrite(s) /\ Null \notin Objects
     /\ t \in Locations /\ s \in Locations /\ t # s
     /\ alive' = alive \cup {o} /\ o \notin alive
     /\ UNCHANGED <<uniq, ctrs, refs, terminated>>
  BY SharedPtrAssumption DEF MakeShared, ResetPtr, Locations
<1>1. /\ frame[t] = IdleFrame
      /\ hnd[t] = Empty
  BY IdleThread
<1>2. /\ \A x \in Locations : ~Managed(x, o)
      /\ \A u \in Threads : uniq'[u] # o
  BY DEF IInv, ManagedLives, UniqueIsSole
<1>3. CASE MakeShared(t, s, o)
  <2> DEFINE f == [pc |-> "new_counter", this |-> s, dst |-> Null, src |-> Null]
  <2>1. /\ f \in Frame /\ frame' = [frame EXCEPT ![t] = f]
        /\ hnd[s] = Empty
    BY <1>3 DEF MakeShared, Call, Frame, PC, Locations
  <2>2. /\ hnd' \in [Locations -> Handle]
        /\ hnd'[s] = [ptr |-> o, ctr |-> Null]
        /\ \A y \in Locations \ {s} : hnd'[y] = hnd[y]
    BY <1>3 DEF MakeShared, IInv, TypeOK, Handle
  <2>3. LocalStep(t, {s}) /\ frame'[t] = f /\ frame' \in [Threads -> Frame]
    BY <2>1, <2>2, StartIsLocal
  <2>4. InOrder(t)' /\ Plain(t) /\ NewCounter(t)'
    BY <1>1, <2>2, <2>3 DEF InOrder, OnSlot, Plain, NewCounter, IdleFrame
  <2> QED
    BY <1>2, <2>1, <2>2, <2>3, <2>4, PendingKeeps DEF IInv, TypeOK
<1>4. CASE ResetPtr(t, s, o)
  <2> DEFINE f == [pc |-> "new_counter_noexcept", this |-> t, dst |-> s, src |-> Null]
  <2>1. f \in Frame /\ frame' = [frame EXCEPT ![t] = f]
    BY <1>4 DEF ResetPtr, Call, Frame, PC, Locations
  <2>2. /\ hnd' \in [Locations -> Handle]
        /\ hnd'[t] = [ptr |-> o, ctr |-> Null]
        /\ \A y \in Locations \ {t} : hnd'[y] = hnd[y]
    BY <1>4 DEF ResetPtr, IInv, TypeOK, Handle
  <2>3. LocalStep(t, {t, s}) /\ frame'[t] = f /\ frame' \in [Threads -> Frame]
    <3> DEFINE W == {t, s}
    <3>1. /\ W \subseteq Slots \cup {t}
          /\ \A x \in W \ {t} : CanWrite(x)
          /\ f.this \in W \cup {Null} /\ f.dst \in W \cup {Null}
          /\ f.src = Null
          /\ \A y \in Locations \ W : hnd'[y] = hnd[y]
      BY <2>2
    <3>2. LocalStep(t, W) /\ frame'[t] = f /\ frame' \in [Threads -> Frame]
      <4> HIDE DEF f, W
      <4> QED
        BY <2>1, <3>1, StartIsLocal
    <3> QED
      BY <3>2
  <2>4. InOrder(t)' /\ Plain(t) /\ NewCounter(t)'
    BY <1>1, <2>3 DEF InOrder, OnTemporary, Plain, NewCounter, IdleFrame
  <2> QED
    BY <1>1, <1>2, <2>1, <2>2, <2>3, <2>4, PendingKeeps DEF IInv, TypeOK
<1> QED
  BY <1>3, <1>4

LEMMA FromUniqueStarts ==
  ASSUME IInv, NEW t \in Threads, NEW s \in Slots,
         FromUnique(t, s) \/ AssignUnique(t, s)
  PROVE  IInv'
<1>. /\ Idle(t) /\ CanWrite(s) /\ Null \notin Objects
     /\ t \in Locations /\ s \in Locations /\ t # s
     /\ uniq' = [uniq EXCEPT ![t] = Null]
     /\ UNCHANGED <<alive, ctrs, refs, terminated>>
  BY SharedPtrAssumption DEF FromUnique, AssignUnique, Locations
<1>1. /\ frame[t] = IdleFrame
      /\ hnd[t] = Empty
  BY IdleThread
<1>2. /\ uniq' \in [Threads -> Objects \cup {Null}]
      /\ uniq[t] \in Objects \cup {Null}
      /\ \A u \in Threads : uniq'[u] \in {uniq[u], Null}
      /\ uniq[t] # Null => /\ uniq[t] \in alive'
                           /\ \A x \in Locations : ~Managed(x, uniq[t])
                           /\ \A u \in Threads : uniq'[u] # uniq[t]
  BY DEF IInv, TypeOK, UniqueIsSole
<1>3. CASE FromUnique(t, s)
  <2> DEFINE f == [pc |-> "new_counter", this |-> s, dst |-> Null, src |-> Null]
  <2>1. /\ f \in Frame /\ frame' = [frame EXCEPT ![t] = f]
        /\ hnd[s] = Empty
    BY <1>3 DEF FromUnique, Call, Frame, PC, Locations
  <2>2. /\ hnd' \in [Locations -> Handle]
        /\ hnd'[s] = [ptr |-> uniq[t], ctr |-> Null]
        /\ \A y \in Locations \ {s} : hnd'[y] = hnd[y]
    BY <1>2, <1>3 DEF FromUnique, IInv, TypeOK, Handle
  <2>3. LocalStep(t, {s}) /\ frame'[t] = f /\ frame' \in [Threads -> Frame]
    BY <2>1, <2>2, StartIsLocal
  <2>4. InOrder(t)' /\ Plain(t) /\ NewCounter(t)'
    BY <1>1, <2>2, <2>3 DEF InOrder, OnSlot, Plain, NewCounter, IdleFrame
  <2> QED
    BY <1>2, <2>1, <2>2, <2>3, <2>4, PendingKeeps DEF IInv, TypeOK
<1>4. CASE AssignUnique(t, s)
  <2> DEFINE f == [pc |-> "new_counter", this |-> t, dst |-> s, src |-> Null]
  <2>1. f \in Frame /\ frame' = [frame EXCEPT ![t] = f]
    BY <1>4 DEF AssignUnique, Call, Frame, PC, Locations
  <2>2. /\ hnd' \in [Locations -> Handle]
        /\ hnd'[t] = [ptr |-> uniq[t], ctr |-> Null]
        /\ \A y \in Locations \ {t} : hnd'[y] = hnd[y]
    BY <1>2, <1>4 DEF AssignUnique, IInv, TypeOK, Handle
  <2>3. LocalStep(t, {t, s}) /\ frame'[t] = f /\ frame' \in [Threads -> Frame]
    <3> DEFINE W == {t, s}
    <3>1. /\ W \subseteq Slots \cup {t}
          /\ \A x \in W \ {t} : CanWrite(x)
          /\ f.this \in W \cup {Null} /\ f.dst \in W \cup {Null}
          /\ f.src = Null
          /\ \A y \in Locations \ W : hnd'[y] = hnd[y]
      BY <2>2
    <3>2. LocalStep(t, W) /\ frame'[t] = f /\ frame' \in [Threads -> Frame]
      <4> HIDE DEF f, W
      <4> QED
        BY <2>1, <3>1, StartIsLocal
    <3> QED
      BY <3>2
  <2>4. InOrder(t)' /\ Plain(t) /\ NewCounter(t)'
    BY <1>1, <2>3 DEF InOrder, OnTemporary, Plain, NewCounter, IdleFrame
  <2> QED
    BY <1>1, <1>2, <2>1, <2>2, <2>3, <2>4, PendingKeeps DEF IInv, TypeOK
<1> QED
  BY <1>3, <1>4

\* A slot that no call touches has nothing pending; without a counter it is empty.
LEMMA QuietSlot ==
  ASSUME IInv, NEW r \in Slots, CanRead(r)
  PROVE  /\ ~Deleted(r) /\ r \notin Uncounted /\ ~Creating(r)
         /\ hnd[r].ctr = Null => hnd[r] = Empty
<1>1. ~Deleted(r) /\ r \notin Uncounted /\ ~Creating(r)
  BY DEF Deleted, Uncounted, Creating, CanRead, Written
<1> QED
  BY <1>1 DEF IInv, NoneIsEmpty, Locations

LEMMA CopyConstructStarts ==
  ASSUME IInv, NEW t \in Threads, NEW s \in Slots, NEW r \in Slots, CopyConstruct(t, s, r)
  PROVE  IInv'
<1>. /\ Idle(t) /\ CanWrite(s) /\ CanRead(r) /\ s # r /\ hnd[s] = Empty
     /\ t \in Locations /\ s \in Locations /\ r \in Locations /\ t # s
     /\ UNCHANGED <<uniq, alive, ctrs, refs, terminated>>
  BY SharedPtrAssumption DEF CopyConstruct, Locations
<1>1. frame[t] = IdleFrame /\ hnd[t] = Empty
  BY IdleThread
<1>2. /\ hnd' \in [Locations -> Handle] /\ hnd'[s] = hnd[r]
      /\ \A y \in Locations \ {s} : hnd'[y] = hnd[y]
  BY DEF CopyConstruct, IInv, TypeOK
<1>3. CASE hnd[r].ctr = Null
  <2>1. hnd'[s] = hnd[s]
    BY <1>2, <1>3, QuietSlot
  <2>2. IdleFrame \in Frame /\ frame' = [frame EXCEPT ![t] = IdleFrame]
    BY <1>1, <1>3 DEF CopyConstruct, IInv, TypeOK
  <2>3. /\ LocalStep(t, {s})
        /\ frame'[t] = IdleFrame /\ frame' \in [Threads -> Frame]
    BY <1>2, <2>2, StartIsLocal DEF IdleFrame
  <2>4. InOrder(t)' /\ Plain(t) /\ Plain(t)'
    BY <1>1, <1>2, <2>3 DEF InOrder, Resting, Plain, IdleFrame
  <2> QED
    BY <1>2, <2>1, <2>3, <2>4, ExchangeKeeps
<1>4. CASE hnd[r].ctr # Null
  <2> DEFINE f == [pc |-> "increment", this |-> s, dst |-> Null, src |-> r]
  <2>1. f \in Frame /\ frame' = [frame EXCEPT ![t] = f]
    BY <1>4 DEF CopyConstruct, Call, Frame, PC
  <2>2. LocalStep(t, {s}) /\ frame'[t] = f /\ frame' \in [Threads -> Frame]
    BY <1>2, <2>1, StartIsLocal
  <2>3. InOrder(t)' /\ Plain(t) /\ Copying(t)'
    BY <1>1, <1>2, <2>2 DEF InOrder, OnSlot, Plain, Copying, IdleFrame
  <2> QED
    BY <1>2, <1>4, <2>2, <2>3, CopyKeeps
<1> QED
  BY <1>3, <1>4

LEMMA CopyAssignStarts ==
  ASSUME IInv, NEW t \in Threads, NEW s \in Slots, NEW r \in Slots, CopyAssign(t, s, r)
  PROVE  IInv'
<1>. /\ Idle(t) /\ CanWrite(s) /\ CanRead(r)
     /\ t \in Locations /\ s \in Locations /\ r \in Locations /\ t # s /\ t # r
     /\ UNCHANGED <<uniq, alive, ctrs, refs, terminated>>
  BY SharedPtrAssumption DEF CopyAssign, Locations
<1> DEFINE pc == IF hnd[r].ctr = Null THEN "swap" ELSE "increment"
           f == [pc |-> pc, this |-> t, dst |-> s, src |-> r]
<1>1. frame[t] = IdleFrame /\ hnd[t] = Empty
  BY IdleThread
<1>2. /\ hnd' \in [Locations -> Handle] /\ hnd'[t] = hnd[r]
      /\ \A y \in Locations \ {t} : hnd'[y] = hnd[y]
  BY DEF CopyAssign, IInv, TypeOK
<1>3. f \in Frame /\ frame' = [frame EXCEPT ![t] = f]
  BY DEF CopyAssign, Call, Frame, PC
<1>4. LocalStep(t, {t, s}) /\ frame'[t] = f /\ frame' \in [Threads -> Frame]
  <2> DEFINE W == {t, s}
  <2>1. /\ W \subseteq Slots \cup {t}
        /\ \A x \in W \ {t} : CanWrite(x)
        /\ f.this \in W \cup {Null} /\ f.dst \in W \cup {Null}
        /\ f.src # Null => CanRead(f.src)
        /\ \A y \in Locations \ W : hnd'[y] = hnd[y]
    BY <1>2
  <2>2. LocalStep(t, W) /\ frame'[t] = f /\ frame' \in [Threads -> Frame]
    <3> HIDE DEF f, W
    <3> QED
      BY <1>3, <2>1, StartIsLocal
  <2> QED
    BY <2>2
<1>5. InOrder(t)' /\ Plain(t)
  BY <1>1, <1>4 DEF InOrder, OnTemporary, Plain, IdleFrame
<1>6. CASE hnd[r].ctr = Null
  <2>1. hnd'[t] = hnd[t]
    BY <1>1, <1>2, <1>6, QuietSlot
  <2>2. Plain(t)'
    BY <1>4, <1>6 DEF Plain
  <2> HIDE DEF f
  <2> QED
    BY <1>2, <1>4, <1>5, <2>1, <2>2, ExchangeKeeps
<1>7. CASE hnd[r].ctr # Null
  <2>1. Copying(t)' /\ frame'[t].this = t /\ frame'[t].src = r
    BY <1>4, <1>7 DEF Copying
  <2> HIDE DEF f
  <2> QED
    BY <1>1, <1>2, <1>4, <1>5, <1>7, <2>1, CopyKeeps
<1> QED
  BY <1>6, <1>7

LEMMA MoveStarts ==
  ASSUME IInv, NEW t \in Threads, NEW s \in Slots, NEW r \in Slots,
         MoveConstruct(t, s, r) \/ SwapSlots(t, s, r)
  PROVE  IInv'
<1>. /\ Idle(t) /\ CanWrite(s) /\ CanWrite(r)
     /\ t \in Locations /\ s \in Locations /\ r \in Locations /\ t # s /\ t # r
     /\ UNCHANGED <<uniq, alive, ctrs, refs, frame, terminated>>
  BY SharedPtrAssumption DEF MoveConstruct, SwapSlots, Locations
<1>1. frame[t] = IdleFrame /\ hnd[t] = Empty
  BY IdleThread
<1>2. /\ hnd' \in [Locations -> Handle]
      /\ hnd'[s] = hnd[r] /\ hnd'[r] = hnd[s]
      /\ \A y \in Locations \ {s, r} : hnd'[y] = hnd[y]
  BY DEF MoveConstruct, SwapSlots, Moved, IInv, TypeOK, Handle, Empty
<1>3. IdleFrame \in Frame /\ frame' = [frame EXCEPT ![t] = IdleFrame]
  BY <1>1 DEF IInv, TypeOK
<1>4. LocalStep(t, {s, r}) /\ frame'[t] = IdleFrame /\ frame' \in [Threads -> Frame]
  <2> DEFINE W == {s, r}
  <2>1. /\ W \subseteq Slots \cup {t}
        /\ \A x \in W \ {t} : CanWrite(x)
        /\ IdleFrame.this \in W \cup {Null} /\ IdleFrame.dst \in W \cup {Null}
        /\ IdleFrame.src # Null => CanRead(IdleFrame.src)
        /\ \A y \in Locations \ W : hnd'[y] = hnd[y]
    BY <1>2 DEF IdleFrame
  <2>2. LocalStep(t, W) /\ frame'[t] = IdleFrame /\ frame' \in [Threads -> Frame]
    <3> HIDE DEF W
    <3> QED
      BY <1>3, <2>1, StartIsLocal
  <2> QED
    BY <2>2
<1>5. InOrder(t)' /\ Plain(t) /\ Plain(t)'
  BY <1>1, <1>2, <1>4 DEF InOrder, Resting, Plain, IdleFrame
<1> QED
  BY <1>2, <1>4, <1>5, ExchangeKeeps

LEMMA MoveAssignStarts ==
  ASSUME IInv, NEW t \in Threads, NEW s \in Slots, NEW r \in Slots, MoveAssign(t, s, r)
  PROVE  IInv'
<1>. /\ Idle(t) /\ CanWrite(s) /\ CanWrite(r)
     /\ t \in Locations /\ s \in Locations /\ r \in Locations /\ t # s /\ t # r
     /\ UNCHANGED <<uniq, alive, ctrs, refs, terminated>>
  BY SharedPtrAssumption DEF MoveAssign, Locations
<1> DEFINE f == [pc |-> "swap", this |-> t, dst |-> s, src |-> r]
<1>1. frame[t] = IdleFrame /\ hnd[t] = Empty
  BY IdleThread
<1>2. /\ hnd' \in [Locations -> Handle]
      /\ hnd'[t] = hnd[r] /\ hnd'[r] = hnd[t]
      /\ \A y \in Locations \ {t, r} : hnd'[y] = hnd[y]
  BY <1>1 DEF MoveAssign, Moved, IInv, TypeOK, Handle, Empty
<1>3. f \in Frame /\ frame' = [frame EXCEPT ![t] = f]
  BY DEF MoveAssign, Call, Frame, PC, Locations
<1>4. LocalStep(t, {t, s, r}) /\ frame'[t] = f /\ frame' \in [Threads -> Frame]
  <2> DEFINE W == {t, s, r}
  <2>1. /\ W \subseteq Slots \cup {t}
        /\ \A x \in W \ {t} : CanWrite(x)
        /\ f.this \in W \cup {Null} /\ f.dst \in W \cup {Null}
        /\ f.src # Null => CanRead(f.src)
        /\ \A y \in Locations \ W : hnd'[y] = hnd[y]
    BY <1>2 DEF CanRead, CanWrite, Touched
  <2>2. LocalStep(t, W) /\ frame'[t] = f /\ frame' \in [Threads -> Frame]
    <3> HIDE DEF f, W
    <3> QED
      BY <1>3, <2>1, StartIsLocal
  <2> QED
    BY <2>2
<1>5. InOrder(t)' /\ Plain(t) /\ Plain(t)'
  BY <1>1, <1>4 DEF InOrder, OnTemporary, Plain, IdleFrame
<1> HIDE DEF f
<1> QED
  BY <1>2, <1>4, <1>5, ExchangeKeeps

LEMMA ReleaseStarts ==
  ASSUME IInv, NEW t \in Threads, NEW s \in Slots, Reset(t, s) \/ Destruct(t, s)
  PROVE  IInv'
<1>. /\ Idle(t) /\ CanWrite(s) /\ UNCHANGED <<hnd, uniq, alive, ctrs, refs, terminated>>
     /\ t \in Locations /\ s \in Locations /\ t # s
     /\ hnd' \in [Locations -> Handle]
  BY SharedPtrAssumption DEF Reset, Destruct, Locations, IInv, TypeOK
<1>1. frame[t] = IdleFrame /\ hnd[t] = Empty
  BY IdleThread
<1>2. CASE Reset(t, s)
  <2> DEFINE f == [pc |-> "swap", this |-> t, dst |-> s, src |-> Null]
  <2>1. f \in Frame /\ frame' = [frame EXCEPT ![t] = f]
    BY <1>2 DEF Reset, Call, Frame, PC, Locations
  <2>3. LocalStep(t, {t, s}) /\ frame'[t] = f /\ frame' \in [Threads -> Frame]
    <3> DEFINE W == {t, s}
    <3>1. /\ W \subseteq Slots \cup {t}
          /\ \A x \in W \ {t} : CanWrite(x)
          /\ f.this \in W \cup {Null} /\ f.dst \in W \cup {Null}
          /\ f.src # Null => CanRead(f.src)
          /\ \A y \in Locations \ W : hnd'[y] = hnd[y]
      OBVIOUS
    <3>2. LocalStep(t, W) /\ frame'[t] = f /\ frame' \in [Threads -> Frame]
      <4> HIDE DEF f, W
      <4> QED
        BY <2>1, <3>1, StartIsLocal
    <3> QED
      BY <3>2
  <2>4. InOrder(t)' /\ Plain(t) /\ Plain(t)'
    BY <1>1, <2>3 DEF InOrder, OnTemporary, Plain, IdleFrame
  <2> HIDE DEF f
  <2> QED
    BY <2>3, <2>4, ExchangeKeeps
<1>3. CASE Destruct(t, s)
  <2> DEFINE f == [pc |-> "release", this |-> s, dst |-> Null, src |-> Null]
  <2>1. f \in Frame /\ frame' = [frame EXCEPT ![t] = f]
    BY <1>3 DEF Destruct, Call, Frame, PC, Locations
  <2>3. LocalStep(t, {s}) /\ frame'[t] = f /\ frame' \in [Threads -> Frame]
    BY <2>1, StartIsLocal
  <2>4. InOrder(t)' /\ Plain(t) /\ Plain(t)'
    BY <1>1, <2>3 DEF InOrder, OnSlot, Plain, IdleFrame
  <2> QED
    BY <2>3, <2>4, ExchangeKeeps
<1> QED
  BY <1>2, <1>3
-----------------------------------------------------------------------------
(***************************************************************************)
(* The later steps of a call.                                              *)
(***************************************************************************)
\* The locations the call of thread t works on.
Own(t) == Written(t) \ {Null}

LEMMA ContinueIsLocal ==
  ASSUME IInv, NEW t \in Threads, frame[t].pc # "idle",
         Return(t) \/ \E pc \in PC : Goto(t, pc),
         \A y \in Locations \ Own(t) : hnd'[y] = hnd[y]
  PROVE  /\ LocalStep(t, Own(t))
         /\ frame' \in [Threads -> Frame]
         /\ Return(t) => frame'[t] = IdleFrame
         /\ \A pc \in PC : Goto(t, pc) => frame'[t] = [frame[t] EXCEPT !.pc = pc]
<1>1. /\ frame \in [Threads -> Frame]
      /\ IdleFrame \in Frame
  BY DEF IInv, TypeOK, Frame, PC, IdleFrame
<1>2. /\ frame' \in [Threads -> Frame]
      /\ Return(t) => frame'[t] = IdleFrame
      /\ \A pc \in PC : Goto(t, pc) => frame'[t] = [frame[t] EXCEPT !.pc = pc]
      /\ \A u \in Threads \ {t} : frame'[u] = frame[u]
  <2>1. CASE Return(t)
    <3>1. frame' = [frame EXCEPT ![t] = IdleFrame]
      BY <2>1 DEF Return
    <3>2. \A pc \in PC : Goto(t, pc) => frame'[t] = [frame[t] EXCEPT !.pc = pc]
      BY <1>1 DEF Goto
    <3> QED
      BY <1>1, <3>1, <3>2
  <2>2. ASSUME NEW pc \in PC, Goto(t, pc)
        PROVE  <1>2!1 /\ <1>2!4
    BY <1>1, <2>2 DEF Goto, Frame
  <2>3. /\ Return(t) => frame'[t] = IdleFrame
        /\ \A pc \in PC : Goto(t, pc) => frame'[t] = [frame[t] EXCEPT !.pc = pc]
    BY <1>1 DEF Return, Goto
  <2> QED
    BY <2>1, <2>2, <2>3
<1>3. /\ frame'[t].this \in {frame[t].this, Null}
      /\ frame'[t].dst \in {frame[t].dst, Null}
      /\ frame'[t].src \in {frame[t].src, Null}
  BY <1>1, <1>2 DEF IdleFrame, Frame
<1>4. /\ Own(t) \subseteq Locations
      /\ \A u \in Threads \ {t} : Own(t) \cap Touched(u) = {}
      /\ Own(t) \cap Threads \subseteq {t}
  <2>1. Own(t) \subseteq Slots \cup {t}
    BY BusyThread, SharedPtrAssumption DEF Own, Written
  <2> QED
    BY <2>1, BusyThread, SharedPtrAssumption DEF Own, Written, Locations
<1>5. ASSUME NEW u \in Threads \ {t}, frame'[t].src \in Written(u)
      PROVE  frame'[t].src = Null
  BY <1>1, <1>3, <1>5, SharedPtrAssumption DEF IInv, Exclusive, Touched, Frame, Locations
<1> QED
  BY <1>2, <1>3, <1>4, <1>5 DEF LocalStep, Own, Written

\* A call that returns leaves its temporary empty.
LEMMA ReturnInOrder ==
  ASSUME IInv, NEW t \in Threads, frame[t].pc # "idle", frame'[t] = IdleFrame,
         hnd'[frame[t].this] = Empty,
         \A y \in Locations \ Own(t) : hnd'[y] = hnd[y]
  PROVE  InOrder(t)'
<1>1. CASE frame[t].this = t
  BY <1>1 DEF InOrder, Resting
<1>2. CASE frame[t].this \in Slots /\ frame[t].dst = Null /\ hnd[t] = Empty
  BY <1>2, SharedPtrAssumption DEF InOrder, Resting, Own, Written, Locations
<1> QED
  BY <1>1, <1>2, BusyThread

\* A call that goes on keeps to its temporary or slot.
LEMMA GotoInOrder ==
  ASSUME IInv, NEW t \in Threads, frame[t].pc # "idle",
         NEW pc \in {"swap", "release", "del_object", "del_counter"},
         pc = "swap" => frame[t].dst # Null,
         frame'[t] = [frame[t] EXCEPT !.pc = pc],
         \A y \in Locations \ Own(t) : hnd'[y] = hnd[y]
  PROVE  InOrder(t)'
<1>1. frame[t] \in Frame
  BY DEF IInv, TypeOK
<1>2. CASE frame[t].this = t /\ frame[t].dst \in Slots
  BY <1>1, <1>2 DEF InOrder, OnTemporary, Frame
<1>3. CASE frame[t].this \in Slots /\ frame[t].dst = Null /\ hnd[t] = Empty
  BY <1>1, <1>3, SharedPtrAssumption DEF InOrder, OnSlot, Frame, Own, Written, Locations
<1> QED
  BY <1>2, <1>3, BusyThread

\* The constructor returns, or the assignment goes on with the swap.
LEMMA ConstructedLocal ==
  ASSUME IInv, NEW t \in Threads, frame[t].pc # "idle", Constructed(t),
         \A y \in Locations \ Own(t) : hnd'[y] = hnd[y]
  PROVE  /\ LocalStep(t, Own(t))
         /\ frame' \in [Threads -> Frame]
         /\ InOrder(t)' /\ frame'[t].pc \in {"idle", "swap"}
<1>1. CASE frame[t].dst = Null
  <2>1. Return(t)
    BY <1>1 DEF Constructed
  <2>2. /\ LocalStep(t, Own(t)) /\ frame' \in [Threads -> Frame]
        /\ frame'[t] = IdleFrame
    BY <2>1, ContinueIsLocal
  <2>3. frame[t].this \in Slots /\ hnd'[t] = Empty
    BY <1>1, BusyThread, SharedPtrAssumption DEF Own, Written, Locations
  <2> QED
    BY <2>2, <2>3 DEF InOrder, Resting, IdleFrame
<1>2. CASE frame[t].dst # Null
  <2>1. Goto(t, "swap") /\ "swap" \in PC
    BY <1>2 DEF Constructed, PC
  <2>2. /\ LocalStep(t, Own(t)) /\ frame' \in [Threads -> Frame]
        /\ frame'[t] = [frame[t] EXCEPT !.pc = "swap"]
    BY <2>1, ContinueIsLocal
  <2>3. InOrder(t)'
    BY <1>2, <2>2, GotoInOrder
  <2>4. frame[t] \in Frame
    BY DEF IInv, TypeOK
  <2> QED
    BY <2>2, <2>3, <2>4 DEF Frame
<1> QED
  BY <1>1, <1>2

LEMMA CreateCounterKeeps ==
  ASSUME IInv, NEW t \in Threads, CreateCounter(t)
  PROVE  IInv'
<1> DEFINE x == frame[t].this
<1>. frame[t].pc # "idle" /\ NewCounter(t) /\ Constructed(t)
  BY DEF CreateCounter, At, NewCounter
<1>1. x \in Locations /\ x # Null /\ hnd[x].ctr = Null /\ x \in Own(t)
  BY BusyThread, SharedPtrAssumption DEF IInv, NewHasNone, Own, Written
<1>2. PICK c \in Counters \ ctrs :
        /\ ctrs' = ctrs \cup {c}
        /\ refs' = [refs EXCEPT ![c] = 1]
        /\ hnd' = [hnd EXCEPT ![x].ctr = c]
  BY DEF CreateCounter
<1> HIDE DEF x
<1>3. /\ hnd' \in [Locations -> Handle]
      /\ hnd'[x].ptr = hnd[x].ptr /\ hnd'[x].ctr = c
      /\ \A y \in Locations \ {x} : hnd'[y] = hnd[y]
  BY <1>1, <1>2 DEF IInv, TypeOK, Handle
<1>4. /\ refs' \in [Counters -> Nat] /\ refs'[c] = 1
      /\ \A d \in ctrs : refs'[d] = refs[d]
      /\ c # Null
      /\ UNCHANGED <<uniq, alive>>
  BY <1>2, SharedPtrAssumption DEF CreateCounter, IInv, TypeOK
<1>5. /\ LocalStep(t, Own(t)) /\ frame' \in [Threads -> Frame]
      /\ InOrder(t)' /\ frame'[t].pc \in {"idle", "swap"}
  BY <1>1, <1>3, ConstructedLocal
<1>6. TypeOK'
  BY <1>2, <1>3, <1>4, <1>5 DEF CreateCounter, IInv, TypeOK
<1>7. FrameOK' /\ Exclusive'
  BY <1>5, LocalFrames DEF InOrder
<1>8. /\ \A y \in Locations : /\ Deleted(y)' <=> Deleted(y)
                              /\ y \in Uncounted' <=> y \in Uncounted
      /\ \A y \in Locations \ {x} : Creating(y)' <=> Creating(y)
      /\ ~Deleted(x) /\ x \notin Uncounted
  BY <1>1, <1>5, LocalRoles DEF Dying, Copying, NewCounter, x
<1>9. NewHasNone' /\ CopyHasSource'
  BY <1>5, LocalOthers DEF NewHasNone, NewCounter, CopyHasSource, Copying
<1>10. CounterLives'
  BY <1>2, <1>3 DEF IInv, CounterLives
<1>11. NoneIsEmpty'
  BY <1>3, <1>4, <1>8 DEF IInv, NoneIsEmpty
<1>12. DyingIsLast'
  <2>1. ASSUME NEW u \in Threads, Dying(u)'
        PROVE  /\ frame'[u] = frame[u] /\ Dying(u)
               /\ frame[u].this \in Locations \ {x}
    BY <1>1, <1>5, <2>1, LocalOthers DEF Dying, LocalStep
  <2>2. \A y \in Locations : hnd[y].ctr # c
    BY <1>2, <1>4 DEF IInv, CounterLives
  <2> QED
    BY <1>1, <1>3, <2>1, <2>2 DEF IInv, DyingIsLast
<1>13. ManagedLives'
  BY <1>3, <1>4, <1>8 DEF IInv, ManagedLives, Managed
<1>14. OneCounter'
  BY <1>1, <1>3, <1>8 DEF IInv, OneCounter, Managed
<1>15. OneObject'
  BY <1>2, <1>3, <1>4 DEF IInv, OneObject, CounterLives
<1>16. UniqueIsSole'
  BY <1>3, <1>4, <1>8 DEF IInv, UniqueIsSole, Managed
<1>17. CountMatchesOwners'
  <2>1. Owners(c)' = {x}
    BY <1>1, <1>2, <1>3, <1>4, <1>8 DEF Owners, IInv, CounterLives
  <2>2. ASSUME NEW d \in ctrs
        PROVE  Owners(d)' = Owners(d)
    BY <1>1, <1>2, <1>3, <1>8, SharedPtrAssumption DEF Owners, IInv, TypeOK
  <2>3. Cardinality({x}) = 1
    BY FS_Singleton
  <2> QED
    BY <1>2, <1>4, <2>1, <2>2, <2>3 DEF IInv, CountMatchesOwners
<1> QED
  BY <1>6, <1>7, <1>9, <1>10, <1>11, <1>12, <1>13, <1>14, <1>15, <1>16, <1>17 DEF IInv

LEMMA ThrowsKeeps ==
  ASSUME IInv, NEW t \in Threads, CreateCounterThrows(t)
  PROVE  IInv'
<1> DEFINE x == frame[t].this
<1>. /\ frame[t].pc # "idle" /\ NewCounter(t) /\ Return(t)
     /\ UNCHANGED <<uniq, alive, ctrs, refs, terminated>>
  BY DEF CreateCounterThrows, At, NewCounter
<1>1. x \in Locations /\ x # Null /\ hnd[x].ctr = Null /\ x \in Own(t)
  BY BusyThread, SharedPtrAssumption DEF IInv, NewHasNone, Own, Written
<1> HIDE DEF x
<1>2. /\ hnd' \in [Locations -> Handle]
      /\ hnd'[x] = Empty /\ Empty.ptr = Null /\ Empty.ctr = Null
      /\ \A y \in Locations \ {x} : hnd'[y] = hnd[y]
  BY <1>1 DEF CreateCounterThrows, IInv, TypeOK, Handle, Empty, x
<1>3. LocalStep(t, Own(t)) /\ frame' \in [Threads -> Frame] /\ frame'[t] = IdleFrame
  BY <1>1, <1>2, ContinueIsLocal
<1>4. InOrder(t)'
  BY <1>1, <1>2, <1>3, ReturnInOrder DEF x
<1>5. TypeOK'
  BY <1>2, <1>3 DEF IInv, TypeOK
<1>6. FrameOK' /\ Exclusive'
  BY <1>3, <1>4, LocalFrames DEF InOrder
<1>7. /\ \A y \in Locations : /\ Deleted(y)' <=> Deleted(y)
                              /\ y \in Uncounted' <=> y \in Uncounted
      /\ \A y \in Locations \ {x} : Creating(y)' <=> Creating(y)
  BY <1>1, <1>3, LocalRoles DEF Dying, Copying, NewCounter, IdleFrame, x
<1>8. NewHasNone' /\ CopyHasSource'
  BY <1>3, LocalOthers DEF NewHasNone, NewCounter, CopyHasSource, Copying, IdleFrame
<1>9. CounterLives' /\ NoneIsEmpty'
  BY <1>2, <1>7 DEF IInv, CounterLives, NoneIsEmpty
<1>10. DyingIsLast'
  <2>1. ASSUME NEW u \in Threads, Dying(u)'
        PROVE  /\ frame'[u] = frame[u] /\ Dying(u)
               /\ frame[u].this \in Locations \ {x}
    <3>1. u # t
      BY <1>3, <2>1 DEF Dying, IdleFrame
    <3> QED
      BY <1>1, <1>3, <2>1, <3>1, LocalOthers DEF LocalStep
  <2> QED
    BY <1>2, <2>1 DEF IInv, DyingIsLast
<1>11. ManagedLives' /\ UniqueIsSole'
  <2>1. ManagedLives'
    BY <1>2, <1>7 DEF IInv, ManagedLives, Managed
  <2>2. UniqueIsSole'
    BY <1>2, <1>7 DEF IInv, UniqueIsSole, Managed
  <2> QED
    BY <2>1, <2>2
<1>12. OneCounter'
  BY <1>1, <1>2, <1>7 DEF IInv, OneCounter, Managed
<1>13. OneObject'
  BY <1>2 DEF IInv, OneObject
<1>14. CountMatchesOwners'
  <2>1. \A c \in ctrs, y \in Locations : y \in Owners(c)' <=> y \in Owners(c)
    BY <1>1, <1>2, <1>7, SharedPtrAssumption DEF Owners, IInv, TypeOK
  <2> QED
    BY <1>1, <2>1, CountPermuted DEF IInv
<1> QED
  BY <1>5, <1>6, <1>8, <1>9, <1>10, <1>11, <1>12, <1>13, <1>14 DEF IInv

LEMMA TerminatesKeeps ==
  ASSUME IInv, NEW t \in Threads, CreateCounterTerminates(t)
  PROVE  IInv'
<1>1. UNCHANGED <<hnd, uniq, alive, ctrs, refs, frame>> /\ terminated' \in BOOLEAN
  BY DEF CreateCounterTerminates
<1>2. TypeOK'
  BY <1>1 DEF IInv, TypeOK
<1>3. FrameOK' /\ Exclusive'
  BY <1>1 DEF IInv, FrameOK, Resting, OnTemporary, OnSlot, Exclusive, Written, Touched
<1>4. CounterLives' /\ NewHasNone' /\ NoneIsEmpty' /\ CopyHasSource' /\ DyingIsLast'
  BY <1>1 DEF IInv, CounterLives, NewHasNone, NoneIsEmpty, CopyHasSource, DyingIsLast,
         NewCounter, Creating, Copying, Dying
<1>5. ManagedLives' /\ OneCounter' /\ OneObject' /\ UniqueIsSole'
  BY <1>1 DEF IInv, ManagedLives, OneCounter, OneObject, UniqueIsSole, Managed, Deleted
<1>6. CountMatchesOwners'
  BY <1>1 DEF IInv, CountMatchesOwners, Owners, Uncounted, Dying
<1> QED
  BY <1>2, <1>3, <1>4, <1>5, <1>6 DEF IInv

LEMMA IncrementKeeps ==
  ASSUME IInv, NEW t \in Threads, Increment(t)
  PROVE  IInv'
<1> DEFINE x == frame[t].this
<1>. /\ frame[t].pc # "idle" /\ Copying(t) /\ Constructed(t)
     /\ UNCHANGED <<hnd, uniq, alive, ctrs, terminated>>
  BY DEF Increment, At, Copying
<1>1. /\ x \in Locations /\ x # Null /\ x \in Own(t) /\ x \in Uncounted
      /\ hnd[x].ctr \in ctrs /\ ctrs \subseteq Counters
  BY BusyThread, SharedPtrAssumption
     DEF IInv, TypeOK, CopyHasSource, CounterLives, Own, Written, Uncounted, Copying
<1> PICK c \in ctrs : c = hnd[x].ctr
  BY <1>1
<1>2. refs' = [refs EXCEPT ![c] = @ + 1]
  BY DEF Increment, Incremented
<1> HIDE DEF x
<1>3. /\ refs' \in [Counters -> Nat] /\ refs'[c] = refs[c] + 1
      /\ \A d \in ctrs \ {c} : refs'[d] = refs[d]
  BY <1>1, <1>2 DEF IInv, TypeOK
<1>4. /\ LocalStep(t, Own(t)) /\ frame' \in [Threads -> Frame]
      /\ InOrder(t)' /\ frame'[t].pc \in {"idle", "swap"}
  BY ConstructedLocal
<1>5. TypeOK'
  BY <1>3, <1>4 DEF IInv, TypeOK
<1>6. FrameOK' /\ Exclusive'
  BY <1>4, LocalFrames DEF InOrder
<1>7. /\ \A y \in Locations : /\ Deleted(y)' <=> Deleted(y)
                              /\ Creating(y)' <=> Creating(y)
      /\ \A y \in Locations \ {x} : y \in Uncounted' <=> y \in Uncounted
      /\ x \notin Uncounted'
  BY <1>1, <1>4, LocalRoles DEF Dying, Copying, NewCounter, x
<1>8. NewHasNone' /\ CopyHasSource'
  BY <1>4, LocalOthers DEF NewHasNone, NewCounter, CopyHasSource, Copying
<1>9. CounterLives' /\ NoneIsEmpty'
  BY <1>7 DEF IInv, CounterLives, NoneIsEmpty
<1>10. DyingIsLast'
  <2>1. ASSUME NEW u \in Threads, Dying(u)'
        PROVE  frame'[u] = frame[u] /\ Dying(u)
    BY <1>4, <2>1, LocalOthers DEF Dying, LocalStep
  <2> QED
    BY <2>1 DEF IInv, DyingIsLast
<1>11. ManagedLives' /\ OneCounter' /\ OneObject' /\ UniqueIsSole'
  BY <1>7 DEF IInv, ManagedLives, OneCounter, OneObject, UniqueIsSole, Managed
<1>12. CountMatchesOwners'
  <2>1. Owners(c)' = Owners(c) \cup {x} /\ x \notin Owners(c)
    BY <1>1, <1>7 DEF Owners
  <2>2. Cardinality(Owners(c)') = Cardinality(Owners(c)) + 1
    BY <2>1, OwnersFinite, FS_AddElement
  <2>3. ASSUME NEW d \in ctrs \ {c}
        PROVE  Owners(d)' = Owners(d)
    BY <1>1, <1>7 DEF Owners
  <2> QED
    BY <1>1, <1>3, <2>2, <2>3 DEF IInv, CountMatchesOwners
<1> QED
  BY <1>5, <1>6, <1>8, <1>9, <1>10, <1>11, <1>12 DEF IInv

LEMMA SwapKeeps ==
  ASSUME IInv, NEW t \in Threads, Swap(t)
  PROVE  IInv'
<1> DEFINE d == frame[t].dst
<1>. /\ frame[t].pc = "swap" /\ Goto(t, "release")
     /\ UNCHANGED <<uniq, alive, ctrs, refs, terminated>>
  BY DEF Swap, At
<1>1. /\ frame[t].this = t /\ d \in Slots
      /\ d # Null /\ t # Null /\ d \in Locations /\ t \in Locations
  BY SharedPtrAssumption
     DEF IInv, FrameOK, Resting, OnTemporary, OnSlot, IdleFrame, Locations
<1>2. /\ hnd' \in [Locations -> Handle] /\ hnd'[t] = hnd[d] /\ hnd'[d] = hnd[t]
      /\ \A y \in Locations \ {t, d} : hnd'[y] = hnd[y]
  BY <1>1 DEF Swap, IInv, TypeOK
<1>3. t \in Own(t) /\ d \in Own(t)
  BY <1>1 DEF Own, Written
<1>4. /\ LocalStep(t, Own(t)) /\ frame' \in [Threads -> Frame]
      /\ frame'[t] = [frame[t] EXCEPT !.pc = "release"]
  BY <1>2, <1>3, ContinueIsLocal DEF PC
<1>5. InOrder(t)'
  BY <1>2, <1>3, <1>4, GotoInOrder
<1>6. Plain(t) /\ Plain(t)'
  BY <1>4 DEF Plain, IInv, TypeOK, Frame
<1> QED
  BY <1>2, <1>3, <1>4, <1>5, <1>6, ExchangeKeeps

LEMMA ReleaseEmptyKeeps ==
  ASSUME IInv, NEW t \in Threads, ReleaseEmpty(t)
  PROVE  IInv'
<1> DEFINE x == frame[t].this
<1>. /\ frame[t].pc = "release" /\ hnd[x].ctr = Null /\ Return(t)
     /\ UNCHANGED <<uniq, alive, ctrs, refs, terminated>>
  BY DEF ReleaseEmpty, At
<1>1. x \in Locations /\ x # Null /\ x \in Own(t)
  BY BusyThread, SharedPtrAssumption DEF Own, Written
<1>2. hnd[x] = Empty
  <2>1. ASSUME NEW u \in Threads, frame[u].this = x
        PROVE  u = t
    BY <2>1, BusyThread DEF Touched, Written
  <2> QED
    BY <1>1, <2>1 DEF IInv, NoneIsEmpty, Creating, NewCounter
<1>3. /\ hnd' \in [Locations -> Handle] /\ hnd'[x] = hnd[x]
      /\ \A y \in Locations \ {x} : hnd'[y] = hnd[y]
  BY <1>1, <1>2 DEF ReleaseEmpty, IInv, TypeOK
<1>4. LocalStep(t, Own(t)) /\ frame' \in [Threads -> Frame] /\ frame'[t] = IdleFrame
  BY <1>1, <1>3, ContinueIsLocal
<1>5. InOrder(t)'
  BY <1>1, <1>2, <1>3, <1>4, ReturnInOrder
<1>6. Plain(t) /\ Plain(t)'
  BY <1>4 DEF Plain, IdleFrame
<1> QED
  BY <1>1, <1>3, <1>4, <1>5, <1>6, ExchangeKeeps

\* The handle being released owns the object, and the other handles that
\* refer to its counter own it too or are copies of one that does.
LEMMA ReleaseFacts ==
  ASSUME IInv, NEW t \in Threads, frame[t].pc = "release", hnd[frame[t].this].ctr # Null
  PROVE  LET x == frame[t].this
             c == hnd[x].ctr
         IN  /\ x \in Locations /\ x # Null /\ x \in Own(t)
             /\ c \in ctrs /\ c \in Counters
             /\ x \in Owners(c)
             /\ refs[c] = Cardinality(Owners(c)) /\ refs[c] > 0
             /\ \A y \in Locations \ {x} : hnd[y].ctr = c => refs[c] > 1
<1> DEFINE x == frame[t].this
           c == hnd[x].ctr
<1>1. /\ x \in Locations /\ x # Null /\ x \in Own(t)
      /\ c \in ctrs /\ c \in Counters
  BY BusyThread, SharedPtrAssumption DEF IInv, TypeOK, CounterLives, Own, Written
<1>2. \A u \in Threads : frame[u].this = x => u = t
  BY BusyThread, <1>1 DEF Touched, Written
<1>3. x \in Owners(c)
  BY <1>1, <1>2 DEF Owners, Uncounted, Dying
<1>4. refs[c] = Cardinality(Owners(c)) /\ IsFiniteSet(Owners(c)) /\ refs[c] \in Nat
  BY <1>1, OwnersFinite DEF IInv, CountMatchesOwners
<1>5. /\ Cardinality(Owners(c) \ {x}) = refs[c] - 1
      /\ IsFiniteSet(Owners(c) \ {x})
      /\ Cardinality(Owners(c) \ {x}) \in Nat
  BY <1>3, <1>4, FS_RemoveElement, FS_CardinalityType
<1>6. ASSUME NEW y \in Locations \ {x}, hnd[y].ctr = c
      PROVE  \E z \in Owners(c) : z # x
  <2>1. CASE y \notin Uncounted
    BY <1>6, <2>1 DEF Owners
  <2>2. CASE y \in Uncounted
    <3>1. PICK u \in Threads : frame[u].this = y /\ (Dying(u) \/ frame[u].pc = "increment")
      BY <2>2 DEF Uncounted
    <3>2. ~Dying(u)
      BY <1>1, <1>6, <3>1 DEF IInv, DyingIsLast
    <3>3. Copying(u) /\ u # t
      BY <3>1, <3>2 DEF Copying
    <3> DEFINE z == frame[u].src
    <3>4. z \in Slots /\ z # y /\ hnd[z].ctr = c
      BY <1>6, <3>1, <3>3 DEF IInv, CopyHasSource
    <3>5. z # x
      BY <1>1, <3>3, BusyThread DEF Touched
    <3>6. z \notin Uncounted
      <4>1. ASSUME NEW v \in Threads, frame[v].this = z, frame[v].pc # "idle"
            PROVE  FALSE
        <5>1. CASE v = u
          BY <3>1, <3>4, <4>1, <5>1
        <5>2. CASE v # u
          BY <4>1, <5>2, BusyThread DEF Touched
        <5> QED
          BY <5>1, <5>2
      <4> QED
        BY <4>1 DEF Uncounted, Dying
    <3> QED
      BY <3>4, <3>5, <3>6 DEF Owners, Locations
  <2> QED
    BY <2>1, <2>2
<1>7. ASSUME NEW y \in Locations \ {x}, hnd[y].ctr = c
      PROVE  refs[c] > 1
  <2>1. Owners(c) \ {x} # {}
    BY <1>6, <1>7
  <2>2. Cardinality(Owners(c) \ {x}) # 0
    BY <1>5, <2>1, FS_EmptySet
  <2> QED
    BY <1>4, <1>5, <2>2
<1>8. refs[c] > 0
  BY <1>4, <1>5
<1> QED
  BY <1>1, <1>3, <1>4, <1>7, <1>8

LEMMA ReleaseKeeps ==
  ASSUME IInv, NEW t \in Threads, Release(t)
  PROVE  IInv'
<1> DEFINE x == frame[t].this
<1>. /\ frame[t].pc = "release" /\ hnd[x].ctr # Null
     /\ UNCHANGED <<uniq, alive, ctrs, terminated>>
  BY DEF Release, At
<1> PICK c : c = hnd[x].ctr
  OBVIOUS
<1>1. /\ x \in Locations /\ x # Null /\ x \in Own(t)
      /\ c \in ctrs /\ c \in Counters /\ c # Null
      /\ x \in Owners(c)
      /\ refs[c] = Cardinality(Owners(c)) /\ refs[c] > 0
      /\ \A y \in Locations \ {x} : hnd[y].ctr = c => refs[c] > 1
  BY ReleaseFacts
<1>2. /\ refs' \in [Counters -> Nat] /\ refs'[c] = refs[c] - 1
      /\ \A d \in ctrs \ {c} : refs'[d] = refs[d]
  BY <1>1 DEF Release, Decremented, IInv, TypeOK
<1>3. /\ refs'[c] = 0 => Goto(t, "del_object") /\ hnd' = hnd
      /\ refs'[c] # 0 => Return(t) /\ hnd' = [hnd EXCEPT ![x] = Empty]
  BY DEF Release, IsLast
<1> HIDE DEF x
<1>4. /\ hnd' \in [Locations -> Handle]
      /\ \A y \in Locations \ {x} : hnd'[y] = hnd[y]
      /\ Empty.ctr = Null /\ Empty.ptr = Null
  BY <1>1, <1>3 DEF IInv, TypeOK, Handle, Empty
<1>5. CASE refs'[c] # 0
  <2>1. hnd'[x] = Empty
    BY <1>1, <1>3, <1>5 DEF IInv, TypeOK
  <2>2. /\ LocalStep(t, Own(t)) /\ frame' \in [Threads -> Frame]
        /\ frame'[t] = IdleFrame
    BY <1>1, <1>3, <1>4, <1>5, ContinueIsLocal
  <2>3. InOrder(t)'
    BY <1>1, <1>4, <2>1, <2>2, ReturnInOrder DEF x
  <2>4. TypeOK'
    BY <1>2, <1>4, <2>2 DEF IInv, TypeOK
  <2>5. FrameOK' /\ Exclusive'
    BY <2>2, <2>3, LocalFrames DEF InOrder
  <2>6. \A y \in Locations : /\ Deleted(y)' <=> Deleted(y)
                             /\ y \in Uncounted' <=> y \in Uncounted
                             /\ Creating(y)' <=> Creating(y)
    BY <2>2, LocalRoles DEF Dying, Copying, NewCounter, IdleFrame
  <2>7. NewHasNone' /\ CopyHasSource'
    BY <2>2, LocalOthers DEF NewHasNone, NewCounter, CopyHasSource, Copying, IdleFrame
  <2>8. CounterLives' /\ NoneIsEmpty'
    BY <1>4, <2>1, <2>6 DEF IInv, CounterLives, NoneIsEmpty
  <2>9. DyingIsLast'
    <3>1. ASSUME NEW u \in Threads, Dying(u)'
          PROVE  /\ frame'[u] = frame[u] /\ Dying(u)
                 /\ frame[u].this \in Locations \ {x}
      <4>1. u # t
        BY <2>2, <3>1 DEF Dying, IdleFrame
      <4> QED
        BY <1>1, <2>2, <3>1, <4>1, LocalOthers DEF LocalStep
    <3> QED
      BY <1>4, <2>1, <3>1 DEF IInv, DyingIsLast
  <2>10. ManagedLives'
    BY <1>4, <2>1, <2>6 DEF IInv, ManagedLives, Managed
  <2>11. UniqueIsSole'
    BY <1>4, <2>1, <2>6 DEF IInv, UniqueIsSole, Managed
  <2>12. OneCounter'
    BY <1>4, <2>1, <2>6, SharedPtrAssumption DEF IInv, OneCounter, Managed
  <2>13. OneObject'
    BY <1>4, <2>1 DEF IInv, OneObject
  <2>14. CountMatchesOwners'
    <3>1. Owners(c)' = Owners(c) \ {x}
      BY <1>1, <1>4, <2>1, <2>6 DEF Owners
    <3>2. Cardinality(Owners(c)') = Cardinality(Owners(c)) - 1
      BY <1>1, <3>1, OwnersFinite, FS_RemoveElement
    <3>3. ASSUME NEW d \in ctrs \ {c}
          PROVE  Owners(d)' = Owners(d)
      BY <1>1, <1>4, <2>1, <2>6, SharedPtrAssumption DEF Owners, IInv, TypeOK
    <3> QED
      BY <1>1, <1>2, <3>2, <3>3 DEF IInv, CountMatchesOwners
  <2> QED
    BY <2>4, <2>5, <2>7, <2>8, <2>9, <2>10, <2>11, <2>12, <2>13, <2>14 DEF IInv
<1>6. CASE refs'[c] = 0
  <2>1. hnd' = hnd /\ Goto(t, "del_object") /\ "del_object" \in PC
    BY <1>3, <1>6 DEF PC
  <2>2. LocalStep(t, Own(t)) /\ frame' \in [Threads -> Frame]
    BY <2>1, ContinueIsLocal
  <2>a. frame'[t] = [frame[t] EXCEPT !.pc = "del_object"]
    BY <2>1, ContinueIsLocal
  <2>3. InOrder(t)'
    BY <2>1, <2>2, <2>a, GotoInOrder
  <2>4. frame'[t].pc = "del_object" /\ frame'[t].this = x
    BY <2>a DEF IInv, TypeOK, Frame, x
  <2>5. TypeOK'
    BY <1>2, <1>4, <2>2 DEF IInv, TypeOK
  <2>6. FrameOK' /\ Exclusive'
    BY <2>2, <2>3, LocalFrames DEF InOrder
  <2>7. /\ \A y \in Locations : /\ Deleted(y)' <=> Deleted(y)
                                /\ Creating(y)' <=> Creating(y)
        /\ \A y \in Locations \ {x} : y \in Uncounted' <=> y \in Uncounted
        /\ x \in Uncounted'
    BY <1>1, <2>2, <2>4, LocalRoles DEF Dying, Copying, NewCounter, x
  <2>8. NewHasNone' /\ CopyHasSource'
    BY <2>2, <2>4, LocalOthers DEF NewHasNone, NewCounter, CopyHasSource, Copying
  <2>9. CounterLives' /\ NoneIsEmpty'
    BY <2>1, <2>7 DEF IInv, CounterLives, NoneIsEmpty
  <2>10. \A y \in Locations \ {x} : hnd[y].ctr # c
    <3>1. refs[c] = 1
      BY <1>1, <1>2, <1>6 DEF IInv, TypeOK
    <3> QED
      BY <1>1, <3>1
  <2>11. DyingIsLast'
    <3>1. ASSUME NEW u \in Threads \ {t}, Dying(u)'
          PROVE  frame'[u] = frame[u] /\ Dying(u)
      BY <2>2, <3>1, LocalOthers DEF LocalStep
    <3> QED
      BY <1>1, <2>1, <2>4, <2>10, <3>1 DEF IInv, DyingIsLast, x
  <2>12. ManagedLives' /\ OneCounter' /\ OneObject' /\ UniqueIsSole'
    BY <2>1, <2>7 DEF IInv, ManagedLives, OneCounter, OneObject, UniqueIsSole, Managed
  <2>13. CountMatchesOwners'
    <3>1. Owners(c)' = Owners(c) \ {x}
      BY <1>1, <2>1, <2>7 DEF Owners
    <3>2. Cardinality(Owners(c)') = Cardinality(Owners(c)) - 1
      BY <1>1, <3>1, OwnersFinite, FS_RemoveElement
    <3>3. ASSUME NEW d \in ctrs \ {c}
          PROVE  Owners(d)' = Owners(d)
      BY <1>1, <2>1, <2>7 DEF Owners
    <3> QED
      BY <1>1, <1>2, <3>2, <3>3 DEF IInv, CountMatchesOwners
  <2> QED
    BY <2>5, <2>6, <2>8, <2>9, <2>11, <2>12, <2>13 DEF IInv
<1> QED
  BY <1>5, <1>6

LEMMA DeleteObjectKeeps ==
  ASSUME IInv, NEW t \in Threads, DeleteObject(t)
  PROVE  IInv'
<1> DEFINE x == frame[t].this
<1>. /\ frame[t].pc = "del_object" /\ Dying(t) /\ Goto(t, "del_counter")
     /\ UNCHANGED <<hnd, uniq, ctrs, refs, terminated>>
     /\ alive' = alive \ {hnd[x].ptr}
     /\ "del_counter" \in PC
  BY DEF DeleteObject, At, Dying, PC
<1>1. /\ x \in Locations /\ x # Null /\ x \in Own(t)
      /\ hnd[x].ctr # Null
      /\ \A y \in Locations \ {x} : hnd[y].ctr # hnd[x].ctr
  BY BusyThread, SharedPtrAssumption DEF IInv, DyingIsLast, Own, Written
<1>2. LocalStep(t, Own(t)) /\ frame' \in [Threads -> Frame]
  BY ContinueIsLocal
<1>a. frame'[t] = [frame[t] EXCEPT !.pc = "del_counter"]
  BY ContinueIsLocal
<1>3. InOrder(t)'
  BY <1>2, <1>a, GotoInOrder
<1>4. frame'[t].pc = "del_counter" /\ frame'[t].this = x
  BY <1>a DEF IInv, TypeOK, Frame
<1>5. TypeOK'
  BY <1>2 DEF IInv, TypeOK
<1>6. FrameOK' /\ Exclusive'
  BY <1>2, <1>3, LocalFrames DEF InOrder
<1>7. /\ \A y \in Locations : /\ Creating(y)' <=> Creating(y)
                              /\ y \in Uncounted' <=> y \in Uncounted
      /\ \A y \in Locations \ {x} : Deleted(y)' <=> Deleted(y)
      /\ \A y \in Locations : y = x => ~Deleted(y) /\ Deleted(y)'
  BY <1>1, <1>2, <1>4, LocalRoles DEF Dying, Copying, NewCounter
<1> HIDE DEF x
<1>8. NewHasNone' /\ CopyHasSource'
  BY <1>2, <1>4, LocalOthers DEF NewHasNone, NewCounter, CopyHasSource, Copying
<1>9. CounterLives' /\ NoneIsEmpty'
  BY <1>7 DEF IInv, CounterLives, NoneIsEmpty
<1>10. DyingIsLast'
  <2>1. ASSUME NEW u \in Threads, Dying(u)'
        PROVE  Dying(u) /\ frame'[u].this = frame[u].this
    <3>1. CASE u = t
      BY <1>4, <3>1 DEF x
    <3>2. CASE u # t
      BY <1>2, <2>1, <3>2, LocalOthers DEF LocalStep
    <3> QED
      BY <3>1, <3>2
  <2> QED
    BY <2>1 DEF IInv, DyingIsLast
<1>11. ManagedLives'
  <2>1. ASSUME NEW y \in Locations, NEW o \in Objects, Managed(y, o)'
        PROVE  y # x /\ Managed(y, o) /\ o # hnd[x].ptr
    <3>1. y # x /\ Managed(y, o)
      BY <1>1, <1>7, <2>1 DEF Managed
    <3>2. hnd[x].ptr = o => Managed(x, o)
      BY <1>1, <1>7, <2>1 DEF Managed
    <3> QED
      BY <1>1, <3>1, <3>2 DEF IInv, OneCounter
  <2> QED
    BY <2>1 DEF IInv, ManagedLives
<1>12. OneCounter' /\ OneObject'
  BY <1>7 DEF IInv, OneCounter, OneObject, Managed
<1>13. UniqueIsSole'
  <2>1. ASSUME NEW u \in Threads, uniq[u] # Null
        PROVE  uniq[u] # hnd[x].ptr
    BY <1>1, <1>7, <2>1 DEF IInv, UniqueIsSole, Managed
  <2> QED
    BY <1>7, <2>1 DEF IInv, UniqueIsSole, Managed
<1>14. CountMatchesOwners'
  <2>1. \A c \in ctrs, y \in Locations : y \in Owners(c)' <=> y \in Owners(c)
    BY <1>7 DEF Owners
  <2> QED
    BY <1>1, <2>1, CountPermuted DEF IInv
<1> QED
  BY <1>5, <1>6, <1>8, <1>9, <1>10, <1>11, <1>12, <1>13, <1>14 DEF IInv

LEMMA DeleteCounterKeeps ==
  ASSUME IInv, NEW t \in Threads, DeleteCounter(t)
  PROVE  IInv'
<1> DEFINE x == frame[t].this
<1>. /\ frame[t].pc = "del_counter" /\ Dying(t) /\ Return(t)
     /\ UNCHANGED <<uniq, alive, refs, terminated>>
  BY DEF DeleteCounter, At, Dying
<1> PICK c : c = hnd[x].ctr
  OBVIOUS
<1>1. /\ x \in Locations /\ x # Null /\ x \in Own(t) /\ c # Null
      /\ \A y \in Locations \ {x} : hnd[y].ctr # c
      /\ ctrs' = ctrs \ {c}
  BY BusyThread, SharedPtrAssumption DEF DeleteCounter, IInv, DyingIsLast, Own, Written
<1> HIDE DEF x
<1>2. /\ hnd' \in [Locations -> Handle]
      /\ hnd'[x] = Empty /\ Empty.ptr = Null /\ Empty.ctr = Null
      /\ \A y \in Locations \ {x} : hnd'[y] = hnd[y]
  BY <1>1 DEF DeleteCounter, IInv, TypeOK, Handle, Empty, x
<1>3. LocalStep(t, Own(t)) /\ frame' \in [Threads -> Frame] /\ frame'[t] = IdleFrame
  BY <1>1, <1>2, ContinueIsLocal
<1>4. InOrder(t)'
  BY <1>1, <1>2, <1>3, ReturnInOrder DEF x
<1>5. TypeOK'
  BY <1>1, <1>2, <1>3 DEF IInv, TypeOK
<1>6. FrameOK' /\ Exclusive'
  BY <1>3, <1>4, LocalFrames DEF InOrder
<1>7. /\ \A y \in Locations : Creating(y)' <=> Creating(y)
      /\ \A y \in Locations \ {x} : /\ Deleted(y)' <=> Deleted(y)
                                    /\ y \in Uncounted' <=> y \in Uncounted
  BY <1>1, <1>3, LocalRoles DEF Dying, Copying, NewCounter, IdleFrame, x
<1>8. NewHasNone' /\ CopyHasSource'
  BY <1>3, LocalOthers DEF NewHasNone, NewCounter, CopyHasSource, Copying, IdleFrame
<1>9. CounterLives' /\ NoneIsEmpty'
  BY <1>1, <1>2, <1>7 DEF IInv, CounterLives, NoneIsEmpty
<1>10. DyingIsLast'
  <2>1. ASSUME NEW u \in Threads, Dying(u)'
        PROVE  /\ frame'[u] = frame[u] /\ Dying(u)
               /\ frame[u].this \in Locations \ {x}
    <3>1. u # t
      BY <1>3, <2>1 DEF Dying, IdleFrame
    <3> QED
      BY <1>1, <1>3, <2>1, <3>1, LocalOthers DEF LocalStep
  <2> QED
    BY <1>2, <2>1 DEF IInv, DyingIsLast
<1>11. ManagedLives'
  BY <1>2, <1>7, SharedPtrAssumption DEF IInv, ManagedLives, Managed
<1>12. UniqueIsSole'
  BY <1>2, <1>7, SharedPtrAssumption DEF IInv, UniqueIsSole, Managed
<1>13. OneCounter'
  BY <1>2, <1>7, SharedPtrAssumption DEF IInv, OneCounter, Managed
<1>14. OneObject'
  BY <1>2 DEF IInv, OneObject
<1>15. CountMatchesOwners'
  <2>1. ASSUME NEW d \in ctrs \ {c}
        PROVE  Owners(d)' = Owners(d)
    <3>1. x \notin Owners(d) /\ x \notin Owners(d)'
      BY <1>2, <2>1, SharedPtrAssumption DEF Owners, IInv, TypeOK, x
    <3> QED
      BY <1>2, <1>7, <3>1 DEF Owners
  <2> QED
    BY <1>1, <2>1 DEF IInv, CountMatchesOwners
<1> QED
  BY <1>5, <1>6, <1>8, <1>9, <1>10, <1>11, <1>12, <1>13, <1>14, <1>15 DEF IInv
-----------------------------------------------------------------------------
(***************************************************************************)
(* Every step keeps the invariant.                                         *)
(***************************************************************************)
LEMMA StartKeeps ==
  ASSUME IInv, NEW t \in Threads, Start(t)
  PROVE  IInv'
<1>1. CASE \/ \E o \in Objects : MakeUnique(t, o)
           \/ DeleteUnique(t)
           \/ \E u \in Threads : MoveUnique(t, u) \/ SwapUnique(t, u)
  BY <1>1, UniqueStarts
<1>2. ASSUME NEW s \in Slots, NEW o \in Objects, MakeShared(t, s, o) \/ ResetPtr(t, s, o)
      PROVE  IInv'
  BY <1>2, NewObjectStarts
<1>3. ASSUME NEW s \in Slots, FromUnique(t, s) \/ AssignUnique(t, s)
      PROVE  IInv'
  BY <1>3, FromUniqueStarts
<1>4. ASSUME NEW s \in Slots, Reset(t, s) \/ Destruct(t, s)
      PROVE  IInv'
  BY <1>4, ReleaseStarts
<1>5. ASSUME NEW s \in Slots, NEW r \in Slots,
             \/ CopyConstruct(t, s, r)
             \/ CopyAssign(t, s, r)
             \/ MoveConstruct(t, s, r) \/ SwapSlots(t, s, r)
             \/ MoveAssign(t, s, r)
      PROVE  IInv'
  BY <1>5, CopyConstructStarts, CopyAssignStarts, MoveStarts, MoveAssignStarts
<1> QED
  BY <1>1, <1>2, <1>3, <1>4, <1>5 DEF Start

LEMMA ContinueKeeps ==
  ASSUME IInv, NEW t \in Threads, Continue(t)
  PROVE  IInv'
  BY CreateCounterKeeps, ThrowsKeeps, TerminatesKeeps, IncrementKeeps, SwapKeeps,
     ReleaseEmptyKeeps, ReleaseKeeps, DeleteObjectKeeps, DeleteCounterKeeps
  DEF Continue

LEMMA NextKeeps ==
  ASSUME IInv, [Next]_vars
  PROVE  IInv'
<1>1. CASE Next
  BY <1>1, StartKeeps, ContinueKeeps DEF Next
<1>2. CASE UNCHANGED vars
  <2> USE <1>2 DEF vars, IInv
  <2>1. TypeOK' /\ FrameOK' /\ Exclusive'
    BY DEF TypeOK, FrameOK, Resting, OnTemporary, OnSlot, Exclusive, Written, Touched
  <2>2. CounterLives' /\ NewHasNone' /\ NoneIsEmpty' /\ CopyHasSource' /\ DyingIsLast'
    BY DEF CounterLives, NewHasNone, NoneIsEmpty, Creating, CopyHasSource, DyingIsLast,
           NewCounter, Copying, Dying
  <2>3. ManagedLives' /\ OneCounter' /\ OneObject' /\ UniqueIsSole'
    BY DEF ManagedLives, OneCounter, OneObject, UniqueIsSole, Managed, Deleted
  <2>4. CountMatchesOwners'
    BY DEF CountMatchesOwners, Owners, Uncounted, Dying
  <2> QED
    BY <2>1, <2>2, <2>3, <2>4
<1> QED
  BY <1>1, <1>2

(***************************************************************************)
(* The inductive invariant holds in every reachable state.                 *)
(***************************************************************************)
THEOREM Invariance == Spec => []IInv
<1>1. Init => IInv
  BY InitInv
<1>2. IInv /\ [Next]_vars => IInv'
  BY NextKeeps
<1> QED
  BY <1>1, <1>2, PTL DEF Spec

LEMMA InvImpliesNoUseAfterFree ==
  ASSUME IInv
  PROVE  NoUseAfterFree
<1>1. ASSUME NEW x \in Locations, hnd[x].ptr # Null, ~Deleted(x)
      PROVE  hnd[x].ptr \in alive
  <2>1. hnd[x].ptr \in Objects
    BY <1>1 DEF IInv, TypeOK, Handle
  <2> QED
    BY <1>1, <2>1 DEF IInv, ManagedLives, Managed
<1> QED
  BY <1>1 DEF NoUseAfterFree, IInv, CounterLives, UniqueIsSole

LEMMA InvImpliesSoleDeleter ==
  ASSUME IInv
  PROVE  SoleDeleter
<1> SUFFICES ASSUME NEW t \in Threads, Dying(t)
             PROVE  /\ \A y \in Locations \ {frame[t].this} :
                         hnd[y].ctr # hnd[frame[t].this].ctr
                    /\ frame[t].pc = "del_object" /\ hnd[frame[t].this].ptr # Null =>
                         /\ \A y \in Locations \ {frame[t].this} :
                              hnd[y].ptr = hnd[frame[t].this].ptr => Deleted(y)
                         /\ \A u \in Threads : uniq[u] # hnd[frame[t].this].ptr
  BY DEF SoleDeleter
<1> DEFINE x == frame[t].this
           o == hnd[x].ptr
<1>1. \A y \in Locations \ {x} : hnd[y].ctr # hnd[x].ctr
  BY DEF IInv, DyingIsLast
<1>2. ASSUME frame[t].pc = "del_object", o # Null
      PROVE  /\ \A y \in Locations \ {x} : hnd[y].ptr = o => Deleted(y)
             /\ \A u \in Threads : uniq[u] # o
  <2>1. x \in Locations /\ \A u \in Threads : u # t => x # frame[u].this
    BY <1>2, BusyThread DEF Touched, Written
  <2>2. ~Deleted(x)
    BY <1>2, <2>1 DEF Deleted
  <2>3. o \in Objects /\ Managed(x, o)
    BY <1>2, <2>1, <2>2 DEF IInv, TypeOK, Handle, Managed
  <2> HIDE DEF x, o
  <2>4. ASSUME NEW y \in Locations \ {x}, hnd[y].ptr = o
        PROVE  Deleted(y)
    BY <1>1, <1>2, <2>1, <2>3, <2>4 DEF IInv, OneCounter, Managed
  <2>5. \A u \in Threads : uniq[u] # o
    BY <1>2, <2>1, <2>3 DEF IInv, UniqueIsSole
  <2> QED
    BY <2>4, <2>5
<1> QED
  BY <1>1, <1>2

(***************************************************************************)
(* Every variable keeps its type; in particular no counter ever goes below *)
(* zero, since _Release() decrements a counter that exists and counts the  *)
(* handle being destroyed (smart_pointer.hpp:371-372).                     *)
(***************************************************************************)
THEOREM TypeCorrect == Spec => []TypeOK
<1>1. IInv => TypeOK
  BY DEF IInv
<1> QED
  BY <1>1, Invariance, PTL

(***************************************************************************)
(* _Myrefs is the number of handles that own the object, at every moment   *)
(* and for any number of threads (smart_pointer.hpp:302-304, 370-378).     *)
(***************************************************************************)
THEOREM CounterIsExact == Spec => []CountMatchesOwners
<1>1. IInv => CountMatchesOwners
  BY DEF IInv
<1> QED
  BY <1>1, Invariance, PTL

(***************************************************************************)
(* No handle refers to a counter that is gone, nor to a destroyed object   *)
(* unless its own thread is between the two deletions of _Release().       *)
(***************************************************************************)
THEOREM NothingUsedAfterFree == Spec => []NoUseAfterFree
<1>1. IInv => NoUseAfterFree
  BY InvImpliesNoUseAfterFree
<1> QED
  BY <1>1, Invariance, PTL

(***************************************************************************)
(* The thread that reaches the deletions of _Release() is the only one     *)
(* that can reach the object and the counter (smart_pointer.hpp:372-374).  *)
(***************************************************************************)
THEOREM DeleterIsAlone == Spec => []SoleDeleter
<1>1. IInv => SoleDeleter
  BY InvImpliesSoleDeleter
<1> QED
  BY <1>1, Invariance, PTL

-----------------------------------------------------------------------------
(***************************************************************************)
(* As long as counters can be allocated, no object and no counter is lost. *)
(***************************************************************************)

\* Somebody keeps o alive.  (A stale _Myptr, between the two deletions of
\* _Release(), keeps nothing alive; NoLeak alone is not inductive for that.)
Kept(o) == \/ \E x \in Locations : Managed(x, o)
           \/ \E t \in Threads : uniq[t] = o

Referred(c) == \E x \in Locations : hnd[x].ctr = c

NothingUnowned == /\ \A o \in alive : Kept(o)
                  /\ \A c \in ctrs : Referred(c)

\* A frame changes, and no deletion of an object is in it before or after.
DeletedSame == \A x : Deleted(x)' <=> Deleted(x)

LEMMA DeletedKept ==
  ASSUME IInv, NEW t \in Threads, frame[t].pc # "del_counter",
         \/ \E pc, x, d, r : Call(t, pc, x, d, r) /\ pc # "del_counter"
         \/ Return(t) \/ Constructed(t)
         \/ \E pc : Goto(t, pc) /\ pc # "del_counter"
         \/ UNCHANGED frame
  PROVE  DeletedSame
<1>1. frame \in [Threads -> Frame]
  BY DEF IInv, TypeOK
<1>2. /\ frame'[t].pc # "del_counter"
      /\ \A u \in Threads \ {t} : frame'[u] = frame[u]
  BY <1>1 DEF Call, Return, Constructed, Goto, IdleFrame, Frame
<1>3. QED
  BY <1>2 DEF DeletedSame, Deleted

(***************************************************************************)
(* Steps by what they do to the handles.                                   *)
(***************************************************************************)
\* No handle gives up what it has.
LEMMA SameHandlesKeep ==
  ASSUME NothingUnowned, DeletedSame, UNCHANGED uniq,
         alive' \subseteq alive, ctrs' \subseteq ctrs,
         \A x \in Locations : hnd'[x] = hnd[x]
  PROVE  NothingUnowned'
BY DEF NothingUnowned, Kept, Referred, Managed, DeletedSame

\* Two handles trade places.
LEMMA ExchangedHandlesKeep ==
  ASSUME NothingUnowned, DeletedSame, UNCHANGED <<uniq, alive, ctrs>>,
         NEW a \in Locations, NEW b \in Locations, ~Deleted(a), ~Deleted(b),
         hnd'[a] = hnd[b], hnd'[b] = hnd[a],
         \A x \in Locations \ {a, b} : hnd'[x] = hnd[x]
  PROVE  NothingUnowned'
<1>1. ASSUME NEW o, NEW x \in Locations, Managed(x, o)
      PROVE  \E y \in Locations : Managed(y, o)'
  BY <1>1 DEF Managed, DeletedSame
<1>2. ASSUME NEW c, NEW x \in Locations, hnd[x].ctr = c
      PROVE  \E y \in Locations : hnd'[y].ctr = c
  BY <1>2
<1>3. QED
  BY <1>1, <1>2 DEF NothingUnowned, Kept, Referred

\* An empty handle takes something: a copy, or what a unique_ptr or the
\* caller had.
LEMMA FilledHandleKeeps ==
  ASSUME NothingUnowned, DeletedSame, UNCHANGED ctrs, Null \notin alive', Null \notin ctrs,
         NEW a \in Locations, ~Deleted(a), hnd[a] = Empty,
         \A x \in Locations \ {a} : hnd'[x] = hnd[x],
         \A o \in alive' : \/ o \in alive /\ \A t \in Threads : uniq[t] = o => uniq'[t] = o
                           \/ hnd'[a].ptr = o
  PROVE  NothingUnowned'
<1>1. hnd[a].ptr = Null /\ hnd[a].ctr = Null
  BY DEF Empty
<1>2. ASSUME NEW o \in alive', hnd'[a].ptr = o
      PROVE  Kept(o)'
  BY <1>2 DEF Kept, Managed, DeletedSame
<1>3. ASSUME NEW o \in alive', o \in alive, \A t \in Threads : uniq[t] = o => uniq'[t] = o
      PROVE  Kept(o)'
  BY <1>1, <1>3 DEF NothingUnowned, Kept, Managed, DeletedSame
<1>4. ASSUME NEW c \in ctrs'
      PROVE  Referred(c)'
  BY <1>1, <1>4 DEF NothingUnowned, Referred
<1>5. QED
  BY <1>2, <1>3, <1>4 DEF NothingUnowned
-----------------------------------------------------------------------------
LEMMA UniqueCallsKeep ==
  ASSUME IInv, NothingUnowned, NEW t \in Threads,
         \/ \E o \in Objects : MakeUnique(t, o)
         \/ DeleteUnique(t)
         \/ \E u \in Threads : MoveUnique(t, u) \/ SwapUnique(t, u)
  PROVE  NothingUnowned'
<1>1. /\ uniq \in [Threads -> Objects \cup {Null}] /\ alive \subseteq Objects
      /\ Null \notin Objects
  BY SharedPtrAssumption DEF IInv, TypeOK
<1>2. UNCHANGED <<hnd, frame, ctrs>>
  BY DEF MakeUnique, DeleteUnique, MoveUnique, SwapUnique
<1>3. /\ \A o, x : Managed(x, o)' <=> Managed(x, o)
      /\ \A c \in ctrs' : Referred(c)'
  BY <1>2 DEF Managed, Deleted, NothingUnowned, Referred
<1>4. SUFFICES ASSUME NEW o \in alive'
               PROVE  Kept(o)'
  BY <1>3 DEF NothingUnowned
<1>5. SUFFICES ASSUME o \in alive => \E v \in Threads : uniq[v] = o
               PROVE  \E v \in Threads : uniq'[v] = o
  BY <1>3 DEF NothingUnowned, Kept
<1>6. ASSUME NEW p \in Objects, MakeUnique(t, p)
      PROVE  \E v \in Threads : uniq'[v] = o
  <2>1. alive' = alive \cup {p} /\ uniq' = [uniq EXCEPT ![t] = p] /\ uniq[t] = Null
    BY <1>6 DEF MakeUnique
  <2>2. QED
    BY <1>1, <1>4, <1>5, <2>1
<1>7. CASE DeleteUnique(t)
  <2>1. alive' = alive \ {uniq[t]} /\ uniq' = [uniq EXCEPT ![t] = Null]
    BY <1>7 DEF DeleteUnique
  <2>2. QED
    BY <1>1, <1>4, <1>5, <2>1
<1>8. ASSUME NEW u \in Threads, MoveUnique(t, u)
      PROVE  \E v \in Threads : uniq'[v] = o
  <2>1. CASE t = u
    BY <1>1, <1>4, <1>5, <1>8, <2>1 DEF MoveUnique, AfterMove, DeletedByMove
  <2>2. CASE t # u
    <3>1. alive' = alive \ {uniq[t]} /\ uniq' = [uniq EXCEPT ![t] = uniq[u], ![u] = Null]
      BY <1>8, <2>2 DEF MoveUnique, AfterMove, DeletedByMove
    <3>2. /\ uniq'[t] = uniq[u]
          /\ \A v \in Threads \ {t, u} : uniq'[v] = uniq[v]
      BY <1>1, <2>2, <3>1
    <3>3. PICK v \in Threads : uniq[v] = o /\ v # t
      BY <1>4, <1>5, <3>1
    <3>4. QED
      BY <3>2, <3>3
  <2>3. QED
    BY <2>1, <2>2
<1>9. ASSUME NEW u \in Threads, SwapUnique(t, u)
      PROVE  \E v \in Threads : uniq'[v] = o
  <2>1. alive' = alive /\ uniq' = [uniq EXCEPT ![t] = uniq[u], ![u] = uniq[t]]
    BY <1>9 DEF SwapUnique
  <2>2. /\ uniq'[t] = uniq[u] /\ uniq'[u] = uniq[t]
        /\ \A v \in Threads \ {t, u} : uniq'[v] = uniq[v]
    BY <1>1, <2>1
  <2>3. PICK v \in Threads : uniq[v] = o
    BY <1>4, <1>5, <2>1
  <2>4. QED
    BY <2>2, <2>3
<1>10. QED
  BY <1>6, <1>7, <1>8, <1>9

\* Where a call may start: nobody is deleting there.
LEMMA QuietStart ==
  ASSUME IInv, NEW t \in Threads, Idle(t)
  PROVE  /\ t \in Locations /\ hnd[t] = Empty /\ ~Deleted(t)
         /\ frame[t].pc # "del_counter"
         /\ hnd \in [Locations -> Handle] /\ uniq \in [Threads -> Objects \cup {Null}]
         /\ \A s \in Slots : /\ s \in Locations /\ s # t
                             /\ CanWrite(s) => ~Deleted(s)
<1>1. t \in Locations /\ hnd[t] = Empty /\ \A u \in Threads : t \notin Touched(u)
  BY IdleThread
<1>2. ASSUME NEW s \in Slots
      PROVE  s \in Locations /\ s # t /\ (CanWrite(s) => ~Deleted(s))
  BY SharedPtrAssumption DEF Locations, CanWrite, Touched, Written, Deleted
<1>3. ~Deleted(t)
  BY <1>1 DEF Touched, Written, Deleted
<1>4. QED
  BY <1>1, <1>2, <1>3 DEF IInv, TypeOK, Idle

LEMMA CallKeepsDeleted ==
  ASSUME IInv, NEW t \in Threads, Idle(t), NEW pc, NEW x, NEW d, NEW r, Call(t, pc, x, d, r),
         pc # "del_counter"
  PROVE  DeletedSame
BY DeletedKept DEF Idle

LEMMA NewObjectKeepsAll ==
  ASSUME IInv, NothingUnowned, NEW t \in Threads, NEW s \in Slots, NEW o \in Objects,
         MakeShared(t, s, o) \/ ResetPtr(t, s, o)
  PROVE  NothingUnowned'
<1>1. /\ Idle(t) /\ CanWrite(s) /\ alive' = alive \cup {o} /\ UNCHANGED <<uniq, ctrs>>
  BY DEF MakeShared, ResetPtr
<1>2. DeletedSame
  BY <1>1, CallKeepsDeleted DEF MakeShared, ResetPtr
<1>3. Null \notin alive' /\ Null \notin ctrs
  BY <1>1, SharedPtrAssumption DEF IInv, TypeOK
<1>4. PICK a \in {s, t} : hnd[a] = Empty /\ hnd' = [hnd EXCEPT ![a] = [ptr |-> o, ctr |-> Null]]
  BY <1>1, QuietStart DEF MakeShared, ResetPtr
<1>5. a \in Locations /\ ~Deleted(a)
  BY <1>1, QuietStart
<1>6. /\ hnd'[a].ptr = o
      /\ \A x \in Locations \ {a} : hnd'[x] = hnd[x]
  BY <1>1, <1>4, <1>5, QuietStart
<1>7. QED
  BY <1>1, <1>2, <1>3, <1>4, <1>5, <1>6, FilledHandleKeeps

LEMMA FromUniqueKeepsAll ==
  ASSUME IInv, NothingUnowned, NEW t \in Threads, NEW s \in Slots,
         FromUnique(t, s) \/ AssignUnique(t, s)
  PROVE  NothingUnowned'
<1>1. /\ Idle(t) /\ CanWrite(s) /\ uniq' = [uniq EXCEPT ![t] = Null] /\ UNCHANGED <<alive, ctrs>>
  BY DEF FromUnique, AssignUnique
<1>2. DeletedSame
  BY <1>1, CallKeepsDeleted DEF FromUnique, AssignUnique
<1>3. Null \notin alive' /\ Null \notin ctrs
  BY <1>1, SharedPtrAssumption DEF IInv, TypeOK
<1>4. PICK a \in {s, t} :
        hnd[a] = Empty /\ hnd' = [hnd EXCEPT ![a] = [ptr |-> uniq[t], ctr |-> Null]]
  BY <1>1, QuietStart DEF FromUnique, AssignUnique
<1>5. a \in Locations /\ ~Deleted(a)
  BY <1>1, QuietStart
<1>6. /\ hnd'[a].ptr = uniq[t]
      /\ \A x \in Locations \ {a} : hnd'[x] = hnd[x]
      /\ \A u \in Threads \ {t} : uniq'[u] = uniq[u]
  BY <1>1, <1>4, <1>5, QuietStart
<1>7. \A o \in alive' : \/ o \in alive /\ \A u \in Threads : uniq[u] = o => uniq'[u] = o
                        \/ hnd'[a].ptr = o
  BY <1>1, <1>6
<1>8. QED
  BY <1>1, <1>2, <1>3, <1>4, <1>5, <1>6, <1>7, FilledHandleKeeps

LEMMA CopyKeepsAll ==
  ASSUME IInv, NothingUnowned, NEW t \in Threads, NEW s \in Slots, NEW r \in Slots,
         CopyConstruct(t, s, r) \/ CopyAssign(t, s, r)
  PROVE  NothingUnowned'
<1>1. Idle(t) /\ CanWrite(s) /\ UNCHANGED <<uniq, alive, ctrs>>
  BY DEF CopyConstruct, CopyAssign
<1>2. DeletedSame
  BY <1>1, CallKeepsDeleted, DeletedKept, QuietStart DEF CopyConstruct, CopyAssign
<1>3. Null \notin alive' /\ Null \notin ctrs
  BY <1>1, SharedPtrAssumption DEF IInv, TypeOK
<1>4. PICK a \in {s, t} : hnd[a] = Empty /\ hnd' = [hnd EXCEPT ![a] = hnd[r]]
  BY <1>1, QuietStart DEF CopyConstruct, CopyAssign
<1>5. a \in Locations /\ ~Deleted(a)
  BY <1>1, QuietStart
<1>6. \A x \in Locations \ {a} : hnd'[x] = hnd[x]
  BY <1>1, <1>4, <1>5, QuietStart
<1>7. QED
  BY <1>1, <1>2, <1>3, <1>4, <1>5, <1>6, FilledHandleKeeps

LEMMA MoveKeepsAll ==
  ASSUME IInv, NothingUnowned, NEW t \in Threads, NEW s \in Slots, NEW r \in Slots,
         MoveConstruct(t, s, r) \/ MoveAssign(t, s, r) \/ SwapSlots(t, s, r)
  PROVE  NothingUnowned'
<1>1. Idle(t) /\ CanWrite(s) /\ CanWrite(r) /\ UNCHANGED <<uniq, alive, ctrs>>
  BY DEF MoveConstruct, MoveAssign, SwapSlots
<1>2. DeletedSame
  BY <1>1, CallKeepsDeleted, DeletedKept, QuietStart DEF MoveConstruct, MoveAssign, SwapSlots
<1>3. \E a \in {s, t} : /\ hnd'[a] = hnd[r] /\ hnd'[r] = hnd[a]
                        /\ \A x \in Locations \ {a, r} : hnd'[x] = hnd[x]
  <2>1. CASE MoveConstruct(t, s, r)
    BY <1>1, <2>1, QuietStart DEF MoveConstruct, Moved
  <2>2. CASE MoveAssign(t, s, r)
    BY <1>1, <2>2, QuietStart DEF MoveAssign, Moved
  <2>3. CASE SwapSlots(t, s, r)
    BY <1>1, <2>3, QuietStart DEF SwapSlots
  <2>4. QED
    BY <2>1, <2>2, <2>3
<1>4. PICK a \in {s, t} : /\ hnd'[a] = hnd[r] /\ hnd'[r] = hnd[a]
                          /\ \A x \in Locations \ {a, r} : hnd'[x] = hnd[x]
  BY <1>3
<1>5. a \in Locations /\ ~Deleted(a) /\ r \in Locations /\ ~Deleted(r)
  BY <1>1, QuietStart
<1>6. QED
  BY <1>1, <1>2, <1>4, <1>5, ExchangedHandlesKeep

LEMMA ReleaseStartKeepsAll ==
  ASSUME IInv, NothingUnowned, NEW t \in Threads, NEW s \in Slots, Reset(t, s) \/ Destruct(t, s)
  PROVE  NothingUnowned'
<1>1. Idle(t) /\ UNCHANGED <<hnd, uniq, alive, ctrs>>
  BY DEF Reset, Destruct
<1>2. DeletedSame
  BY <1>1, CallKeepsDeleted DEF Reset, Destruct
<1>3. QED
  BY <1>1, <1>2, SameHandlesKeep

LEMMA StartKeepsAll ==
  ASSUME IInv, NothingUnowned, NEW t \in Threads, Start(t)
  PROVE  NothingUnowned'
<1>1. CASE \/ \E o \in Objects : MakeUnique(t, o)
           \/ DeleteUnique(t)
           \/ \E u \in Threads : MoveUnique(t, u) \/ SwapUnique(t, u)
  BY <1>1, UniqueCallsKeep
<1>2. ASSUME NEW s \in Slots, NEW o \in Objects, MakeShared(t, s, o) \/ ResetPtr(t, s, o)
      PROVE  NothingUnowned'
  BY <1>2, NewObjectKeepsAll
<1>3. ASSUME NEW s \in Slots, FromUnique(t, s) \/ AssignUnique(t, s)
      PROVE  NothingUnowned'
  BY <1>3, FromUniqueKeepsAll
<1>4. ASSUME NEW s \in Slots, Reset(t, s) \/ Destruct(t, s)
      PROVE  NothingUnowned'
  BY <1>4, ReleaseStartKeepsAll
<1>5. ASSUME NEW s \in Slots, NEW r \in Slots,
             \/ CopyConstruct(t, s, r) \/ CopyAssign(t, s, r)
             \/ MoveConstruct(t, s, r) \/ MoveAssign(t, s, r) \/ SwapSlots(t, s, r)
      PROVE  NothingUnowned'
  BY <1>5, CopyKeepsAll, MoveKeepsAll
<1>6. QED
  BY <1>1, <1>2, <1>3, <1>4, <1>5 DEF Start
-----------------------------------------------------------------------------
\* The counter appears in a handle that had none.
LEMMA CreateCounterKeepsAll ==
  ASSUME IInv, NothingUnowned, NEW t \in Threads, CreateCounter(t)
  PROVE  NothingUnowned'
<1> DEFINE x == frame[t].this
<1>1. /\ NewCounter(t) /\ frame[t].pc # "idle" /\ frame[t].pc # "del_counter"
      /\ Constructed(t) /\ UNCHANGED <<uniq, alive>>
  BY DEF CreateCounter, At, NewCounter
<1>2. PICK c \in Counters \ ctrs :
        ctrs' = ctrs \cup {c} /\ hnd' = [hnd EXCEPT ![x].ctr = c]
  BY DEF CreateCounter
<1>3. /\ x \in Locations /\ hnd \in [Locations -> Handle] /\ hnd[x].ctr = Null /\ Null \notin ctrs
  BY <1>1, BusyThread, SharedPtrAssumption DEF IInv, NewHasNone, TypeOK
<1>4. DeletedSame
  BY <1>1, DeletedKept
<1> HIDE DEF x
<1>5. /\ hnd'[x].ctr = c /\ hnd'[x].ptr = hnd[x].ptr
      /\ \A y \in Locations \ {x} : hnd'[y] = hnd[y]
  BY <1>2, <1>3 DEF Handle
<1>6. \A o \in alive : Kept(o)'
  BY <1>1, <1>4, <1>5 DEF NothingUnowned, Kept, Managed, DeletedSame
<1>7. \A d \in ctrs' : Referred(d)'
  BY <1>2, <1>3, <1>5 DEF NothingUnowned, Referred
<1>8. QED
  BY <1>1, <1>6, <1>7 DEF NothingUnowned

LEMMA IncrementKeepsAll ==
  ASSUME IInv, NothingUnowned, NEW t \in Threads, Increment(t)
  PROVE  NothingUnowned'
<1>1. frame[t].pc # "del_counter" /\ Constructed(t) /\ UNCHANGED <<hnd, uniq, alive, ctrs>>
  BY DEF Increment, At
<1>2. DeletedSame
  BY <1>1, DeletedKept
<1>3. QED
  BY <1>1, <1>2, SameHandlesKeep

LEMMA SwapKeepsAll ==
  ASSUME IInv, NothingUnowned, NEW t \in Threads, Swap(t)
  PROVE  NothingUnowned'
<1> DEFINE d == frame[t].dst
<1>1. /\ frame[t].pc = "swap" /\ Goto(t, "release") /\ UNCHANGED <<uniq, alive, ctrs>>
      /\ hnd' = [hnd EXCEPT ![t] = hnd[d], ![d] = hnd[t]]
  BY DEF Swap, At
<1>2. DeletedSame
  BY <1>1, DeletedKept
<1>3. frame[t].this = t /\ d \in Slots
  BY <1>1 DEF IInv, FrameOK, Resting, OnTemporary, OnSlot, IdleFrame
<1>4. t \in Locations /\ d \in Locations /\ d # t /\ d # Null /\ hnd \in [Locations -> Handle]
  BY <1>3, SharedPtrAssumption DEF Locations, IInv, TypeOK
<1>5. \A u \in Threads \ {t} : t \notin Written(u) /\ d \notin Written(u)
  BY <1>1, <1>3, <1>4, BusyThread DEF Touched
<1>6. ~Deleted(t) /\ ~Deleted(d)
  BY <1>1, <1>5 DEF Deleted, Written
<1> HIDE DEF d
<1>7. hnd'[t] = hnd[d] /\ hnd'[d] = hnd[t] /\ \A x \in Locations \ {t, d} : hnd'[x] = hnd[x]
  BY <1>1, <1>4
<1>8. QED
  BY <1>1, <1>2, <1>4, <1>6, <1>7, ExchangedHandlesKeep

\* A handle without a counter was empty.
LEMMA ReleaseEmptyKeepsAll ==
  ASSUME IInv, NothingUnowned, NEW t \in Threads, ReleaseEmpty(t)
  PROVE  NothingUnowned'
<1> DEFINE x == frame[t].this
<1>1. /\ frame[t].pc = "release" /\ Return(t) /\ UNCHANGED <<uniq, alive, ctrs>>
      /\ hnd[x].ctr = Null /\ hnd' = [hnd EXCEPT ![x] = Empty]
  BY DEF ReleaseEmpty, At
<1>2. DeletedSame
  BY <1>1, DeletedKept
<1>3. x \in Locations /\ \A u \in Threads \ {t} : frame[u].this # x
  BY <1>1, BusyThread DEF Touched, Written
<1>4. ~Creating(x)
  BY <1>1, <1>3 DEF Creating, NewCounter
<1>5. hnd[x] = Empty
  BY <1>1, <1>3, <1>4 DEF IInv, NoneIsEmpty
<1> HIDE DEF x
<1>6. \A y \in Locations : hnd'[y] = hnd[y]
  BY <1>1, <1>3, <1>5 DEF IInv, TypeOK
<1>7. QED
  BY <1>1, <1>2, <1>6, SameHandlesKeep

\* A decrement that does not reach zero leaves another owner.
LEMMA OtherOwner ==
  ASSUME IInv, NEW t \in Threads, Release(t), Return(t), hnd' # hnd
  PROVE  \E y \in Owners(hnd[frame[t].this].ctr) : y # frame[t].this
<1> DEFINE x == frame[t].this
<1> PICK c : c = hnd[x].ctr
  OBVIOUS
<1>1. /\ frame[t].pc = "release" /\ c # Null
      /\ refs' = [refs EXCEPT ![c] = Decremented(@)]
      /\ IsLast(refs'[c]) => hnd' = hnd
  BY DEF Release, At
<1>2. /\ c \in Counters /\ x \in Owners(c)
      /\ refs[c] = Cardinality(Owners(c)) /\ refs \in [Counters -> Nat]
  BY <1>1, ReleaseFacts DEF IInv, TypeOK
<1>3. refs[c] # 1
  BY <1>1, <1>2 DEF IsLast, Decremented
<1>4. Owners(c) # {x}
  BY <1>2, <1>3, FS_Singleton
<1>5. QED
  BY <1>2, <1>4

LEMMA ReleaseKeepsAll ==
  ASSUME IInv, NothingUnowned, NEW t \in Threads, Release(t)
  PROVE  NothingUnowned'
<1> DEFINE x == frame[t].this
<1>1. /\ frame[t].pc = "release" /\ hnd[x].ctr # Null /\ UNCHANGED <<uniq, alive, ctrs>>
      /\ \/ Goto(t, "del_object") /\ hnd' = hnd
         \/ Return(t) /\ hnd' = [hnd EXCEPT ![x] = Empty]
  BY DEF Release, At
<1>2. DeletedSame
  BY <1>1, DeletedKept
<1>3. CASE hnd' = hnd
  BY <1>1, <1>2, <1>3, SameHandlesKeep
<1>4. CASE hnd' # hnd
  <2>1. Return(t) /\ hnd' = [hnd EXCEPT ![x] = Empty]
    BY <1>1, <1>4
  <2>2. PICK y \in Owners(hnd[x].ctr) : y # x
    BY <1>4, <2>1, OtherOwner
  <2>3. x \in Locations
    BY <1>1, BusyThread
  <2>4. y \in Locations /\ hnd[y].ctr = hnd[x].ctr /\ ~Deleted(y)
    BY <2>2 DEF Owners, Uncounted, Dying, Deleted
  <2> HIDE DEF x
  <2>5. hnd[y].ptr = hnd[x].ptr
    BY <1>1, <2>3, <2>4 DEF IInv, OneObject
  <2>6. \A z \in Locations \ {x} : hnd'[z] = hnd[z]
    BY <2>1, <2>3 DEF IInv, TypeOK
  <2>7. ASSUME NEW o \in alive
        PROVE  Kept(o)'
    BY <1>1, <1>2, <2>2, <2>4, <2>5, <2>6 DEF NothingUnowned, Kept, Managed, DeletedSame
  <2>8. ASSUME NEW c \in ctrs
        PROVE  Referred(c)'
    BY <2>2, <2>4, <2>6 DEF NothingUnowned, Referred
  <2>9. QED
    BY <1>1, <2>7, <2>8 DEF NothingUnowned
<1>5. QED
  BY <1>3, <1>4

\* Only the object that goes loses its handle.
LEMMA DeleteObjectKeepsAll ==
  ASSUME IInv, NothingUnowned, NEW t \in Threads, DeleteObject(t)
  PROVE  NothingUnowned'
<1> DEFINE x == frame[t].this
<1>1. /\ frame[t].pc = "del_object" /\ Goto(t, "del_counter") /\ UNCHANGED <<hnd, uniq, ctrs>>
      /\ alive' = alive \ {hnd[x].ptr}
  BY DEF DeleteObject, At
<1>2. /\ frame \in [Threads -> Frame]
      /\ \A u \in Threads \ {t} : frame'[u] = frame[u]
      /\ frame'[t].this = x
  BY <1>1 DEF Goto, IInv, TypeOK, Frame
<1>3. ASSUME NEW y, y # x
      PROVE  Deleted(y)' <=> Deleted(y)
  BY <1>1, <1>2, <1>3 DEF Deleted
<1>4. ASSUME NEW o \in alive'
      PROVE  Kept(o)'
  <2>1. o \in alive /\ o # hnd[x].ptr
    BY <1>1
  <2> HIDE DEF x
  <2>2. QED
    BY <1>1, <1>3, <2>1 DEF NothingUnowned, Kept, Managed
<1>5. \A c \in ctrs' : Referred(c)'
  BY <1>1 DEF NothingUnowned, Referred
<1>6. QED
  BY <1>4, <1>5 DEF NothingUnowned

\* The handle that goes kept nothing any more but its own counter.
LEMMA DeleteCounterKeepsAll ==
  ASSUME IInv, NothingUnowned, NEW t \in Threads, DeleteCounter(t)
  PROVE  NothingUnowned'
<1> DEFINE x == frame[t].this
<1>1. /\ frame[t].pc = "del_counter" /\ Return(t) /\ UNCHANGED <<uniq, alive>>
      /\ ctrs' = ctrs \ {hnd[x].ctr} /\ hnd' = [hnd EXCEPT ![x] = Empty]
  BY DEF DeleteCounter, At
<1>2. /\ frame \in [Threads -> Frame]
      /\ frame'[t].pc = "idle"
      /\ \A u \in Threads \ {t} : frame'[u] = frame[u]
  BY <1>1 DEF Return, IInv, TypeOK, IdleFrame
<1>3. x \in Locations /\ Deleted(x)
  BY <1>1, BusyThread DEF Deleted
<1>4. ASSUME NEW y, y # x
      PROVE  Deleted(y)' <=> Deleted(y)
  BY <1>1, <1>2, <1>4 DEF Deleted
<1> HIDE DEF x
<1>5. \A y \in Locations \ {x} : hnd'[y] = hnd[y]
  BY <1>1, <1>3 DEF IInv, TypeOK
<1>6. ASSUME NEW o \in alive'
      PROVE  Kept(o)'
  BY <1>1, <1>3, <1>4, <1>5 DEF NothingUnowned, Kept, Managed
<1>7. ASSUME NEW c \in ctrs'
      PROVE  Referred(c)'
  BY <1>1, <1>5 DEF NothingUnowned, Referred
<1>8. QED
  BY <1>6, <1>7 DEF NothingUnowned

\* Without a failing allocation no call ends in the middle.
LEMMA ContinueKeepsAll ==
  ASSUME ~MayFail, IInv, NothingUnowned, NEW t \in Threads, Continue(t)
  PROVE  NothingUnowned'
<1>1. ~CreateCounterThrows(t) /\ ~CreateCounterTerminates(t)
  BY DEF CreateCounterThrows, CreateCounterTerminates
<1>2. QED
  BY <1>1, CreateCounterKeepsAll, IncrementKeepsAll, SwapKeepsAll, ReleaseEmptyKeepsAll,
     ReleaseKeepsAll, DeleteObjectKeepsAll, DeleteCounterKeepsAll DEF Continue
-----------------------------------------------------------------------------
(***************************************************************************)
(* If counters can always be allocated, every object and every counter     *)
(* that exists is reachable from a handle: neither the copies, moves and   *)
(* swaps of the two pointers nor the split of _Release() into a decrement  *)
(* and two deletions (smart_pointer.hpp:370-378) lose one.                 *)
(***************************************************************************)
THEOREM NothingLeaks ==
  ASSUME ~MayFail
  PROVE  Spec => []NoLeak
<1>1. Init => NothingUnowned
  BY DEF Init, NothingUnowned
<1>2. IInv /\ NothingUnowned /\ [Next]_vars => NothingUnowned'
  <2>1. ASSUME IInv, NothingUnowned, Next
        PROVE  NothingUnowned'
    BY <2>1, StartKeepsAll, ContinueKeepsAll DEF Next
  <2>2. ASSUME NothingUnowned, UNCHANGED vars
        PROVE  NothingUnowned'
    BY <2>2 DEF vars, NothingUnowned, Kept, Referred, Managed, Deleted
  <2>3. QED
    BY <2>1, <2>2
<1>3. NothingUnowned => NoLeak
  BY DEF NothingUnowned, Kept, Referred, Managed, NoLeak
<1>4. QED
  BY <1>1, <1>2, <1>3, Invariance, PTL DEF Spec

-----------------------------------------------------------------------------
(***************************************************************************)
(* SharedPtr implements the safety part of SharedOwnership, for any number *)
(* of threads, handles, objects and counters: every step creates, shares,  *)
(* hands over, exchanges, gives up or reclaims an object as a whole, or    *)
(* changes nothing that a user of the handles can see.                     *)
(***************************************************************************)
DyingAt(x) == \E t \in Threads : Dying(t) /\ frame[t].this = x

Unique(t) == <<"unique", t>>

LEMMA WhatIsHeld ==
  /\ \A x \in Locations :
       /\ x \in Holders
       /\ HeldBy(x) = IF DyingAt(x) THEN Null ELSE hnd[x].ptr
       /\ HeldBy(x)' = IF DyingAt(x)' THEN Null ELSE hnd'[x].ptr
  /\ \A t \in Threads :
       /\ Unique(t) \in Holders /\ Unique(t) \notin Locations
       /\ HeldBy(Unique(t)) = uniq[t]
       /\ HeldBy(Unique(t))' = uniq'[t]
       /\ \A u \in Threads : Unique(t) = Unique(u) <=> t = u
  /\ \A h \in Holders : h \in Locations \/ \E t \in Threads : h = Unique(t)
<1>1. \A x \in Locations :
        /\ x \in Holders
        /\ HeldBy(x) = IF DyingAt(x) THEN Null ELSE hnd[x].ptr
        /\ HeldBy(x)' = IF DyingAt(x)' THEN Null ELSE hnd'[x].ptr
  BY DEF Holders, HeldBy, DyingAt
<1>2. ASSUME NEW t \in Threads
      PROVE  /\ Unique(t) \in Holders /\ Unique(t) \notin Locations
             /\ Unique(t)[2] = t
  BY SharedPtrAssumption DEF Holders, Unique
<1>3. \A t \in Threads : HeldBy(Unique(t)) = uniq[t] /\ HeldBy(Unique(t))' = uniq'[t]
  BY <1>2 DEF HeldBy
<1>4. \A h \in Holders : h \in Locations \/ \E t \in Threads : h = Unique(t)
  BY DEF Holders, Unique
<1>5. \A t, u \in Threads : Unique(t) = Unique(u) <=> t = u
  BY <1>2
<1>6. QED
  BY <1>1, <1>2, <1>3, <1>4, <1>5

-----------------------------------------------------------------------------
(***************************************************************************)
(* The actions of SharedOwnership, seen through what every holder holds.   *)
(***************************************************************************)
LEMMA SeenAsNothing ==
  ASSUME \A k \in Holders : HeldBy(k)' = HeldBy(k), alive' = alive
  PROVE  UNCHANGED Ownership!vars
BY DEF Ownership!vars

LEMMA SeenAsCreate ==
  ASSUME NEW h \in Holders, NEW o \in Objects \ alive,
         HeldBy(h) = Null, \A k \in Holders : HeldBy(k) # o,
         \A k \in Holders : HeldBy(k)' = IF k = h THEN o ELSE HeldBy(k),
         alive' = alive \cup {o}
  PROVE  Ownership!Next
BY DEF Ownership!Next, Ownership!Create, Ownership!HoldersOf

LEMMA SeenAsShare ==
  ASSUME NEW h \in Holders, NEW g \in Holders \ {h}, HeldBy(h) = Null,
         \A k \in Holders : HeldBy(k)' = IF k = h THEN HeldBy(g) ELSE HeldBy(k),
         alive' = alive
  PROVE  Ownership!Next
BY DEF Ownership!Next, Ownership!Share

LEMMA SeenAsExchange ==
  ASSUME NEW h \in Holders, NEW g \in Holders \ {h},
         \A k \in Holders : HeldBy(k)' = IF k = h THEN HeldBy(g)
                                         ELSE IF k = g THEN HeldBy(h) ELSE HeldBy(k),
         alive' = alive
  PROVE  Ownership!Next
BY DEF Ownership!Next, Ownership!Exchange

LEMMA SeenAsTransfer ==
  ASSUME NEW h \in Holders, NEW g \in Holders \ {h}, HeldBy(h) = Null,
         \A k \in Holders : HeldBy(k)' = IF k = h THEN HeldBy(g)
                                         ELSE IF k = g THEN Null ELSE HeldBy(k),
         alive' = alive
  PROVE  Ownership!Next
<1>1. Null \notin Objects
  BY SharedPtrAssumption
<1>2. Ownership!Sole(h) = {}
  BY <1>1 DEF Ownership!Sole, Ownership!HoldersOf
<1>3. Ownership!Transfer(h, g)
  BY <1>2 DEF Ownership!Transfer
<1>4. QED
  BY <1>3 DEF Ownership!Next

LEMMA SeenAsDrop ==
  ASSUME NEW h \in Holders,
         \A k \in Holders : HeldBy(k)' = IF k = h THEN Null ELSE HeldBy(k),
         alive' = alive
  PROVE  Ownership!Next
BY DEF Ownership!Next, Ownership!Drop

LEMMA SeenAsReclaim ==
  ASSUME NEW o \in alive, o \in Objects, \A k \in Holders : HeldBy(k) # o,
         \A k \in Holders : HeldBy(k)' = HeldBy(k), alive' = alive \ {o}
  PROVE  Ownership!Next
<1>1. Ownership!HoldersOf(o) = {}
  BY DEF Ownership!HoldersOf
<1>2. Ownership!Reclaim(o)
  BY <1>1 DEF Ownership!Reclaim
<1>3. QED
  BY <1>2 DEF Ownership!Next

LEMMA SoleIsHeld ==
  ASSUME NEW h \in Holders, HeldBy(h) \in Objects,
         \A k \in Holders : HeldBy(k) = HeldBy(h) => k = h
  PROVE  Ownership!Sole(h) = {HeldBy(h)}
<1>1. ASSUME NEW o \in Objects
      PROVE  Ownership!HoldersOf(o) = {h} <=> o = HeldBy(h)
  BY DEF Ownership!HoldersOf
<1>2. QED
  BY <1>1 DEF Ownership!Sole

LEMMA SeenAsDiscard ==
  ASSUME NEW h \in Holders, HeldBy(h) \in Objects,
         \A k \in Holders : HeldBy(k) = HeldBy(h) => k = h,
         \A k \in Holders : HeldBy(k)' = IF k = h THEN Null ELSE HeldBy(k),
         alive' = alive \ {HeldBy(h)}
  PROVE  Ownership!Next
<1>1. Ownership!Discard(h)
  BY SoleIsHeld DEF Ownership!Discard
<1>2. QED
  BY <1>1 DEF Ownership!Next

LEMMA SeenAsReplace ==
  ASSUME NEW h \in Holders, NEW g \in Holders \ {h}, HeldBy(h) \in Objects,
         \A k \in Holders : HeldBy(k) = HeldBy(h) => k = h,
         \A k \in Holders : HeldBy(k)' = IF k = h THEN HeldBy(g)
                                         ELSE IF k = g THEN Null ELSE HeldBy(k),
         alive' = alive \ {HeldBy(h)}
  PROVE  Ownership!Next
<1>1. Ownership!Transfer(h, g)
  BY SoleIsHeld DEF Ownership!Transfer
<1>2. QED
  BY <1>1 DEF Ownership!Next
-----------------------------------------------------------------------------
(***************************************************************************)
(* What the invariant says of holders.                                     *)
(***************************************************************************)
LEMMA HeldFacts ==
  ASSUME IInv
  PROVE  /\ \A h \in Holders : HeldBy(h) # Null => HeldBy(h) \in alive
         /\ \A h \in Holders : HeldBy(h) \in Objects \cup {Null}
         /\ \A t \in Threads : uniq[t] # Null =>
              /\ uniq[t] \in Objects
              /\ \A k \in Holders : HeldBy(k) = uniq[t] => k = Unique(t)
<1>1. /\ alive \subseteq Objects /\ Null \notin Objects
      /\ \A x \in Locations : hnd[x].ptr \in Objects \cup {Null}
      /\ \A t \in Threads : uniq[t] \in Objects \cup {Null}
  BY SharedPtrAssumption DEF IInv, TypeOK, Handle
<1>2. ASSUME NEW x \in Locations, HeldBy(x) # Null
      PROVE  Managed(x, HeldBy(x)) /\ HeldBy(x) \in Objects /\ HeldBy(x) \in alive
  <2>1. ~DyingAt(x) /\ HeldBy(x) = hnd[x].ptr
    BY <1>2, WhatIsHeld
  <2>2. ~Deleted(x)
    BY <2>1 DEF DyingAt, Dying, Deleted
  <2>3. Managed(x, HeldBy(x))
    BY <1>2, <2>1, <2>2 DEF Managed
  <2>4. QED
    BY <1>1, <1>2, <2>1, <2>3 DEF IInv, ManagedLives
<1>3. \A t \in Threads : uniq[t] # Null =>
        /\ uniq[t] \in alive
        /\ \A u \in Threads : uniq[u] = uniq[t] => u = t
        /\ \A x \in Locations : ~Managed(x, uniq[t])
  BY DEF IInv, UniqueIsSole
<1>4. ASSUME NEW h \in Holders
      PROVE  /\ HeldBy(h) # Null => HeldBy(h) \in alive
             /\ HeldBy(h) \in Objects \cup {Null}
  BY <1>1, <1>2, <1>3, WhatIsHeld
<1>5. ASSUME NEW t \in Threads, uniq[t] # Null, NEW k \in Holders, HeldBy(k) = uniq[t]
      PROVE  k = Unique(t)
  <2>1. k \notin Locations
    BY <1>2, <1>3, <1>5
  <2>2. PICK u \in Threads : k = Unique(u)
    BY <2>1, WhatIsHeld
  <2>3. uniq[u] = uniq[t]
    BY <1>5, <2>2, WhatIsHeld
  <2>4. QED
    BY <1>3, <1>5, <2>2, <2>3
<1>6. QED
  BY <1>1, <1>4, <1>5

\* A thread that is not deleting, before and after a step of its own.
LEMMA DyingKept ==
  ASSUME IInv, NEW t \in Threads, NEW f,
         frame' = [frame EXCEPT ![t] = f], ~Dying(t), f.pc \notin {"del_object", "del_counter"}
  PROVE  \A x : DyingAt(x)' <=> DyingAt(x)
<1>1. frame \in [Threads -> Frame]
  BY DEF IInv, TypeOK
<1>2. frame'[t] = f /\ \A u \in Threads \ {t} : frame'[u] = frame[u]
  BY <1>1
<1>3. QED
  BY <1>2 DEF DyingAt, Dying

\* A handle no other call is using is not being deleted.
LEMMA UnusedIsHeld ==
  ASSUME IInv, NEW t \in Threads, ~Dying(t), NEW x \in Locations,
         \A u \in Threads \ {t} : x \notin Written(u)
  PROVE  ~DyingAt(x) /\ HeldBy(x) = hnd[x].ptr
BY WhatIsHeld DEF DyingAt, Written

(***************************************************************************)
(* Held after a step that leaves open which handles are being deleted.     *)
(***************************************************************************)
DyingSame == \A x : DyingAt(x)' <=> DyingAt(x)

LEMMA SameFrames ==
  ASSUME frame' = frame
  PROVE  DyingSame
BY DEF DyingSame, DyingAt, Dying

LEMMA HeldAfter ==
  ASSUME DyingSame
  PROVE  /\ \A x \in Locations : HeldBy(x)' = IF DyingAt(x) THEN Null ELSE hnd'[x].ptr
         /\ \A x \in Locations : hnd'[x].ptr = hnd[x].ptr => HeldBy(x)' = HeldBy(x)
         /\ \A t \in Threads : uniq'[t] = uniq[t] => HeldBy(Unique(t))' = HeldBy(Unique(t))
BY WhatIsHeld DEF DyingSame

LEMMA StartFacts ==
  ASSUME IInv, NEW t \in Threads, Idle(t)
  PROVE  /\ ~Dying(t) /\ t \in Locations
         /\ hnd \in [Locations -> Handle] /\ hnd[t] = Empty /\ Empty.ptr = Null
         /\ uniq \in [Threads -> Objects \cup {Null}]
         /\ ~DyingAt(t) /\ HeldBy(t) = Null
         /\ \A s \in Slots : /\ s \in Locations /\ s # t
                             /\ CanWrite(s) => CanRead(s)
                             /\ CanRead(s) => ~DyingAt(s) /\ HeldBy(s) = hnd[s].ptr
<1>1. /\ t \in Locations /\ frame[t] = IdleFrame /\ hnd[t] = Empty
      /\ \A u \in Threads : t \notin Touched(u)
  BY IdleThread
<1>2. ~Dying(t)
  BY <1>1 DEF Dying, IdleFrame
<1>3. ~DyingAt(t) /\ HeldBy(t) = hnd[t].ptr
  BY <1>1, <1>2, UnusedIsHeld DEF Touched
<1>4. Empty.ptr = Null
  BY DEF Empty
<1>5. ASSUME NEW s \in Slots
      PROVE  /\ s \in Locations /\ s # t
             /\ CanWrite(s) => CanRead(s)
             /\ CanRead(s) => ~DyingAt(s) /\ HeldBy(s) = hnd[s].ptr
  <2>1. s \in Locations /\ s # t
    BY SharedPtrAssumption DEF Locations
  <2>2. CanWrite(s) => CanRead(s)
    BY DEF CanRead, CanWrite, Touched
  <2>3. CanRead(s) => ~DyingAt(s) /\ HeldBy(s) = hnd[s].ptr
    BY <1>2, <2>1, UnusedIsHeld DEF CanRead
  <2>4. QED
    BY <2>1, <2>2, <2>3
<1>6. QED
  BY <1>1, <1>2, <1>3, <1>4, <1>5 DEF IInv, TypeOK

\* The first step of a call of shared_ptr, and a step of a call underway.
LEMMA CallKeepsDying ==
  ASSUME IInv, NEW t \in Threads, ~Dying(t), NEW pc, NEW x, NEW d, NEW r, Call(t, pc, x, d, r),
         pc \notin {"del_object", "del_counter"}
  PROVE  DyingSame
BY DyingKept DEF Call, DyingSame
-----------------------------------------------------------------------------
(***************************************************************************)
(* unique_ptr.                                                             *)
(***************************************************************************)
LEMMA MakeUniqueImplements ==
  ASSUME IInv, NEW t \in Threads, NEW o \in Objects, MakeUnique(t, o)
  PROVE  Ownership!Next
<1>1. /\ uniq[t] = Null /\ o \notin alive /\ alive' = alive \cup {o}
      /\ uniq' = [uniq EXCEPT ![t] = o] /\ hnd' = hnd /\ frame' = frame
      /\ uniq \in [Threads -> Objects \cup {Null}]
  BY DEF MakeUnique, IInv, TypeOK
<1>2. Null \notin Objects
  BY SharedPtrAssumption
<1>3. ASSUME NEW k \in Holders
      PROVE  HeldBy(k)' = IF k = Unique(t) THEN o ELSE HeldBy(k)
  BY <1>1, SameFrames, HeldAfter, WhatIsHeld
<1>4. HeldBy(Unique(t)) = Null /\ \A k \in Holders : HeldBy(k) # o
  BY <1>1, <1>2, WhatIsHeld, HeldFacts
<1>5. QED
  BY <1>1, <1>3, <1>4, WhatIsHeld, SeenAsCreate

LEMMA DeleteUniqueImplements ==
  ASSUME IInv, NEW t \in Threads, DeleteUnique(t)
  PROVE  Ownership!Next
<1>1. /\ uniq[t] # Null /\ alive' = alive \ {uniq[t]}
      /\ uniq' = [uniq EXCEPT ![t] = Null] /\ hnd' = hnd /\ frame' = frame
      /\ uniq \in [Threads -> Objects \cup {Null}]
  BY DEF DeleteUnique, IInv, TypeOK
<1>2. ASSUME NEW k \in Holders
      PROVE  HeldBy(k)' = IF k = Unique(t) THEN Null ELSE HeldBy(k)
  BY <1>1, SameFrames, HeldAfter, WhatIsHeld
<1>3. /\ HeldBy(Unique(t)) = uniq[t] /\ uniq[t] \in Objects
      /\ \A k \in Holders : HeldBy(k) = uniq[t] => k = Unique(t)
  BY <1>1, WhatIsHeld, HeldFacts
<1>4. QED
  BY <1>1, <1>2, <1>3, WhatIsHeld, SeenAsDiscard

LEMMA MoveUniqueImplements ==
  ASSUME IInv, NEW t \in Threads, NEW u \in Threads, MoveUnique(t, u)
  PROVE  Ownership!Next \/ UNCHANGED Ownership!vars
<1>1. /\ uniq' = AfterMove(t, u) /\ alive' = alive \ DeletedByMove(t, u)
      /\ hnd' = hnd /\ frame' = frame
      /\ uniq \in [Threads -> Objects \cup {Null}]
  BY DEF MoveUnique, IInv, TypeOK
<1>2. Null \notin Objects /\ alive \subseteq Objects
  BY SharedPtrAssumption DEF IInv, TypeOK
<1>3. CASE t = u
  <2>1. uniq' = uniq /\ alive' = alive
    BY <1>1, <1>3 DEF AfterMove, DeletedByMove
  <2>2. \A k \in Holders : HeldBy(k)' = HeldBy(k)
    BY <1>1, <2>1, SameFrames, HeldAfter, WhatIsHeld
  <2>3. QED
    BY <2>1, <2>2, SeenAsNothing
<1>4. CASE t # u
  <2>1. /\ uniq' = [uniq EXCEPT ![t] = uniq[u], ![u] = Null]
        /\ alive' = alive \ {uniq[t]}
    BY <1>1, <1>4 DEF AfterMove, DeletedByMove
  <2>2. ASSUME NEW k \in Holders
        PROVE  HeldBy(k)' = IF k = Unique(t) THEN HeldBy(Unique(u))
                            ELSE IF k = Unique(u) THEN Null ELSE HeldBy(k)
    BY <1>1, <1>4, <2>1, SameFrames, HeldAfter, WhatIsHeld
  <2>3. Unique(t) \in Holders /\ Unique(u) \in Holders \ {Unique(t)} /\ HeldBy(Unique(t)) = uniq[t]
    BY <1>4, WhatIsHeld
  <2>4. CASE uniq[t] = Null
    <3>1. alive' = alive
      BY <1>2, <2>1, <2>4
    <3>2. QED
      BY <2>2, <2>3, <2>4, <3>1, SeenAsTransfer
  <2>5. CASE uniq[t] # Null
    <3>1. uniq[t] \in Objects /\ \A k \in Holders : HeldBy(k) = uniq[t] => k = Unique(t)
      BY <2>5, HeldFacts
    <3>2. QED
      BY <2>1, <2>2, <2>3, <3>1, SeenAsReplace
  <2>6. QED
    BY <2>4, <2>5
<1>5. QED
  BY <1>3, <1>4

LEMMA SwapUniqueImplements ==
  ASSUME IInv, NEW t \in Threads, NEW u \in Threads, SwapUnique(t, u)
  PROVE  Ownership!Next \/ UNCHANGED Ownership!vars
<1>1. /\ uniq' = [uniq EXCEPT ![t] = uniq[u], ![u] = uniq[t]]
      /\ alive' = alive /\ hnd' = hnd /\ frame' = frame
      /\ uniq \in [Threads -> Objects \cup {Null}]
  BY DEF SwapUnique, IInv, TypeOK
<1>2. CASE t = u
  <2>1. uniq' = uniq
    BY <1>1, <1>2
  <2>2. \A k \in Holders : HeldBy(k)' = HeldBy(k)
    BY <1>1, <2>1, SameFrames, HeldAfter, WhatIsHeld
  <2>3. QED
    BY <1>1, <2>2, SeenAsNothing
<1>3. CASE t # u
  <2>1. ASSUME NEW k \in Holders
        PROVE  HeldBy(k)' = IF k = Unique(t) THEN HeldBy(Unique(u))
                            ELSE IF k = Unique(u) THEN HeldBy(Unique(t)) ELSE HeldBy(k)
    BY <1>1, <1>3, SameFrames, HeldAfter, WhatIsHeld
  <2>2. Unique(t) \in Holders /\ Unique(u) \in Holders \ {Unique(t)}
    BY <1>3, WhatIsHeld
  <2>3. QED
    BY <1>1, <2>1, <2>2, SeenAsExchange
<1>4. QED
  BY <1>2, <1>3
-----------------------------------------------------------------------------
(***************************************************************************)
(* shared_ptr: the first step of each call.                                *)
(***************************************************************************)
\* x takes a new object: a variable (make_shared) or a temporary (reset).
LEMMA NewObjectImplements ==
  ASSUME IInv, DyingSame, NEW x \in Locations, ~DyingAt(x), hnd[x].ptr = Null,
         NEW o \in Objects \ alive, alive' = alive \cup {o}, uniq' = uniq,
         hnd' = [hnd EXCEPT ![x] = [ptr |-> o, ctr |-> Null]]
  PROVE  Ownership!Next
<1>1. Null \notin Objects /\ hnd \in [Locations -> Handle]
  BY SharedPtrAssumption DEF IInv, TypeOK
<1>2. hnd'[x].ptr = o /\ \A y \in Locations \ {x} : hnd'[y] = hnd[y]
  BY <1>1
<1>3. ASSUME NEW k \in Holders
      PROVE  HeldBy(k)' = IF k = x THEN o ELSE HeldBy(k)
  BY <1>2, HeldAfter, WhatIsHeld
<1>4. HeldBy(x) = Null /\ x \in Holders /\ \A k \in Holders : HeldBy(k) # o
  BY <1>1, WhatIsHeld, HeldFacts
<1>5. QED
  BY <1>3, <1>4, SeenAsCreate

LEMMA MakeSharedImplements ==
  ASSUME IInv, NEW t \in Threads, NEW s \in Slots, NEW o \in Objects, MakeShared(t, s, o)
  PROVE  Ownership!Next
<1>1. /\ Idle(t) /\ CanWrite(s) /\ hnd[s] = Empty /\ o \notin alive
      /\ alive' = alive \cup {o} /\ uniq' = uniq
      /\ hnd' = [hnd EXCEPT ![s] = [ptr |-> o, ctr |-> Null]]
      /\ Call(t, "new_counter", s, Null, Null)
  BY DEF MakeShared
<1>2. ~Dying(t) /\ s \in Locations /\ ~DyingAt(s) /\ hnd[s].ptr = Null
  BY <1>1, StartFacts
<1>3. DyingSame
  BY <1>1, <1>2, CallKeepsDying
<1>4. QED
  BY <1>1, <1>2, <1>3, NewObjectImplements

LEMMA ResetPtrImplements ==
  ASSUME IInv, NEW t \in Threads, NEW s \in Slots, NEW o \in Objects, ResetPtr(t, s, o)
  PROVE  Ownership!Next
<1>1. /\ Idle(t) /\ o \notin alive
      /\ alive' = alive \cup {o} /\ uniq' = uniq
      /\ hnd' = [hnd EXCEPT ![t] = [ptr |-> o, ctr |-> Null]]
      /\ Call(t, "new_counter_noexcept", t, s, Null)
  BY DEF ResetPtr
<1>2. ~Dying(t) /\ t \in Locations /\ ~DyingAt(t) /\ hnd[t].ptr = Null
  BY <1>1, StartFacts
<1>3. DyingSame
  BY <1>1, <1>2, CallKeepsDying
<1>4. QED
  BY <1>1, <1>2, <1>3, NewObjectImplements

\* x takes over what the unique_ptr of t manages.
LEMMA TakenFromUnique ==
  ASSUME IInv, DyingSame, NEW t \in Threads, NEW x \in Locations, ~DyingAt(x),
         hnd[x].ptr = Null, alive' = alive, uniq' = [uniq EXCEPT ![t] = Null],
         hnd' = [hnd EXCEPT ![x] = [ptr |-> uniq[t], ctr |-> Null]]
  PROVE  Ownership!Next
<1>1. /\ hnd \in [Locations -> Handle]
      /\ uniq \in [Threads -> Objects \cup {Null}]
  BY DEF IInv, TypeOK
<1>2. /\ hnd'[x].ptr = uniq[t] /\ \A y \in Locations \ {x} : hnd'[y] = hnd[y]
      /\ uniq'[t] = Null /\ \A u \in Threads \ {t} : uniq'[u] = uniq[u]
  BY <1>1
<1>3. ASSUME NEW k \in Holders
      PROVE  HeldBy(k)' = IF k = x THEN HeldBy(Unique(t))
                          ELSE IF k = Unique(t) THEN Null ELSE HeldBy(k)
  <2>1. CASE k \in Locations
    BY <1>2, <2>1, HeldAfter, WhatIsHeld
  <2>2. CASE k \notin Locations
    <3>1. PICK u \in Threads : k = Unique(u)
      BY <2>2, WhatIsHeld
    <3>2. QED
      BY <1>2, <2>2, <3>1, WhatIsHeld
  <2>3. QED
    BY <2>1, <2>2
<1>4. HeldBy(x) = Null /\ x \in Holders /\ Unique(t) \in Holders \ {x}
  BY WhatIsHeld
<1>5. QED
  BY <1>3, <1>4, SeenAsTransfer

LEMMA FromUniqueImplements ==
  ASSUME IInv, NEW t \in Threads, NEW s \in Slots, FromUnique(t, s)
  PROVE  Ownership!Next
<1>1. /\ Idle(t) /\ CanWrite(s) /\ hnd[s] = Empty /\ alive' = alive
      /\ uniq' = [uniq EXCEPT ![t] = Null]
      /\ hnd' = [hnd EXCEPT ![s] = [ptr |-> uniq[t], ctr |-> Null]]
      /\ Call(t, "new_counter", s, Null, Null)
  BY DEF FromUnique
<1>2. ~Dying(t) /\ s \in Locations /\ ~DyingAt(s) /\ hnd[s].ptr = Null
  BY <1>1, StartFacts
<1>3. DyingSame
  BY <1>1, <1>2, CallKeepsDying
<1>4. QED
  BY <1>1, <1>2, <1>3, TakenFromUnique

LEMMA AssignUniqueImplements ==
  ASSUME IInv, NEW t \in Threads, NEW s \in Slots, AssignUnique(t, s)
  PROVE  Ownership!Next
<1>1. /\ Idle(t) /\ alive' = alive
      /\ uniq' = [uniq EXCEPT ![t] = Null]
      /\ hnd' = [hnd EXCEPT ![t] = [ptr |-> uniq[t], ctr |-> Null]]
      /\ Call(t, "new_counter", t, s, Null)
  BY DEF AssignUnique
<1>2. ~Dying(t) /\ t \in Locations /\ ~DyingAt(t) /\ hnd[t].ptr = Null
  BY <1>1, StartFacts
<1>3. DyingSame
  BY <1>1, <1>2, CallKeepsDying
<1>4. QED
  BY <1>1, <1>2, <1>3, TakenFromUnique

\* x becomes a copy of r, or takes its object.
LEMMA CopyImplements ==
  ASSUME IInv, DyingSame, NEW x \in Locations, NEW r \in Locations \ {x},
         ~DyingAt(x), ~DyingAt(r), hnd[x].ptr = Null,
         alive' = alive, uniq' = uniq, hnd' = [hnd EXCEPT ![x] = hnd[r]]
  PROVE  Ownership!Next
<1>1. hnd'[x] = hnd[r] /\ \A y \in Locations \ {x} : hnd'[y] = hnd[y]
  BY DEF IInv, TypeOK
<1>2. ASSUME NEW k \in Holders
      PROVE  HeldBy(k)' = IF k = x THEN HeldBy(r) ELSE HeldBy(k)
  BY <1>1, HeldAfter, WhatIsHeld
<1>3. HeldBy(x) = Null /\ x \in Holders /\ r \in Holders \ {x}
  BY WhatIsHeld
<1>4. QED
  BY <1>2, <1>3, SeenAsShare

LEMMA MoveImplements ==
  ASSUME IInv, DyingSame, NEW x \in Locations, NEW r \in Locations \ {x},
         ~DyingAt(x), ~DyingAt(r), hnd[x].ptr = Null,
         alive' = alive, uniq' = uniq, hnd' = Moved(x, r)
  PROVE  Ownership!Next
<1>1. /\ hnd'[x] = hnd[r] /\ hnd'[r].ptr = Null
      /\ \A y \in Locations \ {x, r} : hnd'[y] = hnd[y]
  BY DEF IInv, TypeOK, Moved, Empty
<1>2. ASSUME NEW k \in Holders
      PROVE  HeldBy(k)' = IF k = x THEN HeldBy(r) ELSE IF k = r THEN Null ELSE HeldBy(k)
  BY <1>1, HeldAfter, WhatIsHeld
<1>3. HeldBy(x) = Null /\ x \in Holders /\ r \in Holders \ {x}
  BY WhatIsHeld
<1>4. QED
  BY <1>2, <1>3, SeenAsTransfer

LEMMA ExchangeImplements ==
  ASSUME IInv, DyingSame, NEW x \in Locations, NEW y \in Locations,
         ~DyingAt(x), ~DyingAt(y), alive' = alive, uniq' = uniq,
         hnd'[x] = hnd[y], hnd'[y] = hnd[x],
         \A z \in Locations \ {x, y} : hnd'[z] = hnd[z]
  PROVE  Ownership!Next \/ UNCHANGED Ownership!vars
<1>1. /\ HeldBy(x)' = HeldBy(y) /\ HeldBy(y)' = HeldBy(x)
  BY HeldAfter, WhatIsHeld
<1>2. ASSUME NEW k \in Holders
      PROVE  HeldBy(k)' = IF k = x THEN HeldBy(y) ELSE IF k = y THEN HeldBy(x) ELSE HeldBy(k)
  <2>1. CASE k \in Locations \ {x, y}
    BY <2>1, HeldAfter
  <2>2. CASE k \notin Locations
    BY <2>2, HeldAfter, WhatIsHeld
  <2>3. QED
    BY <1>1, <2>1, <2>2
<1>3. CASE x = y
  BY <1>2, <1>3, SeenAsNothing
<1>4. CASE x # y
  <2>1. x \in Holders /\ y \in Holders \ {x}
    BY <1>4, WhatIsHeld
  <2>2. QED
    BY <1>2, <2>1, SeenAsExchange
<1>5. QED
  BY <1>3, <1>4

LEMMA CopyConstructImplements ==
  ASSUME IInv, NEW t \in Threads, NEW s \in Slots, NEW r \in Slots, CopyConstruct(t, s, r)
  PROVE  Ownership!Next
<1>1. /\ Idle(t) /\ CanWrite(s) /\ CanRead(r) /\ hnd[s] = Empty /\ s # r
      /\ alive' = alive /\ uniq' = uniq /\ hnd' = [hnd EXCEPT ![s] = hnd[r]]
      /\ frame' = frame \/ Call(t, "increment", s, Null, r)
  BY DEF CopyConstruct
<1>2. /\ ~Dying(t) /\ s \in Locations /\ r \in Locations \ {s}
      /\ ~DyingAt(s) /\ ~DyingAt(r) /\ hnd[s].ptr = Null
  BY <1>1, StartFacts
<1>3. DyingSame
  BY <1>1, <1>2, CallKeepsDying, SameFrames
<1>4. QED
  BY <1>1, <1>2, <1>3, CopyImplements

LEMMA CopyAssignImplements ==
  ASSUME IInv, NEW t \in Threads, NEW s \in Slots, NEW r \in Slots, CopyAssign(t, s, r)
  PROVE  Ownership!Next
<1>1. /\ Idle(t) /\ CanRead(r)
      /\ alive' = alive /\ uniq' = uniq /\ hnd' = [hnd EXCEPT ![t] = hnd[r]]
      /\ Call(t, "swap", t, s, r) \/ Call(t, "increment", t, s, r)
  BY DEF CopyAssign
<1>2. /\ ~Dying(t) /\ t \in Locations /\ r \in Locations \ {t}
      /\ ~DyingAt(t) /\ ~DyingAt(r) /\ hnd[t].ptr = Null
  BY <1>1, StartFacts
<1>3. DyingSame
  BY <1>1, <1>2, CallKeepsDying
<1>4. QED
  BY <1>1, <1>2, <1>3, CopyImplements

LEMMA MoveConstructImplements ==
  ASSUME IInv, NEW t \in Threads, NEW s \in Slots, NEW r \in Slots, MoveConstruct(t, s, r)
  PROVE  Ownership!Next
<1>1. /\ Idle(t) /\ CanWrite(s) /\ CanWrite(r) /\ hnd[s] = Empty /\ s # r
      /\ alive' = alive /\ uniq' = uniq /\ hnd' = Moved(s, r) /\ frame' = frame
  BY DEF MoveConstruct
<1>2. /\ s \in Locations /\ r \in Locations \ {s}
      /\ ~DyingAt(s) /\ ~DyingAt(r) /\ hnd[s].ptr = Null
  BY <1>1, StartFacts
<1>3. QED
  BY <1>1, <1>2, SameFrames, MoveImplements

LEMMA MoveAssignImplements ==
  ASSUME IInv, NEW t \in Threads, NEW s \in Slots, NEW r \in Slots, MoveAssign(t, s, r)
  PROVE  Ownership!Next
<1>1. /\ Idle(t) /\ CanWrite(r)
      /\ alive' = alive /\ uniq' = uniq /\ hnd' = Moved(t, r)
      /\ Call(t, "swap", t, s, r)
  BY DEF MoveAssign
<1>2. /\ ~Dying(t) /\ t \in Locations /\ r \in Locations \ {t}
      /\ ~DyingAt(t) /\ ~DyingAt(r) /\ hnd[t].ptr = Null
  BY <1>1, StartFacts
<1>3. DyingSame
  BY <1>1, <1>2, CallKeepsDying
<1>4. QED
  BY <1>1, <1>2, <1>3, MoveImplements

LEMMA SwapSlotsImplements ==
  ASSUME IInv, NEW t \in Threads, NEW s \in Slots, NEW r \in Slots, SwapSlots(t, s, r)
  PROVE  Ownership!Next \/ UNCHANGED Ownership!vars
<1>1. /\ Idle(t) /\ CanWrite(s) /\ CanWrite(r)
      /\ alive' = alive /\ uniq' = uniq /\ frame' = frame
      /\ hnd' = [hnd EXCEPT ![s] = hnd[r], ![r] = hnd[s]]
  BY DEF SwapSlots
<1>2. /\ hnd \in [Locations -> Handle]
      /\ s \in Locations /\ r \in Locations /\ ~DyingAt(s) /\ ~DyingAt(r)
  BY <1>1, StartFacts
<1>3. /\ hnd'[s] = hnd[r] /\ hnd'[r] = hnd[s]
      /\ \A z \in Locations \ {s, r} : hnd'[z] = hnd[z]
  BY <1>1, <1>2
<1>4. QED
  BY <1>1, <1>2, <1>3, SameFrames, ExchangeImplements

\* No handle changes what it points to, and none is given up.
LEMMA NothingSeen ==
  ASSUME IInv, DyingSame, alive' = alive, uniq' = uniq,
         \A x \in Locations : hnd'[x].ptr = hnd[x].ptr
  PROVE  UNCHANGED Ownership!vars
<1>1. ASSUME NEW k \in Holders
      PROVE  HeldBy(k)' = HeldBy(k)
  BY HeldAfter, WhatIsHeld
<1>2. QED
  BY <1>1, SeenAsNothing

LEMMA ReleaseStartsImplements ==
  ASSUME IInv, NEW t \in Threads, NEW s \in Slots, Reset(t, s) \/ Destruct(t, s)
  PROVE  UNCHANGED Ownership!vars
<1>1. /\ Idle(t) /\ alive' = alive /\ uniq' = uniq /\ hnd' = hnd
      /\ Call(t, "swap", t, s, Null) \/ Call(t, "release", s, Null, Null)
  BY DEF Reset, Destruct
<1>2. ~Dying(t)
  BY <1>1, StartFacts
<1>3. DyingSame
  BY <1>1, <1>2, CallKeepsDying
<1>4. QED
  BY <1>1, <1>3, NothingSeen

LEMMA StartImplements ==
  ASSUME IInv, NEW t \in Threads, Start(t)
  PROVE  Ownership!Next \/ UNCHANGED Ownership!vars
<1>1. CASE \E o \in Objects : MakeUnique(t, o)
  BY <1>1, MakeUniqueImplements
<1>2. CASE DeleteUnique(t)
  BY <1>2, DeleteUniqueImplements
<1>3. CASE \E u \in Threads : MoveUnique(t, u) \/ SwapUnique(t, u)
  BY <1>3, MoveUniqueImplements, SwapUniqueImplements
<1>4. ASSUME NEW s \in Slots, NEW o \in Objects, MakeShared(t, s, o) \/ ResetPtr(t, s, o)
      PROVE  Ownership!Next
  BY <1>4, MakeSharedImplements, ResetPtrImplements
<1>5. ASSUME NEW s \in Slots, FromUnique(t, s) \/ AssignUnique(t, s)
      PROVE  Ownership!Next
  BY <1>5, FromUniqueImplements, AssignUniqueImplements
<1>6. ASSUME NEW s \in Slots, Reset(t, s) \/ Destruct(t, s)
      PROVE  UNCHANGED Ownership!vars
  BY <1>6, ReleaseStartsImplements
<1>7. ASSUME NEW s \in Slots, NEW r \in Slots, CopyConstruct(t, s, r) \/ CopyAssign(t, s, r)
      PROVE  Ownership!Next
  BY <1>7, CopyConstructImplements, CopyAssignImplements
<1>8. ASSUME NEW s \in Slots, NEW r \in Slots,
             MoveConstruct(t, s, r) \/ MoveAssign(t, s, r) \/ SwapSlots(t, s, r)
      PROVE  Ownership!Next \/ UNCHANGED Ownership!vars
  BY <1>8, MoveConstructImplements, MoveAssignImplements, SwapSlotsImplements
<1>9. QED
  BY <1>1, <1>2, <1>3, <1>4, <1>5, <1>6, <1>7, <1>8 DEF Start
-----------------------------------------------------------------------------
(***************************************************************************)
(* shared_ptr: the later steps of a call.                                  *)
(***************************************************************************)
LEMMA ContinueFacts ==
  ASSUME IInv, NEW t \in Threads, frame[t].pc # "idle"
  PROVE  /\ hnd \in [Locations -> Handle] /\ frame \in [Threads -> Frame]
         /\ frame[t].this \in Locations
         /\ \A u \in Threads \ {t} : frame[u].this # frame[t].this
         /\ ~Dying(t) => ~DyingAt(frame[t].this)
         /\ Empty.ptr = Null
<1>1. \A u \in Threads \ {t} : frame[u].this # frame[t].this
  BY BusyThread DEF Touched, Written
<1>2. ~Dying(t) => ~DyingAt(frame[t].this)
  BY <1>1 DEF DyingAt
<1>3. QED
  BY <1>1, <1>2, BusyThread DEF IInv, TypeOK, Empty

LEMMA StepKeepsDying ==
  ASSUME IInv, NEW t \in Threads, ~Dying(t),
         Constructed(t) \/ Return(t) \/ Goto(t, "release")
  PROVE  DyingSame
<1>1. frame \in [Threads -> Frame]
  BY DEF IInv, TypeOK
<1>2. /\ frame'[t].pc \notin {"del_object", "del_counter"}
      /\ \A u \in Threads \ {t} : frame'[u] = frame[u]
  BY <1>1 DEF Constructed, Return, Goto, Frame, IdleFrame
<1>3. QED
  BY <1>2 DEF DyingSame, DyingAt, Dying

LEMMA CreateCounterImplements ==
  ASSUME IInv, NEW t \in Threads, CreateCounter(t)
  PROVE  UNCHANGED Ownership!vars
<1>1. /\ frame[t].pc \in {"new_counter", "new_counter_noexcept"}
      /\ Constructed(t) /\ alive' = alive /\ uniq' = uniq
  BY DEF CreateCounter, At
<1>2. PICK c \in Counters : hnd' = [hnd EXCEPT ![frame[t].this].ctr = c]
  BY DEF CreateCounter
<1>3. hnd \in [Locations -> Handle]
  BY DEF IInv, TypeOK
<1>4. \A x \in Locations : hnd'[x].ptr = hnd[x].ptr
  BY <1>2, <1>3 DEF Handle
<1>5. DyingSame
  BY <1>1, StepKeepsDying DEF Dying
<1>6. QED
  BY <1>1, <1>4, <1>5, NothingSeen

\* A handle that is not being deleted gives up what it points to.
LEMMA GivenUp ==
  ASSUME IInv, DyingSame, NEW x \in Locations, ~DyingAt(x), alive' = alive, uniq' = uniq,
         hnd' = [hnd EXCEPT ![x] = Empty]
  PROVE  Ownership!Next
<1>1. /\ hnd'[x].ptr = Null /\ \A y \in Locations \ {x} : hnd'[y] = hnd[y]
  BY DEF IInv, TypeOK, Empty
<1>2. ASSUME NEW k \in Holders
      PROVE  HeldBy(k)' = IF k = x THEN Null ELSE HeldBy(k)
  BY <1>1, HeldAfter, WhatIsHeld
<1>3. QED
  BY <1>2, WhatIsHeld, SeenAsDrop

LEMMA ThrowsImplements ==
  ASSUME IInv, NEW t \in Threads, CreateCounterThrows(t)
  PROVE  Ownership!Next
<1>1. /\ frame[t].pc = "new_counter" /\ Return(t) /\ alive' = alive /\ uniq' = uniq
      /\ hnd' = [hnd EXCEPT ![frame[t].this] = Empty]
  BY DEF CreateCounterThrows, At
<1>2. ~Dying(t)
  BY <1>1 DEF Dying
<1>3. DyingSame
  BY <1>1, <1>2, StepKeepsDying
<1>4. QED
  BY <1>1, <1>2, <1>3, ContinueFacts, GivenUp

LEMMA TerminatesImplements ==
  ASSUME IInv, NEW t \in Threads, CreateCounterTerminates(t)
  PROVE  UNCHANGED Ownership!vars
BY SameFrames, NothingSeen DEF CreateCounterTerminates

LEMMA IncrementImplements ==
  ASSUME IInv, NEW t \in Threads, Increment(t)
  PROVE  UNCHANGED Ownership!vars
<1>1. /\ frame[t].pc = "increment" /\ Constructed(t)
      /\ alive' = alive /\ uniq' = uniq /\ hnd' = hnd
  BY DEF Increment, At
<1>2. DyingSame
  BY <1>1, StepKeepsDying DEF Dying
<1>3. QED
  BY <1>1, <1>2, NothingSeen

LEMMA SwapImplements ==
  ASSUME IInv, NEW t \in Threads, Swap(t)
  PROVE  Ownership!Next \/ UNCHANGED Ownership!vars
<1> DEFINE d == frame[t].dst
<1>1. /\ frame[t].pc = "swap" /\ Goto(t, "release") /\ alive' = alive /\ uniq' = uniq
      /\ hnd' = [hnd EXCEPT ![t] = hnd[d], ![d] = hnd[t]]
  BY DEF Swap, At
<1>2. ~Dying(t) /\ frame[t].pc # "idle"
  BY <1>1 DEF Dying
<1>3. DyingSame
  BY <1>1, <1>2, StepKeepsDying
<1>4. frame[t].this = t /\ d \in Slots
  BY <1>1 DEF IInv, FrameOK, Resting, OnTemporary, OnSlot, IdleFrame
<1>5. t \in Locations /\ d \in Locations /\ d # Null
  BY <1>4, SharedPtrAssumption DEF Locations
<1>6. \A u \in Threads \ {t} : t \notin Written(u) /\ d \notin Written(u)
  BY <1>2, <1>4, <1>5, BusyThread DEF Touched
<1>7. ~DyingAt(t) /\ ~DyingAt(d)
  BY <1>2, <1>5, <1>6, UnusedIsHeld
<1> HIDE DEF d
<1>8. hnd \in [Locations -> Handle]
  BY DEF IInv, TypeOK
<1>9. /\ hnd'[t] = hnd[d] /\ hnd'[d] = hnd[t]
      /\ \A z \in Locations \ {t, d} : hnd'[z] = hnd[z]
  BY <1>1, <1>5, <1>8
<1>10. QED
  BY <1>1, <1>3, <1>5, <1>7, <1>9, ExchangeImplements

LEMMA ReleaseEmptyImplements ==
  ASSUME IInv, NEW t \in Threads, ReleaseEmpty(t)
  PROVE  Ownership!Next
<1>1. /\ frame[t].pc = "release" /\ Return(t) /\ alive' = alive /\ uniq' = uniq
      /\ hnd' = [hnd EXCEPT ![frame[t].this] = Empty]
  BY DEF ReleaseEmpty, At
<1>2. ~Dying(t)
  BY <1>1 DEF Dying
<1>3. DyingSame
  BY <1>1, <1>2, StepKeepsDying
<1>4. QED
  BY <1>1, <1>2, <1>3, ContinueFacts, GivenUp

\* The decrement that takes the counter to zero ends the last share.
LEMMA ReleaseImplements ==
  ASSUME IInv, NEW t \in Threads, Release(t)
  PROVE  Ownership!Next
<1> DEFINE x == frame[t].this
<1>1. /\ frame[t].pc = "release" /\ alive' = alive /\ uniq' = uniq
      /\ \/ Goto(t, "del_object") /\ hnd' = hnd
         \/ Return(t) /\ hnd' = [hnd EXCEPT ![x] = Empty]
  BY DEF Release, At
<1>2. ~Dying(t)
  BY <1>1 DEF Dying
<1>3. /\ x \in Locations /\ ~DyingAt(x) /\ frame \in [Threads -> Frame]
      /\ \A u \in Threads \ {t} : frame[u].this # x
  BY <1>1, <1>2, ContinueFacts
<1>4. CASE Return(t) /\ hnd' = [hnd EXCEPT ![x] = Empty]
  <2>1. DyingSame
    BY <1>2, <1>4, StepKeepsDying
  <2>2. QED
    BY <1>1, <1>3, <1>4, <2>1, GivenUp
<1>5. CASE Goto(t, "del_object") /\ hnd' = hnd
  <2>1. /\ frame'[t].pc = "del_object" /\ frame'[t].this = x
        /\ \A u \in Threads \ {t} : frame'[u] = frame[u]
    BY <1>3, <1>5 DEF Goto, Frame
  <2> HIDE DEF x
  <2>2. ASSUME NEW y \in Locations
        PROVE  DyingAt(y)' <=> DyingAt(y) \/ y = x
    BY <1>2, <2>1 DEF DyingAt, Dying
  <2>3. ASSUME NEW k \in Holders
        PROVE  HeldBy(k)' = IF k = x THEN Null ELSE HeldBy(k)
    <3>1. CASE k \in Locations
      BY <1>5, <2>2, <3>1, WhatIsHeld
    <3>2. CASE k \notin Locations
      BY <1>1, <1>3, <3>2, WhatIsHeld
    <3>3. QED
      BY <3>1, <3>2
  <2>4. QED
    BY <1>1, <1>3, <2>3, WhatIsHeld, SeenAsDrop
<1>6. QED
  BY <1>1, <1>4, <1>5

\* The object is reclaimed: it exists, and nobody else holds it.
LEMMA DeleteObjectImplements ==
  ASSUME IInv, NEW t \in Threads, DeleteObject(t)
  PROVE  Ownership!Next \/ UNCHANGED Ownership!vars
<1> DEFINE x == frame[t].this
           o == hnd[x].ptr
<1>1. /\ frame[t].pc = "del_object" /\ Dying(t)
      /\ alive' = alive \ {o} /\ Goto(t, "del_counter") /\ UNCHANGED <<hnd, uniq>>
  BY DEF DeleteObject, At, Dying
<1>2. /\ x \in Locations /\ frame \in [Threads -> Frame] /\ hnd \in [Locations -> Handle]
      /\ \A u \in Threads \ {t} : frame[u].this # x
  BY <1>1, ContinueFacts
<1>3. /\ frame'[t].pc = "del_counter" /\ frame'[t].this = x
      /\ \A u \in Threads \ {t} : frame'[u] = frame[u]
  BY <1>2 , <1>1 DEF Goto, Frame
<1>4. DyingSame
  BY <1>1, <1>3 DEF DyingSame, DyingAt, Dying
<1>5. DyingAt(x) /\ ~Deleted(x)
  BY <1>1, <1>2 DEF DyingAt, Deleted
<1>6. o \in Objects \cup {Null} /\ Null \notin Objects /\ alive \subseteq Objects
  BY <1>2, SharedPtrAssumption DEF Handle, IInv, TypeOK
<1> HIDE DEF x, o
<1>7. \A k \in Holders : HeldBy(k)' = HeldBy(k)
  BY <1>1, <1>4, HeldAfter, WhatIsHeld
<1>8. CASE o = Null
  <2>1. alive' = alive
    BY <1>1, <1>6, <1>8
  <2>2. QED
    BY <1>7, <2>1, SeenAsNothing
<1>9. CASE o # Null
  <2>1. Managed(x, o) /\ o \in Objects
    BY <1>5, <1>6, <1>9 DEF Managed, o
  <2>2. o \in alive
    BY <1>2, <2>1 DEF IInv, ManagedLives
  <2>3. ASSUME NEW y \in Locations, HeldBy(y) = o
        PROVE  FALSE
    <3>1. ~DyingAt(y) /\ hnd[y].ptr = o
      BY <1>9, <2>3, WhatIsHeld
    <3>2. y # x /\ ~Deleted(y)
      BY <1>5, <3>1 DEF DyingAt, Dying, Deleted
    <3>3. Managed(y, o)
      BY <1>9, <3>1, <3>2 DEF Managed
    <3>4. hnd[y].ctr = hnd[x].ctr
      BY <1>2, <2>1, <3>2, <3>3 DEF IInv, OneCounter
    <3>5. hnd[y].ctr # hnd[x].ctr
      BY <1>1, <3>2 DEF IInv, DyingIsLast, x
    <3>6. QED
      BY <3>4, <3>5
  <2>4. \A u \in Threads : uniq[u] # o
    BY <1>2, <1>9, <2>1 DEF IInv, UniqueIsSole
  <2>5. \A k \in Holders : HeldBy(k) # o
    BY <2>3, <2>4, WhatIsHeld
  <2>6. QED
    BY <1>1, <1>7, <2>1, <2>2, <2>5, SeenAsReclaim
<1>10. QED
  BY <1>8, <1>9

\* The handle was not holding anything any more.
LEMMA DeleteCounterImplements ==
  ASSUME IInv, NEW t \in Threads, DeleteCounter(t)
  PROVE  UNCHANGED Ownership!vars
<1> DEFINE x == frame[t].this
<1>1. /\ frame[t].pc = "del_counter" /\ Dying(t) /\ Return(t)
      /\ alive' = alive /\ uniq' = uniq /\ hnd' = [hnd EXCEPT ![x] = Empty]
  BY DEF DeleteCounter, At, Dying
<1>2. /\ x \in Locations /\ frame \in [Threads -> Frame] /\ hnd \in [Locations -> Handle]
      /\ Empty.ptr = Null
  BY <1>1, ContinueFacts
<1>3. /\ frame'[t] = IdleFrame /\ IdleFrame.pc = "idle"
      /\ \A u \in Threads \ {t} : frame'[u] = frame[u]
  BY <1>1, <1>2 DEF Return, IdleFrame
<1>4. hnd'[x].ptr = Null /\ \A y \in Locations \ {x} : hnd'[y] = hnd[y]
  BY <1>1, <1>2
<1>5. DyingAt(x)
  BY <1>1 DEF DyingAt
<1> HIDE DEF x
<1>6. \A y \in Locations \ {x} : DyingAt(y)' <=> DyingAt(y)
  <2>1. ~Dying(t)'
    BY <1>3 DEF Dying
  <2>2. QED
    BY <1>3, <2>1 DEF DyingAt, Dying, x
<1>7. ASSUME NEW k \in Holders
      PROVE  HeldBy(k)' = HeldBy(k)
  <2>1. CASE k \in Locations \ {x}
    BY <1>4, <1>6, <2>1, WhatIsHeld
  <2>2. CASE k = x
    <3>1. k \in Locations /\ hnd'[k].ptr = Null /\ DyingAt(k)
      BY <1>2, <1>4, <1>5, <2>2
    <3>2. QED
      BY <3>1, WhatIsHeld
  <2>3. CASE k \notin Locations
    BY <1>1, <2>3, WhatIsHeld
  <2>4. QED
    BY <2>1, <2>2, <2>3
<1>8. QED
  BY <1>1, <1>7, SeenAsNothing

LEMMA ContinueImplements ==
  ASSUME IInv, NEW t \in Threads, Continue(t)
  PROVE  Ownership!Next \/ UNCHANGED Ownership!vars
BY CreateCounterImplements, ThrowsImplements, TerminatesImplements, IncrementImplements,
   SwapImplements, ReleaseEmptyImplements, ReleaseImplements, DeleteObjectImplements,
   DeleteCounterImplements DEF Continue
-----------------------------------------------------------------------------
(***************************************************************************)
(* The counting scheme implements shared ownership: an object is created   *)
(* held, and is destroyed only when nobody holds it.                       *)
(***************************************************************************)
THEOREM CountingIsSharing == Spec => Ownership!Safe
<1>1. Init => Ownership!Init
  <2> SUFFICES ASSUME Init PROVE Ownership!Init
    OBVIOUS
  <2>1. /\ alive = {} /\ \A x \in Locations : hnd[x].ptr = Null
        /\ \A t \in Threads : uniq[t] = Null
    BY DEF Init, Empty
  <2>2. \A k \in Holders : HeldBy(k) = Null
    BY <2>1, WhatIsHeld
  <2>3. QED
    BY <2>1, <2>2 DEF Ownership!Init
<1>2. ASSUME IInv, [Next]_vars
      PROVE  [Ownership!Next]_(Ownership!vars)
  <2>1. CASE Next
    BY <1>2, <2>1, StartImplements, ContinueImplements DEF Next
  <2>2. CASE UNCHANGED vars
    BY <1>2, <2>2, SameFrames, NothingSeen DEF vars
  <2>3. QED
    BY <1>2, <2>1, <2>2
<1>3. QED
  BY <1>1, <1>2, Invariance, PTL DEF Spec, Ownership!Safe
-----------------------------------------------------------------------------
\* What follows from shared ownership, whatever the steps that implement it.
SharingInv == Ownership!TypeOK /\ Ownership!HeldIsAlive

LEMMA SoleHolder ==
  ASSUME Ownership!TypeOK, NEW h \in Holders
  PROVE  /\ Ownership!Sole(h) \subseteq {HeldBy(h)} \cap Objects
         /\ \A g \in Holders \ {h} : HeldBy(g) \notin Ownership!Sole(h)
BY DEF Ownership!Sole, Ownership!HoldersOf, Ownership!TypeOK

LEMMA SharingKept ==
  ASSUME SharingInv, [Ownership!Next]_(Ownership!vars)
  PROVE  SharingInv'
<1> USE SharedPtrAssumption DEF SharingInv, Ownership!TypeOK, Ownership!HeldIsAlive
<1>1. CASE UNCHANGED Ownership!vars
  BY <1>1 DEF Ownership!vars
<1>2. ASSUME NEW h \in Holders, NEW o \in Objects, Ownership!Create(h, o)
      PROVE  SharingInv'
  BY <1>2 DEF Ownership!Create
<1>3. ASSUME NEW h \in Holders, NEW g \in Holders, Ownership!Share(h, g)
      PROVE  SharingInv'
  BY <1>3 DEF Ownership!Share
<1>4. ASSUME NEW h \in Holders, NEW g \in Holders, Ownership!Exchange(h, g)
      PROVE  SharingInv'
  BY <1>4 DEF Ownership!Exchange
<1>5. ASSUME NEW h \in Holders, NEW g \in Holders \ {h}, Ownership!Transfer(h, g)
      PROVE  SharingInv'
  <2>1. \A k \in Holders : HeldBy(k)' = IF k = g THEN Null
                                       ELSE IF k = h THEN HeldBy(g) ELSE HeldBy(k)
    BY <1>5 DEF Ownership!Transfer
  <2>2. alive' = alive \ Ownership!Sole(h)
    BY <1>5 DEF Ownership!Transfer
  <2>3. \A k \in Holders \ {h} : HeldBy(k) \notin Ownership!Sole(h)
    BY SoleHolder
  <2>4. \A k \in Holders : /\ HeldBy(k) \in Objects \cup {Null}
                           /\ HeldBy(k) # Null => HeldBy(k) \in alive
    OBVIOUS
  <2>5. \A k \in Holders : /\ HeldBy(k)' \in Objects \cup {Null}
                           /\ HeldBy(k)' # Null => HeldBy(k)' \in alive'
    BY <2>1, <2>2, <2>3, <2>4
  <2>6. QED
    BY <2>2, <2>5
<1>6. ASSUME NEW h \in Holders, Ownership!Drop(h) \/ Ownership!Discard(h)
      PROVE  SharingInv'
  BY <1>6, SoleHolder DEF Ownership!Drop, Ownership!Discard
<1>7. ASSUME NEW o \in Objects, Ownership!Reclaim(o)
      PROVE  SharingInv'
  BY <1>7 DEF Ownership!Reclaim, Ownership!HoldersOf
<1>8. QED
  BY <1>1, <1>2, <1>3, <1>4, <1>5, <1>6, <1>7 DEF Ownership!Next

(***************************************************************************)
(* Under shared ownership, a smart pointer that is not null points to an   *)
(* object that exists.                                                     *)
(***************************************************************************)
THEOREM SharedObjectsAreAlive == Ownership!Safe => []Ownership!HeldIsAlive
<1>1. Ownership!Init => SharingInv
  BY SharedPtrAssumption
  DEF Ownership!Init, SharingInv, Ownership!TypeOK, Ownership!HeldIsAlive
<1>2. SharingInv /\ [Ownership!Next]_(Ownership!vars) => SharingInv'
  BY SharingKept
<1>3. SharingInv => Ownership!HeldIsAlive
  BY DEF SharingInv
<1>4. QED
  BY <1>1, <1>2, <1>3, PTL DEF Ownership!Safe

(***************************************************************************)
(* Every shared_ptr and unique_ptr of the program that holds an object     *)
(* holds one that exists, whatever the threads do to the others.           *)
(***************************************************************************)
THEOREM HeldObjectsAreAlive == Spec => []Ownership!HeldIsAlive
<1>1. QED
  BY CountingIsSharing, SharedObjectsAreAlive, PTL
=============================================================================
