--------------------------- MODULE SmartArrayProofs ---------------------------
(***************************************************************************)
(* Counts, sizes and ownership of unique_array and shared_array, for any   *)
(* number of handles, arrays and counters, arrays of any size and any      *)
(* sequence of calls in which reset() is not called on a shared array.     *)
(***************************************************************************)
EXTENDS SmartArrayInvariant, FiniteSetTheorems, TLAPS

LEMMA InitInv == Init => IInv
<1> SUFFICES ASSUME Init PROVE IInv
  OBVIOUS
<1> USE SmartArrayAssumption DEF Init, EmptyPair, EmptyShared
<1>1. TypeOK
  BY DEF TypeOK, Shared, Pair, Pointer
<1>2. \A h \in Handles : h.ptr = Null /\ h.size = 0
  BY DEF Handles
<1>3. CountMatchesOwners
  <2>1. \A c \in Counters : Owners(c) = {}
    BY DEF Owners
  <2>2. QED
    BY <2>1, FS_EmptySet DEF CountMatchesOwners
<1>4. SoleOwner /\ RawAreArrays /\ UncountedIsEmpty /\ SharersAgree
  BY DEF SoleOwner, RawAreArrays, UncountedIsEmpty, SharersAgree
<1>5. SizeIsCount /\ NullHasNoSize
  BY <1>2 DEF SizeIsCount, NullHasNoSize
<1>6. QED
  BY <1>1, <1>3, <1>4, <1>5 DEF IInv

(***************************************************************************)
(* Counting owners.                                                        *)
(***************************************************************************)
LEMMA OwnersFinite ==
  ASSUME NEW c
  PROVE  IsFiniteSet(Owners(c)) /\ Cardinality(Owners(c)) \in Nat
BY SmartArrayAssumption, FS_Subset, FS_CardinalityType DEF Owners

\* One slot has its value replaced.
LEMMA OwnersWithout ==
  ASSUME NEW c, NEW s \in Slots
  PROVE  /\ IsFiniteSet(Owners(c) \ {s})
         /\ Cardinality(Owners(c) \ {s}) \in Nat
         /\ Cardinality(Owners(c))
              = Cardinality(Owners(c) \ {s}) + (IF shr[s].ctr = c THEN 1 ELSE 0)
<1>1. IsFiniteSet(Owners(c)) /\ Cardinality(Owners(c)) \in Nat
  BY OwnersFinite
<1>2. s \in Owners(c) <=> shr[s].ctr = c
  BY DEF Owners
<1>3. /\ IsFiniteSet(Owners(c) \ {s})
      /\ Cardinality(Owners(c) \ {s})
           = IF s \in Owners(c) THEN Cardinality(Owners(c)) - 1 ELSE Cardinality(Owners(c))
  BY <1>1, FS_RemoveElement
<1>4. Cardinality(Owners(c) \ {s}) \in Nat
  BY <1>3, FS_CardinalityType
<1>5. QED
  BY <1>1, <1>2, <1>3, <1>4

LEMMA SetWith ==
  ASSUME NEW S, NEW x, IsFiniteSet(S), x \notin S
  PROVE  IsFiniteSet(S \cup {x}) /\ Cardinality(S \cup {x}) = Cardinality(S) + 1
BY FS_AddElement

(***************************************************************************)
(* Slot s takes a new value that has been counted in R already, and what   *)
(* it had is released: the counts stay exact and above zero.               *)
(***************************************************************************)
LEMMA ReplacedIsCounted ==
  ASSUME IInv, NEW s \in Slots, NEW h \in Shared,
         NEW R \in [Counters -> Nat],
         \A c \in Counters :
           R[c] = Cardinality(Owners(c)) + (IF h.ctr = c THEN 1 ELSE 0),
         shr' = [shr EXCEPT ![s] = h],
         refs' = RefsAfter(shr[s], R)
  PROVE  CountMatchesOwners' /\ refs' \in [Counters -> Nat]
<1>1. shr \in [Slots -> Shared] /\ shr[s].ctr \in Counters \cup {Null}
  BY DEF IInv, TypeOK, Shared
<1>2. ASSUME NEW c \in Counters
      PROVE  refs'[c] = Cardinality(Owners(c)') /\ refs'[c] \in Nat
  <2> DEFINE O == Owners(c) \ {s}
  <2>1. /\ IsFiniteSet(O) /\ Cardinality(O) \in Nat
        /\ Cardinality(Owners(c)) = Cardinality(O) + (IF shr[s].ctr = c THEN 1 ELSE 0)
    BY OwnersWithout
  <2>2. Owners(c)' = IF h.ctr = c THEN O \cup {s} ELSE O
    BY <1>1 DEF Owners
  <2>3. Cardinality(O \cup {s}) = Cardinality(O) + 1
    BY <2>1, SetWith
  <2>4. Cardinality(Owners(c)') = Cardinality(O) + (IF h.ctr = c THEN 1 ELSE 0)
    BY <2>1, <2>2, <2>3
  <2>5. refs'[c] = R[c] - (IF shr[s].ctr = c THEN 1 ELSE 0)
    BY <1>1, SmartArrayAssumption DEF RefsAfter
  <2> HIDE DEF O
  <2>6. QED
    BY <2>1, <2>4, <2>5
<1>3. DOMAIN refs' = Counters /\ refs' = [c \in Counters |-> refs'[c]]
  BY <1>1 DEF RefsAfter
<1>4. QED
  BY <1>2, <1>3 DEF CountMatchesOwners

\* Slot r gives its share to slot s, and what s had is released.
LEMMA MovedIsCounted ==
  ASSUME IInv, NEW s \in Slots, NEW r \in Slots, s # r,
         shr' = [shr EXCEPT ![s] = shr[r], ![r] = EmptyShared],
         refs' = RefsAfter(shr[s], refs)
  PROVE  CountMatchesOwners' /\ refs' \in [Counters -> Nat]
<1>1. /\ shr \in [Slots -> Shared] /\ shr[s].ctr \in Counters \cup {Null}
      /\ refs \in [Counters -> Nat]
  BY DEF IInv, TypeOK, Shared
<1>2. ASSUME NEW c \in Counters
      PROVE  refs'[c] = Cardinality(Owners(c)') /\ refs'[c] \in Nat
  <2> DEFINE O == (Owners(c) \ {s}) \ {r}
  <2>1. /\ IsFiniteSet(Owners(c) \ {s}) /\ Cardinality(Owners(c) \ {s}) \in Nat
        /\ Cardinality(Owners(c))
             = Cardinality(Owners(c) \ {s}) + (IF shr[s].ctr = c THEN 1 ELSE 0)
    BY OwnersWithout
  <2>2. r \in Owners(c) \ {s} <=> shr[r].ctr = c
    BY DEF Owners
  <2>3. /\ IsFiniteSet(O)
        /\ Cardinality(O) = Cardinality(Owners(c) \ {s}) - (IF shr[r].ctr = c THEN 1 ELSE 0)
    <3>1. CASE shr[r].ctr = c
      BY <2>1, <2>2, <3>1, FS_RemoveElement
    <3>2. CASE shr[r].ctr # c
      <4>1. r \notin Owners(c) \ {s}
        BY <2>2, <3>2
      <4>2. O = Owners(c) \ {s}
        <5>1. \A S, x : x \notin S => S \ {x} = S
          OBVIOUS
        <5>2. QED
          BY <4>1, <5>1, Zenon
      <4>3. IsFiniteSet(O) /\ Cardinality(O) = Cardinality(Owners(c) \ {s})
        BY <2>1, <4>2, Zenon
      <4> HIDE DEF O
      <4>4. QED
        BY <2>1, <3>2, <4>3
    <3>3. QED
      BY <3>1, <3>2
  <2>4. Owners(c)' = IF shr[r].ctr = c THEN O \cup {s} ELSE O
    <3>1. \A x \in Slots : x # s /\ x # r => shr'[x].ctr = shr[x].ctr
      BY <1>1
    <3>2. shr'[s].ctr = shr[r].ctr /\ shr'[r].ctr # c
      BY <1>1, SmartArrayAssumption DEF EmptyShared
    <3>3. QED
      BY <3>1, <3>2 DEF Owners
  <2>5. Cardinality(O \cup {s}) = Cardinality(O) + 1
    BY <2>3, SetWith
  <2>6. Cardinality(Owners(c)') = Cardinality(Owners(c) \ {s})
    BY <2>1, <2>3, <2>4, <2>5
  <2>7. refs'[c] = refs[c] - (IF shr[s].ctr = c THEN 1 ELSE 0)
    BY <1>1, SmartArrayAssumption DEF RefsAfter
  <2>8. refs[c] = Cardinality(Owners(c))
    BY DEF IInv, CountMatchesOwners
  <2> HIDE DEF O
  <2>9. QED
    BY <2>1, <2>6, <2>7, <2>8
<1>3. DOMAIN refs' = Counters /\ refs' = [c \in Counters |-> refs'[c]]
  BY <1>1 DEF RefsAfter
<1>4. QED
  BY <1>2, <1>3 DEF CountMatchesOwners

\* Two slots trade places.
LEMMA SwappedIsCounted ==
  ASSUME IInv, NEW s \in Slots, NEW r \in Slots,
         shr' = [shr EXCEPT ![s] = shr[r], ![r] = shr[s]], UNCHANGED refs
  PROVE  CountMatchesOwners'
<1>1. shr \in [Slots -> Shared]
  BY DEF IInv, TypeOK
<1>2. ASSUME NEW c \in Counters
      PROVE  Cardinality(Owners(c)') = Cardinality(Owners(c))
  <2>1. CASE shr[s].ctr = c <=> shr[r].ctr = c
    <3>1. Owners(c)' = Owners(c)
      BY <1>1, <2>1 DEF Owners
    <3>2. QED
      BY <3>1
  <2>2. ASSUME NEW x \in Slots, NEW y \in Slots, shr[x].ctr = c, shr[y].ctr # c,
               \/ x = s /\ y = r
               \/ x = r /\ y = s
        PROVE  Cardinality(Owners(c)') = Cardinality(Owners(c))
    <3> DEFINE O == Owners(c) \ {x}
    <3>1. /\ IsFiniteSet(O) /\ Cardinality(Owners(c)) = Cardinality(O) + 1
      BY <2>2, OwnersWithout
    <3>2. y \notin O /\ Owners(c)' = O \cup {y}
      BY <1>1, <2>2 DEF Owners
    <3>3. QED
      BY <3>1, <3>2, SetWith
  <2>3. QED
    BY <2>1, <2>2
<1>3. QED
  BY <1>2 DEF IInv, CountMatchesOwners

\* A count of one is that of the only owner.
LEMMA CountOfOne ==
  ASSUME IInv, NEW s \in Slots, shr[s].ctr \in Counters
  PROVE  /\ refs[shr[s].ctr] \in Nat \ {0}
         /\ refs[shr[s].ctr] = 1 <=> \A r \in Slots \ {s} : shr[r].ctr # shr[s].ctr
<1> DEFINE c == shr[s].ctr
           O == Owners(c) \ {s}
<1>1. refs[c] = Cardinality(Owners(c))
  BY DEF IInv, CountMatchesOwners
<1>2. /\ IsFiniteSet(O) /\ Cardinality(O) \in Nat
      /\ Cardinality(Owners(c)) = Cardinality(O) + 1
  BY OwnersWithout
<1>3. O = {} <=> \A r \in Slots \ {s} : shr[r].ctr # c
  BY DEF Owners
<1>4. Cardinality(O) = 0 <=> O = {}
  BY <1>2, FS_EmptySet
<1> HIDE DEF O
<1>5. QED
  BY <1>1, <1>2, <1>3, <1>4

(***************************************************************************)
(* The invariant by the kind of handle, and handles by what they refer to. *)
(***************************************************************************)
LEMMA InvByHandle ==
  ASSUME IInv
  PROVE  /\ shr \in [Slots -> Shared] /\ uni \in [Uniques -> Pair] /\ raw \subseteq Pair
         /\ heap \in [Arrays -> 0..MaxSize] /\ refs \in [Counters -> Nat]
         /\ \A s \in Slots : /\ shr[s] \in Shared
                             /\ shr[s].ptr = Null => shr[s].size = 0
                             /\ shr[s].ptr # Null => /\ shr[s].size = heap[shr[s].ptr]
                                                     /\ shr[s].size > 0
                                                     /\ shr[s].ctr # Null
                             /\ shr[s].ctr = Null => shr[s] = EmptyShared
         /\ \A u \in Uniques : /\ uni[u] \in Pair
                               /\ uni[u].ptr = Null => uni[u] = EmptyPair
                               /\ uni[u].ptr # Null => /\ uni[u].size = heap[uni[u].ptr]
                                                       /\ uni[u].size > 0
         /\ \A p \in raw : p \in Pair /\ p.ptr # Null /\ p.size = heap[p.ptr] /\ p.size > 0
<1>1. /\ \A s \in Slots : shr[s] \in Handles
      /\ \A u \in Uniques : uni[u] \in Handles
      /\ \A p \in raw : p \in Handles
  BY DEF Handles
<1>2. /\ shr \in [Slots -> Shared] /\ uni \in [Uniques -> Pair] /\ raw \subseteq Pair
      /\ heap \in [Arrays -> 0..MaxSize] /\ refs \in [Counters -> Nat]
  BY DEF IInv, TypeOK
<1>3. ASSUME NEW p \in Pair, p.ptr = Null, p.size = 0
      PROVE  p = EmptyPair
  BY <1>3 DEF Pair, EmptyPair
<1>4. QED
  BY <1>1, <1>2, <1>3
     DEF IInv, SizeIsCount, NullHasNoSize, SoleOwner, RawAreArrays, UncountedIsEmpty

LEMMA OwnedByHandle ==
  ASSUME NEW a
  PROVE  Owned(a) <=> \/ \E s \in Slots : shr[s].ptr = a
                      \/ \E u \in Uniques : uni[u].ptr = a
                      \/ \E p \in raw : p.ptr = a
<1>1. /\ \A s \in Slots : shr[s] \in Handles
      /\ \A u \in Uniques : uni[u] \in Handles
      /\ \A p \in raw : p \in Handles
  BY DEF Handles
<1>2. \A h \in Handles : (\E s \in Slots : h = shr[s]) \/ (\E u \in Uniques : h = uni[u]) \/ h \in raw
  BY DEF Handles
<1>3. QED
  BY <1>1, <1>2 DEF Owned

(***************************************************************************)
(* What a release destroys.                                                *)
(***************************************************************************)
\* Of a shared_array: the array of its slot, if no other slot has it.
LEMMA ReleaseOfShared ==
  ASSUME IInv, NEW s \in Slots, NEW R \in [Counters -> Nat],
         \A c \in Counters : R[c] >= refs[c]
  PROVE  /\ HeapAfter(shr[s], R) \in [Arrays -> 0..MaxSize]
         /\ \A a \in Arrays :
              \/ HeapAfter(shr[s], R)[a] = heap[a]
              \/ /\ HeapAfter(shr[s], R)[a] = 0 /\ shr[s].ptr = a
                 /\ refs[shr[s].ctr] = 1 /\ R[shr[s].ctr] = 1
                 /\ \A r \in Slots \ {s} : shr[r].ptr # a
         /\ shr[s].ptr # Null =>
              \/ HeapAfter(shr[s], R)[shr[s].ptr] = 0
              \/ \E r \in Slots \ {s} : shr[r] = shr[s]
              \/ R[shr[s].ctr] > refs[shr[s].ctr]
<1> DEFINE H == HeapAfter(shr[s], R)
<1>1. /\ shr[s] \in Shared /\ heap \in [Arrays -> 0..MaxSize] /\ 0 \in 0..MaxSize
      /\ shr[s].ptr # Null => shr[s].ctr # Null /\ shr[s].size > 0
  BY InvByHandle, SmartArrayAssumption
<1>2. CASE shr[s].ptr = Null
  <2>1. H = heap
    BY <1>2 DEF HeapAfter, HeapWithout, Deletes
  <2>2. QED
    BY <1>1, <1>2, <2>1
<1>3. CASE shr[s].ptr # Null
  <2>1. shr[s].ptr \in Arrays /\ shr[s].ctr \in Counters
    BY <1>1, <1>3 DEF Shared, Pointer
  <2>2. /\ refs[shr[s].ctr] \in Nat \ {0} /\ R[shr[s].ctr] \in Nat
        /\ refs[shr[s].ctr] = 1 <=> \A r \in Slots \ {s} : shr[r].ctr # shr[s].ctr
    BY <2>1, CountOfOne
  <2>3. CASE R[shr[s].ctr] = 1
    <3>1. H = [heap EXCEPT ![shr[s].ptr] = 0]
      BY <1>1, <1>3, <2>3 DEF HeapAfter, IsLast, HeapWithout, Deletes
    <3>2. refs[shr[s].ctr] = 1
      BY <2>1, <2>2, <2>3
    <3>3. \A r \in Slots \ {s} : shr[r].ptr # shr[s].ptr
      BY <1>3, <2>2, <3>2 DEF IInv, SoleOwner
    <3>4. QED
      BY <1>1, <2>1, <2>3, <3>1, <3>2, <3>3
  <2>4. CASE R[shr[s].ctr] # 1
    <3>1. H = heap
      BY <2>2, <2>4 DEF HeapAfter, IsLast
    <3>2. ASSUME ~(R[shr[s].ctr] > refs[shr[s].ctr])
          PROVE  \E r \in Slots \ {s} : shr[r] = shr[s]
      <4>1. refs[shr[s].ctr] # 1
        BY <2>1, <2>2, <2>4, <3>2
      <4>2. PICK r \in Slots \ {s} : shr[r].ctr = shr[s].ctr
        BY <2>2, <4>1
      <4>3. shr[r] = shr[s]
        BY <4>2, <1>1, <1>3 DEF IInv, SharersAgree
      <4>4. QED
        BY <4>3
    <3>3. QED
      BY <1>1, <3>1, <3>2
  <2>5. QED
    BY <2>3, <2>4
<1>4. QED
  BY <1>2, <1>3

\* Of a unique_array: its array, and the handle is empty.
LEMMA ReleaseOfUnique ==
  ASSUME IInv, NEW u \in Uniques
  PROVE  /\ HeapWithout(uni[u]) \in [Arrays -> 0..MaxSize]
         /\ \A a \in Arrays :
              HeapWithout(uni[u])[a] = IF uni[u].ptr = a THEN 0 ELSE heap[a]
         /\ AfterDelete(uni[u]) = EmptyPair
<1>1. /\ uni[u] \in Pair /\ heap \in [Arrays -> 0..MaxSize] /\ 0 \in 0..MaxSize
      /\ uni[u].ptr = Null => uni[u] = EmptyPair
      /\ uni[u].ptr # Null => uni[u].size > 0
  BY InvByHandle, SmartArrayAssumption
<1>2. Deletes(uni[u]) <=> uni[u].ptr # Null
  BY <1>1 DEF Deletes
<1>3. Null \notin Arrays
  BY SmartArrayAssumption
<1>4. QED
  BY <1>1, <1>2, <1>3 DEF HeapWithout, AfterDelete, Pair, Pointer

(***************************************************************************)
(* Steps that leave the shared_arrays alone.                               *)
(***************************************************************************)
\* What NothingLost says of a step.
NoneLost == \A a \in Arrays : Owned(a) => Owned(a)' \/ heap'[a] = 0

LEMMA SharedSame ==
  ASSUME IInv, UNCHANGED <<shr, refs>>
  PROVE  /\ CountMatchesOwners' /\ UncountedIsEmpty' /\ SharersAgree'
         /\ shr' \in [Slots -> Shared] /\ refs' \in [Counters -> Nat]
         /\ \A s \in Slots : shr'[s] = shr[s]
BY DEF IInv, TypeOK, CountMatchesOwners, Owners, UncountedIsEmpty, SharersAgree

LEMMA OwnedByHandleNext ==
  ASSUME NEW a
  PROVE  Owned(a)' <=> \/ \E s \in Slots : shr'[s].ptr = a
                       \/ \E u \in Uniques : uni'[u].ptr = a
                       \/ \E p \in raw' : p.ptr = a
<1>1. /\ \A s \in Slots : shr'[s] \in Handles'
      /\ \A u \in Uniques : uni'[u] \in Handles'
      /\ \A p \in raw' : p \in Handles'
  BY DEF Handles
<1>2. \A h \in Handles' : (\E s \in Slots : h = shr'[s]) \/ (\E u \in Uniques : h = uni'[u]) \/ h \in raw'
  BY DEF Handles
<1>3. QED
  BY <1>1, <1>2 DEF Owned

LEMMA InvFromHandlesNext ==
  ASSUME /\ \A s \in Slots : /\ shr'[s].ptr = Null => shr'[s].size = 0
                             /\ shr'[s].ptr # Null => /\ shr'[s].size = heap'[shr'[s].ptr]
                                                      /\ shr'[s].size > 0,
         /\ \A u \in Uniques : /\ uni'[u].ptr = Null => uni'[u].size = 0
                               /\ uni'[u].ptr # Null => /\ uni'[u].size = heap'[uni'[u].ptr]
                                                        /\ uni'[u].size > 0,
         /\ \A p \in raw' : p.ptr # Null /\ p.size = heap'[p.ptr] /\ p.size > 0
  PROVE  SizeIsCount' /\ NullHasNoSize' /\ RawAreArrays'
<1>1. ASSUME NEW h \in Handles'
      PROVE  /\ h.ptr = Null => h.size = 0
             /\ h.ptr # Null => h.size = heap'[h.ptr] /\ h.size > 0
  <2>1. CASE \E s \in Slots : h = shr'[s]
    BY <2>1
  <2>2. CASE \E u \in Uniques : h = uni'[u]
    BY <2>2
  <2>3. CASE h \in raw'
    BY <2>3
  <2>4. QED
    BY <1>1, <2>1, <2>2, <2>3 DEF Handles
<1>2. QED
  BY <1>1 DEF SizeIsCount, NullHasNoSize, RawAreArrays

\* The address of a new array is in nobody's hands.
LEMMA FreshAddress ==
  ASSUME IInv, NEW a \in Arrays, heap[a] = 0
  PROVE  /\ \A s \in Slots : shr[s].ptr # a
         /\ \A u \in Uniques : uni[u].ptr # a
         /\ \A p \in raw : p.ptr # a
<1>1. a # Null
  BY SmartArrayAssumption
<1>2. QED
  BY <1>1, InvByHandle

LEMMA CreateArrayKeeps ==
  ASSUME IInv, NEW a \in Arrays, NEW n \in 1..MaxSize,
         CreateArray(a, n) \/ MakeThrows(a, n)
  PROVE  IInv' /\ NoneLost
<1> USE SmartArrayAssumption DEF CreateArray, MakeThrows
<1>1. /\ UNCHANGED <<shr, uni, refs>> /\ heap[a] = 0 /\ heap' = [heap EXCEPT ![a] = n]
      /\ raw' = raw \/ raw' = raw \cup {[ptr |-> a, size |-> n]}
      /\ raw \subseteq raw'
  OBVIOUS
<1>2. n \in 0..MaxSize /\ n > 0 /\ a # Null /\ [ptr |-> a, size |-> n] \in Pair
  BY DEF Pair, Pointer
<1>3. TypeOK'
  BY <1>1, <1>2, SharedSame, InvByHandle DEF TypeOK
<1>4. SizeIsCount' /\ NullHasNoSize' /\ RawAreArrays'
  <2>1. \A s \in Slots : shr'[s] = shr[s] /\ (shr[s].ptr # Null => shr[s].ptr \in Arrays \ {a})
    BY <1>1, FreshAddress, InvByHandle DEF Shared, Pointer
  <2>2. \A u \in Uniques : uni'[u] = uni[u] /\ (uni[u].ptr # Null => uni[u].ptr \in Arrays \ {a})
    BY <1>1, FreshAddress, InvByHandle DEF Pair, Pointer
  <2>3. \A p \in raw : p.ptr \in Arrays \ {a}
    BY <1>1, FreshAddress, InvByHandle DEF Pair, Pointer
  <2>4. heap'[a] = n /\ \A b \in Arrays \ {a} : heap'[b] = heap[b]
    BY <1>1, InvByHandle
  <2>5. \A p \in raw' : p.ptr # Null /\ p.size = heap'[p.ptr] /\ p.size > 0
    BY <1>1, <1>2, <2>3, <2>4, InvByHandle
  <2>6. \A s \in Slots : /\ shr'[s].ptr = Null => shr'[s].size = 0
                         /\ shr'[s].ptr # Null => /\ shr'[s].size = heap'[shr'[s].ptr]
                                                  /\ shr'[s].size > 0
    BY <2>1, <2>4, InvByHandle
  <2>7. \A u \in Uniques : /\ uni'[u].ptr = Null => uni'[u].size = 0
                           /\ uni'[u].ptr # Null => /\ uni'[u].size = heap'[uni'[u].ptr]
                                                    /\ uni'[u].size > 0
    BY <2>2, <2>4, InvByHandle DEF EmptyPair
  <2>8. QED
    BY <2>5, <2>6, <2>7, InvFromHandlesNext
<1>5. SoleOwner'
  BY <1>1, FreshAddress DEF IInv, SoleOwner
<1>6. NoneLost
  BY <1>1, OwnedByHandle, OwnedByHandleNext DEF NoneLost
<1>7. QED
  BY <1>1, <1>3, <1>4, <1>5, <1>6, SharedSame DEF IInv

LEMMA DeleteArrayKeeps ==
  ASSUME IInv, NEW p \in raw, DeleteArray(p)
  PROVE  IInv' /\ NoneLost
<1> USE SmartArrayAssumption
<1>1. /\ UNCHANGED <<shr, uni, refs>> /\ raw' = raw \ {p}
      /\ p \in Pair /\ p.ptr \in Arrays /\ p.size = heap[p.ptr] /\ p.size > 0
  BY InvByHandle DEF DeleteArray, Pair, Pointer
<1>2. heap' = [heap EXCEPT ![p.ptr] = 0] /\ heap' \in [Arrays -> 0..MaxSize]
  BY <1>1, InvByHandle DEF DeleteArray, HeapWithout, Deletes
<1>3. \A q \in raw' : q.ptr # p.ptr
  <2>1. ASSUME NEW q \in raw, q.ptr = p.ptr
        PROVE  q = p
    BY <1>1, <2>1, InvByHandle DEF Pair
  <2>2. QED
    BY <1>1, <2>1
<1>4. TypeOK'
  BY <1>1, <1>2, SharedSame, InvByHandle DEF TypeOK
<1>5. /\ \A s \in Slots : shr[s].ptr # p.ptr
      /\ \A u \in Uniques : uni[u].ptr # p.ptr
  BY DEF IInv, SoleOwner
<1>6. \A b \in Arrays \ {p.ptr} : heap'[b] = heap[b]
  BY <1>2, InvByHandle
<1>7. SizeIsCount' /\ NullHasNoSize' /\ RawAreArrays'
  <2>1. \A s \in Slots : shr'[s] = shr[s] /\ (shr[s].ptr # Null => shr[s].ptr \in Arrays \ {p.ptr})
    BY <1>1, <1>5, InvByHandle DEF Shared, Pointer
  <2>2. \A u \in Uniques : uni'[u] = uni[u] /\ (uni[u].ptr # Null => uni[u].ptr \in Arrays \ {p.ptr})
    BY <1>1, <1>5, InvByHandle DEF Pair, Pointer
  <2>3. \A q \in raw' : q.ptr \in Arrays \ {p.ptr} /\ q \in raw
    BY <1>1, <1>3, InvByHandle DEF Pair, Pointer
  <2>4. \A s \in Slots : /\ shr'[s].ptr = Null => shr'[s].size = 0
                         /\ shr'[s].ptr # Null => /\ shr'[s].size = heap'[shr'[s].ptr]
                                                  /\ shr'[s].size > 0
    BY <1>6, <2>1, InvByHandle
  <2>5. \A u \in Uniques : /\ uni'[u].ptr = Null => uni'[u].size = 0
                           /\ uni'[u].ptr # Null => /\ uni'[u].size = heap'[uni'[u].ptr]
                                                    /\ uni'[u].size > 0
    BY <1>6, <2>2, InvByHandle DEF EmptyPair
  <2>6. \A q \in raw' : q.ptr # Null /\ q.size = heap'[q.ptr] /\ q.size > 0
    BY <1>6, <2>3, InvByHandle
  <2>7. QED
    BY <2>4, <2>5, <2>6, InvFromHandlesNext
<1>8. SoleOwner'
  BY <1>1 DEF IInv, SoleOwner
<1>9. NoneLost
  BY <1>1, <1>2, InvByHandle, OwnedByHandle, OwnedByHandleNext DEF NoneLost
<1>10. QED
  BY <1>1, <1>4, <1>7, <1>8, <1>9, SharedSame DEF IInv

(***************************************************************************)
(* unique_array.                                                           *)
(***************************************************************************)
LEMMA PassableHandle ==
  ASSUME IInv, NEW p, Passable(p)
  PROVE  /\ p \in Pair
         /\ p.ptr = Null => p = EmptyPair /\ p \notin raw
         /\ p.ptr # Null => /\ p \in raw /\ p.size = heap[p.ptr] /\ p.size > 0
                            /\ \A s \in Slots : shr[s].ptr # p.ptr
                            /\ \A u \in Uniques : uni[u].ptr # p.ptr
                            /\ \A q \in raw \ {p} : q.ptr # p.ptr
<1>1. EmptyPair \in Pair /\ EmptyPair.ptr = Null /\ EmptyPair \notin raw
  BY SmartArrayAssumption, InvByHandle DEF EmptyPair, Pair, Pointer
<1>2. CASE p = EmptyPair
  BY <1>1, <1>2
<1>3. CASE p \in raw
  <2>1. ASSUME NEW q \in raw, q.ptr = p.ptr
        PROVE  q = p
    BY <1>3, <2>1, InvByHandle DEF Pair
  <2>2. QED
    BY <1>3, <2>1, InvByHandle DEF IInv, SoleOwner
<1>4. QED
  BY <1>2, <1>3 DEF Passable

LEMMA ResetUniqueKeeps ==
  ASSUME IInv, NEW u \in Uniques, NEW p \in Pair, ResetUnique(u, p)
  PROVE  IInv' /\ NoneLost
<1>1. /\ UNCHANGED <<shr, refs>> /\ raw' = raw \ {p} /\ Passable(p)
      /\ heap' = HeapWithout(uni[u])
  BY DEF ResetUnique
<1>2. /\ uni' \in [Uniques -> Pair] /\ uni'[u] = p
      /\ \A v \in Uniques \ {u} : uni'[v] = uni[v]
  BY InvByHandle DEF ResetUnique
<1>3. /\ heap' \in [Arrays -> 0..MaxSize]
      /\ \A a \in Arrays : heap'[a] = IF uni[u].ptr = a THEN 0 ELSE heap[a]
  BY <1>1, ReleaseOfUnique
<1>4. TypeOK'
  BY <1>1, <1>2, <1>3, SharedSame, InvByHandle DEF TypeOK
<1>5. SoleOwner'
  <2>1. /\ p.ptr = Null => p \notin raw
        /\ p.ptr # Null => /\ \A s \in Slots : shr[s].ptr # p.ptr
                           /\ \A v \in Uniques : uni[v].ptr # p.ptr
                           /\ \A q \in raw \ {p} : q.ptr # p.ptr
    BY <1>1, PassableHandle
  <2>2. \A v, w \in Uniques : uni'[v].ptr # Null /\ uni'[v].ptr = uni'[w].ptr => v = w
    BY <1>2, <2>1 DEF IInv, SoleOwner
  <2>3. \A s, r \in Slots : shr'[s].ptr # Null /\ shr'[s].ptr = shr'[r].ptr =>
          shr'[s].ctr # Null /\ shr'[s].ctr = shr'[r].ctr
    BY <1>1 DEF IInv, SoleOwner
  <2>4. \A v \in Uniques, s \in Slots : uni'[v].ptr # Null => uni'[v].ptr # shr'[s].ptr
    BY <1>1, <1>2, <2>1 DEF IInv, SoleOwner
  <2>5. \A q \in raw' : /\ \A s \in Slots : shr'[s].ptr # q.ptr
                        /\ \A v \in Uniques : uni'[v].ptr # q.ptr
    BY <1>1, <1>2, <2>1, InvByHandle DEF IInv, SoleOwner
  <2>6. QED
    BY <2>2, <2>3, <2>4, <2>5 DEF SoleOwner
<1>6. SizeIsCount' /\ NullHasNoSize' /\ RawAreArrays'
  <2>1. \A s \in Slots : shr'[s] = shr[s] /\ (shr[s].ptr # Null => heap'[shr[s].ptr] = heap[shr[s].ptr])
    <3>1. \A s \in Slots : shr[s].ptr # Null => shr[s].ptr \in Arrays /\ uni[u].ptr # shr[s].ptr
      BY InvByHandle DEF IInv, SoleOwner, Shared, Pointer
    <3>2. QED
      BY <1>1, <1>3, <3>1
  <2>2. \A v \in Uniques \ {u} : uni[v].ptr # Null => heap'[uni[v].ptr] = heap[uni[v].ptr]
    <3>1. \A v \in Uniques \ {u} : uni[v].ptr # Null => uni[v].ptr \in Arrays /\ uni[u].ptr # uni[v].ptr
      BY InvByHandle DEF IInv, SoleOwner, Pair, Pointer
    <3>2. QED
      BY <1>3, <3>1
  <2>3. \A q \in raw : heap'[q.ptr] = heap[q.ptr]
    <3>1. \A q \in raw : q.ptr \in Arrays /\ uni[u].ptr # q.ptr
      BY InvByHandle DEF IInv, SoleOwner, Pair, Pointer
    <3>2. QED
      BY <1>3, <3>1
  <2>4. /\ p.ptr = Null => p.size = 0
        /\ p.ptr # Null => p.size = heap'[p.ptr] /\ p.size > 0
    BY <1>1, <2>3, PassableHandle DEF EmptyPair
  <2>5. \A v \in Uniques : /\ uni'[v].ptr = Null => uni'[v].size = 0
                           /\ uni'[v].ptr # Null => /\ uni'[v].size = heap'[uni'[v].ptr]
                                                    /\ uni'[v].size > 0
    BY <1>2, <2>2, <2>4, InvByHandle DEF EmptyPair
  <2>6. QED
    BY <1>1, <2>1, <2>3, <2>5, InvByHandle, InvFromHandlesNext
<1>7. NoneLost
  <2>1. ASSUME NEW a \in Arrays, Owned(a), heap'[a] # 0
        PROVE  Owned(a)'
    <3>1. CASE \E s \in Slots : shr[s].ptr = a
      BY <1>1, <3>1, OwnedByHandleNext
    <3>2. CASE \E v \in Uniques : uni[v].ptr = a
      BY <1>2, <1>3, <2>1, <3>2, OwnedByHandleNext
    <3>3. CASE \E q \in raw : q.ptr = a
      BY <1>1, <1>2, <3>3, OwnedByHandleNext
    <3>4. QED
      BY <2>1, <3>1, <3>2, <3>3, OwnedByHandle
  <2>2. QED
    BY <2>1 DEF NoneLost
<1>8. QED
  BY <1>1, <1>4, <1>5, <1>6, <1>7, SharedSame DEF IInv

\* reset() and a self-move leave the handle empty, as a reset to null does.
LEMMA EmptiedIsReset ==
  ASSUME IInv, NEW u \in Uniques, DeleteUnique(u) \/ MoveUnique(u, u)
  PROVE  ResetUnique(u, EmptyPair) /\ EmptyPair \in Pair
<1>1. EmptyPair \in Pair /\ raw = raw \ {EmptyPair} /\ Passable(EmptyPair)
  BY SmartArrayAssumption, InvByHandle DEF EmptyPair, Pair, Pointer, Passable
<1>2. uni' = [uni EXCEPT ![u] = EmptyPair]
  <2>1. CASE DeleteUnique(u)
    BY <2>1, ReleaseOfUnique DEF DeleteUnique
  <2>2. CASE MoveUnique(u, u)
    BY <2>2, InvByHandle DEF MoveUnique, AfterMove
  <2>3. QED
    BY <2>1, <2>2
<1>3. QED
  BY <1>1, <1>2 DEF ResetUnique, DeleteUnique, MoveUnique

LEMMA MoveUniqueKeeps ==
  ASSUME IInv, NEW u \in Uniques, NEW v \in Uniques, u # v, MoveUnique(u, v)
  PROVE  IInv' /\ NoneLost
<1>1. UNCHANGED <<shr, refs, raw>> /\ heap' = HeapWithout(uni[u])
  BY DEF MoveUnique
<1>2. /\ uni' \in [Uniques -> Pair] /\ uni'[u] = uni[v] /\ uni'[v] = EmptyPair
      /\ \A w \in Uniques \ {u, v} : uni'[w] = uni[w]
  BY SmartArrayAssumption, InvByHandle DEF MoveUnique, AfterMove, EmptyPair, Pair, Pointer
<1>3. /\ heap' \in [Arrays -> 0..MaxSize]
      /\ \A a \in Arrays : heap'[a] = IF uni[u].ptr = a THEN 0 ELSE heap[a]
  BY <1>1, ReleaseOfUnique
<1>4. TypeOK'
  BY <1>1, <1>2, <1>3, SharedSame, InvByHandle DEF TypeOK
<1>5. EmptyPair.ptr = Null /\ EmptyPair.size = 0
  BY DEF EmptyPair
<1>6. SoleOwner'
  BY <1>1, <1>2, <1>5, InvByHandle DEF IInv, SoleOwner
<1>7. SizeIsCount' /\ NullHasNoSize' /\ RawAreArrays'
  <2>1. \A s \in Slots : shr'[s] = shr[s] /\ (shr[s].ptr # Null => heap'[shr[s].ptr] = heap[shr[s].ptr])
    <3>1. \A s \in Slots : shr[s].ptr # Null => shr[s].ptr \in Arrays /\ uni[u].ptr # shr[s].ptr
      BY InvByHandle DEF IInv, SoleOwner, Shared, Pointer
    <3>2. QED
      BY <1>1, <1>3, <3>1
  <2>2. \A w \in Uniques \ {u} : uni[w].ptr # Null => heap'[uni[w].ptr] = heap[uni[w].ptr]
    <3>1. \A w \in Uniques \ {u} : uni[w].ptr # Null => uni[w].ptr \in Arrays /\ uni[u].ptr # uni[w].ptr
      BY InvByHandle DEF IInv, SoleOwner, Pair, Pointer
    <3>2. QED
      BY <1>3, <3>1
  <2>3. \A q \in raw : heap'[q.ptr] = heap[q.ptr]
    <3>1. \A q \in raw : q.ptr \in Arrays /\ uni[u].ptr # q.ptr
      BY InvByHandle DEF IInv, SoleOwner, Pair, Pointer
    <3>2. QED
      BY <1>3, <3>1
  <2>4. \A w \in Uniques : /\ uni'[w].ptr = Null => uni'[w].size = 0
                           /\ uni'[w].ptr # Null => /\ uni'[w].size = heap'[uni'[w].ptr]
                                                    /\ uni'[w].size > 0
    BY <1>2, <1>5, <2>2, InvByHandle
  <2>5. QED
    BY <1>1, <2>1, <2>3, <2>4, InvByHandle, InvFromHandlesNext
<1>8. NoneLost
  <2>1. ASSUME NEW a \in Arrays, Owned(a), heap'[a] # 0
        PROVE  Owned(a)'
    <3>1. CASE \E s \in Slots : shr[s].ptr = a
      BY <1>1, <3>1, OwnedByHandleNext
    <3>2. CASE \E w \in Uniques : uni[w].ptr = a
      BY <1>2, <1>3, <2>1, <3>2, OwnedByHandleNext
    <3>3. CASE \E q \in raw : q.ptr = a
      BY <1>1, <3>3, OwnedByHandleNext
    <3>4. QED
      BY <2>1, <3>1, <3>2, <3>3, OwnedByHandle
  <2>2. QED
    BY <2>1 DEF NoneLost
<1>9. QED
  BY <1>1, <1>4, <1>6, <1>7, <1>8, SharedSame DEF IInv

LEMMA ReleaseUniqueKeeps ==
  ASSUME IInv, NEW u \in Uniques, ReleaseUnique(u)
  PROVE  IInv' /\ NoneLost
<1>1. UNCHANGED <<shr, refs, heap>> /\ raw' = raw \cup {uni[u]} /\ uni[u].ptr # Null
  BY DEF ReleaseUnique
<1>2. /\ uni' \in [Uniques -> Pair] /\ uni'[u] = EmptyPair
      /\ \A v \in Uniques \ {u} : uni'[v] = uni[v]
  BY SmartArrayAssumption, InvByHandle DEF ReleaseUnique, EmptyPair, Pair, Pointer
<1>3. EmptyPair.ptr = Null /\ EmptyPair.size = 0
  BY DEF EmptyPair
<1>4. TypeOK'
  BY <1>1, <1>2, SharedSame, InvByHandle DEF TypeOK
<1>5. SoleOwner'
  BY <1>1, <1>2, <1>3, InvByHandle DEF IInv, SoleOwner
<1>6. SizeIsCount' /\ NullHasNoSize' /\ RawAreArrays'
  BY <1>1, <1>2, <1>3, InvByHandle, InvFromHandlesNext
<1>7. NoneLost
  BY <1>1, <1>2, OwnedByHandle, OwnedByHandleNext DEF NoneLost
<1>8. QED
  BY <1>1, <1>4, <1>5, <1>6, <1>7, SharedSame DEF IInv

LEMMA SwapUniqueKeeps ==
  ASSUME IInv, NEW u \in Uniques, NEW v \in Uniques, SwapUnique(u, v)
  PROVE  IInv' /\ NoneLost
<1>1. UNCHANGED <<shr, raw, heap, refs>>
  BY DEF SwapUnique
<1>2. /\ uni' \in [Uniques -> Pair] /\ uni'[u] = uni[v] /\ uni'[v] = uni[u]
      /\ \A w \in Uniques \ {u, v} : uni'[w] = uni[w]
  BY InvByHandle DEF SwapUnique
<1>3. TypeOK'
  BY <1>1, <1>2, SharedSame, InvByHandle DEF TypeOK
<1>4. SoleOwner'
  BY <1>1, <1>2, InvByHandle DEF IInv, SoleOwner
<1>5. SizeIsCount' /\ NullHasNoSize' /\ RawAreArrays'
  BY <1>1, <1>2, InvByHandle, InvFromHandlesNext DEF EmptyPair
<1>6. NoneLost
  BY <1>1, <1>2, OwnedByHandle, OwnedByHandleNext DEF NoneLost
<1>7. QED
  BY <1>1, <1>3, <1>4, <1>5, <1>6, SharedSame DEF IInv

(***************************************************************************)
(* shared_array.                                                           *)
(***************************************************************************)
\* A release leaves every other handle its array.
LEMMA OthersKeepTheirs ==
  ASSUME IInv, NEW s \in Slots,
         \A a \in Arrays : \/ heap'[a] = heap[a]
                           \/ shr[s].ptr = a /\ \A r \in Slots \ {s} : shr[r].ptr # a
  PROVE  /\ \A r \in Slots \ {s} : shr[r].ptr # Null => heap'[shr[r].ptr] = heap[shr[r].ptr]
         /\ \A u \in Uniques : uni[u].ptr # Null => heap'[uni[u].ptr] = heap[uni[u].ptr]
         /\ \A p \in raw : heap'[p.ptr] = heap[p.ptr]
<1>1. ASSUME NEW r \in Slots \ {s}, shr[r].ptr # Null
      PROVE  heap'[shr[r].ptr] = heap[shr[r].ptr]
  BY <1>1, InvByHandle DEF Shared, Pointer
<1>2. ASSUME NEW u \in Uniques, uni[u].ptr # Null
      PROVE  heap'[uni[u].ptr] = heap[uni[u].ptr]
  BY <1>2, InvByHandle DEF Pair, Pointer, IInv, SoleOwner
<1>3. ASSUME NEW p \in raw
      PROVE  heap'[p.ptr] = heap[p.ptr]
  BY <1>3, InvByHandle DEF Pair, Pointer, IInv, SoleOwner
<1>4. QED
  BY <1>1, <1>2, <1>3

LEMMA SlotReplaced ==
  ASSUME IInv, NEW s \in Slots, NEW h \in Shared,
         NEW R \in [Counters -> Nat],
         \A c \in Counters : R[c] = refs[c] + (IF h.ctr = c THEN 1 ELSE 0),
         shr' = [shr EXCEPT ![s] = h],
         ReplaceShared(s, R)
  PROVE  /\ CountMatchesOwners' /\ refs' \in [Counters -> Nat]
         /\ shr' \in [Slots -> Shared] /\ shr'[s] = h
         /\ \A r \in Slots \ {s} : shr'[r] = shr[r]
         /\ heap' \in [Arrays -> 0..MaxSize]
         /\ \A a \in Arrays :
              \/ heap'[a] = heap[a]
              \/ /\ heap'[a] = 0 /\ shr[s].ptr = a /\ h.ctr # shr[s].ctr
                 /\ \A r \in Slots \ {s} : shr[r].ptr # a
         /\ shr[s].ptr # Null => \/ heap'[shr[s].ptr] = 0
                                 \/ \E r \in Slots \ {s} : shr[r] = shr[s]
                                 \/ h.ctr = shr[s].ctr
<1>1. /\ shr \in [Slots -> Shared] /\ refs \in [Counters -> Nat]
      /\ shr[s].ctr \in Counters \cup {Null}
      /\ shr[s].ptr # Null => shr[s].ctr \in Counters
  BY InvByHandle DEF Shared
<1>2. /\ refs' = RefsAfter(shr[s], R) /\ heap' = HeapAfter(shr[s], R)
  BY DEF ReplaceShared
<1>3. \A c \in Counters : R[c] = Cardinality(Owners(c)) + (IF h.ctr = c THEN 1 ELSE 0)
  BY DEF IInv, CountMatchesOwners
<1>4. CountMatchesOwners' /\ refs' \in [Counters -> Nat]
  BY <1>2, <1>3, ReplacedIsCounted
<1>5. \A c \in Counters : R[c] >= refs[c]
  BY <1>1
<1>6. /\ heap' \in [Arrays -> 0..MaxSize]
      /\ \A a \in Arrays :
           \/ heap'[a] = heap[a]
           \/ /\ heap'[a] = 0 /\ shr[s].ptr = a
              /\ refs[shr[s].ctr] = 1 /\ R[shr[s].ctr] = 1
              /\ \A r \in Slots \ {s} : shr[r].ptr # a
      /\ shr[s].ptr # Null =>
           \/ heap'[shr[s].ptr] = 0
           \/ \E r \in Slots \ {s} : shr[r] = shr[s]
           \/ R[shr[s].ctr] > refs[shr[s].ctr]
  BY <1>2, <1>5, ReleaseOfShared
<1>7. ASSUME NEW a \in Arrays, shr[s].ptr = a, refs[shr[s].ctr] = 1, R[shr[s].ctr] = 1
      PROVE  h.ctr # shr[s].ctr
  BY <1>1, <1>7, SmartArrayAssumption
<1>8. ASSUME shr[s].ptr # Null, R[shr[s].ctr] > refs[shr[s].ctr]
      PROVE  h.ctr = shr[s].ctr
  BY <1>1, <1>8
<1>9. shr' \in [Slots -> Shared] /\ shr'[s] = h /\ \A r \in Slots \ {s} : shr'[r] = shr[r]
  BY <1>1
<1>10. QED
  BY <1>4, <1>6, <1>7, <1>8, <1>9

\* A counter that is free belongs to no slot.
LEMMA FreeIsUnowned ==
  ASSUME IInv, NEW c \in FreeCounters
  PROVE  c \in Counters /\ refs[c] = 0 /\ c # Null /\ \A r \in Slots : shr[r].ctr # c
<1>1. c \in Counters /\ refs[c] = 0 /\ c # Null
  BY SmartArrayAssumption DEF FreeCounters
<1>2. ASSUME NEW r \in Slots, shr[r].ctr = c
      PROVE  FALSE
  <2>1. refs[c] \in Nat \ {0}
    BY <1>1, <1>2, CountOfOne
  <2>2. QED
    BY <1>1, <2>1
<1>3. QED
  BY <1>1, <1>2

(***************************************************************************)
(* An array that no other handle has gets its first shared_array; p left a *)
(* unique_array or the program's hands.                                    *)
(***************************************************************************)
LEMMA FirstShareKeeps ==
  ASSUME IInv, NEW s \in Slots, NEW p \in Pair, NEW c \in FreeCounters,
         shr' = [shr EXCEPT ![s] = [ptr |-> p.ptr, size |-> p.size, ctr |-> c]],
         ReplaceShared(s, [refs EXCEPT ![c] = 1]),
         p.ptr = Null => p.size = 0,
         p.ptr # Null => /\ p.size = heap[p.ptr] /\ p.size > 0
                         /\ \A r \in Slots : shr[r].ptr # p.ptr,
         uni' \in [Uniques -> Pair], raw' \subseteq raw,
         \A u \in Uniques : uni'[u] = EmptyPair \/ uni'[u] = uni[u],
         p.ptr # Null => /\ \A u \in Uniques : uni'[u].ptr # p.ptr
                         /\ \A q \in raw' : q.ptr # p.ptr,
         \A u \in Uniques : uni[u].ptr # p.ptr => uni'[u] = uni[u],
         \A q \in raw : q.ptr # p.ptr => q \in raw'
  PROVE  IInv' /\ NoneLost
<1> DEFINE h == [ptr |-> p.ptr, size |-> p.size, ctr |-> c]
           R == [refs EXCEPT ![c] = 1]
<1>1. c \in Counters /\ refs[c] = 0 /\ c # Null /\ \A r \in Slots : shr[r].ctr # c
  BY FreeIsUnowned
<1>2. h \in Shared /\ R \in [Counters -> Nat]
  BY <1>1, InvByHandle DEF Shared, Pair
<1>3. \A d \in Counters : R[d] = refs[d] + (IF h.ctr = d THEN 1 ELSE 0)
  BY <1>1, InvByHandle
<1>4. shr' = [shr EXCEPT ![s] = h] /\ ReplaceShared(s, R) /\ h.ctr = c /\ h.ptr = p.ptr /\ h.size = p.size
  OBVIOUS
<1> HIDE DEF h, R
<1>5. /\ CountMatchesOwners' /\ refs' \in [Counters -> Nat]
      /\ shr' \in [Slots -> Shared] /\ shr'[s] = h
      /\ \A r \in Slots \ {s} : shr'[r] = shr[r]
      /\ heap' \in [Arrays -> 0..MaxSize]
      /\ \A a \in Arrays : \/ heap'[a] = heap[a]
                           \/ /\ heap'[a] = 0 /\ shr[s].ptr = a /\ h.ctr # shr[s].ctr
                              /\ \A r \in Slots \ {s} : shr[r].ptr # a
      /\ shr[s].ptr # Null => \/ heap'[shr[s].ptr] = 0
                              \/ \E r \in Slots \ {s} : shr[r] = shr[s]
                              \/ h.ctr = shr[s].ctr
  BY <1>2, <1>3, <1>4, SlotReplaced, Zenon
<1>6. TypeOK'
  BY <1>5, InvByHandle DEF TypeOK
<1>7. /\ \A r \in Slots \ {s} : shr[r].ptr # Null => heap'[shr[r].ptr] = heap[shr[r].ptr]
      /\ \A u \in Uniques : uni[u].ptr # Null => heap'[uni[u].ptr] = heap[uni[u].ptr]
      /\ \A q \in raw : heap'[q.ptr] = heap[q.ptr]
  BY <1>5, OthersKeepTheirs
<1>8. EmptyPair.ptr = Null /\ EmptyPair.size = 0
  BY DEF EmptyPair
<1>9. p.ptr # Null => heap'[p.ptr] = heap[p.ptr]
  BY <1>5 DEF Pair, Pointer
<1>10. SizeIsCount' /\ NullHasNoSize' /\ RawAreArrays'
  <2>1. \A r \in Slots : /\ shr'[r].ptr = Null => shr'[r].size = 0
                         /\ shr'[r].ptr # Null => /\ shr'[r].size = heap'[shr'[r].ptr]
                                                  /\ shr'[r].size > 0
    BY <1>4, <1>5, <1>7, <1>9, InvByHandle
  <2>2. \A u \in Uniques : /\ uni'[u].ptr = Null => uni'[u].size = 0
                           /\ uni'[u].ptr # Null => /\ uni'[u].size = heap'[uni'[u].ptr]
                                                    /\ uni'[u].size > 0
    BY <1>7, <1>8, InvByHandle
  <2>3. \A q \in raw' : q.ptr # Null /\ q.size = heap'[q.ptr] /\ q.size > 0
    BY <1>7, InvByHandle
  <2>4. QED
    BY <2>1, <2>2, <2>3, InvFromHandlesNext
<1>11. SoleOwner'
  <2>1. \A u, v \in Uniques : uni'[u].ptr # Null /\ uni'[u].ptr = uni'[v].ptr => u = v
    BY <1>8 DEF IInv, SoleOwner
  <2>2. \A r, q \in Slots : shr'[r].ptr # Null /\ shr'[r].ptr = shr'[q].ptr =>
          shr'[r].ctr # Null /\ shr'[r].ctr = shr'[q].ctr
    BY <1>1, <1>4, <1>5 DEF IInv, SoleOwner
  <2>3. \A u \in Uniques, r \in Slots : uni'[u].ptr # Null => uni'[u].ptr # shr'[r].ptr
    BY <1>4, <1>5, <1>8 DEF IInv, SoleOwner
  <2>4. \A q \in raw' : /\ \A r \in Slots : shr'[r].ptr # q.ptr
                        /\ \A u \in Uniques : uni'[u].ptr # q.ptr
    BY <1>4, <1>5, <1>8, InvByHandle DEF IInv, SoleOwner
  <2>5. QED
    BY <2>1, <2>2, <2>3, <2>4 DEF SoleOwner
<1>12. UncountedIsEmpty' /\ SharersAgree'
  BY <1>1, <1>4, <1>5 DEF IInv, UncountedIsEmpty, SharersAgree
<1>13. NoneLost
  <2>1. ASSUME NEW a \in Arrays, Owned(a), heap'[a] # 0
        PROVE  Owned(a)'
    <3>1. CASE \E r \in Slots : shr[r].ptr = a
      <4>1. \E r \in Slots \ {s} : shr[r].ptr = a
        BY <1>1, <1>4, <1>5, <2>1, <3>1, SmartArrayAssumption
      <4>2. QED
        BY <1>5, <4>1, OwnedByHandleNext
    <3>2. CASE a = p.ptr
      BY <1>4, <1>5, <3>2, OwnedByHandleNext
    <3>3. CASE a # p.ptr /\ \E u \in Uniques : uni[u].ptr = a
      BY <3>3, OwnedByHandleNext
    <3>4. CASE a # p.ptr /\ \E q \in raw : q.ptr = a
      BY <3>4, OwnedByHandleNext
    <3>5. QED
      BY <2>1, <3>1, <3>2, <3>3, <3>4, OwnedByHandle
  <2>2. QED
    BY <2>1 DEF NoneLost
<1>14. QED
  BY <1>5, <1>6, <1>10, <1>11, <1>12, <1>13 DEF IInv

LEMMA ResetSharedKeeps ==
  ASSUME IInv, NEW s \in Slots, NEW p \in Pair, ResetShared(s, p)
  PROVE  IInv' /\ NoneLost
<1>1. /\ UNCHANGED uni /\ raw' = raw \ {p} /\ Passable(p)
  BY DEF ResetShared
<1>2. PICK c \in FreeCounters :
        /\ shr' = [shr EXCEPT ![s] = [ptr |-> p.ptr, size |-> p.size, ctr |-> c]]
        /\ ReplaceShared(s, [refs EXCEPT ![c] = 1])
  BY DEF ResetShared
<1>3. /\ p.ptr = Null => p.size = 0 /\ p \notin raw
      /\ p.ptr # Null => /\ p.size = heap[p.ptr] /\ p.size > 0
                         /\ \A r \in Slots : shr[r].ptr # p.ptr
                         /\ \A u \in Uniques : uni[u].ptr # p.ptr
                         /\ \A q \in raw \ {p} : q.ptr # p.ptr
  BY <1>1, PassableHandle DEF EmptyPair
<1>4. /\ uni' \in [Uniques -> Pair] /\ raw' \subseteq raw
      /\ \A u \in Uniques : uni'[u] = uni[u]
      /\ \A q \in raw : q.ptr # p.ptr => q \in raw'
      /\ p.ptr # Null => /\ \A u \in Uniques : uni'[u].ptr # p.ptr
                         /\ \A q \in raw' : q.ptr # p.ptr
  BY <1>1, <1>3, InvByHandle
<1>5. QED
  BY <1>2, <1>3, <1>4, FirstShareKeeps

LEMMA FromUniqueKeeps ==
  ASSUME IInv, NEW s \in Slots, NEW u \in Uniques, FromUnique(s, u)
  PROVE  IInv' /\ NoneLost
<1> DEFINE p == uni[u]
<1>1. UNCHANGED raw /\ uni' = [uni EXCEPT ![u] = EmptyPair]
  BY DEF FromUnique
<1>2. PICK c \in FreeCounters :
        /\ shr' = [shr EXCEPT ![s] = [ptr |-> uni[u].ptr, size |-> uni[u].size, ctr |-> c]]
        /\ ReplaceShared(s, [refs EXCEPT ![c] = 1])
  BY DEF FromUnique
<1>3. /\ p \in Pair
      /\ p.ptr = Null => p.size = 0
      /\ p.ptr # Null => /\ p.size = heap[p.ptr] /\ p.size > 0
                         /\ \A r \in Slots : shr[r].ptr # p.ptr
                         /\ \A v \in Uniques \ {u} : uni[v].ptr # p.ptr
                         /\ \A q \in raw : q.ptr # p.ptr
  BY InvByHandle DEF EmptyPair, IInv, SoleOwner
<1>4. EmptyPair \in Pair /\ EmptyPair.ptr = Null
  BY SmartArrayAssumption DEF EmptyPair, Pair, Pointer
<1>5. /\ uni' \in [Uniques -> Pair] /\ uni'[u] = EmptyPair
      /\ \A v \in Uniques \ {u} : uni'[v] = uni[v]
  BY <1>1, <1>4, InvByHandle
<1>6. /\ \A v \in Uniques : uni'[v] = EmptyPair \/ uni'[v] = uni[v]
      /\ \A v \in Uniques : uni[v].ptr # p.ptr => uni'[v] = uni[v]
      /\ p.ptr # Null => \A v \in Uniques : uni'[v].ptr # p.ptr
  BY <1>3, <1>4, <1>5
<1> HIDE DEF p
<1>7. /\ shr' = [shr EXCEPT ![s] = [ptr |-> p.ptr, size |-> p.size, ctr |-> c]]
  BY <1>2 DEF p
<1>8. QED
  BY <1>1, <1>2, <1>3, <1>5, <1>6, <1>7, FirstShareKeeps

(***************************************************************************)
(* Steps that leave every slot empty or with what a slot had, and destroy  *)
(* an array only if no slot has it any more.                               *)
(***************************************************************************)
LEMMA RearrangedKeeps ==
  ASSUME IInv, UNCHANGED <<uni, raw>>,
         shr' \in [Slots -> Shared], refs' \in [Counters -> Nat],
         heap' \in [Arrays -> 0..MaxSize], CountMatchesOwners',
         \A x \in Slots : shr'[x] = EmptyShared \/ \E y \in Slots : shr'[x] = shr[y],
         \A a \in Arrays : \/ heap'[a] = heap[a]
                           \/ /\ \E x \in Slots : shr[x].ptr = a
                              /\ \A x \in Slots : shr'[x].ptr # a,
         \A x \in Slots : shr[x].ptr # Null =>
           heap'[shr[x].ptr] = 0 \/ \E y \in Slots : shr'[y].ptr = shr[x].ptr
  PROVE  IInv' /\ NoneLost
<1>1. EmptyShared.ptr = Null /\ EmptyShared.size = 0 /\ EmptyShared.ctr = Null
  BY DEF EmptyShared
<1>2. TypeOK'
  BY InvByHandle DEF TypeOK
<1>3. /\ \A x \in Slots : shr'[x].ptr # Null => heap'[shr'[x].ptr] = heap[shr'[x].ptr]
      /\ \A u \in Uniques : uni[u].ptr # Null => heap'[uni[u].ptr] = heap[uni[u].ptr]
      /\ \A p \in raw : heap'[p.ptr] = heap[p.ptr]
  <2>1. ASSUME NEW x \in Slots, shr'[x].ptr # Null
        PROVE  heap'[shr'[x].ptr] = heap[shr'[x].ptr]
    BY <2>1 DEF Shared, Pointer
  <2>2. ASSUME NEW u \in Uniques, uni[u].ptr # Null
        PROVE  heap'[uni[u].ptr] = heap[uni[u].ptr]
    BY <2>2, InvByHandle DEF Pair, Pointer, IInv, SoleOwner
  <2>3. ASSUME NEW p \in raw
        PROVE  heap'[p.ptr] = heap[p.ptr]
    BY <2>3, InvByHandle DEF Pair, Pointer, IInv, SoleOwner
  <2>4. QED
    BY <2>1, <2>2, <2>3
<1>4. SizeIsCount' /\ NullHasNoSize' /\ RawAreArrays'
  <2>1. \A x \in Slots : /\ shr'[x].ptr = Null => shr'[x].size = 0
                         /\ shr'[x].ptr # Null => /\ shr'[x].size = heap'[shr'[x].ptr]
                                                  /\ shr'[x].size > 0
    BY <1>1, <1>3, InvByHandle
  <2>2. \A u \in Uniques : /\ uni'[u].ptr = Null => uni'[u].size = 0
                           /\ uni'[u].ptr # Null => /\ uni'[u].size = heap'[uni'[u].ptr]
                                                    /\ uni'[u].size > 0
    BY <1>3, InvByHandle DEF EmptyPair
  <2>3. \A p \in raw' : p.ptr # Null /\ p.size = heap'[p.ptr] /\ p.size > 0
    BY <1>3, InvByHandle
  <2>4. QED
    BY <2>1, <2>2, <2>3, InvFromHandlesNext
<1>5. SoleOwner'
  BY <1>1, InvByHandle DEF IInv, SoleOwner
<1>6. UncountedIsEmpty' /\ SharersAgree'
  BY <1>1 DEF IInv, UncountedIsEmpty, SharersAgree
<1>7. NoneLost
  <2>1. ASSUME NEW a \in Arrays, Owned(a), heap'[a] # 0
        PROVE  Owned(a)'
    <3>1. CASE \E x \in Slots : shr[x].ptr = a
      BY <2>1, <3>1, SmartArrayAssumption, OwnedByHandleNext
    <3>2. CASE \E u \in Uniques : uni[u].ptr = a
      BY <3>2, OwnedByHandleNext
    <3>3. CASE \E p \in raw : p.ptr = a
      BY <3>3, OwnedByHandleNext
    <3>4. QED
      BY <2>1, <3>1, <3>2, <3>3, OwnedByHandle
  <2>2. QED
    BY <2>1 DEF NoneLost
<1>8. QED
  BY <1>2, <1>4, <1>5, <1>6, <1>7 DEF IInv

LEMMA CopyKeeps ==
  ASSUME IInv, NEW s \in Slots, NEW r \in Slots, Copy(s, r)
  PROVE  IInv' /\ NoneLost
<1> DEFINE R == RefsCopied(shr[r])
<1>1. /\ UNCHANGED <<uni, raw>> /\ shr' = [shr EXCEPT ![s] = shr[r]] /\ ReplaceShared(s, R)
  BY DEF Copy
<1>2. shr[r] \in Shared /\ shr[s] \in Shared /\ refs \in [Counters -> Nat]
  BY InvByHandle
<1>3. R \in [Counters -> Nat] /\ \A c \in Counters : R[c] = refs[c] + (IF shr[r].ctr = c THEN 1 ELSE 0)
  BY <1>2, SmartArrayAssumption DEF RefsCopied, Shared
<1> HIDE DEF R
<1>4. /\ CountMatchesOwners' /\ refs' \in [Counters -> Nat]
      /\ shr' \in [Slots -> Shared] /\ shr'[s] = shr[r]
      /\ \A x \in Slots \ {s} : shr'[x] = shr[x]
      /\ heap' \in [Arrays -> 0..MaxSize]
      /\ \A a \in Arrays : \/ heap'[a] = heap[a]
                           \/ /\ heap'[a] = 0 /\ shr[s].ptr = a /\ shr[r].ctr # shr[s].ctr
                              /\ \A x \in Slots \ {s} : shr[x].ptr # a
      /\ shr[s].ptr # Null => \/ heap'[shr[s].ptr] = 0
                              \/ \E x \in Slots \ {s} : shr[x] = shr[s]
                              \/ shr[r].ctr = shr[s].ctr
  BY <1>1, <1>2, <1>3, SlotReplaced
<1>5. shr[s].ptr # Null /\ shr[r].ctr = shr[s].ctr => shr[r] = shr[s]
  BY InvByHandle DEF IInv, SharersAgree
<1>6. \A a \in Arrays : \/ heap'[a] = heap[a]
                        \/ /\ \E x \in Slots : shr[x].ptr = a
                           /\ \A x \in Slots : shr'[x].ptr # a
  BY <1>4
<1>7. \A x \in Slots : shr[x].ptr # Null =>
        heap'[shr[x].ptr] = 0 \/ \E y \in Slots : shr'[y].ptr = shr[x].ptr
  BY <1>4, <1>5
<1>8. \A x \in Slots : shr'[x] = EmptyShared \/ \E y \in Slots : shr'[x] = shr[y]
  BY <1>4
<1>9. QED
  BY <1>1, <1>4, <1>6, <1>7, <1>8, RearrangedKeeps

LEMMA DestructKeeps ==
  ASSUME IInv, NEW s \in Slots, Destruct(s)
  PROVE  IInv' /\ NoneLost
<1> DEFINE h == EmptyShared
           R == refs
<1>1. /\ UNCHANGED <<uni, raw>> /\ shr' = [shr EXCEPT ![s] = h] /\ ReplaceShared(s, R)
  BY DEF Destruct
<1>2. /\ h \in Shared /\ h.ptr = Null /\ h.ctr = Null
      /\ R \in [Counters -> Nat] /\ Null \notin Counters
  BY SmartArrayAssumption, InvByHandle DEF EmptyShared, Shared, Pointer
<1> HIDE DEF h
<1>3. \A c \in Counters : R[c] = refs[c] + (IF h.ctr = c THEN 1 ELSE 0)
  BY <1>2
<1> HIDE DEF R
<1>4. /\ CountMatchesOwners' /\ refs' \in [Counters -> Nat]
      /\ shr' \in [Slots -> Shared] /\ shr'[s] = h
      /\ \A x \in Slots \ {s} : shr'[x] = shr[x]
      /\ heap' \in [Arrays -> 0..MaxSize]
      /\ \A a \in Arrays : \/ heap'[a] = heap[a]
                           \/ /\ heap'[a] = 0 /\ shr[s].ptr = a /\ h.ctr # shr[s].ctr
                              /\ \A x \in Slots \ {s} : shr[x].ptr # a
      /\ shr[s].ptr # Null => \/ heap'[shr[s].ptr] = 0
                              \/ \E x \in Slots \ {s} : shr[x] = shr[s]
                              \/ h.ctr = shr[s].ctr
  BY <1>1, <1>2, <1>3, SlotReplaced, ZenonT(60)
<1>5. \A a \in Arrays : \/ heap'[a] = heap[a]
                        \/ /\ \E x \in Slots : shr[x].ptr = a
                           /\ \A x \in Slots : shr'[x].ptr # a
  BY <1>2, <1>4, SmartArrayAssumption
<1>6. \A x \in Slots : shr[x].ptr # Null =>
        heap'[shr[x].ptr] = 0 \/ \E y \in Slots : shr'[y].ptr = shr[x].ptr
  BY <1>2, <1>4, InvByHandle
<1>7. \A x \in Slots : shr'[x] = EmptyShared \/ \E y \in Slots : shr'[x] = shr[y]
  BY <1>4 DEF h
<1>8. QED
  BY <1>1, <1>4, <1>5, <1>6, <1>7, RearrangedKeeps

\* Of an array that is not shared, reset() does what the destructor does.
LEMMA ResetIsDestruct ==
  ASSUME IInv, ~SharedReset, NEW s \in Slots, Reset(s)
  PROVE  Destruct(s)
<1>1. shr[s].ctr # Null => refs[shr[s].ctr] = 1
  BY DEF Reset
<1>2. shr[s].ctr = Null => shr[s] = EmptyShared
  BY InvByHandle
<1>3. HandleAfter(shr[s], refs) = EmptyShared
  BY <1>1, <1>2 DEF HandleAfter, IsLast
<1>4. QED
  BY <1>3 DEF Reset, Destruct

LEMMA MoveKeeps ==
  ASSUME IInv, NEW s \in Slots, NEW r \in Slots, Move(s, r), s # r
  PROVE  IInv' /\ NoneLost
<1>1. /\ UNCHANGED <<uni, raw>> /\ shr' = [shr EXCEPT ![s] = shr[r], ![r] = EmptyShared]
      /\ refs' = RefsAfter(shr[s], refs) /\ heap' = HeapAfter(shr[s], refs)
  BY DEF Move, ReplaceShared
<1>2. /\ EmptyShared \in Shared /\ EmptyShared.ptr = Null
      /\ refs \in [Counters -> Nat] /\ shr \in [Slots -> Shared]
  BY SmartArrayAssumption, InvByHandle DEF EmptyShared, Shared, Pointer
<1>3. CountMatchesOwners' /\ refs' \in [Counters -> Nat]
  BY <1>1, MovedIsCounted
<1>4. /\ shr' \in [Slots -> Shared] /\ shr'[s] = shr[r] /\ shr'[r] = EmptyShared
      /\ \A x \in Slots \ {s, r} : shr'[x] = shr[x]
  BY <1>1, <1>2
<1>5. /\ heap' \in [Arrays -> 0..MaxSize]
      /\ \A a \in Arrays : \/ heap'[a] = heap[a]
                           \/ /\ heap'[a] = 0 /\ shr[s].ptr = a
                              /\ \A x \in Slots \ {s} : shr[x].ptr # a
      /\ shr[s].ptr # Null => \/ heap'[shr[s].ptr] = 0
                              \/ \E x \in Slots \ {s} : shr[x] = shr[s]
                              \/ refs[shr[s].ctr] > refs[shr[s].ctr]
  <2>1. \A c \in Counters : refs[c] >= refs[c]
    BY <1>2
  <2>2. QED
    BY <1>1, <1>2, <2>1, ReleaseOfShared
<1>6. \A a \in Arrays : \/ heap'[a] = heap[a]
                        \/ /\ \E x \in Slots : shr[x].ptr = a
                           /\ \A x \in Slots : shr'[x].ptr # a
  BY <1>2, <1>4, <1>5, SmartArrayAssumption
<1>7. \A x \in Slots : shr[x].ptr # Null =>
        heap'[shr[x].ptr] = 0 \/ \E y \in Slots : shr'[y].ptr = shr[x].ptr
  <2>1. shr[s].ptr # Null => ~(refs[shr[s].ctr] > refs[shr[s].ctr])
    BY <1>2, InvByHandle DEF Shared
  <2>2. \A x \in Slots \ {s} : \E y \in Slots : shr'[y].ptr = shr[x].ptr
    BY <1>4
  <2>3. QED
    BY <1>5, <2>1, <2>2
<1>8. \A x \in Slots : shr'[x] = EmptyShared \/ \E y \in Slots : shr'[x] = shr[y]
  BY <1>4
<1>9. QED
  BY <1>1, <1>3, <1>4, <1>5, <1>6, <1>7, <1>8, RearrangedKeeps

LEMMA SwapSharedKeeps ==
  ASSUME IInv, NEW s \in Slots, NEW r \in Slots, SwapShared(s, r)
  PROVE  IInv' /\ NoneLost
<1>1. UNCHANGED <<uni, raw, heap, refs>> /\ shr' = [shr EXCEPT ![s] = shr[r], ![r] = shr[s]]
  BY DEF SwapShared
<1>2. CountMatchesOwners'
  BY <1>1, SwappedIsCounted
<1>3. /\ shr' \in [Slots -> Shared] /\ shr'[s] = shr[r] /\ shr'[r] = shr[s]
      /\ \A x \in Slots \ {s, r} : shr'[x] = shr[x]
  BY <1>1, InvByHandle
<1>4. /\ refs' \in [Counters -> Nat] /\ heap' \in [Arrays -> 0..MaxSize]
  BY <1>1, InvByHandle
<1>5. QED
  BY <1>1, <1>2, <1>3, <1>4, RearrangedKeeps

(***************************************************************************)
(* Every step keeps the invariant and loses no array.                      *)
(***************************************************************************)
LEMMA NothingHappens ==
  ASSUME IInv, UNCHANGED vars
  PROVE  IInv' /\ NoneLost
<1>1. UNCHANGED <<uni, raw, heap, refs, shr>>
  BY DEF vars
<1>2. CountMatchesOwners'
  BY <1>1, SharedSame
<1>3. \A x \in Slots : shr'[x] = shr[x]
  BY <1>1
<1>4. /\ shr' \in [Slots -> Shared] /\ refs' \in [Counters -> Nat]
      /\ heap' \in [Arrays -> 0..MaxSize]
  BY <1>1, InvByHandle
<1>5. QED
  BY <1>1, <1>2, <1>3, <1>4, RearrangedKeeps

LEMMA StepKeeps ==
  ASSUME ~SharedReset, IInv, [Next]_vars
  PROVE  IInv' /\ NoneLost
<1>1. CASE \E a \in Arrays, n \in 1..MaxSize : CreateArray(a, n) \/ MakeThrows(a, n)
  BY <1>1, CreateArrayKeeps
<1>2. CASE \E p \in raw : DeleteArray(p)
  BY <1>2, DeleteArrayKeeps
<1>3. ASSUME NEW u \in Uniques,
             \/ \E p \in Pair : ResetUnique(u, p)
             \/ DeleteUnique(u)
             \/ ReleaseUnique(u)
             \/ FromUniqueThrows(u)
             \/ \E v \in Uniques : MoveUnique(u, v) \/ SwapUnique(u, v)
      PROVE  IInv' /\ NoneLost
  <2>1. CASE \E p \in Pair : ResetUnique(u, p)
    BY <2>1, ResetUniqueKeeps
  <2>2. CASE DeleteUnique(u) \/ MoveUnique(u, u)
    BY <2>2, EmptiedIsReset, ResetUniqueKeeps
  <2>3. CASE ReleaseUnique(u)
    BY <2>3, ReleaseUniqueKeeps
  <2>4. CASE FromUniqueThrows(u)
    BY <2>4, NothingHappens DEF FromUniqueThrows, AfterFailure, vars
  <2>5. ASSUME NEW v \in Uniques, MoveUnique(u, v) \/ SwapUnique(u, v), v # u
        PROVE  IInv' /\ NoneLost
    BY <2>5, MoveUniqueKeeps, SwapUniqueKeeps
  <2>6. CASE SwapUnique(u, u)
    BY <2>6, SwapUniqueKeeps
  <2>7. QED
    BY <1>3, <2>1, <2>2, <2>3, <2>4, <2>5, <2>6
<1>4. ASSUME NEW s \in Slots,
             \/ \E p \in Pair : ResetShared(s, p)
             \/ \E u \in Uniques : FromUnique(s, u)
             \/ Reset(s)
             \/ Destruct(s)
             \/ \E r \in Slots : Copy(s, r) \/ Move(s, r) \/ SwapShared(s, r)
      PROVE  IInv' /\ NoneLost
  <2>1. CASE \E p \in Pair : ResetShared(s, p)
    BY <2>1, ResetSharedKeeps
  <2>2. CASE \E u \in Uniques : FromUnique(s, u)
    BY <2>2, FromUniqueKeeps
  <2>3. CASE Reset(s) \/ Destruct(s)
    BY <2>3, ResetIsDestruct, DestructKeeps
  <2>4. ASSUME NEW r \in Slots, Copy(s, r) \/ SwapShared(s, r)
        PROVE  IInv' /\ NoneLost
    BY <2>4, CopyKeeps, SwapSharedKeeps
  <2>5. ASSUME NEW r \in Slots, Move(s, r)
        PROVE  IInv' /\ NoneLost
    <3>1. CASE s = r
      BY <2>5, <3>1, NothingHappens DEF Move, vars
    <3>2. CASE s # r
      BY <2>5, <3>2, MoveKeeps
    <3>3. QED
      BY <3>1, <3>2
  <2>6. QED
    BY <1>4, <2>1, <2>2, <2>3, <2>4, <2>5
<1>5. CASE UNCHANGED vars
  BY <1>5, NothingHappens
<1>6. QED
  BY <1>1, <1>2, <1>3, <1>4, <1>5 DEF Next

(***************************************************************************)
(* The inductive invariant holds in every state of every program that does *)
(* not call reset() on a shared_array others share.                        *)
(***************************************************************************)
THEOREM Invariance ==
  ASSUME ~SharedReset
  PROVE  Spec => []IInv
<1>1. IInv /\ [Next]_vars => IInv'
  BY StepKeeps
<1>2. QED
  BY <1>1, InitInv, PTL DEF Spec

(***************************************************************************)
(* Every variable keeps its type: no counter goes below zero.              *)
(***************************************************************************)
THEOREM TypeCorrect ==
  ASSUME ~SharedReset
  PROVE  Spec => []TypeOK
<1>1. IInv => TypeOK
  BY DEF IInv
<1>2. QED
  BY <1>1, Invariance, PTL

(***************************************************************************)
(* After every call a counter is the number of shared_arrays that refer to *)
(* it.                                                                     *)
(***************************************************************************)
THEOREM CounterIsExact ==
  ASSUME ~SharedReset
  PROVE  Spec => []CountMatchesOwners
<1>1. IInv => CountMatchesOwners
  BY DEF IInv
<1>2. QED
  BY <1>1, Invariance, PTL

(***************************************************************************)
(* The size next to a pointer is the number of elements of the array it    *)
(* points to: delete_object_array destroys all of them and no more.        *)
(***************************************************************************)
THEOREM SizesAreCounts ==
  ASSUME ~SharedReset
  PROVE  Spec => []SizeIsCount
<1>1. IInv => SizeIsCount
  BY DEF IInv
<1>2. QED
  BY <1>1, Invariance, PTL

(***************************************************************************)
(* An array has one owner: a unique_array, a counter, or the program.      *)
(***************************************************************************)
THEOREM OwnersAreSole ==
  ASSUME ~SharedReset
  PROVE  Spec => []SoleOwner
<1>1. IInv => SoleOwner
  BY DEF IInv
<1>2. QED
  BY <1>1, Invariance, PTL

(***************************************************************************)
(* An array that a handle or the program refers to exists, unless reset()  *)
(* was called on a shared array: the run that may do so violates this      *)
(* property.                                                               *)
(***************************************************************************)
THEOREM HeldArraysExist ==
  ASSUME ~SharedReset
  PROVE  Spec => []HeldArrayExists
<1>1. IInv => HeldArrayExists
  <2>1. ASSUME IInv, NEW h \in Handles, h.ptr # Null
        PROVE  heap[h.ptr] > 0
    <3>1. h.size = heap[h.ptr] /\ h.size > 0
      BY <2>1 DEF IInv, SizeIsCount
    <3>2. QED
      BY <3>1
  <2>2. QED
    BY <2>1 DEF HeldArrayExists
<1>2. QED
  BY <1>1, Invariance, PTL

(***************************************************************************)
(* An index that operator[] accepts is that of an element of an array that *)
(* exists.                                                                 *)
(***************************************************************************)
THEOREM AcceptedIndicesExist ==
  ASSUME ~SharedReset
  PROVE  Spec => []AcceptedIndexExists
<1>1. IInv => AcceptedIndexExists
  BY DEF IInv, SizeIsCount, NullHasNoSize, AcceptedIndexExists, Accepts
<1>2. QED
  BY <1>1, Invariance, PTL

(***************************************************************************)
(* A call, also one that throws, keeps or destroys every array that a      *)
(* handle or the program answered for before it. The array of a            *)
(* make_unique_array or make_shared_array whose elements throw never got   *)
(* an owner, and is not spoken of.                                         *)
(***************************************************************************)
THEOREM NoArrayIsLost ==
  ASSUME ~SharedReset
  PROVE  Spec => NothingLost
<1>1. IInv /\ [Next]_vars => [\A a \in Arrays : Owned(a) => Owned(a)' \/ heap'[a] = 0]_vars
  BY StepKeeps DEF NoneLost
<1>2. QED
  BY <1>1, Invariance, PTL DEF Spec, NothingLost
=============================================================================
