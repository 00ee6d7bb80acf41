------------------------- MODULE MemoryResourceProofs -------------------------
(***************************************************************************)
(* Ownership of blocks, faithful copies and the exactness of contains(),   *)
(* for any number of resources, addresses of any width, any heap and any   *)
(* buffer of the program's own.                                            *)
(***************************************************************************)
EXTENDS MemoryResourceInvariant, FiniteSetTheorems, TLAPS

(***************************************************************************)
(* Addresses are positive integers, sizes natural numbers.                 *)
(***************************************************************************)
LEMMA Numbers ==
  /\ Word \in Int
  /\ \A a \in Byte : a \in Int /\ a > 0 /\ a <= Word - 2
  /\ Cardinality(Byte) \in Nat
  /\ \A n \in Sizes : n \in Int /\ n >= 0
<1>1. Word \in Int
  BY MemoryResourceAssumption, SMT DEF Word
<1>2. Byte \subseteq 1..(Word - 2)
  BY MemoryResourceAssumption DEF Byte
<1>3. IsFiniteSet(Byte)
  <2>1. 1 \in Int /\ Word - 2 \in Int
    BY <1>1
  <2>2. IsFiniteSet(1..(Word - 2))
    BY <2>1, FS_Interval
  <2>3. QED
    BY <1>2, <2>2, FS_Subset
<1>4. Cardinality(Byte) \in Nat
  BY <1>3, FS_CardinalityType
<1>5. QED
  BY <1>1, <1>2, <1>4 DEF Sizes

LEMMA Addresses ==
  /\ \A p \in Byte \cup {Null} : p \in Int /\ p >= 0 /\ (p = Null <=> p = 0)
  /\ Null \notin Byte
  /\ Heap \subseteq Byte
BY Numbers DEF Null, Byte

\* What is known of a resource's fields.
LEMMA FieldTypes ==
  ASSUME IInv, NEW r \in Resources
  PROVE  /\ res[r].ptr \in Byte \cup {Null} /\ res[r].size \in Sizes
         /\ res[r].owns \in BOOLEAN
         /\ res[r].ptr \in Int /\ res[r].ptr >= 0
         /\ res[r].size \in Int /\ res[r].size >= 0
         /\ res[r].ptr = Null <=> res[r].size = 0
         /\ Full(res[r]) <=> res[r].size > 0
<1>1. /\ res[r].ptr \in Byte \cup {Null} /\ res[r].size \in Sizes
      /\ res[r].owns \in BOOLEAN
      /\ res[r].ptr = Null <=> res[r].size = 0
  BY DEF IInv, TypeOK, OwnersMatchBlocks
<1>2. QED
  BY <1>1, Numbers, Addresses DEF Full

LEMMA EmptyFields ==
  /\ Empty \in [ptr : Byte \cup {Null}, size : Sizes, owns : BOOLEAN]
  /\ Empty.ptr = Null /\ Empty.size = 0 /\ Freed(Empty) = {} /\ Bytes(Empty.ptr, Empty.size) = {}
BY Numbers DEF Empty, Freed, Full, Sizes, Bytes, Null

LEMMA DestroyedIsEmpty ==
  ASSUME IInv, NEW r \in Resources
  PROVE  Freed(Destroyed(res[r])) = {} /\ Destroyed(res[r]).ptr = Null
         /\ Destroyed(res[r]).size = 0
         /\ Destroyed(res[r]) \in [ptr : Byte \cup {Null}, size : Sizes, owns : BOOLEAN]
<1>1. res[r] \in [ptr : Byte \cup {Null}, size : Sizes, owns : BOOLEAN]
  BY DEF IInv, TypeOK
<1>2. QED
  BY <1>1, EmptyFields, FieldTypes DEF Destroyed, Freed, Full

LEMMA InitInv == Init => IInv
<1> SUFFICES ASSUME Init PROVE IInv
  OBVIOUS
<1>1. \A r \in Resources : res[r] = Empty
  BY DEF Init
<1>2. TypeOK
  BY EmptyFields DEF Init, TypeOK
<1>3. OwnersMatchBlocks
  BY <1>1, EmptyFields DEF Init, OwnersMatchBlocks
<1>4. BlocksInHeap /\ FieldsAreBytes
  BY <1>1, EmptyFields DEF Init, BlocksInHeap, FieldsAreBytes
<1>5. QED
  BY <1>2, <1>3, <1>4 DEF IInv

(***************************************************************************)
(* What allocate may return.                                               *)
(***************************************************************************)
LEMMA Allocated ==
  ASSUME NEW p \in Byte \cup {Null}, NEW n \in Sizes, NEW L,
         \A b \in L : b.ptr \in Int /\ b.size \in Int /\ b.size > 0,
         MayAllocate(p, n, L)
  PROVE  /\ p = Null <=> n = 0
         /\ Block(p, n) \subseteq [ptr : Heap, size : Sizes \ {0}]
         /\ Block(p, n) \cap L = {}
         /\ Bytes(p, n) \subseteq Heap
         /\ n > 0 <=> n # 0
         /\ \A b \in Block(p, n) : b = [ptr |-> p, size |-> n] /\ n > 0
<1>1. p \in Int /\ p >= 0 /\ n \in Int /\ n >= 0 /\ Null \notin Byte /\ Heap \subseteq Byte
  BY Numbers, Addresses
<1>2. CASE n = 0
  BY <1>1, <1>2 DEF MayAllocate, Block, Bytes, Null
<1>3. CASE n # 0
  <2>1. Bytes(p, n) \subseteq Heap /\ \A b \in L : Bytes(p, n) \cap Bytes(b.ptr, b.size) = {}
    BY <1>3 DEF MayAllocate
  <2>2. p \in Bytes(p, n)
    BY <1>1, <1>3 DEF Bytes
  <2>3. p \in Heap /\ p # Null
    BY <1>1, <2>1, <2>2
  <2>4. [ptr |-> p, size |-> n] \notin L
    BY <2>1, <2>2
  <2>5. Block(p, n) = {[ptr |-> p, size |-> n]}
    BY <1>3 DEF Block
  <2>6. QED
    BY <1>1, <1>3, <2>1, <2>3, <2>4, <2>5
<1>4. QED
  BY <1>2, <1>3

LEMMA LiveTypes ==
  ASSUME IInv
  PROVE  \A b \in live : b.ptr \in Int /\ b.size \in Int /\ b.size > 0
BY Numbers DEF IInv, TypeOK, Byte

(***************************************************************************)
(* Who owns what, when resource r gets new fields h: they own the block    *)
(* set B, just allocated (or nothing), and what r owned is freed.          *)
(***************************************************************************)
LEMMA ReplacedOwner ==
  ASSUME IInv, NEW r \in Resources, NEW h, NEW B,
         res' = [res EXCEPT ![r] = h],
         live' = (live \ Freed(res[r])) \cup B,
         Freed(h) = B, B \cap (live \ Freed(res[r])) = {}, B = {} \/ \E b : B = {b},
         h.ptr = Null <=> h.size = 0
  PROVE  OwnersMatchBlocks'
<1>1. res \in [Resources -> [ptr : Byte \cup {Null}, size : Sizes, owns : BOOLEAN]]
  BY DEF IInv, TypeOK
<1>2. res'[r] = h /\ \A q \in Resources \ {r} : res'[q] = res[q]
  BY <1>1
<1>3. /\ \A q \in Resources : res[q].ptr = Null <=> res[q].size = 0
      /\ \A q \in Resources : Freed(res[q]) \subseteq live
      /\ \A b \in live : \E q \in Resources :
           Freed(res[q]) = {b} /\ \A x \in Resources \ {q} : b \notin Freed(res[x])
  BY DEF IInv, OwnersMatchBlocks
<1>4. \A q \in Resources : res'[q].ptr = Null <=> res'[q].size = 0
  BY <1>2, <1>3
<1>5. ASSUME NEW q \in Resources \ {r}, NEW b \in Freed(res[q])
      PROVE  b \in live \ Freed(res[r]) /\ Freed(res[q]) = {b}
  <2>1. PICK x \in Resources :
          Freed(res[x]) = {b} /\ \A y \in Resources \ {x} : b \notin Freed(res[y])
    BY <1>3, <1>5
  <2>2. x = q
    BY <1>5, <2>1
  <2>3. QED
    BY <1>3, <1>5, <2>1, <2>2
<1>6. \A q \in Resources : Freed(res'[q]) \subseteq live'
  BY <1>2, <1>5
<1>7. ASSUME NEW b \in live'
      PROVE  \E q \in Resources :
               Freed(res'[q]) = {b} /\ \A x \in Resources \ {q} : b \notin Freed(res'[x])
  <2>1. CASE b \in B
    <3>1. Freed(res'[r]) = {b}
      BY <1>2, <2>1
    <3>2. \A x \in Resources \ {r} : b \notin Freed(res'[x])
      BY <1>2, <1>5, <2>1
    <3>3. QED
      BY <3>1, <3>2
  <2>2. CASE b \notin B
    <3>1. b \in live /\ b \notin Freed(res[r])
      BY <1>7, <2>2
    <3>2. PICK q \in Resources :
            Freed(res[q]) = {b} /\ \A x \in Resources \ {q} : b \notin Freed(res[x])
      BY <1>3, <3>1
    <3>3. q # r
      BY <3>1, <3>2
    <3>4. QED
      BY <1>2, <2>2, <3>2, <3>3
  <2>3. QED
    BY <2>1, <2>2
<1>8. QED
  BY <1>4, <1>6, <1>7 DEF OwnersMatchBlocks

\* Resource r hands its fields to s, whose block is freed.
LEMMA MovedOwner ==
  ASSUME IInv, NEW s \in Resources, NEW r \in Resources, s # r,
         res' = [res EXCEPT ![s] = res[r], ![r] = Empty],
         live' = live \ Freed(res[s])
  PROVE  OwnersMatchBlocks'
<1>1. res \in [Resources -> [ptr : Byte \cup {Null}, size : Sizes, owns : BOOLEAN]]
  BY DEF IInv, TypeOK
<1>2. /\ res'[s] = res[r] /\ res'[r] = Empty
      /\ \A q \in Resources \ {s, r} : res'[q] = res[q]
  BY <1>1
<1>3. /\ \A q \in Resources : res[q].ptr = Null <=> res[q].size = 0
      /\ \A q \in Resources : Freed(res[q]) \subseteq live
      /\ \A b \in live : \E q \in Resources :
           Freed(res[q]) = {b} /\ \A x \in Resources \ {q} : b \notin Freed(res[x])
  BY DEF IInv, OwnersMatchBlocks
<1>4. \A q \in Resources : res'[q].ptr = Null <=> res'[q].size = 0
  BY <1>2, <1>3, EmptyFields
<1>5. ASSUME NEW q \in Resources \ {s}, NEW b \in Freed(res[q])
      PROVE  b \in live \ Freed(res[s])
  <2>1. PICK x \in Resources :
          Freed(res[x]) = {b} /\ \A y \in Resources \ {x} : b \notin Freed(res[y])
    BY <1>3, <1>5
  <2>2. x = q
    BY <1>5, <2>1
  <2>3. QED
    BY <1>3, <1>5, <2>1, <2>2
<1>6. \A q \in Resources : Freed(res'[q]) \subseteq live'
  BY <1>2, <1>5, EmptyFields
<1>7. ASSUME NEW b \in live'
      PROVE  \E q \in Resources :
               Freed(res'[q]) = {b} /\ \A x \in Resources \ {q} : b \notin Freed(res'[x])
  <2>1. b \in live /\ b \notin Freed(res[s])
    BY <1>7
  <2>2. PICK q \in Resources :
          Freed(res[q]) = {b} /\ \A x \in Resources \ {q} : b \notin Freed(res[x])
    BY <1>3, <2>1
  <2>3. q # s
    BY <2>1, <2>2
  <2>4. CASE q = r
    <3>1. Freed(res'[s]) = {b} /\ b \notin Freed(res'[r])
      BY <1>2, <2>2, <2>4, EmptyFields
    <3>2. \A x \in Resources \ {s} : b \notin Freed(res'[x])
      BY <1>2, <2>2, <2>4, <3>1
    <3>3. QED
      BY <3>1, <3>2
  <2>5. CASE q # r
    <3>1. Freed(res'[q]) = {b}
      BY <1>2, <2>2, <2>3, <2>5
    <3>2. \A x \in Resources \ {q} : b \notin Freed(res'[x])
      BY <1>2, <2>2, <2>3, <2>5, EmptyFields
    <3>3. QED
      BY <3>1, <3>2
  <2>6. QED
    BY <2>4, <2>5
<1>8. QED
  BY <1>4, <1>6, <1>7 DEF OwnersMatchBlocks

LEMMA SwappedOwner ==
  ASSUME IInv, NEW s \in Resources, NEW r \in Resources,
         res' = [res EXCEPT ![s] = res[r], ![r] = res[s]], UNCHANGED live
  PROVE  OwnersMatchBlocks'
<1>1. res \in [Resources -> [ptr : Byte \cup {Null}, size : Sizes, owns : BOOLEAN]]
  BY DEF IInv, TypeOK
<1>2. /\ res'[s] = res[r] /\ res'[r] = res[s]
      /\ \A q \in Resources \ {s, r} : res'[q] = res[q]
  BY <1>1
<1>3. /\ \A q \in Resources : res[q].ptr = Null <=> res[q].size = 0
      /\ \A q \in Resources : Freed(res[q]) \subseteq live
      /\ \A b \in live : \E q \in Resources :
           Freed(res[q]) = {b} /\ \A x \in Resources \ {q} : b \notin Freed(res[x])
  BY DEF IInv, OwnersMatchBlocks
<1>4. ASSUME NEW b \in live
      PROVE  \E q \in Resources :
               Freed(res'[q]) = {b} /\ \A x \in Resources \ {q} : b \notin Freed(res'[x])
  <2>1. PICK q \in Resources :
          Freed(res[q]) = {b} /\ \A x \in Resources \ {q} : b \notin Freed(res[x])
    BY <1>3
  <2>2. PICK p \in Resources : /\ Freed(res'[p]) = {b}
                              /\ \A x \in Resources \ {p} : b \notin Freed(res'[x])
    <3>1. CASE q = r
      BY <1>2, <2>1, <3>1
    <3>2. CASE q = s
      BY <1>2, <2>1, <3>2
    <3>3. CASE q # r /\ q # s
      BY <1>2, <2>1, <3>3
    <3>4. QED
      BY <3>1, <3>2, <3>3
  <2>3. QED
    BY <2>2
<1>5. \A q \in Resources : \E p \in Resources : res'[q] = res[p]
  BY <1>2
<1>6. ASSUME NEW q \in Resources
      PROVE  /\ res'[q].ptr = Null <=> res'[q].size = 0
             /\ Freed(res'[q]) \subseteq live
  <2>1. PICK p \in Resources : res'[q] = res[p]
    BY <1>5
  <2>2. res[p].ptr = Null <=> res[p].size = 0
    BY <1>3
  <2>3. Freed(res[p]) \subseteq live
    BY <1>3
  <2>4. QED
    BY <2>1, <2>2, <2>3
<1>7. live' = live
  OBVIOUS
<1>8. QED
  BY <1>4, <1>6, <1>7 DEF OwnersMatchBlocks

(***************************************************************************)
(* The other parts of the invariant, and the steps.                        *)
(***************************************************************************)
LEMMA MemTypes ==
  ASSUME IInv, NEW r \in Resources
  PROVE  /\ mem \in [Byte -> Data \cup {Junk}]
         /\ MemWithout(res[r]) \in [Byte -> Data \cup {Junk}]
BY DEF IInv, TypeOK, MemWithout

\* Resource r is given new fields h and the blocks B; what it owned is freed.
LEMMA ReplacedKeeps ==
  ASSUME IInv, NEW r \in Resources,
         NEW h \in [ptr : Byte \cup {Null}, size : Sizes, owns : BOOLEAN], NEW B,
         res' = [res EXCEPT ![r] = h],
         live' = (live \ Freed(res[r])) \cup B,
         mem' \in [Byte -> Data \cup {Junk}],
         Freed(h) = B, B \cap (live \ Freed(res[r])) = {}, B = {} \/ \E b : B = {b},
         h.ptr = Null <=> h.size = 0,
         B \subseteq [ptr : Heap, size : Sizes \ {0}],
         \A b \in B : Bytes(b.ptr, b.size) \subseteq Heap,
         Bytes(h.ptr, h.size) \subseteq Byte
  PROVE  IInv'
<1>1. OwnersMatchBlocks'
  BY ReplacedOwner
<1>2. res \in [Resources -> [ptr : Byte \cup {Null}, size : Sizes, owns : BOOLEAN]]
      /\ live \subseteq [ptr : Heap, size : Sizes \ {0}]
  BY DEF IInv, TypeOK
<1>3. /\ res' \in [Resources -> [ptr : Byte \cup {Null}, size : Sizes, owns : BOOLEAN]]
      /\ res'[r] = h /\ \A q \in Resources \ {r} : res'[q] = res[q]
  BY <1>2
<1>4. live' \subseteq [ptr : Heap, size : Sizes \ {0}]
  BY <1>2
<1>5. TypeOK'
  BY <1>3, <1>4 DEF TypeOK
<1>6. BlocksInHeap'
  BY DEF IInv, BlocksInHeap
<1>7. FieldsAreBytes'
  BY <1>3 DEF IInv, FieldsAreBytes
<1>8. QED
  BY <1>1, <1>5, <1>6, <1>7 DEF IInv

LEMMA CreateKeeps ==
  ASSUME IInv, NEW r \in Resources, NEW p \in Byte \cup {Null}, NEW n \in Sizes,
         Create(r, p, n)
  PROVE  IInv'
<1> DEFINE h == [ptr |-> p, size |-> n, owns |-> n > 0]
           B == Block(p, n)
<1>1. /\ p = Null <=> n = 0
      /\ B \subseteq [ptr : Heap, size : Sizes \ {0}]
      /\ B \cap live = {} /\ Bytes(p, n) \subseteq Heap /\ (n > 0 <=> n # 0)
      /\ \A b \in B : b = [ptr |-> p, size |-> n] /\ n > 0
  BY LiveTypes, Allocated DEF Create
<1>2. h \in [ptr : Byte \cup {Null}, size : Sizes, owns : BOOLEAN]
      /\ h.ptr = p /\ h.size = n
  OBVIOUS
<1>3. Freed(h) = B /\ (B = {} \/ \E b : B = {b})
  BY <1>1 DEF Freed, Full, Block
<1>4. live' = (live \ Freed(res[r])) \cup B
  <2>1. Freed(res[r]) \subseteq live
    BY DEF IInv, OwnersMatchBlocks
  <2>2. QED
    BY <1>1, <2>1 DEF Create
<1>5. res' = [res EXCEPT ![r] = h] /\ mem' \in [Byte -> Data \cup {Junk}]
  BY MemTypes DEF Create
<1>6. \A b \in B : Bytes(b.ptr, b.size) \subseteq Heap
  BY <1>1
<1>7. Bytes(h.ptr, h.size) \subseteq Byte
  BY <1>1, Addresses
<1> HIDE DEF h, B
<1>8. QED
  BY <1>1, <1>2, <1>3, <1>4, <1>5, <1>6, <1>7, ReplacedKeeps

LEMMA ViewKeeps ==
  ASSUME IInv, NEW r \in Resources, NEW p \in Byte \cup {Null}, NEW n \in Sizes,
         View(r, p, n)
  PROVE  IInv'
<1> DEFINE h == Fields(p, n)
<1>1. /\ h \in [ptr : Byte \cup {Null}, size : Sizes, owns : BOOLEAN]
      /\ h.ptr = Null <=> h.size = 0
      /\ Freed(h) = {}
  BY EmptyFields DEF Fields, Freed
<1>2. Bytes(h.ptr, h.size) \subseteq Byte
  <2>1. CASE p = Null \/ n = 0
    BY <2>1, EmptyFields DEF Fields
  <2>2. CASE p # Null /\ n # 0
    <3>1. h.ptr = p /\ h.size = n
      BY <2>2 DEF Fields
    <3>2. LiveBytes \subseteq Heap
      BY DEF IInv, BlocksInHeap, LiveBytes
    <3>3. QED
      BY <2>2, <3>1, <3>2 DEF View, Usable, Byte
  <2>3. QED
    BY <2>1, <2>2
<1>3. /\ res' = [res EXCEPT ![r] = h] /\ mem' \in [Byte -> Data \cup {Junk}]
      /\ live' = (live \ Freed(res[r])) \cup {}
  BY MemTypes DEF View
<1> HIDE DEF h
<1>4. QED
  BY <1>1, <1>2, <1>3, ReplacedKeeps

\* destroy(), also as the beginning of a copy that fails.
LEMMA DestroyKeeps ==
  ASSUME IInv, NEW r \in Resources, Destroy(r)
  PROVE  IInv'
<1> DEFINE h == Destroyed(res[r])
<1>1. /\ h \in [ptr : Byte \cup {Null}, size : Sizes, owns : BOOLEAN]
      /\ h.ptr = Null /\ h.size = 0 /\ Freed(h) = {}
  BY DestroyedIsEmpty
<1>2. /\ res' = [res EXCEPT ![r] = h] /\ mem' \in [Byte -> Data \cup {Junk}]
      /\ live' = (live \ Freed(res[r])) \cup {}
  BY MemTypes DEF Destroy
<1> HIDE DEF h
<1>3. Bytes(h.ptr, h.size) = {}
  BY <1>1 DEF Bytes, Null
<1>4. QED
  BY <1>1, <1>2, <1>3, ReplacedKeeps

LEMMA MoveKeeps ==
  ASSUME IInv, NEW s \in Resources, NEW r \in Resources, Move(s, r)
  PROVE  IInv'
<1>1. /\ s # r /\ live' = live \ Freed(res[s])
      /\ res' = [res EXCEPT ![s] = res[r], ![r] = Empty]
      /\ mem' \in [Byte -> Data \cup {Junk}]
  BY MemTypes DEF Move, Moved
<1>2. OwnersMatchBlocks'
  BY <1>1, MovedOwner
<1>3. /\ res \in [Resources -> [ptr : Byte \cup {Null}, size : Sizes, owns : BOOLEAN]]
      /\ live \subseteq [ptr : Heap, size : Sizes \ {0}]
  BY DEF IInv, TypeOK
<1>4. /\ res' \in [Resources -> [ptr : Byte \cup {Null}, size : Sizes, owns : BOOLEAN]]
      /\ res'[s] = res[r] /\ res'[r] = Empty
      /\ \A q \in Resources \ {s, r} : res'[q] = res[q]
  BY <1>1, <1>3, EmptyFields
<1>5. TypeOK'
  BY <1>1, <1>3, <1>4 DEF TypeOK
<1>6. BlocksInHeap' /\ FieldsAreBytes'
  BY <1>1, <1>4, EmptyFields DEF IInv, BlocksInHeap, FieldsAreBytes
<1>7. QED
  BY <1>2, <1>5, <1>6 DEF IInv

LEMMA SwapKeeps ==
  ASSUME IInv, NEW s \in Resources, NEW r \in Resources, Swap(s, r)
  PROVE  IInv'
<1>1. /\ UNCHANGED <<live, mem>>
      /\ res' = [res EXCEPT ![s] = res[r], ![r] = res[s]]
  BY DEF Swap
<1>2. OwnersMatchBlocks'
  BY <1>1, SwappedOwner
<1>3. /\ res \in [Resources -> [ptr : Byte \cup {Null}, size : Sizes, owns : BOOLEAN]]
  BY DEF IInv, TypeOK
<1>4. /\ res' \in [Resources -> [ptr : Byte \cup {Null}, size : Sizes, owns : BOOLEAN]]
      /\ res'[s] = res[r] /\ res'[r] = res[s]
      /\ \A q \in Resources \ {s, r} : res'[q] = res[q]
  BY <1>1, <1>3
<1>5. TypeOK'
  BY <1>1, <1>4 DEF IInv, TypeOK
<1>6. BlocksInHeap' /\ FieldsAreBytes'
  BY <1>1, <1>4 DEF IInv, BlocksInHeap, FieldsAreBytes
<1>7. QED
  BY <1>2, <1>5, <1>6 DEF IInv

LEMMA WriteKeeps ==
  ASSUME IInv, NEW r \in Resources, NEW a \in Byte, NEW v \in Data, Write(r, a, v)
  PROVE  IInv'
<1>1. UNCHANGED <<res, live>> /\ mem' \in [Byte -> Data \cup {Junk}]
  BY MemTypes DEF Write
<1>2. QED
  BY <1>1 DEF IInv, TypeOK, OwnersMatchBlocks, BlocksInHeap, FieldsAreBytes

(***************************************************************************)
(* A copy: the source's bytes survive the destruction of the target, and   *)
(* the new block is theirs one by one.                                     *)
(***************************************************************************)
LEMMA CopyFields ==
  ASSUME IInv, NEW s \in Resources, NEW r \in Resources, NEW p \in Byte \cup {Null},
         Copy(s, r, p)
  PROVE  LET n == res[r].size IN
         /\ n \in Sizes /\ n \in Int /\ n >= 0 /\ p \in Int
         /\ p = Null <=> n = 0
         /\ Block(p, n) \subseteq [ptr : Heap, size : Sizes \ {0}]
         /\ Block(p, n) \cap (live \ Freed(res[s])) = {}
         /\ Bytes(p, n) \subseteq Heap
         /\ \A b \in Block(p, n) : b = [ptr |-> p, size |-> n] /\ n > 0
         /\ res' = [res EXCEPT ![s] = CopyOf(p, n)]
         /\ live' = (live \ Freed(res[s])) \cup Block(p, n)
         /\ mem' = Copied(MemWithout(res[s]), p, res[r])
<1>1. /\ res[r].size \in Sizes /\ res[r].size \in Int /\ res[r].size >= 0 /\ p \in Int
  BY FieldTypes, Addresses
<1>2. \A b \in live \ Freed(res[s]) : b.ptr \in Int /\ b.size \in Int /\ b.size > 0
  BY LiveTypes
<1>3. MayAllocate(p, res[r].size, live \ Freed(res[s]))
  BY DEF Copy
<1>4. QED
  BY <1>1, <1>2, <1>3, Allocated DEF Copy

LEMMA CopiedTypes ==
  ASSUME IInv, NEW r \in Resources, NEW p \in Byte \cup {Null},
         NEW m \in [Byte -> Data \cup {Junk}]
  PROVE  /\ Copied(m, p, res[r]) \in [Byte -> Data \cup {Junk}]
         /\ \A i \in 0..(res[r].size - 1) : res[r].ptr + i \in Byte
<1>1. /\ res[r].ptr \in Int /\ res[r].size \in Int /\ res[r].size >= 0 /\ p \in Int
      /\ Byte \subseteq Int
  BY FieldTypes, Addresses, Numbers
<1>2. \A i \in 0..(res[r].size - 1) : res[r].ptr + i \in Byte
  <2>1. Bytes(res[r].ptr, res[r].size) \subseteq Byte
    BY DEF IInv, FieldsAreBytes
  <2>2. \A i \in 0..(res[r].size - 1) : res[r].ptr + i \in Bytes(res[r].ptr, res[r].size)
    BY <1>1 DEF Bytes
  <2>3. QED
    BY <2>1, <2>2
<1>3. \A a \in Byte : a \in Bytes(p, res[r].size) => a - p \in 0..(res[r].size - 1)
  BY <1>1 DEF Bytes
<1>4. QED
  BY <1>2, <1>3 DEF Copied

LEMMA CopyKeeps ==
  ASSUME IInv, NEW s \in Resources, NEW r \in Resources, NEW p \in Byte \cup {Null},
         Copy(s, r, p)
  PROVE  IInv'
<1> DEFINE n == res[r].size
           h == CopyOf(p, n)
           B == Block(p, n)
<1>1. /\ n \in Sizes /\ n \in Int /\ n >= 0
      /\ p = Null <=> n = 0
      /\ B \subseteq [ptr : Heap, size : Sizes \ {0}]
      /\ B \cap (live \ Freed(res[s])) = {} /\ Bytes(p, n) \subseteq Heap
      /\ \A b \in B : b = [ptr |-> p, size |-> n] /\ n > 0
      /\ res' = [res EXCEPT ![s] = h]
      /\ live' = (live \ Freed(res[s])) \cup B
      /\ mem' = Copied(MemWithout(res[s]), p, res[r])
  BY CopyFields
<1>2. h \in [ptr : Byte \cup {Null}, size : Sizes, owns : BOOLEAN]
      /\ h.ptr = p /\ h.size = n /\ h.owns
  BY <1>1 DEF CopyOf
<1>3. Freed(h) = B /\ (B = {} \/ \E b : B = {b})
  BY <1>1, <1>2 DEF Freed, Full, Block
<1>4. mem' \in [Byte -> Data \cup {Junk}]
  BY <1>1, MemTypes, CopiedTypes
<1>5. \A b \in B : Bytes(b.ptr, b.size) \subseteq Heap
  BY <1>1
<1>6. Bytes(h.ptr, h.size) \subseteq Byte
  BY <1>1, <1>2, Addresses
<1> HIDE DEF h, B, n
<1>7. h.ptr = Null <=> h.size = 0
  BY <1>1, <1>2
<1>8. QED
  BY <1>1, <1>2, <1>3, <1>4, <1>5, <1>6, <1>7, ReplacedKeeps

\* Unless the source is a view of the target's own block.
LEMMA CopiedIsTheSource ==
  ASSUME ~Aliasing, IInv, NEW s \in Resources, NEW r \in Resources,
         NEW p \in Byte \cup {Null}, Copy(s, r, p)
  PROVE  Content(res[s])' = Content(res[r])
<1> DEFINE n == res[r].size
           m == MemWithout(res[s])
<1>1. /\ n \in Int /\ n >= 0 /\ p \in Int /\ Bytes(p, n) \subseteq Heap
      /\ res' = [res EXCEPT ![s] = CopyOf(p, n)]
      /\ mem' = Copied(m, p, res[r])
  BY CopyFields
<1>2. res[r].ptr \in Int /\ Heap \subseteq Byte
  BY FieldTypes, Addresses
<1>3. res'[s].ptr = p /\ res'[s].size = n
  BY <1>1 DEF CopyOf, IInv, TypeOK
<1>4. ASSUME NEW i \in 0..(n - 1)
      PROVE  mem'[p + i] = mem[res[r].ptr + i]
  <2>1. p + i \in Byte /\ p + i \in Bytes(p, n)
    BY <1>1, <1>2, <1>4 DEF Bytes
  <2>2. mem'[p + i] = m[res[r].ptr + ((p + i) - p)]
    BY <1>1, <2>1 DEF Copied
  <2>3. res[r].ptr + ((p + i) - p) = res[r].ptr + i
    BY <1>1, <1>2
  <2>4. res[r].ptr + i \in Byte
    BY MemTypes, CopiedTypes
  <2>5. res[r].ptr + i \in Bytes(res[r].ptr, res[r].size)
    BY <1>1, <1>2 DEF Bytes
  <2>6. ~ \E b \in Freed(res[s]) : res[r].ptr + i \in Bytes(b.ptr, b.size)
    BY <2>5 DEF Copy, Aliases
  <2>7. m[res[r].ptr + i] = mem[res[r].ptr + i]
    BY <2>4, <2>6 DEF MemWithout
  <2>8. QED
    BY <2>2, <2>3, <2>7
<1>5. Content(res[s])' = [i \in 0..(n - 1) |-> mem'[p + i]]
  BY <1>3 DEF Content
<1>6. Content(res[r]) = [i \in 0..(n - 1) |-> mem[res[r].ptr + i]]
  BY DEF Content
<1> HIDE DEF n, m
<1>7. QED
  BY <1>4, <1>5, <1>6

(***************************************************************************)
(* The theorems.                                                           *)
(***************************************************************************)
LEMMA StepKeeps == IInv /\ [Next]_vars => IInv'
<1> SUFFICES ASSUME IInv, [Next]_vars PROVE IInv'
  OBVIOUS
<1>1. ASSUME NEW r \in Resources, NEW q \in Resources, NEW p \in Byte \cup {Null}, Copy(r, q, p)
      PROVE  IInv'
  BY <1>1, CopyKeeps
<1>2. ASSUME NEW r \in Resources, NEW q \in Resources, CopyThrows(r, q)
      PROVE  IInv'
  BY <1>2, DestroyKeeps DEF CopyThrows, Destroy
<1>3. ASSUME NEW r \in Resources, NEW q \in Resources, Move(r, q) \/ Swap(r, q)
      PROVE  IInv'
  BY <1>3, MoveKeeps, SwapKeeps
<1>4. ASSUME NEW r \in Resources, NEW p \in Byte \cup {Null}, NEW n \in Sizes,
             Create(r, p, n) \/ View(r, p, n)
      PROVE  IInv'
  BY <1>4, CreateKeeps, ViewKeeps
<1>5. ASSUME NEW r \in Resources, Destroy(r)
      PROVE  IInv'
  BY <1>5, DestroyKeeps
<1>6. ASSUME NEW r \in Resources, NEW a \in Byte, NEW v \in Data, Write(r, a, v)
      PROVE  IInv'
  BY <1>6, WriteKeeps
<1>7. CASE UNCHANGED vars
  BY <1>7 DEF vars, IInv, TypeOK, OwnersMatchBlocks, BlocksInHeap, FieldsAreBytes
<1>8. QED
  BY <1>1, <1>2, <1>3, <1>4, <1>5, <1>6, <1>7 DEF Next

(***************************************************************************)
(* The inductive invariant holds in every state, aliased copies included.  *)
(***************************************************************************)
THEOREM Invariance == Spec => []IInv
BY InitInv, StepKeeps, PTL DEF Spec

(***************************************************************************)
(* Every variable keeps its type.                                          *)
(***************************************************************************)
THEOREM TypeCorrect == Spec => []TypeOK
<1>1. IInv => TypeOK
  BY DEF IInv
<1>2. QED
  BY <1>1, Invariance, PTL

(***************************************************************************)
(* Blocks and the resources that own them match one to one, also if an     *)
(* allocation fails half way through a copy.                               *)
(***************************************************************************)
THEOREM OwnersAndBlocksMatch == Spec => []OwnersMatchBlocks
<1>1. IInv => OwnersMatchBlocks
  BY DEF IInv
<1>2. QED
  BY <1>1, Invariance, PTL

\* The end of a resource's own block never wraps around.
LEMMA ContainsIsComesFrom ==
  ASSUME IInv, NEW r \in Resources, NEW block \in 0..(Word - 1), NEW n \in 0..(Word - 1),
         block + n < Word
  PROVE  Contains(res[r], block, n) <=> ComesFrom(res[r], block, n)
<1> DEFINE p == res[r].ptr
           k == res[r].size
<1>1. p \in Int /\ k \in Int /\ k >= 0 /\ (p = Null <=> k = 0) /\ Word \in Int
  BY FieldTypes, Numbers
<1>2. CASE k = 0
  BY <1>1, <1>2 DEF Contains, ComesFrom
<1>3. CASE k > 0 /\ n = 0
  <2>1. Bytes(block, n) = {}
    BY <1>3, Numbers DEF Bytes
  <2>2. QED
    BY <1>1, <1>3, <2>1 DEF Contains, ComesFrom
<1>4. CASE k > 0 /\ n > 0
  <2>1. p > 0 /\ p + k < Word
    <3>1. p \in Bytes(p, k) /\ p + k - 1 \in Bytes(p, k)
      BY <1>1, <1>4 DEF Bytes
    <3>2. p \in Byte /\ p + k - 1 \in Byte
      BY <3>1 DEF IInv, FieldsAreBytes
    <3>3. QED
      BY <1>1, <3>2, Numbers
  <2>2. Adjusted(p, k) = p + k
    <3>1. p + k \in Nat /\ p + k < Word
      BY <1>1, <1>4, <2>1
    <3>2. QED
      BY <1>1, <3>1, SMT DEF Adjusted
  <2>3. Adjusted(block, n) = block + n
    <3>1. block + n \in Nat /\ block + n < Word
      BY <1>1
    <3>2. QED
      BY <1>1, <3>1, SMT DEF Adjusted
  <2>4. Contains(res[r], block, n) <=> block >= p /\ block + n <= p + k
    <3>1. Contains(res[r], block, n) <=> block # 0 /\ block >= p /\ block + n <= p + k
      BY <1>1, <1>4, <2>2, <2>3 DEF Contains, Within, Null
    <3>2. block >= p => block # 0
      BY <1>1, <2>1
    <3>3. QED
      BY <3>1, <3>2
  <2>5. Bytes(block, n) \subseteq Bytes(p, k) <=> block >= p /\ block + n <= p + k
    <3>1. block \in Bytes(block, n) /\ block + n - 1 \in Bytes(block, n)
      BY <1>1, <1>4 DEF Bytes
    <3>2. ASSUME Bytes(block, n) \subseteq Bytes(p, k)
          PROVE  block >= p /\ block + n <= p + k
      <4>1. block \in Bytes(p, k) /\ block + n - 1 \in Bytes(p, k)
        BY <3>1, <3>2
      <4>2. QED
        BY <1>1, <1>4, <4>1 DEF Bytes
    <3>3. ASSUME block >= p, block + n <= p + k
          PROVE  Bytes(block, n) \subseteq Bytes(p, k)
      BY <1>1, <1>4, <3>3 DEF Bytes
    <3>4. QED
      BY <3>2, <3>3
  <2>6. QED
    BY <1>4, <2>4, <2>5 DEF ComesFrom
<1>5. n = 0 \/ n > 0
  BY <1>1
<1>6. k = 0 \/ k > 0
  BY <1>1
<1>7. QED
  BY <1>2, <1>3, <1>4, <1>5, <1>6

(***************************************************************************)
(* contains() is exact for every block that ends inside the address space. *)
(***************************************************************************)
THEOREM ContainsAnswersRight == Spec => []ContainsIsExact
<1>1. IInv => ContainsIsExact
  BY ContainsIsComesFrom DEF ContainsIsExact
<1>2. QED
  BY <1>1, Invariance, PTL

(***************************************************************************)
(* An assignment copies the source's bytes, if the source is not a view of *)
(* the target's own block: the run that admits such views violates this.   *)
(***************************************************************************)
THEOREM CopiesAreFaithful ==
  ASSUME ~Aliasing
  PROVE  Spec => CopyIsFaithful
<1>1. IInv => \A s, r \in Resources : (\E p \in Byte \cup {Null} : Copy(s, r, p)) =>
                Content(res[s])' = Content(res[r])
  BY CopiedIsTheSource
<1>2. IInv /\ [Next]_vars =>
        [\A s, r \in Resources : (\E p \in Byte \cup {Null} : Copy(s, r, p)) =>
           Content(res[s])' = Content(res[r])]_vars
  BY <1>1
<1>3. QED
  BY <1>2, Invariance, PTL DEF Spec, CopyIsFaithful
=============================================================================
