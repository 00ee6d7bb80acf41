---------------------------- MODULE DebugHeapProofs ----------------------------
(***************************************************************************)
(* What the deallocation of a debug block reports, for arenas of any size, *)
(* any sizes that fit and alignments, any number of blocks and of stray    *)
(* writes.                                                                 *)
(***************************************************************************)
EXTENDS DebugHeapInvariant, DebugBlockProofs

(***************************************************************************)
(* Multiples.                                                              *)
(***************************************************************************)
LEMMA SumOfMultiples ==
  ASSUME NEW a \in Nat \ {0}, NEW x \in Int, NEW y \in Int, x % a = 0, y % a = 0
  PROVE  (x + y) % a = 0
<1>1. x \div a \in Int /\ y \div a \in Int /\ x = a * (x \div a) /\ y = a * (y \div a)
  BY SMT
<1>2. \A k \in Int : (a * k) % a = 0
  BY SMT
<1>3. x + y = a * (x \div a + y \div a)
  BY <1>1, SMT
<1>4. QED
  BY <1>1, <1>2, <1>3

LEMMA MultipleOfMultiple ==
  ASSUME NEW a \in Nat \ {0}, NEW b \in Nat \ {0}, NEW x \in Int, b % a = 0, x % b = 0
  PROVE  x % a = 0
<1>1. b \div a \in Int /\ x \div b \in Int /\ b = a * (b \div a) /\ x = b * (x \div b)
  BY SMT
<1>2. \A k \in Int : (a * k) % a = 0
  BY SMT
<1>3. x = a * ((b \div a) * (x \div b))
  BY <1>1, SMT
<1>4. (b \div a) * (x \div b) \in Int
  BY <1>1
<1>5. QED
  BY <1>2, <1>3, <1>4

(***************************************************************************)
(* The layout of a block of n bytes with alignment a.                      *)
(***************************************************************************)
LEMMA Alignment ==
  ASSUME NEW a \in Aligns
  PROVE  /\ EffectiveAlign(a) \in Alignments /\ EffectiveAlign(a) \in Nat \ {0}
         /\ a # 0 => a \in Nat \ {0} /\ EffectiveAlign(a) % a = 0
<1>1. a \in Alignments \/ a = 0
  BY DebugHeapAssumption
<1>2. DefaultAlign \in Alignments /\ DefaultAlign \in Nat \ {0}
  BY DebugBlockAssumption, PowersOfTwo
<1>3. CASE a = 0
  BY <1>2, <1>3, PowersOfTwo DEF EffectiveAlign
<1>4. CASE a \in Alignments
  <2>1. a \in Nat \ {0}
    BY <1>4, PowersOfTwo
  <2>2. CASE a >= DefaultAlign
    BY <1>2, <1>4, <2>1, <2>2, PowersOfTwo DEF EffectiveAlign
  <2>3. CASE ~(a >= DefaultAlign)
    BY <1>2, <1>4, <2>1, <2>3, PowersOfTwo DEF EffectiveAlign
  <2>4. QED
    BY <2>2, <2>3
<1>5. QED
  BY <1>1, <1>3, <1>4

LEMMA Layout ==
  ASSUME SizesFit, NEW n \in Sizes, NEW a \in Aligns
  PROVE  LET e == EffectiveAlign(a)
             s == UserSize(n, a)
             U == UserBlock(e)
             b == BlockSize(s, e)
         IN  /\ n \in Nat /\ s \in Nat /\ s >= n /\ s < Word
             /\ U \in Nat /\ U >= 2 /\ U % e = 0
             /\ b \in Nat /\ b < Word /\ b >= U + s + 1
             /\ UnderrunSentinel(e) = U - 1 /\ OverrunSentinel(s, e) = U + s
             /\ HeaderPaddingSize(e) = U - 2
             /\ BlockPadding(s, e) = U + s + 1
             /\ BlockPaddingSize(b, s, e) = b - (U + s + 1)
<1> DEFINE e == EffectiveAlign(a)
           s == UserSize(n, a)
           U == UserBlock(e)
           b == BlockSize(s, e)
<1>1. /\ e \in Nat \ {0} /\ n \in Nat /\ n < Word /\ Word \in Nat
      /\ n + e - 1 < Word /\ Fits(s, e) /\ HeaderSize = 1 /\ SentinelSize = 1
  <2>1. Sizes \subseteq 0..(Word - 1) /\ HeaderSize = 1 /\ SentinelSize = 1
    BY DebugHeapAssumption
  <2>2. QED
    BY <2>1, Alignment, WordIsLarge DEF SizesFit
<1>2. s \in Nat /\ s >= n
  BY <1>1, AlignRoundsUp DEF UserSize
<1>3. Tiles(s, e)
  BY <1>1, <1>2, FittingBlocksAreTiled
<1>4. s < Word
  BY <1>1, <1>2 DEF Fits
<1>5. U \in Nat /\ U % e = 0 /\ U >= 2
  <2>1. 1 + 1 + e - 1 < Word
    BY <1>1, <1>2 DEF Fits
  <2>2. UserBlock(e) = AlignValue(2, e)
    BY <1>1 DEF UserBlock
  <2>3. QED
    BY <1>1, <2>1, <2>2, AlignRoundsUp
<1>6. UnderrunSentinel(e) = U - 1 /\ OverrunSentinel(s, e) = U + s
      /\ HeaderPaddingSize(e) = U - 2
  BY <1>1, <1>3, <1>5 DEF Tiles, UnderrunSentinel, HeaderPaddingSize
<1>7. b \in Nat /\ b < Word
  <2>1. s + 1 \in Nat /\ s + 1 < Word /\ (s + 1) + e - 1 < Word
    BY <1>1, <1>2 DEF Fits
  <2>2. AlignValue((s + SentinelSize) % Word, e) \in Int
    <3>1. (s + SentinelSize) % Word = s + 1
      BY <1>1, <2>1, NoWrap
    <3>2. AlignValue(s + 1, e) \in Nat
      BY <1>1, <2>1, AlignRoundsUp
    <3>3. QED
      BY <3>1, <3>2
  <2>3. \A v \in Int : (U + v) % Word \in Nat /\ (U + v) % Word < Word
    BY <1>5, WordIsLarge, SMT
  <2>4. QED
    BY <2>2, <2>3 DEF BlockSize
<1>8. /\ BlockPaddingSize(b, s, e) \in Nat
      /\ U + s + 1 + BlockPaddingSize(b, s, e) = b
  <2>1. /\ BlockPaddingSize(BlockSize(s, e), s, e) \in 0..(e - 1)
        /\ OverrunSentinel(s, e) + SentinelSize + BlockPaddingSize(BlockSize(s, e), s, e)
             = BlockSize(s, e)
    BY <1>3 DEF Tiles
  <2>2. QED
    BY <1>1, <1>6, <2>1
<1>9. b >= U + s + 1 /\ BlockPaddingSize(b, s, e) = b - (U + s + 1)
  <2> HIDE DEF b, U, s, e
  <2>1. QED
    BY <1>2, <1>5, <1>7, <1>8
<1>10. BlockPadding(s, e) = U + s + 1
  <2>1. BlockPadding(s, e) = (U + s + 1) % Word
    BY <1>1, <1>6 DEF BlockPadding
  <2> HIDE DEF b, U, s, e
  <2>2. U + s + 1 \in Nat /\ U + s + 1 < Word
    BY <1>2, <1>5, <1>7, <1>9, WordIsLarge
  <2>3. QED
    BY <2>1, <2>2, NoWrap
<1>11. QED
  BY <1>1, <1>2, <1>4, <1>5, <1>6, <1>7, <1>9, <1>10

LEMMA WithinBlock ==
  ASSUME NEW p \in Int, NEW n \in Nat, NEW s \in Nat, s >= n,
         NEW U \in Nat, U >= 2, NEW b \in Nat, b >= U + s + 1
  PROVE  LET C == (p - U)..(p - U + b - 1)
         IN  /\ p - U \in C /\ p - 1 \in C /\ p + s \in C
             /\ p..(p + n - 1) \subseteq C
             /\ p - U < p /\ p + s >= p + n
OBVIOUS

\* The layout of a user block that is live.
LEMMA LiveLayout ==
  ASSUME SizesFit, TypeOK, NEW u \in live
  PROVE  LET e == EffectiveAlign(u.align)
             s == SizeOf(u)
             U == UserBlock(e)
             b == BlockSize(s, e)
         IN  /\ u.ptr \in Int /\ u.size \in Sizes /\ u.align \in Aligns
             /\ e \in Alignments /\ e \in Nat \ {0}
             /\ u.size \in Nat /\ s \in Nat /\ s >= u.size /\ s < Word
             /\ U \in Nat /\ U >= 2 /\ b \in Nat /\ b >= U + s + 1
             /\ StartOf(u) = u.ptr - U
             /\ BlockOf(u).at = u.ptr - U /\ BlockOf(u).size = b
             /\ CellsUnder(u) = (u.ptr - U)..(u.ptr - U + b - 1)
             /\ StartOf(u) \in CellsUnder(u) /\ u.ptr - 1 \in CellsUnder(u)
             /\ u.ptr + s \in CellsUnder(u)
             /\ CellsOf(u.ptr, u.size) \subseteq CellsUnder(u)
             /\ StartOf(u) < u.ptr /\ u.ptr + s >= u.ptr + u.size
<1> DEFINE e == EffectiveAlign(u.align)
           s == SizeOf(u)
           U == UserBlock(e)
           b == BlockSize(s, e)
<1>1. u.ptr \in Int /\ u.size \in Sizes /\ u.align \in Aligns
  BY DEF TypeOK, Arena
<1>2. /\ e \in Alignments /\ e \in Nat \ {0}
      /\ u.size \in Nat /\ s \in Nat /\ s >= u.size /\ s < Word
      /\ U \in Nat /\ U >= 2 /\ b \in Nat /\ b >= U + s + 1
  BY <1>1, Alignment, Layout DEF SizeOf
<1>3. /\ StartOf(u) = u.ptr - U
      /\ BlockOf(u).at = u.ptr - U /\ BlockOf(u).size = b
      /\ CellsUnder(u) = (u.ptr - U)..(u.ptr - U + b - 1)
  BY DEF StartOf, BlockOf, CellsUnder, CellsOf
<1> HIDE DEF e, s, U, b
<1>4. /\ StartOf(u) \in CellsUnder(u) /\ u.ptr - 1 \in CellsUnder(u)
      /\ u.ptr + s \in CellsUnder(u)
      /\ CellsOf(u.ptr, u.size) \subseteq CellsUnder(u)
      /\ StartOf(u) < u.ptr /\ u.ptr + s >= u.ptr + u.size
  <2> DEFINE C == (u.ptr - U)..(u.ptr - U + b - 1)
  <2>1. /\ u.ptr - U \in C /\ u.ptr - 1 \in C /\ u.ptr + s \in C
        /\ u.ptr..(u.ptr + u.size - 1) \subseteq C
        /\ u.ptr - U < u.ptr /\ u.ptr + s >= u.ptr + u.size
    BY <1>1, <1>2, WithinBlock
  <2> HIDE DEF C
  <2>2. CellsUnder(u) = C /\ StartOf(u) = u.ptr - U
    BY <1>3 DEF C
  <2>3. QED
    BY <2>1, <2>2 DEF CellsOf
<1>5. QED
  BY <1>1, <1>2, <1>3, <1>4 DEF e, s, U, b

\* Two user blocks with the same address are the same.
LEMMA PointersApart ==
  ASSUME SizesFit, TypeOK, LiveApart, NEW u \in live, NEW v \in live, u.ptr = v.ptr
  PROVE  u = v
<1>1. u.ptr - 1 \in CellsUnder(u) /\ v.ptr - 1 \in CellsUnder(v)
  BY LiveLayout
<1>2. QED
  BY <1>1 DEF LiveApart

(***************************************************************************)
(* Contents by kind.                                                       *)
(***************************************************************************)
LEMMA Kinds ==
  /\ \A h : Header(h).holds = "header" /\ Header(h).header = h
  /\ Sentinel.holds = "sentinel" /\ Fill.holds = "fill" /\ Data.holds = "data"
  /\ Data # Sentinel /\ \A h : Header(h) # Sentinel /\ Header(h) # Data
  /\ Sentinel \in Contents /\ Fill \in Contents /\ Data \in Contents
  /\ \A h \in Headers : Header(h) \in Contents
BY DEF Header, Sentinel, Fill, Data, Contents

LEMMA ReadHeader ==
  ASSUME NEW x \in Contents, x.holds = "header"
  PROVE  x.header \in Headers /\ x = Header(x.header)
BY DEF Header, Sentinel, Fill, Data, Contents

\* A header as it is prepared, and marked.
LEMMA HeadersMade ==
  ASSUME NEW s \in 0..(Word - 1), NEW e \in Alignments
  PROVE  /\ [size |-> s, align |-> e, state |-> "allocated"] \in Headers
         /\ [size |-> s, align |-> e, state |-> "deallocated"] \in Headers
BY DEF Headers, States

LEMMA MarkedHeader ==
  ASSUME NEW h \in Headers
  PROVE  Marked(h) \in Headers /\ Marked(h).state = "deallocated"
BY DEF Headers, States, Marked

LEMMA DamageKinds ==
  ASSUME NEW u
  PROVE  /\ Damage(u) \subseteq Parts
         /\ "header" \in Damage(u) <=> StartOf(u) \in stray
         /\ "underrun" \in Damage(u) <=> u.ptr - 1 \in stray
         /\ "overrun" \in Damage(u) <=> u.ptr + SizeOf(u) \in stray
<1>1. SentinelSize = 1
  BY DebugHeapAssumption
<1>2. "header" \in Parts /\ "underrun" \in Parts /\ "overrun" \in Parts
  BY DEF Parts
<1>3. QED
  BY <1>1, <1>2 DEF Damage, StartOf, SizeOf

LEMMA InitInv == Init => IInv
<1> SUFFICES ASSUME Init PROVE IInv
  OBVIOUS
<1>1. TypeOK
  BY Kinds DEF Init, TypeOK
<1>2. BlockHoldsRequest /\ BlocksOfLive /\ LiveInArena /\ LiveApart /\ MetadataKept
  BY DEF Init, BlockHoldsRequest, BlocksOfLive, LiveInArena, LiveApart, MetadataKept
<1>3. AllocatedAreLive
  BY Kinds DEF Init, AllocatedAreLive
<1>4. LastReport
  BY DEF Init, LastReport, NoFalseAlarm, DamageReported, MismatchReported,
         DoubleFreeReported, RightCallsAreExact
<1>5. QED
  BY <1>1, <1>2, <1>3, <1>4 DEF IInv

(***************************************************************************)
(* Steps that report nothing.                                              *)
(***************************************************************************)
LEMMA NoReport ==
  ASSUME last' = NoCall
  PROVE  LastReport'
BY DEF LastReport, NoFalseAlarm, DamageReported, MismatchReported,
       DoubleFreeReported, RightCallsAreExact

\* _Prepare_block writes the metadata and nothing outside of the block.
LEMMA PreparedBlock ==
  ASSUME SizesFit, NEW n \in Sizes, NEW a \in Aligns, NEW at \in Int,
         memory \in [Arena -> Contents],
         CellsOf(at, BlockSize(UserSize(n, a), EffectiveAlign(a))) \subseteq Arena
  PROVE  LET e == EffectiveAlign(a)
             s == UserSize(n, a)
             U == UserBlock(e)
             b == BlockSize(s, e)
             H == Header([size |-> s, align |-> e, state |-> "allocated"])
             M == Prepared(at, b, s, e)
         IN  /\ M \in [Arena -> Contents]
             /\ M[at] = H /\ M[at + U - 1] = Sentinel /\ M[at + U + s] = Sentinel
             /\ \A c \in Arena \ CellsOf(at, b) : M[c] = memory[c]
             /\ \A c \in Arena \ {at} : M[c] \in {Sentinel, Fill, memory[c]}
             /\ at \in CellsOf(at, b) /\ at + U \in CellsOf(at, b)
             /\ at + U - 1 \in CellsOf(at, b) /\ at + U + s \in CellsOf(at, b)
<1> DEFINE e == EffectiveAlign(a)
           s == UserSize(n, a)
           U == UserBlock(e)
           b == BlockSize(s, e)
           H == Header([size |-> s, align |-> e, state |-> "allocated"])
           M == Prepared(at, b, s, e)
           Pad == CellsOf(at + 1, U - 2) \cup CellsOf(at + (U + s + 1), b - (U + s + 1))
           Guards == {at + (U - 1), at + (U + s)}
<1>1. /\ n \in Nat /\ s \in Nat /\ s < Word
      /\ U \in Nat /\ U >= 2 /\ b \in Nat /\ b >= U + s + 1
      /\ UnderrunSentinel(e) = U - 1 /\ OverrunSentinel(s, e) = U + s
      /\ HeaderPaddingSize(e) = U - 2
      /\ BlockPadding(s, e) = U + s + 1
      /\ BlockPaddingSize(b, s, e) = b - (U + s + 1)
  BY Layout
<1>2. H \in Contents
  <2>1. s \in 0..(Word - 1) /\ e \in Alignments
    BY <1>1, Alignment, WordIsLarge
  <2> HIDE DEF s, e
  <2>2. QED
    BY <2>1, HeadersMade, Kinds
<1>3. M = [c \in Arena |-> IF c = at THEN H ELSE IF c \in Guards THEN Sentinel
                           ELSE IF c \in Pad THEN Fill ELSE memory[c]]
  BY <1>1, DebugHeapAssumption DEF Prepared
<1> HIDE DEF e, s, U, b, H, M
<1>4. M \in [Arena -> Contents]
  BY <1>2, <1>3, Kinds
<1>5. /\ at \in CellsOf(at, b) /\ at + U \in CellsOf(at, b)
      /\ at + U - 1 \in CellsOf(at, b) /\ at + U + s \in CellsOf(at, b)
  BY <1>1 DEF CellsOf
<1>6. CellsOf(at, b) \subseteq Arena
  BY DEF b, s, e
<1>7. /\ at + U - 1 # at /\ at + U + s # at
      /\ at + U - 1 \in Guards /\ at + U + s \in Guards
  <2>1. at + (U - 1) = at + U - 1 /\ at + (U + s) = at + U + s
    BY <1>1
  <2>2. QED
    BY <1>1, <2>1
<1>8. M[at] = H /\ M[at + U - 1] = Sentinel /\ M[at + U + s] = Sentinel
  BY <1>3, <1>5, <1>6, <1>7
<1>9. Guards \subseteq CellsOf(at, b) /\ Pad \subseteq CellsOf(at, b)
  BY <1>1 DEF CellsOf
<1>10. \A c \in Arena \ CellsOf(at, b) : M[c] = memory[c]
  BY <1>3, <1>5, <1>9
<1>11. \A c \in Arena \ {at} : M[c] \in {Sentinel, Fill, memory[c]}
  BY <1>3
<1>12. QED
  BY <1>4, <1>5, <1>8, <1>10, <1>11 DEF e, s, U, b, H, M

LEMMA AllocateKeeps ==
  ASSUME SizesFit, IInv, NEW n \in Sizes, NEW a \in Aligns, Allocate(n, a)
  PROVE  IInv'
<1> DEFINE e == EffectiveAlign(a)
           s == UserSize(n, a)
           U == UserBlock(e)
           b == BlockSize(s, e)
           H == Header([size |-> s, align |-> e, state |-> "allocated"])
<1>1. PICK at \in Arena :
        /\ at % e = 0
        /\ CellsOf(at, b) \subseteq Arena
        /\ \A x \in blocks : CellsOf(at, b) \cap CellsOf(x.at, x.size) = {}
        /\ memory' = Prepared(at, b, s, e)
        /\ blocks' = blocks \cup {[at |-> at, size |-> b, align |-> e]}
        /\ live' = live \cup {[ptr |-> at + U, size |-> n, align |-> a]}
        /\ freed' = freed \ {at + U}
        /\ stray' = stray \ CellsOf(at, b)
  BY DEF Allocate
<1>2. last' = NoCall /\ UNCHANGED status
  BY DEF Allocate
<1>3. /\ n \in Nat /\ s \in Nat /\ s >= n /\ s < Word
      /\ U \in Nat /\ U >= 2 /\ U % e = 0 /\ b \in Nat /\ b < Word /\ b >= U + s + 1
  BY Layout
<1>4. /\ e \in Alignments /\ e \in Nat \ {0}
      /\ a # 0 => a \in Nat \ {0} /\ e % a = 0
  BY Alignment
<1>5. TypeOK /\ memory \in [Arena -> Contents] /\ at \in Int
  BY <1>1 DEF IInv, TypeOK, Arena
<1>6. /\ memory' \in [Arena -> Contents]
      /\ memory'[at] = H /\ memory'[at + U - 1] = Sentinel /\ memory'[at + U + s] = Sentinel
      /\ \A c \in Arena \ CellsOf(at, b) : memory'[c] = memory[c]
      /\ \A c \in Arena \ {at} : memory'[c] \in {Sentinel, Fill, memory[c]}
      /\ at \in CellsOf(at, b) /\ at + U \in CellsOf(at, b)
      /\ at + U - 1 \in CellsOf(at, b) /\ at + U + s \in CellsOf(at, b)
  BY <1>1, <1>5, PreparedBlock
<1> DEFINE w == [ptr |-> at + U, size |-> n, align |-> a]
<1>7. /\ w.ptr = at + U /\ w.size = n /\ w.align = a
      /\ SizeOf(w) = s /\ StartOf(w) = at /\ HeaderOf(w) = H
      /\ BlockOf(w) = [at |-> at, size |-> b, align |-> e]
      /\ CellsUnder(w) = CellsOf(at, b)
  <2>1. SizeOf(w) = s
    BY DEF SizeOf
  <2>2. StartOf(w) = (at + U) - U
    BY DEF StartOf
  <2> HIDE DEF U
  <2>3. StartOf(w) = at
    BY <1>3, <1>5, <2>2
  <2>4. QED
    BY <2>1, <2>3 DEF HeaderOf, BlockOf, CellsUnder, U
<1> HIDE DEF w, H, b, U, s, e
<1>8. live' = live \cup {w} /\ blocks' = blocks \cup {BlockOf(w)}
  BY <1>1, <1>7 DEF w, U, b, s, e
<1>9. \A v \in live : CellsUnder(v) \cap CellsOf(at, b) = {}
  BY <1>1 DEF IInv, BlocksOfLive, CellsUnder
<1>10. TypeOK'
  <2>1. \A x \in blocks' : x.at \in Arena /\ x.size \in 0..(Word - 1) /\ x.align \in Alignments
    BY <1>1, <1>3, <1>4, <1>5, <1>7, <1>8, WordIsLarge DEF TypeOK
  <2>2. \A u \in live' : u.ptr \in Arena /\ u.size \in Sizes /\ u.align \in Aligns
    BY <1>1, <1>5, <1>6, <1>7, <1>8 DEF TypeOK
  <2>3. freed' \subseteq Arena /\ stray' \subseteq Arena /\ status' \in {"running", "stopped", "corrupt"}
    BY <1>1, <1>2, <1>5 DEF TypeOK
  <2>4. QED
    BY <1>2, <1>6, <2>1, <2>2, <2>3 DEF TypeOK
<1>11. BlockHoldsRequest'
  <2>1. CellsOf(w.ptr, w.size) \subseteq CellsOf(BlockOf(w).at, BlockOf(w).size)
    <3>1. CellsOf(at + U, n) \subseteq CellsOf(at, b)
      BY <1>3, <1>5 DEF CellsOf
    <3>2. QED
      BY <1>7, <3>1 DEF CellsUnder
  <2>2. w.align = 0 \/ w.ptr % w.align = 0
    <3>1. (at + U) % e = 0
      BY <1>1, <1>3, <1>4, <1>5, SumOfMultiples DEF e
    <3>2. at + U \in Int
      BY <1>3, <1>5
    <3>3. a # 0 => (at + U) % a = 0
      BY <1>4, <3>1, <3>2, MultipleOfMultiple
    <3>4. QED
      BY <1>7, <3>3
  <2>3. BlockOf(w) \in blocks' /\ blocks \subseteq blocks'
    BY <1>8
  <2>4. QED
    BY <1>8, <2>1, <2>2, <2>3 DEF IInv, BlockHoldsRequest
<1>12. BlocksOfLive' /\ LiveInArena'
  BY <1>1, <1>7, <1>8 DEF IInv, BlocksOfLive, LiveInArena, b, s, e
<1>13. LiveApart'
  BY <1>7, <1>8, <1>9 DEF IInv, LiveApart
<1>14. MetadataKept'
  <2>1. ASSUME NEW v \in live
        PROVE  /\ Holds(StartOf(v), HeaderOf(v))'
               /\ Holds(v.ptr - 1, Sentinel)'
               /\ Holds(v.ptr + SizeOf(v), Sentinel)'
    <3>1. /\ StartOf(v) \in CellsUnder(v) /\ v.ptr - 1 \in CellsUnder(v)
          /\ v.ptr + SizeOf(v) \in CellsUnder(v)
      BY <1>5, LiveLayout
    <3>2. ASSUME NEW c \in CellsUnder(v)
          PROVE  memory'[c] = memory[c] /\ (c \in stray' <=> c \in stray)
      <4>1. c \in Arena \ CellsOf(at, b)
        BY <1>9, <3>2 DEF IInv, LiveInArena
      <4>2. stray' = stray \ CellsOf(at, b)
        BY <1>1 DEF b, s, e
      <4>3. QED
        BY <1>6, <4>1, <4>2
    <3>3. QED
      BY <3>1, <3>2 DEF IInv, MetadataKept, Holds
  <2>2. /\ Holds(StartOf(w), HeaderOf(w))'
        /\ Holds(w.ptr - 1, Sentinel)'
        /\ Holds(w.ptr + SizeOf(w), Sentinel)'
    <3>1. stray' = stray \ CellsOf(at, b)
      BY <1>1 DEF b, s, e
    <3>2. (at + U) - 1 = at + U - 1
      BY <1>3, <1>5
    <3>3. QED
      BY <1>6, <1>7, <3>1, <3>2 DEF Holds
  <2>3. QED
    BY <1>8, <2>1, <2>2 DEF MetadataKept
<1>15. AllocatedAreLive'
  <2>1. ASSUME NEW c \in Arena, memory'[c].holds = "header",
               memory'[c].header.state = "allocated"
        PROVE  \E u \in live' : c = StartOf(u) /\ memory'[c] = HeaderOf(u)
    <3>1. CASE c = at
      BY <1>6, <1>7, <1>8, <3>1
    <3>2. CASE c # at
      <4>1. memory'[c] = memory[c]
        BY <1>6, <2>1, <3>2, Kinds
      <4>2. QED
        BY <1>8, <2>1, <4>1 DEF IInv, AllocatedAreLive
    <3>3. QED
      BY <3>1, <3>2
  <2>2. QED
    BY <2>1 DEF AllocatedAreLive
<1>16. LastReport'
  BY <1>2, NoReport
<1>17. QED
  BY <1>10, <1>11, <1>12, <1>13, <1>14, <1>15, <1>16 DEF IInv

\* Blocks stay as they are, and the cells of metadata hold what they held or
\* have been strayed into.
LEMMA WrittenKeeps ==
  ASSUME SizesFit, IInv, UNCHANGED <<blocks, live, freed, status>>, last' = NoCall,
         NEW W, memory' = [c \in Arena |-> IF c \in W THEN Data ELSE memory[c]],
         stray \subseteq stray', stray' \subseteq Arena,
         stray' \ stray \subseteq W,
         \A u \in live : \A c \in {StartOf(u), u.ptr - 1, u.ptr + SizeOf(u)} :
           c \in W => c \in stray'
  PROVE  IInv'
<1>1. TypeOK'
  BY Kinds DEF IInv, TypeOK
<1>2. BlockHoldsRequest' /\ BlocksOfLive' /\ LiveInArena' /\ LiveApart'
  BY DEF IInv, BlockHoldsRequest, BlocksOfLive, LiveInArena, LiveApart
<1>3. MetadataKept'
  <2>1. ASSUME NEW u \in live, NEW c \in {StartOf(u), u.ptr - 1, u.ptr + SizeOf(u)},
               NEW x, Holds(c, x)
        PROVE  Holds(c, x)'
    <3>1. c \in CellsUnder(u)
      BY LiveLayout DEF IInv
    <3>2. c \in Arena
      BY <3>1 DEF IInv, LiveInArena
    <3>3. QED
      BY <2>1, <3>2 DEF Holds
  <2>2. ASSUME NEW u \in live
        PROVE  /\ Holds(StartOf(u), HeaderOf(u))'
               /\ Holds(u.ptr - 1, Sentinel)'
               /\ Holds(u.ptr + SizeOf(u), Sentinel)'
    <3>1. /\ Holds(StartOf(u), HeaderOf(u)) /\ Holds(u.ptr - 1, Sentinel)
          /\ Holds(u.ptr + SizeOf(u), Sentinel)
      BY DEF IInv, MetadataKept
    <3>2. QED
      BY <2>1, <3>1
  <2>3. QED
    BY <2>2 DEF MetadataKept
<1>4. AllocatedAreLive'
  BY Kinds DEF IInv, AllocatedAreLive
<1>5. LastReport'
  BY NoReport
<1>6. QED
  BY <1>1, <1>2, <1>3, <1>4, <1>5 DEF IInv

\* What a client writes within its bytes is no metadata.
LEMMA BytesAreNoMetadata ==
  ASSUME SizesFit, IInv, NEW u \in live, NEW v \in live,
         NEW c \in {StartOf(u), u.ptr - 1, u.ptr + SizeOf(u)}
  PROVE  c \notin CellsOf(v.ptr, v.size)
<1>1. TypeOK
  BY DEF IInv
<1>2. /\ u.ptr \in Int /\ u.size \in Nat /\ SizeOf(u) \in Nat /\ SizeOf(u) >= u.size
      /\ StartOf(u) \in CellsUnder(u) /\ u.ptr - 1 \in CellsUnder(u)
      /\ u.ptr + SizeOf(u) \in CellsUnder(u) /\ StartOf(u) < u.ptr
      /\ CellsOf(v.ptr, v.size) \subseteq CellsUnder(v)
  BY <1>1, LiveLayout
<1>3. CASE u = v
  BY <1>2, <1>3 DEF CellsOf
<1>4. CASE u # v
  BY <1>2, <1>4 DEF IInv, LiveApart
<1>5. QED
  BY <1>3, <1>4

LEMMA UseKeeps ==
  ASSUME SizesFit, IInv, NEW v \in live, Use(v)
  PROVE  IInv'
<1> DEFINE W == CellsOf(v.ptr, v.size)
<1>1. /\ UNCHANGED <<blocks, live, freed, stray, status>> /\ last' = NoCall
      /\ memory' = [c \in Arena |-> IF c \in W THEN Data ELSE memory[c]]
      /\ stray \subseteq Arena
  BY DEF Use, IInv, TypeOK
<1>2. \A u \in live : \A c \in {StartOf(u), u.ptr - 1, u.ptr + SizeOf(u)} : c \notin W
  BY BytesAreNoMetadata
<1> HIDE DEF W
<1>3. QED
  BY <1>1, <1>2, WrittenKeeps

LEMMA WriteOutsideKeeps ==
  ASSUME SizesFit, IInv, NEW k \in Arena, WriteOutside(k)
  PROVE  IInv'
<1>1. /\ UNCHANGED <<blocks, live, freed, status>> /\ last' = NoCall
      /\ memory' = [memory EXCEPT ![k] = Data] /\ stray' = stray \cup {k}
      /\ stray \subseteq Arena /\ memory \in [Arena -> Contents]
  BY DEF WriteOutside, IInv, TypeOK
<1>2. memory' = [c \in Arena |-> IF c \in {k} THEN Data ELSE memory[c]]
  BY <1>1
<1>3. QED
  BY <1>1, <1>2, WrittenKeeps

(***************************************************************************)
(* Deallocation.                                                           *)
(***************************************************************************)
\* A process that has stopped holds nothing.
LEMMA GoneKeeps ==
  ASSUME HeapIsGone, status' \in {"running", "stopped", "corrupt"},
         last' # NoCall => last'.damage \subseteq Parts /\ last'.errors \subseteq Complaints,
         LastReport'
  PROVE  IInv'
<1>1. TypeOK'
  BY Kinds DEF HeapIsGone, TypeOK
<1>2. /\ BlockHoldsRequest' /\ BlocksOfLive' /\ LiveInArena' /\ LiveApart' /\ MetadataKept'
  BY DEF HeapIsGone, BlockHoldsRequest, BlocksOfLive, LiveInArena, LiveApart, MetadataKept
<1>3. AllocatedAreLive'
  BY Kinds DEF HeapIsGone, AllocatedAreLive
<1>4. QED
  BY <1>1, <1>2, <1>3 DEF IInv

\* Operator delete takes back the block of a user block that is live.
LEMMA ReleaseOfLiveKeeps ==
  ASSUME SizesFit, IInv, NEW w \in live, NEW x, x \in {Data} \cup {Header(h) : h \in Headers},
         x.holds = "header" => x.header.state = "deallocated",
         memory' = [memory EXCEPT ![StartOf(w)] = x],
         blocks' = blocks \ {BlockOf(w)},
         live' = live \ {w},
         freed' = freed \cup {w.ptr},
         UNCHANGED <<stray, status>>,
         last' # NoCall => last'.damage \subseteq Parts /\ last'.errors \subseteq Complaints,
         LastReport'
  PROVE  IInv'
<1>1. TypeOK
  BY DEF IInv
<1>2. \A u \in live : /\ StartOf(u) \in CellsUnder(u) /\ u.ptr - 1 \in CellsUnder(u)
                      /\ u.ptr + SizeOf(u) \in CellsUnder(u)
                      /\ CellsUnder(u) \subseteq Arena
                      /\ u # w => CellsUnder(u) \cap CellsUnder(w) = {}
  BY <1>1, LiveLayout DEF IInv, LiveInArena, LiveApart
<1>3. x \in Contents
  BY Kinds
<1>4. /\ memory' \in [Arena -> Contents] /\ memory'[StartOf(w)] = x
      /\ \A c \in Arena \ {StartOf(w)} : memory'[c] = memory[c]
  BY <1>1, <1>2, <1>3 DEF TypeOK
<1>5. TypeOK'
  BY <1>1, <1>4 DEF TypeOK
<1>6. \A u \in live \ {w} : BlockOf(u) # BlockOf(w)
  BY <1>2 DEF CellsUnder
<1>7. BlocksOfLive'
  BY <1>6 DEF IInv, BlocksOfLive
<1>8. LiveInArena' /\ LiveApart'
  BY DEF IInv, LiveInArena, LiveApart
<1>9. BlockHoldsRequest'
  <2>1. ASSUME NEW u \in live \ {w}
        PROVE  \E y \in blocks' : CellsOf(u.ptr, u.size) \subseteq CellsOf(y.at, y.size)
    <3>1. BlockOf(u) \in blocks'
      BY <1>6 DEF IInv, BlocksOfLive
    <3>2. CellsOf(u.ptr, u.size) \subseteq CellsOf(BlockOf(u).at, BlockOf(u).size)
      BY <1>1, LiveLayout DEF CellsUnder
    <3>3. QED
      BY <3>1, <3>2
  <2>2. QED
    BY <2>1 DEF IInv, BlockHoldsRequest
<1>10. MetadataKept'
  <2>1. ASSUME NEW u \in live \ {w}, NEW c \in CellsUnder(u)
        PROVE  memory'[c] = memory[c]
    BY <1>2, <1>4, <2>1
  <2>2. ASSUME NEW u \in live \ {w}
        PROVE  /\ Holds(StartOf(u), HeaderOf(u))'
               /\ Holds(u.ptr - 1, Sentinel)'
               /\ Holds(u.ptr + SizeOf(u), Sentinel)'
    BY <1>2, <2>1 DEF IInv, MetadataKept, Holds
  <2>3. QED
    BY <2>2 DEF MetadataKept
<1>11. AllocatedAreLive'
  <2>1. ASSUME NEW c \in Arena, memory'[c].holds = "header",
               memory'[c].header.state = "allocated"
        PROVE  \E u \in live' : c = StartOf(u) /\ memory'[c] = HeaderOf(u)
    <3>1. c # StartOf(w)
      BY <1>4, <2>1
    <3>2. memory'[c] = memory[c]
      BY <1>4, <3>1
    <3>3. PICK u \in live : c = StartOf(u) /\ memory[c] = HeaderOf(u)
      BY <2>1, <3>2 DEF IInv, AllocatedAreLive
    <3>4. u # w
      BY <3>1, <3>3
    <3>5. QED
      BY <3>2, <3>3, <3>4
  <2>2. QED
    BY <2>1 DEF AllocatedAreLive
<1>12. QED
  BY <1>5, <1>7, <1>8, <1>9, <1>10, <1>11 DEF IInv

\* The complaints of a deallocation, one by one.
LEMMA ErrorKinds ==
  ASSUME NEW h, NEW at, NEW s, NEW e
  PROVE  LET errors == ArgumentErrors(h, s, e) \cup StateErrors(h) \cup SentinelErrors(at, s, e)
         IN  /\ errors \subseteq Complaints
             /\ "size" \in errors <=> h.size # s
             /\ "align" \in errors <=> h.align # e
             /\ "state" \in errors <=> h.state # "allocated"
             /\ "underrun" \in errors <=> ~IsOriginal(at + UnderrunSentinel(e))
             /\ "overrun" \in errors <=> ~IsOriginal(at + OverrunSentinel(s, e))
BY DEF ArgumentErrors, StateErrors, SentinelErrors, Complaints

\* What is read as the header.
LEMMA HeaderRead ==
  ASSUME NEW at \in Arena, NEW s \in Nat, s < Word, NEW e \in Alignments,
         memory \in [Arena -> Contents], NEW h \in HeadersAt(at, s, e)
  PROVE  /\ h \in Headers
         /\ memory[at].holds = "header" => memory[at] = Header(h)
<1>1. memory[at] \in Contents
  OBVIOUS
<1>2. CASE memory[at].holds = "header"
  BY <1>1, <1>2, ReadHeader DEF HeadersAt
<1>3. CASE memory[at].holds # "header"
  <2>1. s \in 0..(Word - 1) /\ (s + 1) % Word \in 0..(Word - 1)
    <3>1. \A W \in Nat, v \in Nat : W > 0 => v % W \in 0..(W - 1)
      BY SMT
    <3>2. QED
      BY <3>1, WordIsLarge
  <2>2. \/ h = [size |-> s, align |-> e, state |-> "allocated"]
        \/ h = [size |-> (s + 1) % Word, align |-> e, state |-> "deallocated"]
    BY <1>3 DEF HeadersAt
  <2>3. QED
    BY <1>3, <2>1, <2>2, HeadersMade
<1>4. QED
  BY <1>2, <1>3

\* The owner of a pointer: nobody, or one user block.
LEMMA OneOwner ==
  ASSUME SizesFit, IInv, NEW p, NEW w \in live, w.ptr = p
  PROVE  {u \in live : u.ptr = p} = {w}
BY PointersApart DEF IInv

\* A deallocation with the arguments of the allocation, of user block w.
LEMMA RightCall ==
  ASSUME SizesFit, IInv, NEW n \in Sizes, NEW a \in Aligns, NEW w \in live,
         SizeOf(w) = UserSize(n, a), EffectiveAlign(w.align) = EffectiveAlign(a),
         NEW h \in HeadersAt(StartOf(w), UserSize(n, a), EffectiveAlign(a))
  PROVE  LET e == EffectiveAlign(a)
             s == UserSize(n, a)
             at == StartOf(w)
             errors == ArgumentErrors(h, s, e) \cup StateErrors(h) \cup SentinelErrors(at, s, e)
         IN  /\ Damage(w) \subseteq {"slack"} => errors = {}
             /\ Damage(w) \cap {"underrun", "overrun"} = errors \cap {"underrun", "overrun"}
             /\ Released(at, n, e) = BlockOf(w)
<1> DEFINE e == EffectiveAlign(a)
           s == UserSize(n, a)
           at == StartOf(w)
           errors == ArgumentErrors(h, s, e) \cup StateErrors(h) \cup SentinelErrors(at, s, e)
<1>1. TypeOK /\ memory \in [Arena -> Contents]
  BY DEF IInv, TypeOK
<1>2. /\ w.ptr \in Int /\ s \in Nat /\ s < Word /\ e \in Alignments
      /\ UserBlock(e) \in Nat /\ at = w.ptr - UserBlock(e)
      /\ at \in CellsUnder(w) /\ w.ptr - 1 \in CellsUnder(w) /\ w.ptr + s \in CellsUnder(w)
  BY <1>1, LiveLayout
<1>3. CellsUnder(w) \subseteq Arena
  BY DEF IInv, LiveInArena
<1>4. UnderrunSentinel(e) = UserBlock(e) - 1 /\ OverrunSentinel(s, e) = UserBlock(e) + s
  BY Layout
<1>5. Released(at, n, e) = BlockOf(w)
  BY DEF Released, BlockOf, UserSize
<1>6. HeaderOf(w) = Header([size |-> s, align |-> e, state |-> "allocated"])
  BY DEF HeaderOf
<1>7. h \in HeadersAt(at, s, e) /\ SizeOf(w) = s
  OBVIOUS
<1>8. /\ errors \subseteq Complaints
      /\ "size" \in errors <=> h.size # s
      /\ "align" \in errors <=> h.align # e
      /\ "state" \in errors <=> h.state # "allocated"
      /\ "underrun" \in errors <=> ~IsOriginal(at + UnderrunSentinel(e))
      /\ "overrun" \in errors <=> ~IsOriginal(at + OverrunSentinel(s, e))
  BY ErrorKinds
<1> HIDE DEF e, s, at, errors
<1>9. at + UnderrunSentinel(e) = w.ptr - 1 /\ at + OverrunSentinel(s, e) = w.ptr + s
  BY <1>2, <1>4
<1>10. /\ Holds(at, HeaderOf(w)) /\ Holds(w.ptr - 1, Sentinel) /\ Holds(w.ptr + s, Sentinel)
  BY <1>7 DEF IInv, MetadataKept, at
<1>11. /\ w.ptr - 1 \in stray <=> ~IsOriginal(w.ptr - 1)
       /\ w.ptr + s \in stray <=> ~IsOriginal(w.ptr + s)
  BY <1>2, <1>3, <1>10, Kinds DEF Holds, IsOriginal
<1>12. /\ Damage(w) \subseteq Parts
       /\ "header" \in Damage(w) <=> at \in stray
       /\ "underrun" \in Damage(w) <=> w.ptr - 1 \in stray
       /\ "overrun" \in Damage(w) <=> w.ptr + s \in stray
  BY <1>7, DamageKinds DEF at
<1>13. Damage(w) \cap {"underrun", "overrun"} = errors \cap {"underrun", "overrun"}
  BY <1>8, <1>9, <1>11, <1>12
<1>14. Damage(w) \subseteq {"slack"} => errors = {}
  <2>1. SUFFICES ASSUME Damage(w) \subseteq {"slack"}
                 PROVE  errors = {}
    OBVIOUS
  <2>2. at \notin stray /\ "underrun" \notin errors /\ "overrun" \notin errors
    BY <1>12, <1>13, <2>1
  <2>3. h = [size |-> s, align |-> e, state |-> "allocated"]
    <3>1. memory[at] = Header([size |-> s, align |-> e, state |-> "allocated"])
      BY <1>6, <1>10, <2>2 DEF Holds
    <3>2. QED
      BY <1>7, <3>1, Kinds DEF HeadersAt
  <2>4. "size" \notin errors /\ "align" \notin errors /\ "state" \notin errors
    BY <1>8, <2>3
  <2>5. QED
    BY <1>8, <2>2, <2>4 DEF Complaints
<1>15. QED
  BY <1>5, <1>13, <1>14 DEF e, s, at, errors

\* A header that is intact, has the alignment of the call and says "allocated" is
\* that of a block whose user block is the pointer that was named; if it has the
\* size of the call, too, that block is what goes to operator delete.
LEMMA PassedCall ==
  ASSUME SizesFit, IInv, NEW p \in Arena, NEW n \in Sizes, NEW a \in Aligns,
         p - UserBlock(EffectiveAlign(a)) \in Arena,
         memory[p - UserBlock(EffectiveAlign(a))].holds = "header",
         NEW h \in HeadersAt(p - UserBlock(EffectiveAlign(a)), UserSize(n, a), EffectiveAlign(a)),
         h.align = EffectiveAlign(a), h.state = "allocated"
  PROVE  \E v \in live :
           /\ v.ptr = p
           /\ h.size = UserSize(n, a) =>
                Released(p - UserBlock(EffectiveAlign(a)), n, EffectiveAlign(a)) = BlockOf(v)
<1> DEFINE e == EffectiveAlign(a)
           at == p - UserBlock(e)
<1>1. memory[at].header = h
  BY DEF HeadersAt
<1>2. PICK v \in live : at = StartOf(v) /\ memory[at] = HeaderOf(v)
  BY <1>1 DEF IInv, AllocatedAreLive
<1>3. EffectiveAlign(v.align) = e /\ SizeOf(v) = h.size
  BY <1>1, <1>2, Kinds DEF HeaderOf
<1> DEFINE block == Released(at, n, e)
<1>4. ASSUME h.size = UserSize(n, a) PROVE block = BlockOf(v)
  BY <1>2, <1>3, <1>4 DEF Released, BlockOf, UserSize
<1>5. p \in Int /\ v.ptr \in Int /\ UserBlock(e) \in Nat
  BY Layout, LiveLayout DEF Arena, IInv
<1>6. v.ptr - UserBlock(e) = p - UserBlock(e)
  BY <1>2, <1>3 DEF StartOf
<1> HIDE DEF e, at, block
<1>7. v.ptr = p
  BY <1>5, <1>6
<1>8. QED
  BY <1>7, <1>4 DEF e, at, block

LEMMA DeallocateKeeps ==
  ASSUME SizesFit, IInv, status = "running",
         NEW p \in Pointers, NEW n \in Sizes, NEW a \in Aligns, Deallocate(p, n, a)
  PROVE  IInv'
<1> DEFINE e == EffectiveAlign(a)
           s == UserSize(n, a)
           at == p - UserBlock(e)
           owner == {u \in live : u.ptr = p}
           errorsOf(h) == ArgumentErrors(h, s, e) \cup StateErrors(h) \cup SentinelErrors(at, s, e)
<1>1. PICK h \in HeadersAt(at, s, e) :
        /\ last' = [call   |-> "deallocate",
                    held   |-> owner # {},
                    right  |-> \E u \in owner : /\ UserSize(u.size, u.align) = s
                                                /\ EffectiveAlign(u.align) = e,
                    intact |-> memory[at].holds = "header",
                    damage |-> UNION {Damage(u) : u \in owner},
                    errors |-> errorsOf(h)]
        /\ \/ errorsOf(h) # {} /\ Stop
           \/ Release(p, Released(at, n, e), Header(Marked(h)))
  BY DEF Deallocate
<1>2. at \in Arena /\ p \in Arena /\ TypeOK /\ memory \in [Arena -> Contents]
  BY DEF Deallocate, Pointers, IInv, TypeOK
<1> DEFINE errors == errorsOf(h)
<1>3. /\ last'.held = (owner # {})
      /\ last'.right = \E u \in owner : /\ UserSize(u.size, u.align) = s
                                        /\ EffectiveAlign(u.align) = e
      /\ last'.intact = (memory[at].holds = "header")
      /\ last'.damage = UNION {Damage(u) : u \in owner}
      /\ last'.errors = errors
  BY <1>1
<1>4. /\ s \in Nat /\ s < Word /\ e \in Alignments /\ UserBlock(e) \in Nat
  BY Layout, Alignment
<1>5. h \in Headers
  BY <1>2, <1>4, HeaderRead
<1>6. /\ errors \subseteq Complaints
      /\ "size" \in errors <=> h.size # s
      /\ "align" \in errors <=> h.align # e
      /\ "state" \in errors <=> h.state # "allocated"
  BY ErrorKinds
<1>7. UNION {Damage(u) : u \in owner} \subseteq Parts
  BY DamageKinds
<1>8. last'.damage \subseteq Parts /\ last'.errors \subseteq Complaints
  BY <1>3, <1>6, <1>7
<1>9. ASSUME NEW w \in owner
      PROVE  /\ w \in live /\ w.ptr = p /\ owner = {w} /\ last'.damage = Damage(w)
             /\ last'.held
             /\ last'.right <=> SizeOf(w) = s /\ EffectiveAlign(w.align) = e
             /\ EffectiveAlign(w.align) = e => StartOf(w) = at
  <2>1. w \in live /\ w.ptr = p
    BY <1>9
  <2>2. owner = {w}
    BY <2>1, OneOwner
  <2>3. UNION {Damage(u) : u \in owner} = Damage(w)
    BY <2>2
  <2>4. SizeOf(w) = UserSize(w.size, w.align)
    BY DEF SizeOf
  <2>5. StartOf(w) = p - UserBlock(EffectiveAlign(w.align))
    BY <2>1 DEF StartOf
  <2>6. EffectiveAlign(w.align) = e => StartOf(w) = at
    BY <2>5
  <2>7. last'.right <=> SizeOf(w) = s /\ EffectiveAlign(w.align) = e
    BY <1>3, <2>2, <2>4
  <2>8. QED
    BY <1>3, <2>1, <2>2, <2>3, <2>6, <2>7
<1>10. last'.right => \E w \in owner : TRUE
  BY <1>3
<1>11. ASSUME last'.right, NEW w \in owner
       PROVE  /\ last'.damage \subseteq {"slack"} => last'.errors = {}
              /\ last'.damage \cap {"underrun", "overrun"} = last'.errors \cap {"underrun", "overrun"}
              /\ Released(at, n, e) = BlockOf(w) /\ w \in live
  <2>1. /\ w \in live /\ SizeOf(w) = s /\ EffectiveAlign(w.align) = e
        /\ StartOf(w) = at /\ last'.damage = Damage(w)
    BY <1>9, <1>11
  <2>2. h \in HeadersAt(StartOf(w), s, e)
    BY <2>1
  <2>3. /\ Damage(w) \subseteq {"slack"} =>
             ArgumentErrors(h, s, e) \cup StateErrors(h) \cup SentinelErrors(StartOf(w), s, e) = {}
        /\ Damage(w) \cap {"underrun", "overrun"} =
             (ArgumentErrors(h, s, e) \cup StateErrors(h) \cup SentinelErrors(StartOf(w), s, e))
               \cap {"underrun", "overrun"}
        /\ Released(StartOf(w), n, e) = BlockOf(w)
    BY <2>1, <2>2, RightCall
  <2>4. QED
    BY <1>3, <2>1, <2>3
<1>12. NoFalseAlarm' /\ DamageReported'
  BY <1>10, <1>11 DEF NoFalseAlarm, DamageReported
<1>13. ASSUME last'.intact, last'.errors \cap {"size", "align", "state"} = {}
       PROVE  owner # {} /\ Released(at, n, e) \in blocks
  <2>1. /\ memory[at].holds = "header"
        /\ h.size = s /\ h.align = e /\ h.state = "allocated"
    BY <1>3, <1>6, <1>13
  <2>2. PICK v \in live : v.ptr = p /\ Released(at, n, e) = BlockOf(v)
    BY <1>2, <2>1, PassedCall
  <2>3. v \in owner
    BY <2>2
  <2>4. BlockOf(v) \in blocks
    BY <2>2 DEF IInv, BlocksOfLive
  <2>5. QED
    BY <2>2, <2>3, <2>4
<1>14. DoubleFreeReported'
  <2>1. SUFFICES ASSUME ~last'.held, last'.intact, last'.errors = {}
                 PROVE  FALSE
    BY DEF DoubleFreeReported
  <2>2. owner = {} /\ memory[at].holds = "header" /\ h.align = e /\ h.state = "allocated"
    BY <1>3, <1>6, <2>1
  <2>3. \E v \in live : v.ptr = p
    BY <1>2, <2>2, PassedCall
  <2>4. QED
    BY <2>2, <2>3
<1> HIDE DEF e, s, at, errorsOf, errors
<1>15. CASE Stop
  <2>1. HeapIsGone /\ status' = "stopped"
    BY <1>15 DEF Stop
  <2>2. MismatchReported' /\ RightCallsAreExact'
    BY <2>1 DEF MismatchReported, RightCallsAreExact
  <2>3. QED
    BY <1>8, <1>12, <1>14, <2>1, <2>2, GoneKeeps DEF LastReport
<1>16. CASE /\ owner # {} /\ Released(at, n, e) \in blocks
            /\ Release(p, Released(at, n, e), Header(Marked(h)))
  <2>1. PICK v \in live : Released(at, n, e) = BlockOf(v)
    BY <1>16 DEF IInv, BlocksOfLive
  <2>2. v \in owner /\ StartOf(v) = at
    <3>1. StartOf(v) = at /\ EffectiveAlign(v.align) = e
      BY <2>1 DEF Released, BlockOf
    <3>2. v.ptr - UserBlock(e) = p - UserBlock(e)
      BY <3>1 DEF StartOf, at
    <3>3. v.ptr \in Int /\ p \in Int
      BY <1>2 DEF TypeOK, Arena
    <3>4. v.ptr = p
      BY <1>4, <3>2, <3>3
    <3>5. QED
      BY <3>1, <3>4
  <2>3. owner = {v} /\ v.ptr = p
    BY <1>9, <2>2
  <2>4. PICK x \in MayBecome(at, Header(Marked(h))) :
          memory' = [memory EXCEPT ![StartOf(v)] = x]
    BY <1>16, <2>2 DEF Release, Released
  <2>5. /\ x \in {Data} \cup {Header(k) : k \in Headers}
        /\ x.holds = "header" => x.header.state = "deallocated"
    BY <1>5, <2>4, MarkedHeader, Kinds DEF MayBecome
  <2>6. /\ blocks' = blocks \ {BlockOf(v)} /\ live' = live \ {v}
        /\ freed' = freed \cup {v.ptr} /\ UNCHANGED <<stray, status>>
    BY <1>16, <2>1, <2>3 DEF Release
  <2>7. MismatchReported' /\ RightCallsAreExact'
    BY <2>6 DEF MismatchReported, RightCallsAreExact
  <2>8. QED
    BY <1>8, <1>12, <1>14, <2>4, <2>5, <2>6, <2>7, ReleaseOfLiveKeeps DEF LastReport
<1>17. CASE /\ ~(owner # {} /\ Released(at, n, e) \in blocks)
            /\ Release(p, Released(at, n, e), Header(Marked(h)))
  <2>1. HeapIsGone /\ status' = "corrupt"
    BY <1>17 DEF Release
  <2>2. ~last'.right
    <3>1. SUFFICES ASSUME last'.right PROVE FALSE
      OBVIOUS
    <3>2. PICK w \in owner : TRUE
      BY <1>10, <3>1
    <3>3. Released(at, n, e) = BlockOf(w) /\ w \in live
      BY <1>11, <3>1
    <3>4. QED
      BY <1>17, <3>2, <3>3 DEF IInv, BlocksOfLive
  <2>3. MismatchReported' /\ RightCallsAreExact'
    BY <1>13, <1>17, <2>2 DEF MismatchReported, RightCallsAreExact
  <2>4. QED
    BY <1>8, <1>12, <1>14, <2>1, <2>3, GoneKeeps DEF LastReport
<1>18. QED
  BY <1>1, <1>15, <1>16, <1>17 DEF errorsOf

LEMMA StepKeeps ==
  ASSUME SizesFit, IInv, [Next]_vars
  PROVE  IInv'
<1>1. ASSUME status = "running", NEW n \in Sizes, NEW a \in Aligns, Allocate(n, a)
      PROVE  IInv'
  BY <1>1, AllocateKeeps
<1>2. ASSUME status = "running", NEW u \in live, Use(u)
      PROVE  IInv'
  BY <1>2, UseKeeps
<1>3. ASSUME status = "running", NEW c \in Arena, WriteOutside(c)
      PROVE  IInv'
  BY <1>3, WriteOutsideKeeps
<1>4. ASSUME status = "running", NEW p \in Pointers, NEW n \in Sizes, NEW a \in Aligns,
             Deallocate(p, n, a)
      PROVE  IInv'
  BY <1>4, DeallocateKeeps
<1>5. CASE UNCHANGED vars
  <2>1. /\ TypeOK' /\ BlockHoldsRequest' /\ BlocksOfLive' /\ LiveInArena' /\ LiveApart'
    BY <1>5 DEF IInv, vars, TypeOK, BlockHoldsRequest, BlocksOfLive, LiveInArena, LiveApart
  <2>2. MetadataKept' /\ AllocatedAreLive'
    BY <1>5 DEF IInv, vars, MetadataKept, Holds, AllocatedAreLive
  <2>3. LastReport'
    BY <1>5 DEF IInv, vars, LastReport, NoFalseAlarm, DamageReported, MismatchReported,
                DoubleFreeReported, RightCallsAreExact
  <2>4. QED
    BY <2>1, <2>2, <2>3 DEF IInv
<1>6. QED
  BY <1>1, <1>2, <1>3, <1>4, <1>5 DEF Next, Running, Done

(***************************************************************************)
(* In every state of the heap what the client holds and what operator new  *)
(* handed out match, blocks do not overlap, metadata are as they were      *)
(* prepared or were strayed into, and no header says "allocated" of a      *)
(* block that was given back.                                              *)
(***************************************************************************)
THEOREM Invariance == ASSUME SizesFit PROVE Spec => []IInv
<1>1. Init => IInv
  BY InitInv
<1>2. ASSUME SizesFit PROVE IInv /\ [Next]_vars => IInv'
  BY <1>2, StepKeeps
<1>3. QED
  BY <1>1, <1>2, PTL DEF Spec

(***************************************************************************)
(* The types of the heap (DebugHeap!TypeOK).                               *)
(***************************************************************************)
THEOREM TypeCorrect == ASSUME SizesFit PROVE Spec => []TypeOK
<1>1. IInv => TypeOK
  BY DEF IInv
<1>2. QED
  BY <1>1, Invariance, PTL

(***************************************************************************)
(* What allocate hands out is aligned as asked for, and a block has every  *)
(* byte of it (_Allocate_debug_block).                                     *)
(***************************************************************************)
THEOREM BlocksHoldRequests == ASSUME SizesFit PROVE Spec => []BlockHoldsRequest
<1>1. IInv => BlockHoldsRequest
  BY DEF IInv
<1>2. QED
  BY <1>1, Invariance, PTL

(***************************************************************************)
(* A block that is deallocated as it was allocated, with metadata nobody   *)
(* wrote to, is not reported (_Extract_and_validate_block).                *)
(***************************************************************************)
THEOREM NoFalseAlarms == ASSUME SizesFit PROVE Spec => []NoFalseAlarm
<1>1. IInv => NoFalseAlarm
  BY DEF IInv, LastReport
<1>2. QED
  BY <1>1, Invariance, PTL

(***************************************************************************)
(* A write over a sentinel is reported, on its side, by the deallocation   *)
(* of the block, whatever lies between (_Extract_and_validate_block).      *)
(***************************************************************************)
THEOREM DamageIsReported == ASSUME SizesFit PROVE Spec => []DamageReported
<1>1. IInv => DamageReported
  BY DEF IInv, LastReport
<1>2. QED
  BY <1>1, Invariance, PTL

(***************************************************************************)
(* A pointer the client holds is not given to operator delete as a block   *)
(* other than the one it was allocated in unless the size, the alignment   *)
(* or the state in the header is reported, as long as a header stands      *)
(* where one is read (_Extract_and_validate_block).                        *)
(***************************************************************************)
THEOREM MismatchIsReported == ASSUME SizesFit PROVE Spec => []MismatchReported
<1>1. IInv => MismatchReported
  BY DEF IInv, LastReport
<1>2. QED
  BY <1>1, Invariance, PTL

(***************************************************************************)
(* A second deallocation is reported as long as a header stands where one  *)
(* is read (_Validate_block_state).                                        *)
(***************************************************************************)
THEOREM DoubleFreeIsReported == ASSUME SizesFit PROVE Spec => []DoubleFreeReported
<1>1. IInv => DoubleFreeReported
  BY DEF IInv, LastReport
<1>2. QED
  BY <1>1, Invariance, PTL

(***************************************************************************)
(* Operator delete gets the block that operator new returned, if the       *)
(* arguments are those of the allocation (_Deallocate_debug_block).        *)
(***************************************************************************)
THEOREM RightCallsGiveBackTheBlock == ASSUME SizesFit PROVE Spec => []RightCallsAreExact
<1>1. IInv => RightCallsAreExact
  BY DEF IInv, LastReport
<1>2. QED
  BY <1>1, Invariance, PTL
=============================================================================
