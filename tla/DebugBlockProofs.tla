--------------------------- MODULE DebugBlockProofs ---------------------------
(***************************************************************************)
(* The layout of debug blocks for every width of size_t, every size of the *)
(* header and of a sentinel, every user size and alignment.                *)
(***************************************************************************)
EXTENDS DebugBlock, TLAPS

(***************************************************************************)
(* Word is an integer above the metadata of a block.                       *)
(***************************************************************************)
LEMMA WordIsLarge ==
  /\ Word \in Nat
  /\ HeaderSize \in Nat \ {0} /\ SentinelSize \in Nat \ {0}
  /\ HeaderSize + SentinelSize < Word
<1>1. Word \in Int
  BY DebugBlockAssumption, SMT DEF Word
<1>2. QED
  BY <1>1, DebugBlockAssumption

(***************************************************************************)
(* A value below Word is itself modulo Word.                               *)
(***************************************************************************)
LEMMA NoWrap ==
  ASSUME NEW s \in Nat, s < Word
  PROVE  s % Word = s
BY WordIsLarge, SMT

(***************************************************************************)
(* Taking away the remainder leaves a multiple.                            *)
(***************************************************************************)
LEMMA WithoutRemainder ==
  ASSUME NEW s \in Nat, NEW a \in Nat \ {0}
  PROVE  /\ (s - (s % a)) % a = 0
         /\ s - (s % a) \in Nat
         /\ s - (s % a) > s - a
         /\ s - (s % a) <= s
<1>1. s \div a \in Nat /\ s - (s % a) = a * (s \div a) /\ s % a \in 0..(a - 1)
  BY SMT
<1>2. \A k \in Nat : (a * k) % a = 0
  BY SMT
<1>3. (a * (s \div a)) % a = 0
  BY <1>1, <1>2
<1>4. a * (s \div a) \in Nat
  BY <1>1, SMT
<1>5. QED
  BY <1>1, <1>3, <1>4

(***************************************************************************)
(* _Align_value rounds up to a multiple of the alignment, by less than the *)
(* alignment, unless the sum wraps around.                                 *)
(***************************************************************************)
LEMMA AlignRoundsUp ==
  ASSUME NEW v \in Nat, NEW a \in Nat \ {0}, v + a - 1 < Word
  PROVE  /\ AlignValue(v, a) \in Nat
         /\ AlignValue(v, a) >= v /\ AlignValue(v, a) < v + a
         /\ AlignValue(v, a) % a = 0
<1> DEFINE s == v + a - 1
<1>1. s \in Nat /\ s < Word
  OBVIOUS
<1>2. s % Word = s
  BY <1>1, NoWrap
<1>3. AlignValue(v, a) = s - (s % a)
  BY <1>2 DEF AlignValue
<1>4. /\ (s - (s % a)) % a = 0 /\ s - (s % a) \in Nat
      /\ s - (s % a) > s - a /\ s - (s % a) <= s
  BY <1>1, WithoutRemainder
<1> HIDE DEF s
<1>5. AlignValue(v, a) \in Nat /\ AlignValue(v, a) % a = 0
      /\ AlignValue(v, a) > s - a /\ AlignValue(v, a) <= s
  BY <1>3, <1>4
<1>6. QED
  BY <1>5 DEF s

(***************************************************************************)
(* A block that stays within the address space is divided into its parts   *)
(* without gap or overlap, and its user block is aligned (_Block_offset    *)
(* and the three _Calculate functions agree).                              *)
(***************************************************************************)
THEOREM FittingBlocksAreTiled ==
  ASSUME NEW n \in Nat, NEW a \in Nat \ {0}, Fits(n, a)
  PROVE  Tiles(n, a)
<1> DEFINE U == AlignValue(HeaderSize + SentinelSize, a)
           A == AlignValue(n + SentinelSize, a)
<1>1. /\ HeaderSize \in Nat \ {0} /\ SentinelSize \in Nat \ {0} /\ Word \in Nat
      /\ n + HeaderSize + 2 * SentinelSize + 2 * (a - 1) < Word
  BY WordIsLarge DEF Fits
<1>2. /\ U \in Nat /\ U % a = 0
      /\ U >= HeaderSize + SentinelSize /\ U < HeaderSize + SentinelSize + a
  <2>1. HeaderSize + SentinelSize \in Nat /\ HeaderSize + SentinelSize + a - 1 < Word
    BY <1>1
  <2>2. QED
    BY <2>1, AlignRoundsUp
<1>3. A \in Nat /\ A >= n + SentinelSize /\ A < n + SentinelSize + a
  <2>1. n + SentinelSize \in Nat /\ n + SentinelSize + a - 1 < Word
    BY <1>1
  <2>2. QED
    BY <2>1, AlignRoundsUp
<1> HIDE DEF U, A
<1>4. UserBlock(a) = U
  BY DEF UserBlock, U
<1>5. OverrunSentinel(n, a) = U + n
  <2>1. U + n \in Nat /\ U + n < Word
    BY <1>1, <1>2
  <2>2. QED
    BY <2>1, <1>4, NoWrap DEF OverrunSentinel
<1>6. BlockPadding(n, a) = U + n + SentinelSize
  <2>1. U + n + SentinelSize \in Nat /\ U + n + SentinelSize < Word
    BY <1>1, <1>2
  <2>2. QED
    BY <2>1, <1>5, NoWrap DEF BlockPadding
<1>7. BlockSize(n, a) = U + A
  <2>1. n + SentinelSize \in Nat /\ n + SentinelSize < Word
    BY <1>1
  <2>2. AlignValue((n + SentinelSize) % Word, a) = A
    BY <2>1, NoWrap DEF A
  <2>3. U + A \in Nat /\ U + A < Word
    BY <1>1, <1>2, <1>3
  <2>4. QED
    BY <2>2, <2>3, <1>4, NoWrap DEF BlockSize
<1>8. BlockPaddingSize(BlockSize(n, a), n, a) = A - n - SentinelSize
  <2>1. A - n - SentinelSize \in Nat /\ A - n - SentinelSize < Word
    BY <1>1, <1>3
  <2>2. (A - n - SentinelSize) % Word = A - n - SentinelSize
    BY <2>1, NoWrap
  <2>3. BlockPaddingSize(BlockSize(n, a), n, a)
          = (BlockSize(n, a) - BlockPadding(n, a)) % Word
    BY DEF BlockPaddingSize
  <2>4. BlockSize(n, a) - BlockPadding(n, a) = A - n - SentinelSize
    BY <1>1, <1>2, <1>3, <1>6, <1>7
  <2>5. QED
    BY <2>2, <2>3, <2>4
<1>9. UnderrunSentinel(a) = U - SentinelSize
      /\ HeaderPaddingSize(a) = U - SentinelSize - HeaderSize
  BY <1>4 DEF UnderrunSentinel, HeaderPaddingSize
<1>10. QED
  BY <1>1, <1>2, <1>3, <1>4, <1>5, <1>7, <1>8, <1>9 DEF Tiles

(***************************************************************************)
(* Between a multiple and the next there is none.                          *)
(***************************************************************************)
LEMMA NextMultiple ==
  ASSUME NEW a \in Nat \ {0}, NEW k \in Nat, NEW m \in Nat,
         k % a = 0, m % a = 0, k < m
  PROVE  k + a <= m
<1>1. PICK i, j \in Nat : k = a * i /\ m = a * j
  <2>1. \A s \in Nat : s \div a \in Nat /\ s = a * (s \div a) + (s % a)
    BY SMT
  <2>2. k \div a \in Nat /\ k = a * (k \div a) /\ m \div a \in Nat /\ m = a * (m \div a)
    BY <2>1
  <2>3. QED
    BY <2>2
<1>2. i + 1 <= j
  <2>1. ~(j <= i)
    <3>1. j <= i => a * j <= a * i
      BY SMT
    <3>2. QED
      BY <1>1, <3>1
  <2>2. QED
    BY <2>1
<1>3. a * (i + 1) <= a * j /\ a * (i + 1) = a * i + a
  BY <1>2, SMT
<1>4. QED
  BY <1>1, <1>3

(***************************************************************************)
(* _Align_value returns the least multiple that is not below its argument, *)
(* and zero if the only one is beyond the largest size_t, for every value  *)
(* and every alignment that divides the number of values of a size_t.      *)
(***************************************************************************)
THEOREM AlignmentIsLeast ==
  ASSUME NEW v \in Nat, v < Word, NEW a \in Nat \ {0}, Word % a = 0
  PROVE  RoundsUp(v, a)
<1>1. Word \in Nat /\ Word > 0
  BY WordIsLarge
<1>2. PICK x : x = AlignValue(v, a)
  OBVIOUS
<1>3. CASE v + a - 1 < Word
  <2>1. x \in Nat /\ x >= v /\ x < v + a /\ x % a = 0
    BY <1>2, <1>3, AlignRoundsUp
  <2>2. ASSUME NEW k \in v..(Word - 1), k % a = 0
        PROVE  x <= k
    <3>1. k \in Nat /\ k >= v
      BY <1>1
    <3>2. k < x => k + a <= x
      BY <2>1, <2>2, <3>1, NextMultiple
    <3>3. QED
      BY <2>1, <3>1, <3>2
  <2>3. x \in v..(Word - 1)
    BY <1>1, <1>3, <2>1
  <2>4. QED
    BY <1>2, <2>1, <2>2, <2>3 DEF RoundsUp
<1>4. CASE v + a - 1 >= Word
  <2>1. a <= Word
    <3>1. 0 % a = 0 /\ 0 \in Nat
      BY SMT
    <3>2. 0 + a <= Word
      BY <1>1, <3>1, NextMultiple
    <3>3. QED
      BY <3>2
  <2>2. x = 0
    <3>1. PICK s \in Nat : s = v + a - 1 - Word
      BY <1>1, <1>4
    <3>2. s < Word /\ s < a
      BY <1>1, <2>1, <3>1
    <3>3. (v + a - 1) % Word = s
      <4>1. v + a - 1 = s + Word
        BY <1>1, <3>1
      <4>2. (s + Word) % Word = s
        BY <1>1, <3>2, SMT
      <4>3. QED
        BY <4>1, <4>2
    <3>4. s % a = s
      BY <3>2, SMT
    <3>5. QED
      BY <1>2, <3>3, <3>4 DEF AlignValue
  <2>3. ASSUME NEW k \in v..(Word - 1), k % a = 0
        PROVE  FALSE
    <3>1. k \in Nat /\ k < Word
      BY <1>1
    <3>2. k + a <= Word
      BY <1>1, <2>3, <3>1, NextMultiple
    <3>3. QED
      BY <1>1, <1>4, <3>1, <3>2
  <2>4. QED
    BY <1>2, <2>2, <2>3 DEF RoundsUp
<1>5. QED
  BY <1>1, <1>3, <1>4
=============================================================================
