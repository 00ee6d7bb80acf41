------------------------------ MODULE DebugBlock ------------------------------
(***************************************************************************)
(* The layout of a debug block (mjxsdk/memory/impl/debug_block.hpp):       *)
(*                                                                         *)
(*   header | fill | underrun sentinel | user block | overrun sentinel |   *)
(*   fill                                                                  *)
(*                                                                         *)
(* Sizes and offsets are of type size_t, Width bits wide. The last three *)
(* operators say what a rounding and a layout have to be.                  *)
(***************************************************************************)
EXTENDS Integers

CONSTANTS Width,         \* bits of size_t
          HeaderSize,    \* _Block_header_size
          SentinelSize,  \* sizeof(_Block_sentinel)
          DefaultAlign   \* __STDCPP_DEFAULT_NEW_ALIGNMENT__

Word == 2^Width

Alignments == {2^k : k \in 0..(Width - 1)}

ASSUME DebugBlockAssumption ==
  /\ Width \in Nat \ {0}
  /\ {HeaderSize, SentinelSize} \subseteq Nat \ {0}
  /\ DefaultAlign \in Alignments
  /\ HeaderSize + SentinelSize < Word

\* What the proofs use of powers of two; the provers know no more of 2^k than
\* that it is an integer.
ASSUME PowersOfTwo ==
  /\ \A a \in Alignments : a \in Nat \ {0} /\ Word % a = 0
  /\ \A a, b \in Alignments : a <= b => b % a = 0
-----------------------------------------------------------------------------
(***************************************************************************)
(* Faulty variants of definitions below, to confirm that the properties    *)
(* notice them: rounding down, a block without room for the header, and    *)
(* one without room for the overrun sentinel.                              *)
(***************************************************************************)
RoundedDown(v, a) == v - (v % a)
WithoutHeader(n, a) == LET s == n + SentinelSize + a - 1 IN (s - (s % a)) % Word
WithoutOverrun(n, a) ==
  LET s == HeaderSize + SentinelSize + n + a - 1 IN (s - (s % a)) % Word
-----------------------------------------------------------------------------
\* (v + a - 1) & ~(a - 1): for a power of 2 the mask clears the remainder.
AlignValue(v, a) == LET s == (v + a - 1) % Word IN s - (s % a)

EffectiveAlign(a) == IF a >= DefaultAlign THEN a ELSE DefaultAlign

UserBlock(a)          == AlignValue(HeaderSize + SentinelSize, a)
UnderrunSentinel(a)   == UserBlock(a) - SentinelSize
OverrunSentinel(n, a) == (UserBlock(a) + n) % Word
BlockPadding(n, a)    == (OverrunSentinel(n, a) + SentinelSize) % Word

BlockSize(n, a) ==
  (UserBlock(a) + AlignValue((n + SentinelSize) % Word, a)) % Word

HeaderPaddingSize(a)         == UnderrunSentinel(a) - HeaderSize
BlockPaddingSize(size, n, a) == (size - BlockPadding(n, a)) % Word
-----------------------------------------------------------------------------
(***************************************************************************)
(* AlignValue(v, a) is the least multiple of a in a word that is not below *)
(* v, and zero where there is none.                                        *)
(***************************************************************************)
RoundsUp(v, a) ==
  LET above == {k \in v..(Word - 1) : k % a = 0}
  IN  IF above = {} THEN AlignValue(v, a) = 0
      ELSE AlignValue(v, a) \in above /\ \A k \in above : AlignValue(v, a) <= k

\* A user block of n bytes, metadata and two roundings stay below Word.
Fits(n, a) == n + HeaderSize + 2 * SentinelSize + 2 * (a - 1) < Word

(***************************************************************************)
(* The parts of a block follow one another without gap or overlap from its *)
(* first byte to its last, and the user block is aligned.                  *)
(***************************************************************************)
Tiles(n, a) ==
  /\ UserBlock(a) % a = 0
  /\ HeaderPaddingSize(a) \in 0..(a - 1)
  /\ UnderrunSentinel(a) + SentinelSize = UserBlock(a)
  /\ UserBlock(a) + n = OverrunSentinel(n, a)
  /\ BlockPaddingSize(BlockSize(n, a), n, a) \in 0..(a - 1)
  /\ OverrunSentinel(n, a) + SentinelSize + BlockPaddingSize(BlockSize(n, a), n, a)
       = BlockSize(n, a)
=============================================================================
