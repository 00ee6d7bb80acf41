-------------------------------- MODULE Endian --------------------------------
(***************************************************************************)
(* Byte order (mjxsdk/memory/endian.hpp).  An integer of n bytes is a      *)
(* number below Base^n; byte 0 is the least significant.  Signed integers  *)
(* are converted by the code to unsigned ones of the same width and back.  *)
(***************************************************************************)
EXTENDS Integers

CONSTANT Base   \* the number of values of a byte

ASSUME BaseAssumption == Base \in Nat \ {0, 1}

\* What ^ is, as far as the proofs need it: the provers know no more of Base^k
\* than that it is an integer.
ASSUME PowersOfBase ==
  /\ Base^0 = 1
  /\ \A k \in 0..15 : Base^(k + 1) = Base^k * Base

Widths == {1, 2, 4, 8, 16}   \* the values of sizeof(_Ty)
Orders == {"little", "big"}  \* endian

\* The bits shifted or masked by the code are those of whole bytes.
Shr(v, k)    == v \div Base^k
Shl(v, k, n) == (v * Base^k) % Base^n
Only(v, i)   == (Shr(v, i) % Base) * Base^i
-----------------------------------------------------------------------------
(***************************************************************************)
(* A faulty variant of a definition below, to confirm that the properties  *)
(* notice it: the halves of 128 bits change places, their bytes do not.    *)
(***************************************************************************)
HalvesOnly(v) == Shl(v % Base^8, 8, 16) + Shr(v, 8)
-----------------------------------------------------------------------------
\* No two operands of | have a bit in common, so that it is a sum.
Bswap16(v) == Shr(v, 1) + Shl(v, 1, 2)

Bswap32(v) == Shr(v, 3) + Shr(Only(v, 2), 1) + Shl(Only(v, 1), 1, 4) + Shl(v, 3, 4)

Bswap64(v) == Shr(v, 7) + Shr(Only(v, 6), 5) + Shr(Only(v, 5), 3) + Shr(Only(v, 4), 1)
              + Shl(Only(v, 3), 1, 8) + Shl(Only(v, 2), 3, 8) + Shl(Only(v, 1), 5, 8)
              + Shl(v, 7, 8)

Bswap128(v) == Shl(Bswap64(v % Base^8), 8, 16) + Bswap64(Shr(v, 8))

SwapEndian(v, n) == CASE n = 1 -> v
                      [] n = 2 -> Bswap16(v)
                      [] n = 4 -> Bswap32(v)
                      [] n = 8 -> Bswap64(v)
                      [] n = 16 -> Bswap128(v)

\* to_ and from_ little_endian and big_endian, on a machine of order native
ToEndian(v, n, native, order) == IF native = order THEN v ELSE SwapEndian(v, n)

FromEndian(v, n, native, order) == IF native = order THEN v ELSE SwapEndian(v, n)
-----------------------------------------------------------------------------
\* What order means: the bytes of v from the lowest address up,
InMemory(v, n, order) ==
  [i \in 0..(n - 1) |-> Shr(v, IF order = "little" THEN i ELSE n - 1 - i) % Base]

\* and the integer of n bytes read from there.
InInteger(bytes, n, order) ==
  LET value[k \in 0..n] ==
        IF k = 0 THEN 0
        ELSE value[k - 1] * Base + bytes[IF order = "little" THEN n - k ELSE k - 1]
  IN  value[n]
=============================================================================
