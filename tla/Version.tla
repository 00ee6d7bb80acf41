-------------------------------- MODULE Version --------------------------------
(***************************************************************************)
(* Version numbers packed into one integer (mjxsdk/core/version.hpp): a    *)
(* major version of 16 bits above a minor and a patch version of 24 each.  *)
(*                                                                         *)
(* The macros shift in the type of their argument. Those here are 64 bits  *)
(* wide, as in the tests and in the library's own version; the shift of an *)
(* int by 48 is undefined.                                                 *)
(***************************************************************************)
EXTENDS Integers

CONSTANTS MajorBits, FieldBits   \* 16, and 24 for minor and patch each

ASSUME VersionAssumption == {MajorBits, FieldBits} \subseteq Nat \ {0}

Bits == MajorBits + 2 * FieldBits   \* of the integer

\* What ^ is, as far as the proofs need it: the provers know no more of 2^k
\* than that it is an integer.
ASSUME VersionPowers == 2^0 = 1 /\ \A k \in 0..(Bits - 1) : 2^(k + 1) = 2^k * 2
-----------------------------------------------------------------------------
(***************************************************************************)
(* Faulty variants of definitions below, to confirm that the properties    *)
(* notice them: a minor version one bit too low, a mask that is not        *)
(* shifted back.                                                           *)
(***************************************************************************)
OneBitLow          == FieldBits - 1
MaskedOnly(v)      == v % 2^(2 * FieldBits)
-----------------------------------------------------------------------------
\* << 48ULL and << 24ULL
MajorShift == 2 * FieldBits
MinorShift == FieldBits

\* The operator |, bit by bit from the highest; what does not fit into the
\* integer is cut off.
Bit(v, i)       == (v \div 2^i) % 2
Either(x, y, i) == IF Bit(x, i) = 1 \/ Bit(y, i) = 1 THEN 1 ELSE 0

Or(x, y) == LET value[k \in 0..Bits] ==
                  IF k = 0 THEN 0 ELSE value[k - 1] * 2 + Either(x, y, Bits - k)
            IN  value[Bits]

\* _MJX_ENCODE_VERSION
Encode(major, minor, patch) ==
  Or(Or(major * 2^MajorShift, minor * 2^MinorShift), patch)

DecodeMajor(v) == v \div 2^MajorShift
DecodeMinor(v) == (v % 2^(2 * FieldBits)) \div 2^FieldBits
DecodePatch(v) == v % 2^FieldBits

\* _MJXSDK_VERSION_SUPPORTED, in the release of the library numbered own
Supported(own, major, minor, patch) ==
  Encode(own[1], own[2], own[3]) >= Encode(major, minor, patch)
=============================================================================
