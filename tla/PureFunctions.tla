---------------------------- MODULE PureFunctions ----------------------------
(***************************************************************************)
(* The algorithms without state, each compared with what it has to compute *)
(* for every input of a small instance: the layout of debug blocks (one    *)
(* behaviour per alignment, through the sizes), the byte order of every    *)
(* value of 16 bytes, and every version, those whose fields are too large  *)
(* included.                                                               *)
(***************************************************************************)
EXTENDS DebugBlock, Endian, Version

VARIABLES algorithm, input, align

\* A version in mixed radix: each field goes one bit beyond what fits.
Radix    == 2^(FieldBits + 1)
Major(k) == k \div (Radix * Radix)
Minor(k) == (k \div Radix) % Radix
Patch(k) == k % Radix

Inputs == [layout  |-> Word,
           endian  |-> Base^16,
           version |-> 2^(MajorBits + 1) * Radix * Radix]

Init == /\ algorithm \in DOMAIN Inputs
        /\ input = 0
        /\ align \in IF algorithm = "layout" THEN Alignments ELSE {1}

NextInput == /\ input' = (input + 1) % Inputs[algorithm]
             /\ UNCHANGED <<algorithm, align>>

Next == NextInput

Spec == Init /\ [][Next]_<<algorithm, input, align>>

(***************************************************************************)
(* Every block that stays within the address space is divided into its     *)
(* parts without gap or overlap, whatever size and alignment it has        *)
(* (_Block_offset and the three _Calculate functions agree).               *)
(***************************************************************************)
PartsTileTheBlock == algorithm = "layout" /\ Fits(input, align) => Tiles(input, align)

(***************************************************************************)
(* _Align_value returns the least multiple of the alignment that is not    *)
(* below the value, and zero where there is none in a word.                *)
(***************************************************************************)
AlignIsLeast == algorithm = "layout" => RoundsUp(input, align)

(***************************************************************************)
(* A value converted to an order has its bytes in memory in that order,    *)
(* and a machine of whichever order that reads those bytes and converts    *)
(* them back has the same value; for every width.                          *)
(***************************************************************************)
BytesArePortable ==
  algorithm = "endian" =>
    \A w \in {w \in Widths : input < Base^w} : \A order, native \in Orders :
      LET sent     == InMemory(input, w, order)
          received == InInteger(sent, w, native)
      IN  /\ InMemory(ToEndian(input, w, native, order), w, native) = sent
          /\ FromEndian(received, w, native, order) = input

FieldsFit(k) == /\ Major(k) < 2^MajorBits
                /\ Minor(k) < 2^FieldBits /\ Patch(k) < 2^FieldBits

(***************************************************************************)
(* A version whose fields fit is decoded to what was encoded; a version    *)
(* with a field that does not fit is not.                                  *)
(***************************************************************************)
DecodedAsEncoded ==
  algorithm = "version" =>
    LET v == Encode(Major(input), Minor(input), Patch(input)) IN
    FieldsFit(input) <=> /\ DecodeMajor(v) = Major(input)
                         /\ DecodeMinor(v) = Minor(input)
                         /\ DecodePatch(v) = Patch(input)

(***************************************************************************)
(* Whatever its own version is, the library supports the versions up to    *)
(* it: encoded versions compare like major, minor and patch in turn.       *)
(***************************************************************************)
SupportedUpToOwn ==
  algorithm = "version" /\ FieldsFit(input) =>
    \A m \in {m \in 0..(Inputs.version - 1) : FieldsFit(m)} :
      Supported(<<Major(m), Minor(m), Patch(m)>>, Major(input), Minor(input), Patch(input)) <=>
        \/ Major(input) < Major(m)
        \/ Major(input) = Major(m) /\ Minor(input) < Minor(m)
        \/ Major(input) = Major(m) /\ Minor(input) = Minor(m) /\ Patch(input) <= Patch(m)
=============================================================================
