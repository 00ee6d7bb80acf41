\* The real header, sentinel and default alignment of the 64-bit build, in a
\* word of 9 bits; bytes of one bit, so that 16 of them can be enumerated;
\* versions of 2, 3 and 3 bits.
CONSTANTS
  Width = 9
  HeaderSize = 18
  SentinelSize = 4
  DefaultAlign = 16
  Base = 2
  MajorBits = 2
  FieldBits = 3
SPECIFICATION Spec
INVARIANTS PartsTileTheBlock AlignIsLeast BytesArePortable DecodedAsEncoded SupportedUpToOwn
