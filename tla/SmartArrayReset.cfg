SPECIFICATION Spec
CONSTANTS
  Slots = {s1, s2, s3}
  Uniques = {u1, u2}
  Arrays = {a1, a2, a3}
  Counters = {c1, c2, c3, c4}
  Null = Null
  MaxSize = 2
  MayThrow = FALSE
  SharedReset = TRUE
SYMMETRY Symmetry
INVARIANT HeldArrayExists
