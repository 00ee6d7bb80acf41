\* Words of 3 bits and elements of 2 bytes: at most 3 elements; 5 wraps around.
SPECIFICATION Spec
CONSTANTS
  Threads = {t1, t2}
  Default = system1
  system2 = system2
  pool = pool
  Customs <- MCCustoms
  Arena <- MCArena
  Addresses = {a1, a2}
  Null = Null
  Width = 3
  Size = 2
  Counts = {0, 1, 2, 5}
  Aligns = {8}
  RequiredAlign = 4
  MayThrow = TRUE
SYMMETRY Symmetry
INVARIANTS TypeOK BlocksReturnHome ReturnedAsAllocated ElementsFit NothingLost
