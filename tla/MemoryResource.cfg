SPECIFICATION Spec
CONSTANTS
  Resources = {r1, r2, r3}
  Heap <- MCHeap
  Buffer <- MCBuffer
  Data = {d1}
  Junk = Junk
  Width = 3
  MayFail = TRUE
  Aliasing = FALSE
SYMMETRY Symmetry
INVARIANTS TypeOK OwnersMatchBlocks ContainsIsExact
PROPERTY CopyIsFaithful
