SPECIFICATION Spec
CONSTANTS
  Roots = {v1, v2}
  Nodes = {n1, n2, n3}
  Null = Null
  Kinds <- AllKinds
  MayDescend = FALSE
SYMMETRY Symmetry
INVARIANTS TypeOK NothingTouchedAfterFree DestroyedOnce OwnersExact
