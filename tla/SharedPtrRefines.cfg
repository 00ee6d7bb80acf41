SPECIFICATION FairSpec
CONSTANTS
  Threads = {t1, t2}
  Slots = {s1, s2}
  Objects = {o1, o2}
  Counters = {c1, c2}
  Null = Null
  MayFail = FALSE
INVARIANT NoLeak
PROPERTY ImplementsOwnership
