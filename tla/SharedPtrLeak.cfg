SPECIFICATION Spec
CHECK_DEADLOCK FALSE
CONSTANTS
  Threads = {t1}
  Slots = {s1, s2}
  Objects = {o1}
  Counters = {c1}
  Null = Null
  MayFail = TRUE
INVARIANT NoLeak
