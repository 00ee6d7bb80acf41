SPECIFICATION Spec
\* std::terminate stops every thread.
CHECK_DEADLOCK FALSE
CONSTANTS
  Threads = {t1, t2, t3}
  Slots = {s1, s2, s3}
  Objects = {o1, o2}
  Counters = {c1, c2, c3}
  Null = Null
  MayFail = TRUE
SYMMETRY Symmetry
INVARIANTS TypeOK CountMatchesOwners NoUseAfterFree SoleDeleter
