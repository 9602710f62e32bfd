CONSTANTS
  t1 = t1
  t2 = t2
  t3 = t3
  r1 = r1
  r2 = r2
  r3 = r3
  Threads = {t1, t2, t3}
  Refs = {r1, r2, r3}
  WordSize = 4
SPECIFICATION FairSpec
INVARIANTS NoEarlyRelease ReleasedOnce SoleOwner
PROPERTY EventuallyReleased
CHECK_DEADLOCK FALSE
