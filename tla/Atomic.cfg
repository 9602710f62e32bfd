CONSTANTS
  t1 = t1
  t2 = t2
  t3 = t3
  Threads = {t1, t2, t3}
  WordSize = 4
  BitAnd <- MCBitAnd
  BitOr <- MCBitOr
  Calls <- MCCalls
  MaxInterrupts = 1
  ISA = "arm64"
SPECIFICATION FairBuildSpec
PROPERTIES Linearizable LockFree
