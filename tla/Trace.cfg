CONSTANTS
  t1 = t1
  t2 = t2
  Threads = {t1, t2}
  Tags = {"camera", "hal"}
  MaxCalls <- MCMaxCalls
SPECIFICATION FairSpec
INVARIANTS LogMatchesCalls ContextsComeInPairs
PROPERTY CallsReturn
CHECK_DEADLOCK FALSE
