CONSTANTS
  d1 = d1
  d2 = d2
  Descriptors = {d1, d2}
  NoDescriptor = NoDescriptor
  Base = 2
  Digits = 2
  Messages <- MCMessages
  BufferSize = 2
  MaxSends = 3
SPECIFICATION FairSpec
INVARIANTS ReturnedIsConnected OnlyPipesLeak FramesInOrder
PROPERTY AllReceived
CHECK_DEADLOCK FALSE
