CONSTANTS
  Extensions = {"x"}
  ByteValues = 2
  NS_PER_SEC = 3
  BITS_PER_WORD = 3
  Sizes = {1, 3, 5, 7}
  ChannelBits = {0, 1, 2, 15, 16, 17, 18, 29}
  BYTE_SIZE = 4
  KeyRoom = 4
  SocketNames <- MCSocketNames
  IntValues = 16
  LongValues = 64
  Numbers = {3, 20, 40}
SPECIFICATION Spec
INVARIANTS
  RuleMostSpecific StampsInOrder EntriesMatchUntil2038 BitmaskIsASet
  DevicesClassified ChannelsCounted FormatsAgree FrameSizesAgree
  EverySectorVisited EveryKeyTried FieldsComeBack SocketIsTheOneNamed
CHECK_DEADLOCK FALSE
