CONSTANTS
  Windows = {0, 1, 2, 3, 4}
  MaxFrames = 20
SPECIFICATION Spec
INVARIANT WindowRespected
CHECK_DEADLOCK FALSE
