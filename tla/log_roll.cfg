SPECIFICATION Spec
CONSTANTS
  b1 = b1
  b2 = b2
  b3 = b3
  b4 = b4
  b5 = b5
  b6 = b6
  b7 = b7
  b8 = b8
  b9 = b9
  Buffers = {b1, b2, b3, b4, b5, b6, b7}
  NULL = NULL
  LogBufferSize = 3
  RollSize = 1
  MaxKept = 2
  MaxLines = 8
  MaxDays = 0
CHECK_DEADLOCK FALSE
PROPERTIES RollsToNewFile
