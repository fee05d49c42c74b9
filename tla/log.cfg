SPECIFICATION FairSpec
CONSTANTS
  b1 = b1
  b2 = b2
  b3 = b3
  b4 = b4
  b5 = b5
  b6 = b6
  b7 = b7
  b8 = b8
  b9 = b9
  Buffers = {b1, b2, b3, b4, b5, b6, b7, b8, b9}
  NULL = NULL
  LogBufferSize = 3
  RollSize = 3
  MaxKept = 4
  MaxLines = 10
  MaxDays = 1
CHECK_DEADLOCK FALSE
INVARIANTS TypeOK AssertsHold BuffersAccounted
PROPERTIES KeepsPromise Flushed
