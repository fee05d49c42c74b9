SPECIFICATION Spec
CONSTANTS
  NULL = NULL
  UnsignedRange = 64
  calc_hash <- MCHash
  Keys <- Names
  Values = {0}
  Align = 4
  HeapSize = 32
  SlotSize = 6
  ValueSize = 5
  VarSize = 3
  INNER_FIELD = 2
  PAGE_SIZE = 6
  StringSizes = {1, 5, 7}
  MaxEntries = 5
  MaxPushed = 5
  MaxStrings = 2
CHECK_DEADLOCK FALSE
INVARIANTS MemorySafe IterationComplete
PROPERTIES KeepsPromise
