SPECIFICATION Spec
CONSTANTS
  Conns = {c1, c2}
  Keys = {"guest", "other", "new"}
  Guests = {"guest"}
  Existing <- MCExisting
  MaxExisting = 3
  MaxRequests = 3
  MaxStarts = 1
  None = None
CHECK_DEADLOCK FALSE
INVARIANTS MemoryIsRedis IdsFresh OneKeyPerAccount AccountKept BackupCatchesUp
PROPERTIES QueueDrains
