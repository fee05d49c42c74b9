SPECIFICATION Spec
CONSTANTS
  NULL = NULL
  UnsignedRange = 256
  calc_hash <- MCHash
  Word = 8
  Group = 3
  Files <- MCFiles
  Bootstrap <- MCBootstrap
  MaxFiles = 3
  MaxCalls = 2
CHECK_DEADLOCK FALSE
INVARIANTS CatalogueKept IdMapAgrees
PROPERTIES KeepsPromise
