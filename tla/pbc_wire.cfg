SPECIFICATION Spec
CONSTANTS
  NULL = NULL
  UnsignedRange = 256
  calc_hash <- MCHash
  Word = 8
  Group = 3
  Schema <- MCSchema
  Enums <- MCEnums
  WMESSAGE_SIZE = 12
  EnumPadding = 85
  Roots <- MCRoots
  ReadAs <- MCReadAs
  NumberSamples <- MCNumbers
  EnumNames = {"red", "green", "blue"}
  TextSamples <- MCTexts
  Formats <- MCFormats
  Structs <- MCStructs
  Rooms <- MCRooms
  Tails <- MCTails
  MaxWrites <- MCMaxWrites
  MaxMessages = 4
CHECK_DEADLOCK FALSE
INVARIANTS WithinBuffer ReadsBack TruncationSeen CallsMatch StructHolds PackFits
