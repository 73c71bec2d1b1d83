SPECIFICATION Spec
CONSTANTS
  Formats <- MCFormats
  MaxCalls = 2
  Lengths = {1, 3}
  StaleLengths = {2, 23}
  MemoryMayFail = TRUE
INVARIANTS
  TotalOverByNuls
  PassesAgree
  ArgsInOrder
  NothingLeaked
  FreesOwnOrStrings
CHECK_DEADLOCK FALSE
