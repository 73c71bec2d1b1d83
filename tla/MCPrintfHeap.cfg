SPECIFICATION PHSpec
CONSTANTS
  MALLOC_PAGE_SIZE = 512
  U64Range = 100000
  LastPage = 4
  Handles <- MCHandles
  NoHandle <- MCNoHandle
  Requests = {40, 440}
  MaxDebt = 0
  Rules = {}
  Formats <- MCFormats
  MaxCalls = 2
  Lengths = {1}
  StaleLengths = {23}
  MemoryMayFail = TRUE
  Mine <- MCMine
INVARIANTS
  FirstPageDisjoint
  EmptyHeapGone
CHECK_DEADLOCK FALSE
