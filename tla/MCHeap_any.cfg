SPECIFICATION Spec
CONSTANTS
  MALLOC_PAGE_SIZE = 88
  U64Range = 100000
  LastPage = 3
  Handles = {p, q, r}
  NoHandle = NoHandle
  Requests = {0, 5, 16, 32, 100}
  MaxDebt = 160
  Rules = {}
SYMMETRY Symmetry
INVARIANT TypeOK
CHECK_DEADLOCK FALSE
