SPECIFICATION Spec
CONSTANTS
  MALLOC_PAGE_SIZE = 192
  U64Range = 100000
  LastPage = 3
  Handles = {p, q, r}
  NoHandle = NoHandle
  Requests = {8, 24, 72}
  MaxDebt = 60
  Rules = {"keep_page_used", "spare_header"}
SYMMETRY Symmetry
INVARIANT ListedAreFree
CHECK_DEADLOCK FALSE
