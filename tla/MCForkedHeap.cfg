SPECIFICATION FHSpec
CONSTANTS
  MALLOC_PAGE_SIZE = 192
  U64Range = 100000
  LastPage = 3
  Handles = {p, q, r}
  NoHandle = NoHandle
  Requests = {24, 104, 120, 150}
  MaxDebt = 0
  MaxForks = 2
  Rules = {"keep_last_block", "keep_page_used", "spare_header"}
SYMMETRY Symmetry
INVARIANTS
  DisjointBlocks
  HeadersIntact
  UsesCovered
CHECK_DEADLOCK FALSE
