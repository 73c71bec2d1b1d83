SPECIFICATION Spec
CONSTANTS
  MALLOC_PAGE_SIZE = 192
  U64Range = 100000
  LastPage = 5
  Handles = {p, q, r}
  NoHandle = NoHandle
  Requests = {8, 24, 72, 130, 330}
  MaxDebt = 0
  Rules = {"keep_last_block", "keep_page_used", "spare_header"}
SYMMETRY Symmetry
INVARIANTS
  
  FreeBytesSound
  BlocksInPage
  ListedAreFree
  UsagesExact
  PagesLinked
  FaultsExplained
  HugeBacked
PROPERTIES
  ImplementsAbstract
CHECK_DEADLOCK FALSE
