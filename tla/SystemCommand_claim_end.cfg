SPECIFICATION SysSpec
CONSTANTS
  Chars = {"a"}
  Sep = "sep"
  MaxLen = 3
  WORDSIZE = 2
  MaxCalls = 1
INVARIANT ArrayEnded
CHECK_DEADLOCK FALSE
