SPECIFICATION SysSpec
CONSTANTS
  Chars = {"a", "b"}
  Sep = "sep"
  MaxLen = 6
  WORDSIZE = 2
  MaxCalls = 2
INVARIANTS
  ArrayFits
  TokensInOrder
  BytesExact
  BrkHonest
  ArgumentsApart
CHECK_DEADLOCK FALSE
