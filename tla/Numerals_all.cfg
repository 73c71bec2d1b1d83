SPECIFICATION Spec
CONSTANTS
  Bits = 12
  Funs = {"printint", "itos", "printhex", "printbyte", "hexstr64", "hexstr8"}
INVARIANTS
  DecimalRight
  HexRight
  NegativeShape
CHECK_DEADLOCK FALSE
