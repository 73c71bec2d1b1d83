SPECIFICATION Spec
CONSTANTS
  Procs = {p, q}
  Calls = {"getc", "getc_mute"}
  StartFlags = {{"ICANON", "ECHO"}}
  MayDie = FALSE
  MayEnd = FALSE
  MaxKeys = 2
INVARIANT
  BitsBack
CHECK_DEADLOCK FALSE
