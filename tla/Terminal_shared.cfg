SPECIFICATION FairSpec
CONSTANTS
  Procs = {p, q}
  Calls = {"getc", "getc_mute"}
  StartFlags = {{}, {"ECHO"}, {"ICANON"}, {"ICANON", "ECHO"}}
  MayDie = TRUE
  MayEnd = TRUE
  MaxKeys = 2
INVARIANTS
  TypeOK
  CommonBitsBack
  ReadsKeys
PROPERTY
  LineModeReturns
CHECK_DEADLOCK FALSE
