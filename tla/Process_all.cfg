SPECIFICATION FairSpec
CONSTANTS
  Pids = {1, 2, 3}
  Root = 1
  Codes = {0, 7}
  ExecMayFail = TRUE
  SignalsSent = TRUE
  HandlersSet = TRUE
INVARIANTS
  TypeOK
  ChildIsThere
  NothingLeft
  OneRuns
PROPERTY
  CmdReturns
CHECK_DEADLOCK FALSE
