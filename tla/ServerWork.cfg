SPECIFICATION FairSpec
CONSTANTS
  NChildren = 2
  MaxConns = 4
  MsgLen = 2
  MayFail = TRUE
INVARIANTS TypeOK Books SelectFresh ConnAccounting
PROPERTIES ConnServed FailureNoticed Shutdown
CHECK_DEADLOCK FALSE
