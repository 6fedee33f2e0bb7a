SPECIFICATION Spec
CONSTANTS
  NChildren = 2
  MaxConns = 2
  MsgLen = 2
  MayFail = TRUE
INVARIANT ReadyIsReady
CHECK_DEADLOCK FALSE
