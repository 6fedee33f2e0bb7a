SPECIFICATION FairSpec
CONSTANTS
  NThreads = 3
  MAXNCLI = 3
  MaxConns = 6
  MayFail = TRUE
INVARIANTS TypeOK RingAccounting WakeupPerConn OverflowIsFull
PROPERTIES ImplementsConnQueue ConnTaken ConnServed
CHECK_DEADLOCK FALSE
