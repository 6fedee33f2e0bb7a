SPECIFICATION FairSpec
CONSTANTS
  main = main
  user = user
  Main = main
  NoThread = NoThread
  NumThreads = 2
  MaxJobs = 3
  CreateMayFail = TRUE
  Clients <- OneClient
  Calls <- CallsLive
INVARIANT DestroyClean
PROPERTIES JobStarts JobFinishes WaitReturns DestroyReturns ImplementsWorkPool
CHECK_DEADLOCK FALSE
