SPECIFICATION FairSpec
CONSTANTS
  main = main
  user = user
  Main = main
  NoThread = NoThread
  NumThreads = 1
  MaxJobs = 2
  CreateMayFail = FALSE
  Clients <- OneClient
  Calls <- CallsAddPause
PROPERTY AddReturns
CHECK_DEADLOCK FALSE
