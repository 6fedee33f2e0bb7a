SPECIFICATION FairSpec
CONSTANTS
  main = main
  user = user
  Main = main
  NoThread = NoThread
  NumThreads = 2
  MaxJobs = 2
  CreateMayFail = FALSE
  Clients <- TwoClients
  Calls <- CallsPause
INVARIANT IndInv
PROPERTY PauseLosesNothing
