SPECIFICATION FairSpec
CONSTANTS
  main = main
  user = user
  Main = main
  NoThread = NoThread
  NumThreads = 1
  MaxJobs = 1
  CreateMayFail = FALSE
  Clients <- OneClient
  Calls <- CallsPause
PROPERTY ResumeReleases
