SPECIFICATION Spec
CONSTANTS
  main = main
  user = user
  Main = main
  NoThread = NoThread
  NumThreads = 3
  MaxJobs = 4
  CreateMayFail = FALSE
  Clients <- TwoClients
  Calls <- CallsWork
INVARIANTS TypeOK JobAccounting WaitSound WakeupChain WaiterCovered
