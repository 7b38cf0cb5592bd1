SPECIFICATION FairSpec
CONSTANTS
  p1 = p1
  p2 = p2
  w1 = w1
  w2 = w2
  NoWorker = NoWorker
  NoTask = NoTask
  WorkerIds = {w1}
  Stages = {"download", "asr"}
  MaxRetries = 2
  LeaseTicks = 2
  MaxDelay = 1
  MaxToken = 3
  Tasks <- MCTasks
  Procs <- MCProcs
  WorkerOf <- SharedId
  KindOf <- ReplaySecond
INVARIANTS OneFencedProcess RetryBudget
PROPERTIES RecordsStay ImplementsJobQueue AbandonedIsReclaimed
