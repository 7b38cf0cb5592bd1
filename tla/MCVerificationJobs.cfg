SPECIFICATION FairSpec
CONSTANTS
  p1 = p1
  p2 = p2
  w1 = w1
  NoWorker = NoWorker
  NoTurn = NoTurn
  WorkerIds = {w1}
  Jobs = {1, 2}
  Workers = {p1, p2}
  WorkerOf <- SharedId
  Orphans = {2}
  Answers = {"a"}
  LeaseTicks = 1
  RetryDelays <- Once
  PassTicks = 1
  Mortal = {p1}
  Askable = {2}
INVARIANT OneRunHolder
PROPERTIES UndoneOnlyByALateWrite EveryJobIsAnswered
