SPECIFICATION JobsSpec
CONSTANTS
  p1 = p1
  p2 = p2
  w1 = w1
  NoWorker = NoWorker
  NoTurn = NoTurn
  WorkerIds = {w1}
  Jobs = {1}
  Workers = {p1}
  WorkerOf <- OneProcess
  Orphans = {}
  Answers = {"a", "b"}
  LeaseTicks = 1
  RetryDelays <- Once
  PassTicks = 2
  Mortal = {p1}
  Askable = {1}
PROPERTIES NoLeaseRevoked
