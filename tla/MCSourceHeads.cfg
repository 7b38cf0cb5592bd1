SPECIFICATION Spec
CONSTANTS
  s1 = s1
  s2 = s2
  a = a
  b = b
  Sources = {s1, s2}
  Claims = {a, b}
  Contents <- TwoSources
  Ingests = {i1, i2}
  Workers = {w1, w2}
  NoWorker = NoWorker
  w1 = w1
  i1 = i1
  i2 = i2
  w2 = w2
  worker = worker
  WorkerIds = {worker}
  WorkerOf <- SharedId
  Statuses = {"VERIFIED", "CONTRADICTED"}
  Pending = Pending
  LeaseTicks = 1
  SnapshotIds = {1, 2, 3, 4}
  MaxTime = 2
SYMMETRY Alike
CHECK_DEADLOCK FALSE
INVARIANT AuditsForEver
PROPERTY HeadsNeverGoBack AnswersReachAndStay
