SPECIFICATION AllSpec
CONSTANTS
  p1 = p1
  p2 = p2
  p3 = p3
  w1 = w1
  w2 = w2
  NoWorker = NoWorker
  NoTask = NoTask
  WorkerIds = {w1, w2}
  Tasks = {1}
  Procs = {p1, p2, p3}
  WorkerOf <- MixedIds
  Last = 3
  Stages <- ThreeStages
  Restorable = {1, 2}
  Drifting = {3}
  Interventions = {"pause", "resume", "retry", "invalidate", "rebuild"}
  MaxRetries = 2
  LeaseTicks = 2
  MaxDelay = 0
  MaxToken = 2
  a1 = a1
  a2 = a2
  a3 = a3
  r1 = r1
  r2 = r2
  r3 = r3
  Askers = {r1, r2, r3}
  None = None
  Posts <- SomePosts
  Demands <- SomeDemands
  MaxMishaps = 1
  Attempts = {a1, a2, a3}
  TaskOf <- TwoTasks
  NoInode = NoInode
  Sources <- SomeSources
  MaxFaults = 2
  Graphs <- SomeGraphs
  Manifests <- SomeManifests
  MaxDepth = 2
  MaxPlaylists = 3
  MaxAssets = 2
  MaxDuration = 3
INVARIANTS OutcomesAreBacked RowsTellTheTruth KeptIsWhole GraphIsClosed
PROPERTIES OnlyCurrentClaimRecords
