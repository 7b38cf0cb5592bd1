SPECIFICATION AllSpec
CONSTANTS
  first = first
  second = second
  again = again
  closing = closing
  review = review
  Claims = {1, 2}
  Live = {first, second}
  Replays = {again}
  Closings = {closing}
  Reviews = {review}
  ClaimsOf <- ClaimsByWriter
  TargetEnd <- Ends
  FirstOf <- Hashes
  ReplayOf <- Source
  Tries <- Twice
  d1 = d1
  d2 = d2
  w1 = w1
  w2 = w2
  NoWorker = NoWorker
  NoTask = NoTask
  Tasks = {1}
  Dispatchers = {d1, d2}
  WorkerOf <- OwnIds
  MaxAttempts = 4
  LeaseTicks = 2
  RetryBase = 1
  RetryCap = 3
  MaxToken = 2
  AttemptBound = 5
INVARIANTS OneHistory PublishedAsOneUnit NoCircularWait CompletedMeansIndexed
PROPERTIES ImplementsClaimHistory OnlyOwnerActs EveryIntentSettles
CHECK_DEADLOCK FALSE
