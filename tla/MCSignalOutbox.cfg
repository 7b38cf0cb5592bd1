SPECIFICATION FairSpec
CONSTANTS
  NoSignal = NoSignal
  NoPayload = NoPayload
  Signals = {1, 2}
  Payloads = {"v", "w"}
  Procs = {"p", "q"}
  LeaseTicks = 1
  RetryDelays <- Schedule
  PassTicks = 1
  MaxCrashes = 1
INVARIANTS DeliveredAsRecorded
PROPERTIES UndoneOnlyByALateMark EverySignalSettles
