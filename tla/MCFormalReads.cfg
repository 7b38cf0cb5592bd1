SPECIFICATION Spec
CONSTANTS
  Ingests = {"s1", "s2"}
  Replays = {"r1"}
  Refreshes = {"f1"}
  Draft <- Drafted
  Contradicted = {3, 4}
  ReplayOf <- Replayed
  RefreshOf <- Refreshed
  Clients = {a, b}
  a = a
  b = b
  Keys = {"k"}
  Requests <- Asking
  MaxCalls = 3
SYMMETRY Alike
CHECK_DEADLOCK FALSE
INVARIANTS
  EachKeyItsBundle
  AnswersShowTheirSnapshot
PROPERTY
  OnlyWhatWasKnownRewrites
