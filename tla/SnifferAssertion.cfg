\* stop(join=False) right after start().
SPECIFICATION Spec
CONSTANTS
  App = app
  Reader = reader
  JoinModes <- MCUnjoined
  CallbackModes <- MCNone
  PrnOutcomes <- MCAnyCallback
  Store = TRUE
  QueueSize = 1
  DrainBatch = 2
  CallbackBatch = 0
  MaxThreads = 1
  MaxBackends = 2
  MaxPackets = 1
INVARIANTS
  AssertionHolds
CHECK_DEADLOCK TRUE
