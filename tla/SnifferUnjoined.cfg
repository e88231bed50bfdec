\* stop() joins, times out or does not join, and so does a stop by the callback.
SPECIFICATION Spec
CONSTANTS
  App = app
  Reader = reader
  JoinModes <- MCAnyJoin
  CallbackModes <- MCEither
  PrnOutcomes <- MCAnyCallback
  Store = FALSE
  QueueSize = 1
  DrainBatch = 2
  CallbackBatch = 1
  MaxThreads = 2
  MaxBackends = 2
  MaxPackets = 2
INVARIANTS
  StopOutcome
  NothingLeaks
  NoUseAfterDestroy
CHECK_DEADLOCK TRUE
