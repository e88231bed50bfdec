\* Two captures; every queue overflows.
SPECIFICATION FairPipelineSpec
CONSTANTS
  App = app
  Reader = reader
  JoinModes <- MCJoined
  CallbackModes <- MCJoined
  PrnOutcomes <- MCAnyCallback
  Store = FALSE
  QueueSize = 1
  DrainBatch = 2
  CallbackBatch = 0
  NativeCapacity = 1
  MaxThreads = 2
  MaxBackends = 2
  MaxPackets = 3
PROPERTIES
  PacketsMoveOn
  StopEnds
  IterationEnds
CHECK_DEADLOCK TRUE
