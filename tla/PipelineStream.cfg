\* Two captures; every queue overflows, and batches are cut and left in the middle.
SPECIFICATION PipelineSpec
CONSTANTS
  App = app
  Reader = reader
  JoinModes <- MCJoined
  CallbackModes <- MCJoined
  PrnOutcomes <- MCAnyCallback
  Store = TRUE
  QueueSize = 1
  DrainBatch = 3
  CallbackBatch = 2
  NativeCapacity = 3
  MaxThreads = 2
  MaxBackends = 2
  MaxPackets = 5
INVARIANTS
  TypeOK
  DrainsAlone
  NoSilentDeath
  InOrder
PROPERTIES
  ImplementsStream
  LossHasReason
CHECK_DEADLOCK TRUE
