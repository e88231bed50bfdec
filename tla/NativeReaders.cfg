\* Two readers, one delivering thread, one capture; no symmetry, for liveness.
SPECIFICATION FairSpec
CONSTANTS
  Controller = ctl
  NoThread = none
  r1 = r1
  r2 = r2
  w1 = w1
  w2 = w2
  Readers = {r1, r2}
  Workers = {w1}
  DefaultCapacity = 2
  Configs <- MCOneConfig
  Descriptors <- MCOneDescriptor
  MaxBatch = 2
  MaxPackets = 2
  MaxStarts = 1
INVARIANTS
  NoLostWakeup
  StoppedIsQuiet
  ReadInOrder
PROPERTIES
  StopCompletes
  ReadReturns
CHECK_DEADLOCK TRUE
