\* One reader, two delivering threads, every kind of configuration and descriptor.
SPECIFICATION Spec
CONSTANTS
  Controller = ctl
  NoThread = none
  r1 = r1
  r2 = r2
  w1 = w1
  w2 = w2
  Readers = {r1}
  Workers = {w1, w2}
  DefaultCapacity = 2
  Configs <- MCConfigs
  Descriptors <- MCDescriptors
  MaxBatch = 2
  MaxPackets = 3
  MaxStarts = 2
SYMMETRY Symmetry
INVARIANTS
  TypeOK
  LayeredHandles
  StartOutcome
  QueueIsCurrent
  FreedIsUnreachable
  PayloadIntact
PROPERTIES
  ImplementsContract
CHECK_DEADLOCK TRUE
