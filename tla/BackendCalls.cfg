\* Every call that carries something across a library boundary.
SPECIFICATION Spec
CONSTANTS
  Queues <- MCQueues
  Limits = {1, 2}
  RecordLayouts <- MCRecordLayouts
  Words = 16
  HalfWords = 8
  Arguments <- MCArguments
  Defaults <- MCDefaults
  ConfigLayouts <- MCConfigLayouts
  Sizes <- MCSizes
  Places <- MCPlaces
  MaxTime = 3
  Starters = {"s1", "s2"}
  Messages <- MCMessages
  InvalidHandle <- MCInvalidHandle
  Probers = {"p1"}
  Images <- MCImages
INVARIANTS
  DecodesWhatWasQueued
  StaysInArray
  WorksAsMeant
  TimeIsOfThePacket
  TellsItsFailure
  HeldByItsUsers
  ProbeTells
\* A read_many() returns.
CHECK_DEADLOCK FALSE
