\* One sniff() of up to two packets, or of any number; or one command, with
\* Ctrl+C up to three times.
SPECIFICATION Spec
CONSTANTS
  Timeouts <- MCTimeouts
  Counts = {0, 1, 2}
  QueueSize = 2
  MaxPackets = 4
  MaxTime = 4
  MaxInterrupts = 3
INVARIANTS
  ReturnsAsPromised
  ClosedOnce
PROPERTIES
  SniffEnds
\* The call returns, and one without a timeout may have nothing to wait for.
CHECK_DEADLOCK FALSE
