\* Ports up to 15, ints of 6 bits, and numbers that fit an int.
SPECIFICATION Spec
CONSTANTS
  MaxPort = 15
  IntBound = 32
  Numbers = {0, 7, 15, 16}
  Ports <- MCPorts
  Filters <- MCFilters
INVARIANTS
  TypeOK
  CapturesWhatIsMeant
  OnlyNamedProtocols
  RangeChecked
\* configure_session_constraints returns.
CHECK_DEADLOCK FALSE
