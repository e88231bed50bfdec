\* A number that does not fit an int: 71 is 7 in 6 bits.
SPECIFICATION Spec
CONSTANTS
  MaxPort = 15
  IntBound = 32
  Numbers = {7, 71}
  Ports <- MCPorts
  Filters <- MCFilters
INVARIANTS
  RangeChecked
CHECK_DEADLOCK FALSE
