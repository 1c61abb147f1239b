SPECIFICATION BlindSpec
CONSTANTS
  MaxRuns = 2
  MaxBlindFaults = 0
INVARIANT AcceptedAsCommitted
CHECK_DEADLOCK FALSE
