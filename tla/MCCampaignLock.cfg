SPECIFICATION Spec
CONSTANTS
  u1 = u1
  u2 = u2
  Units = {u1, u2}
  Plan <- MCPlan
  Operators = {p1, p2}
  UnlinkOpen = TRUE
  MaxFaults = 0
  MaxCrashes = 0
INVARIANT LedgerStaysReadable
CHECK_DEADLOCK FALSE
