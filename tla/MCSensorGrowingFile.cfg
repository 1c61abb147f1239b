SPECIFICATION FairSpec
CONSTANTS
  a = a
  b = b
  c = c
  d = d
  Events = {a, b, c, d}
  Key <- MCKey
  MaxEvents = 50
  Requests <- DistinctRequests
  NoRequest = NoRequest
  NoBatch = NoBatch
  Line <- Distinct
  InitialLines = 0
  BatchSize = 2
  MaxFailures = 2
  MaxCrashes = 0
PROPERTY EveryLineShipped
CHECK_DEADLOCK FALSE
