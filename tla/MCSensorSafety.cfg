SPECIFICATION FairSpec
CONSTANTS
  a = a
  b = b
  c = c
  d = d
  Events = {a, b, c, d}
  Key <- MCKey
  MaxEvents = 50
  Requests <- CollidesRequests
  NoRequest = NoRequest
  NoBatch = NoBatch
  Line <- Collides
  InitialLines = 3
  BatchSize = 2
  MaxFailures = 3
  MaxCrashes = 2
INVARIANTS ShippedIsJournaled
PROPERTIES FixedFileShipped
CHECK_DEADLOCK FALSE
