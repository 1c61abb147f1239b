SPECIFICATION FairSpec
CONSTANTS
  a = a
  b = b
  c = c
  r1 = r1
  r2 = r2
  r3 = r3
  Events = {a, b, c}
  Key <- MCKey
  MaxEvents = 2
  Requests = {r1, r2, r3}
  Body <- MCBody
  NoRequest = NoRequest
  NoBatch = NoBatch
  Handlers = {h1}
  Pump = Pump
  Workers = {w1}
  InId <- ThreadInId
  QueueCap = 1
  MaxAttempts = 2
  MaxFailures = 1
  MaxCrashes = 1
  MaxFaults = 1
INVARIANTS AckedIsDurable AcceptedOnce OneHolder
PROPERTIES StrandedWhenFull ImplementsAtLeastOnce DeliveredWhenComplete
CHECK_DEADLOCK FALSE
