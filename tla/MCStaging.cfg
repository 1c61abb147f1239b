SPECIFICATION FairSpec
CONSTANTS
  a = a
  b = b
  c = c
  r1 = r1
  r2 = r2
  r3 = r3
  Events = {a, b, c}
  Key <- MCKey
  MaxEvents = 2
  Requests = {r1, r2, r3}
  Body <- MCBody
  NoRequest = NoRequest
  NoBatch = NoBatch
  Handlers = {h1, h2}
  Workers = {w1, w2}
  InId <- NothingInId
  QueueCap = 1
  MaxAttempts = 2
  MaxFailures = 2
  MaxCrashes = 1
  MaxFaults = 1
INVARIANTS AckedIsDurable OneHolder
PROPERTIES ForgottenWhenFull ImplementsAtLeastOnce DeliveredUnlessForgotten
CHECK_DEADLOCK FALSE
