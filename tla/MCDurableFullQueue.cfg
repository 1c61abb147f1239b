SPECIFICATION FairSpec
CONSTANTS
  a = a
  b = b
  c = c
  r1 = r1
  r2 = r2
  r3 = r3
  Events = {a, b}
  Key <- TwoKeys
  MaxEvents = 2
  Requests = {r1, r2}
  Body <- TwoBodies
  NoRequest = NoRequest
  NoBatch = NoBatch
  Handlers = {h1}
  Pump = Pump
  Workers = {w1, w2}
  InId <- ThreadInId
  QueueCap = 1
  MaxAttempts = 1
  MaxFailures = 0
  MaxCrashes = 0
  MaxFaults = 0
PROPERTY PendingIsDelivered
CHECK_DEADLOCK FALSE
