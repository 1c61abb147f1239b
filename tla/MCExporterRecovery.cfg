SPECIFICATION FairSpec
CONSTANTS
  alert = alert
  review = review
  obs = obs
  bad = bad
  NoEvent = NoEvent
  Events = {alert, review, obs, bad}
  Valid = {alert, review, obs}
  Priority <- MCPriority
  Path <- AlertLast
  Capacity = 1
  SpoolSize = 3
  BatchSize = 1
  MaxAttempts = 1
  MaxSubmits <- MCSubmits
  MaxFailures = 1
  MaxCrashes = 1
PROPERTY RestartReconciles
CHECK_DEADLOCK FALSE
