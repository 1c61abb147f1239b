SPECIFICATION FairSpec
CONSTANTS
  alert = alert
  review = review
  obs = obs
  bad = bad
  NoEvent = NoEvent
  Events = {alert, review, obs, bad}
  Valid = {alert, review, obs}
  Priority <- MCPriority
  Path <- ObsLast
  Capacity = 2
  SpoolSize = 3
  BatchSize = 2
  MaxAttempts = 2
  MaxSubmits <- MCSubmits
  MaxFailures = 2
  MaxCrashes = 2
INVARIANTS CheckpointedIsDelivered QueuedIsDurable Reconciled
PROPERTIES RemovedOnlyWhenSettled ImplementsAtLeastOnce FittingSpoolReconciles
CHECK_DEADLOCK FALSE
