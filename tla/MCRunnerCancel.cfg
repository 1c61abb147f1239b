SPECIFICATION Spec
CONSTANTS
  Runs = {r1, r2}
  NoRun = NoRun
  verify_v040_bundle = verify_v040_bundle
  git_status = git_status
  bundle_verifier = bundle_verifier
  Tasks <- MCTasks
  NoTask = NoTask
  Group <- MCGroup
  NoGroup = NoGroup
  Limits = {1, 2}
  OsNames = {"nt"}
  MaxCrashes = 0
PROPERTY CancelledIsTerminal
CHECK_DEADLOCK FALSE
