SPECIFICATION AllFairSpec
CONSTANTS
  u1 = u1
  u2 = u2
  Units = {u1, u2}
  Plan <- MCPlan
  Operators = {p1}
  UnlinkOpen = TRUE
  MaxFaults = 3
  MaxCrashes = 3
  LabRuns = {l1, l2}
  Revisions = {h1, h2}
  MaxEnds = 3
  MaxRuns = 2
  MaxBlindFaults = 1
  Predictions = {h1, h2}
  MaxReviews = 2
  MaxProposalFaults = 1
INVARIANTS CompletedIsSealed RetryAfterEvidence NoDeadEnd CompletedIsVerifiable StrandedByRow FilesFollowCommitment PredictedBlind FrozenIsScreened FaultlessIsSound AdmissionIsEarned
PROPERTIES EvidenceKept ImplementsPlanWalk CampaignSettles BundleImmutable RunsSettle ValidationSettles ProposalSettles
CHECK_DEADLOCK FALSE
