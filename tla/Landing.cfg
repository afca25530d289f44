SPECIFICATION Spec
CONSTANTS
  a = a
  b = b
  Runs = {a, b}
  Commits = {0, 1, 2}
  None = None
  MaxRounds <- RoundsOf
  MaxFaults = 1
  DryN <- DryOf
  GateDryN = 2
  K = 2
  AutoMerge = {a, b}
CHECK_DEADLOCK FALSE
INVARIANTS LandedRowsAreTrue DryRunsStop
PROPERTIES TargetKeepsPromise GovernanceNeedsReview
