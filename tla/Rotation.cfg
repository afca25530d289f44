SPECIFICATION FairSpec
CONSTANTS
  N = 3
  Recovery <- LastIsSpare
  MaxRetries = 0
  RecoveryInterval = 2
  Window = 1
  FailLimit = 2
  CheatLimit = 2
  MaxIterations = 6
  MaxFailures = 4
  MaxStarts = 2
INVARIANTS TypeOK RanPeerIsCharged LaunchesWithinBudget CrashLosesOneTick NoStarvation
PROPERTY LoopTerminates
CHECK_DEADLOCK FALSE
