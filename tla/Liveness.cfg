SPECIFICATION FairSpec
INVARIANTS SuccessIsClean PeerStatusIsReal BroughtUpIsGreen ProxyIsSound
PROPERTY EverythingEnds
CHECK_DEADLOCK FALSE
CONSTANTS
  Gates = {"lint", "tests"}
  Expensive = {"tests"}
  Cacheable = {"tests"}
  GoalSet <- MCGoalSet
  Pipelining = {TRUE, FALSE}
  Reviewers = {"p1", "p2", "p3"}
  Modes = {"other", "alternating", "both", "quorum"}
  ConsensusNeeded = 2
  QuorumNum = 2
  QuorumDen = 3
  HistoryCap = 4
  MaxReviews = 5
  Peers = {"p1", "p2"}
  Topics = {"t"}
  MaxCommits = 2
  MaxFiles = 2
  LogStreams = {"stdout", "stderr"}
  Threshold = 1
  MaxTicks = 2
  Tests = {"t"}
  MaxEdits = 3
  Steps = {1}
  PlanFiles = {"f"}
  Touches <- MCTouches
  Signed = {}
  Operators = {"o1"}
  MaxPlanCommits = 3
  MaxAcks = 1
  Commands = {"c1", "c2"}
  MaxAmends = 3
  BugCommits <- MCCommits
  MaxBugCommits = 4
  Urls = {"u1", "u2"}
  Narratives = {"n1", "n2"}
  Honest = {"n1"}
  MaxQuestions = 2
  K = 2
  MaxRounds = 2
  DryN = 2
  MaxStarts = 2
  MaxKills = 1
  Caps = {1, 2}
  DefaultCap = 2
  MaxBudgetCommands = 4
  NoCap = NoCap
  Plans = {"none", "a", "b"}
  MaxCommands = 3
  MaxScaffoldCommits = 4
  Proc = {"p1", "p2"}
  Run = {"m", "n"}
  NoProcess = NoProcess
  MaxLeases = 3
  MaxLockFiles = 3
  MaxCrashes = 2
  Runs = {"r1", "r2"}
  MaxChildren = 3
  MaxMessages = 2
  Projects = {"a", "ab"}
  Within <- MCWithin
  Scripts <- MCScripts
  BufCap = 3
  Orphans = {"o1", "o2"}
  Order <- MCOrder
  Truth <- MCTruth
  Budget = 1
  Conns = {"k1", "k2", "k3"}
  MaxConcurrent = 2
  MaxPairs = 2
  Subjects = {"PeerInvocation", "Reaper", "BringUp", "AuthProxy"}
