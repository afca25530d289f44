SPECIFICATION Spec
CONSTANTS Peers = {"p1", "p2"}
          Steps = {1}
          Files = {"f"}
          Touches <- MCTouches
          Operators = {"o1"}
          MaxCommits = 2
          MaxAcks = 1
          Signed = {}
INVARIANT GreenPlanIsFinished
CHECK_DEADLOCK FALSE
