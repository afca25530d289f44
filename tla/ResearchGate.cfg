SPECIFICATION Spec
CONSTANTS Urls = {"u1", "u2"}
          Narratives = {"n1", "n2", "n3"}
          Honest = {"n1", "n2"}
          MaxQuestions = 1
          K = 2
          MaxRounds = 2
          DryN = 2
          MaxStarts = 1
          MaxKills = 0
INVARIANT ConfirmedStaysWitnessed
CHECK_DEADLOCK FALSE
