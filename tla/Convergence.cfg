SPECIFICATION Spec
CONSTANTS
  Modes = {"implement", "thorough", "hunt-open-ended"}
  Gates <- TestsAndAudit
  Watched <- JustTests
  SkepticGates <- JustAudit
  CleanN = 2
  StuckAfter = 3
  PhaseAN = 1
  PhaseBN = 2
  SkepticEnabled = TRUE
  Checkpoint = TRUE
  Ends = {"crash", "interrupt", "max_ticks"}
  MaxIterations = 5
  MaxSteps = 1
  MaxStarts = 2
INVARIANTS ConvergesPromptly PausesAsPlanned
PROPERTIES CompleteIsEarned StuckMeansRedTicks
CHECK_DEADLOCK FALSE
