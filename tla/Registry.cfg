SPECIFICATION Spec
CONSTANTS
  Ctls = {c1, c2}
  Pids = {p1, p2}
  None = None
  Missing = Missing
  MaxStarts = 2
  Modes = {"host", "container"}
  MaxKills = 1
SYMMETRY Symm
INVARIANTS OneLoop TermSparesStrangers
CHECK_DEADLOCK FALSE
