SPECIFICATION Spec
CONSTANTS
  Proc = {p1, p2, p3}
  Nobody = Nobody
  MaxFiles = 3
INVARIANTS MutualExclusion
CHECK_DEADLOCK FALSE
