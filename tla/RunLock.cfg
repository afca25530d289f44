SPECIFICATION Spec
CONSTANTS
  Proc = {p1, p2, p3, p4}
  Nobody = Nobody
  MaxFiles = 4
SYMMETRY Interchangeable
INVARIANT ExclusiveUnlessOrphaned
CHECK_DEADLOCK FALSE
