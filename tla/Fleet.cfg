SPECIFICATION Spec
CONSTANTS
  a = a
  b = b
  c = c
  Run = {a, b, c}
  NoRun = NoRun
  Order <- MCOrder
  Slots = 2
  Allowed <- MCAllowed
  Budget <- MCBudget
  MaxRuns = 2
  AutoMerge = {a, b}
  Hosting = {b}
  Programs <- MCPrograms
  MaxStarts = 2
CHECK_DEADLOCK FALSE
INVARIANTS StartsAreSound CascadeComplete
PROPERTIES SettledStaysSettled FleetEnds
