SPECIFICATION Spec
CONSTANTS
  t1 = t1
  t2 = t2
  Top = 5
  Processes <- Unplaced
INVARIANTS NothingAstray
