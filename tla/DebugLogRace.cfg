SPECIFICATION Spec
CONSTANTS
  t1 = t1
  t2 = t2
  Top = 6
  Processes <- Racing
INVARIANTS NotGivenUp
