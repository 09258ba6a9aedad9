\* 1, 2 and 4 clusters in the first call; names get a second digit at the
\* fourth cluster.  The script ends: no deadlock check.
SPECIFICATION FairSpec
CONSTANTS
  DataSets <- MCDataSets
  Exponents = 3
  Base = 3
  Scale = 60
  Scores = {0, 1}
CHECK_DEADLOCK FALSE
INVARIANTS ClustersOK
PROPERTIES CostNeverGrows Terminates
