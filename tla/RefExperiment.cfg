\* Two runs of the script that start in the same second or not.
SPECIFICATION Spec
CONSTANTS
  Runs = {r1, r2}
  Settings <- MCSettings
  MaxSecond = 2
CHECK_DEADLOCK FALSE
INVARIANTS ResultsInPlace EveryModelKept AxesMatch
PROPERTIES Completes
