\* Several graphs and realizations: what the training is told of its place.
SPECIFICATION Spec
CONSTANTS
  Runs = {r1}
  Settings <- MCSettings
  MaxSecond = 1
CHECK_DEADLOCK FALSE
INVARIANTS OptionsIdentify
