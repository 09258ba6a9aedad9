\* The model stops when its messages and runs are used up.
SPECIFICATION Spec
CONSTANTS
  Loads <- MCRestart
  QueueSize = 1
  Parts = 1
  Period = 2
  MaxLogSize = 2
CHECK_DEADLOCK FALSE
PROPERTIES EventsStay
