\* The model stops when its messages, runs and requests are used up.
SPECIFICATION Spec
CONSTANTS
  Loads <- MCLoads
  QueueSize = 2
  Parts = 2
  Period = 2
  MaxLogSize = 3
CHECK_DEADLOCK FALSE
INVARIANTS TypeOK EchoOK RowsMatch ThreadsKeepApart
PROPERTIES MessagesEchoed
