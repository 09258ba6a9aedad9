SPECIFICATION Spec
CONSTANTS
  t1 = t1
  t2 = t2
  Top = 5
  Processes <- MCProcesses
INVARIANTS TypeOK OnlyToLog LockHeld OneLogFile
PROPERTIES KeepsOff RetryDelivers SomeThreadReturns
