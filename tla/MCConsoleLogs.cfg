CONSTANTS
  Main = Main
  Other = Other
  Foreign = Foreign
  Calls <- MCCalls
  Kinds <- MCKinds
  Args <- MCArgs
  MaxRows <- MCMaxRows
  MaxLogs <- MCMaxLogs
  Registered = TRUE
  Polls = 2
  Cap = 2
  MaxHeld = 3
  MaxFaults = 1
SPECIFICATION Spec
INVARIANTS FinishedOutputIsReturned
CHECK_DEADLOCK FALSE
