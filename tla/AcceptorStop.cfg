SPECIFICATION Spec
CONSTANTS
  Session <- MCSession
  Cases <- Stopping
CHECK_DEADLOCK FALSE
PROPERTY StopReturnsOnceAllAreStopped
