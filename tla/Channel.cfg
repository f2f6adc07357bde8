SPECIFICATION Spec
CONSTANTS
  QueueCap = 1
  Cases <- MCCases
CHECK_DEADLOCK FALSE
INVARIANTS TypeOK OneAtATime GivenUpIsFinished CrashesAreKnown CloseLeavesOnlyTheDoomed
PROPERTIES QueuesAreFifo CancelReturns CloseReturns
