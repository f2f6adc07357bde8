SPECIFICATION Spec
CONSTANTS
  Session <- MCSession
  Cases <- MCCases
CHECK_DEADLOCK FALSE
INVARIANTS TypeOK NoMatchMissed ServedByOneSession KeepsListening EndsAreKnown
PROPERTY StopReturns
