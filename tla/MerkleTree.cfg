SPECIFICATION Spec
CONSTANTS
  Values = {"a", "b"}
  MaxLeaves = 6
  Calls <- MCCalls
VIEW View
INVARIANTS TypeOK RootCommitsToLeaves PathsVerify CleanHashesAreRight NodesAreOwned PastIsRetraction SegmentIsRetractionAndFlush
PROPERTY ImplementsWindow
