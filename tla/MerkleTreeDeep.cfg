SPECIFICATION Spec
CONSTANTS
  Values = {"a"}
  MaxLeaves = 15
  Calls <- MCDeepCalls
VIEW View
INVARIANTS RootCommitsToLeaves PastIsRetraction
