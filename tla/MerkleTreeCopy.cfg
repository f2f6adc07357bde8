SPECIFICATION Spec
CONSTANTS
  Values = {"a"}
  MaxLeaves = 14
  Calls = {"insert", "read", "size"}
VIEW View
INVARIANT CopyKeepsIndices
