SPECIFICATION Spec
CONSTANTS
  RecverSize = 4
  ThreadCounts = {3}
  SenderInputs <- MCOverfull
  MaskSize = 6
  AssumeFit = FALSE
INVARIANT ActIsExp
