SPECIFICATION PsiSpec
CONSTANTS
  N = 2
  Bins <- MCBins
  Hashes <- MCHashes
  HashChoices <- MCHashChoices
  MaxTries = 3
  Step = 2
  ThreadCounts <- MCThreadCounts
INVARIANTS AllInserted
