SPECIFICATION PsiSpec
CONSTANTS
  N = 4
  Bins <- MCBins
  Hashes <- MCHashes
  HashChoices <- MCHashChoices
  MaxTries = 3
  Step = 2
  ThreadCounts <- MCThreadCounts
INVARIANTS TypeOK LostOnlyInRaces ReportsWhatMeets
PROPERTIES PsiEnds
