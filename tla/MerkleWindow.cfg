SPECIFICATION Spec
CONSTANTS
  Hash <- MCHash
  MaxLeaves <- MCMaxLeaves
  WordSize <- MCWordSize
  OutOfRange <- MCOutOfRange
INVARIANTS TypeOK WindowNeverEmpty LeafReadsTheLog
PROPERTY ImplementsLog
