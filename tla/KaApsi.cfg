SPECIFICATION Spec
CONSTANTS
  Items <- MCItems
  ReceiverInputs <- MCReceiverInputs
  SenderInputs <- MCSenderInputs
  HashFunctions <- MCHashFunctions
INVARIANTS TypeOK TablesDecideTheOutcome SenderRecoversMessages
