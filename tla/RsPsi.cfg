SPECIFICATION Spec
CONSTANTS
  RecverSize = 4
  ThreadCounts = {1, 2, 3}
  SenderInputs <- MCSenderInputs
  MaskSize = 6
  AssumeFit = TRUE
INVARIANTS TypeOK HashesOutliveTheMaps ResultsStayPut
PROPERTIES ImplementsIntersection EveryRunEnds
