SPECIFICATION FairSpec
CONSTANTS
  Goroutines = {g1, g2, g3}
  Root = g1
  MaxEvents = 3
INVARIANTS
  TypeOK
  LiveNotDone
  CompleteTrace
PROPERTIES
  StreamEnds
CHECK_DEADLOCK FALSE
