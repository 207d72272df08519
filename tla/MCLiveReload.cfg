SPECIFICATION FairSpec
CONSTANTS
  NumProcs = 2
  MaxChanges = 2
INVARIANTS
  TypeOK
  NoSelfTrigger
PROPERTIES
  ReloadKeepsRun
  Settles
  Converges
CHECK_DEADLOCK FALSE
