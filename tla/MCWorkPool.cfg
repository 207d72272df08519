SPECIFICATION FairSpec
CONSTANTS
  Workers = {w1, w2, w3}
  maxConcurrency = 3
  maxBatchSize = 2
INVARIANTS
  TypeOK
  CountExact
PROPERTIES
  QueueSpec
  NoItemLost
  NoStuckFetcher
  ReturnsWhenDone
  WorkersEnd
CHECK_DEADLOCK FALSE
