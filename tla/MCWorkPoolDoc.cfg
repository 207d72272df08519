SPECIFICATION Spec
CHECK_DEADLOCK FALSE
CONSTANTS
  Workers = {w1, w2}
  maxConcurrency = 2
  maxBatchSize = 0
INVARIANT AtMostMaxConcurrency
