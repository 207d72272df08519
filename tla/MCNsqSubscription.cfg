SPECIFICATION FairSpec
CONSTANTS
  Handlers = {h1, h2}
  Messages = {m1, m2}
  bad = m2
  Subscriptions <- MCSubscriptions
  Second = 2
  MaxFailures <- MCFailures
INVARIANTS
  TypeOK
PROPERTIES
  LostOnlyByOverwrite
  BackoffExact
  Settled
CHECK_DEADLOCK FALSE
