SPECIFICATION Spec
CONSTANTS
  Handlers = {h1, h2}
  Messages = {m1, m2}
  bad = m2
  Subscriptions <- MCRetrying
  Second = 2
  MaxFailures <- MCFailures
PROPERTIES
  FailedIsRetried
CHECK_DEADLOCK FALSE
