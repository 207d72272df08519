SPECIFICATION FairSpec
CONSTANTS
  minSleep = 1
  maxSleep = 5
  MaxFailures = 4
  MaxStarts = 4
INVARIANTS
  TypeOK
PROPERTIES
  OnlyFreshChecks
  Restarted
  HealthyInTheEnd
CHECK_DEADLOCK FALSE
