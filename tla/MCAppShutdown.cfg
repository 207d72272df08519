SPECIFICATION AppSpec
CONSTANTS
  Handlers = {"api", "pubsub", "services", "infra"}
  Unset = Unset
  Signals = {"SIGTERM"}
  Configs <- MCConfigs
  Requests = {r1}
  Messages = {m1}
  Services = {s1}
INVARIANTS
  AppTypeOK
  RunsUndisturbed
  InfraLast
  CleanExitDrained
PROPERTIES
  ForceClosedInTime
  TrackerSpec
