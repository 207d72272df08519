SPECIFICATION FairSpec
CONSTANTS
  Handlers = {h1, h2}
  Unset = Unset
  Signals = {"SIGTERM", "SIGINT"}
  Configs <- MCConfigs
INVARIANTS
  TypeOK
  CleanExit
  ForcedExit
  EarlyForceShutdown
  KeepAccepting
  K8sWindow
PROPERTIES
  TasksEndTogether
  ForceCloseFirst
  OneProcess
  EventuallyExits
