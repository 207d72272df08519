SPECIFICATION Spec
CONSTANTS
  Handlers = {h1}
  Unset = Unset
  Signals = {"SIGTERM", "SIGINT"}
  Configs <- LegacyK8sConfigs
INVARIANT ForcedExitInGracePeriod
