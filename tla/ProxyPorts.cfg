SPECIFICATION Spec
CONSTANTS
  Ports = {1081, 2000}
  Settings <- AllSettings
  FreeportFails = FALSE
  BindFails = TRUE
  Revokes = FALSE
  Tests = TRUE
  MaxStarts = 2
  MaxStops = 1
CHECK_DEADLOCK FALSE
INVARIANTS PortReached PortsDiffer
PROPERTIES CrashCauses ImplementsProxyStates
