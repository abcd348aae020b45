SPECIFICATION Spec
CONSTANTS
  Ports = {2000}
  Settings <- Default
  FreeportFails = FALSE
  BindFails = FALSE
  Revokes = FALSE
  Tests = FALSE
  MaxStarts = 1
  MaxStops = 1
CHECK_DEADLOCK FALSE
INVARIANTS StopShutsDown
