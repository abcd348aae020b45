SPECIFICATION Spec
CONSTANTS
  Ports = {2000}
  Settings <- Default
  FreeportFails = FALSE
  BindFails = TRUE
  Revokes = TRUE
  Tests = FALSE
  MaxStarts = 2
  MaxStops = 1
CHECK_DEADLOCK FALSE
INVARIANTS TypeOK OffOnceStopped WaitEnds
PROPERTIES KilledSaysStopped
