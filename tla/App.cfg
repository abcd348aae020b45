SPECIFICATION Spec
CONSTANTS
  a = a
  b = b
  Servers <- TwoServers
  None = None
  Uses <- OneAtATime
  MaxWaiting = 2
  MaxBefore = 1
CHECK_DEADLOCK FALSE
INVARIANTS TypeOK RegisteredOnce ViewIsCurrent ButtonReturns RunsTheFile ReconnectionHappens
SYMMETRY Swap
