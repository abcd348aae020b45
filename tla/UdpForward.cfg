SPECIFICATION FairSpec
CONSTANTS
  MaxUp = 3
  MaxReads = 1
CHECK_DEADLOCK FALSE
INVARIANTS TypeOK UplinkInOrder OneWrite IdleTimer
PROPERTIES IdleIsReleased
