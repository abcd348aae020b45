SPECIFICATION Spec
CONSTANTS
  Requests = {"UDP_ASSOCIATE"}
  MaxUp = 2
  MaxDown = 1
CHECK_DEADLOCK FALSE
INVARIANTS AllUsageRecorded
