SPECIFICATION FairSpec
CONSTANTS
  Requests = {"CONNECT", "UDP_ASSOCIATE", "STRANGER"}
  MaxUp = 3
  MaxDown = 2
CHECK_DEADLOCK FALSE
INVARIANTS TypeOK UplinkComplete OneInFlight UsageRecorded
PROPERTIES DestroyedIsReleased ImplementsRelay
