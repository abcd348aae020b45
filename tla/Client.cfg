SPECIFICATION FairSpec
CONSTANTS
  Commands = {"CONNECT", "UDP_ASSOCIATE"}
  StrayIn = {"UDP_FORWARD"}
  MaxUp = 3
  MaxDown = 3
CHECK_DEADLOCK FALSE
INVARIANTS TypeOK UplinkComplete DownlinkComplete OneInFlight NeverAbandoned
PROPERTIES ClosedIsQuiet ImplementsRelay DestroyedIsReleased EverythingRelayed
