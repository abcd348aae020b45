SPECIFICATION Spec
CONSTANTS
  Commands = {"UDP_ASSOCIATE"}
  StrayIn = {"CONNECT"}
  MaxUp = 2
  MaxDown = 1
CHECK_DEADLOCK FALSE
INVARIANTS OneTunnelWrite
