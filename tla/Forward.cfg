SPECIFICATION ForwardSpec
CONSTANTS
  Commands = {"CONNECT"}
  StrayIn = {}
  MaxUp = 3
  MaxDown = 3
CHECK_DEADLOCK FALSE
PROPERTIES ImplementsRelay
