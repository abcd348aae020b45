SPECIFICATION Spec
CONSTANTS
  Addresses <- OneOfEach
  Payloads <- Tricky
  Password <- Digits
  MaxLength = 26
  MaxPackets = 3
CHECK_DEADLOCK FALSE
INVARIANTS Framed CutIsLong
