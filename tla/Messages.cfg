SPECIFICATION Spec
CONSTANTS
  o1 = o1
  o2 = o2
  m1 = m1
  m2 = m2
  m3 = m3
  Owners <- TwoOwners
  Messages <- ThreeMessages
  Nobody = Nobody
  QueueLength = 2
  MaxSends = 4
CHECK_DEADLOCK FALSE
INVARIANTS TypeOK OneTime LatestIsDelivered
SYMMETRY Swaps
