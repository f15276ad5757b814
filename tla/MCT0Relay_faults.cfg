SPECIFICATION Spec
CONSTANTS
  N = 3
  Msgs = {"m1"}
  Expiry = 1
  Exp <- MCExp
  HopLimit = 2
  AckHops = 2
  AckLife = 1
  MaxTime = 1
  MaxFaults = 2
  MaxOrphans = 4
INVARIANTS
  DeliveryIsTrue
  AcceptedKept
PROPERTIES
  CustodyKept
