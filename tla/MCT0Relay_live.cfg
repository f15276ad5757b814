SPECIFICATION FairSpec
CONSTANTS
  N = 3
  Msgs = {"m1"}
  Expiry = 2
  Exp <- MCExp
  HopLimit = 2
  AckHops = 2
  AckLife = 1
  MaxTime = 1
  MaxFaults = 0
  MaxOrphans = 1
PROPERTIES
  AckedOrExpired
