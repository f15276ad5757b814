SPECIFICATION FairSpec
CONSTANTS
  Keys = {"k1"}
  Bodies = {"x", "y"}
  Instants = {0, 10, 300, 700}
  Lifetime = 600
  LastOrigin = 10
  MaxActions = 1
  MaxLedger = 1
  MaxFailures = 2
  Tight = TRUE
  Reports = {"unchanged"}
INVARIANTS
  NoCustodyGap
  ChainCoherent
  WriteBudget
PROPERTIES
  PromiseKept
  Settles
