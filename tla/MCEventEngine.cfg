SPECIFICATION FairSpec
CONSTANTS
  Txs <- MCFlows
  Labels = {"X", "Y", "Unknown"}
  SingleBtc = 2
  DepositMinCount = 2
  DepositMinBtc = 2
  DepositWindow = 1
  OutflowMinCount = 2
  OutflowMinBtc = 2
  OutflowWindow = 2
  MaxArrivals = 3
  MaxTime = 2
INVARIANTS
  BufferedAreAccounted
  BurstsDisjoint
  AnnouncedWereSaved
PROPERTIES
  BurstsDetected
  ConsumerGoesOn
CHECK_DEADLOCK FALSE
