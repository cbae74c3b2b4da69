SPECIFICATION FairSpec
CONSTANTS
  Messages <- MCMessages
  Total <- MCTotal
  Threshold = 5
  MinFee = 2
  MaxRecent = 2
  Kept = 1
  MaxMessages = 4
INVARIANTS
  PublishedOncePerMemory
  WhalesPublished
PROPERTY StopEnds
CHECK_DEADLOCK FALSE
