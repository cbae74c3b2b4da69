SPECIFICATION FairSpec
CONSTANTS
  Messages <- MCMessages
  Total <- MCTotal
  Threshold = 5
  MinFee = 2
  MaxRecent = 2
  Kept = 1
  MaxMessages = 1
PROPERTY Reconnects
CHECK_DEADLOCK FALSE
