SPECIFICATION FairSpec
CONSTANTS
  Wrap = 2
  Hwm = 1
  MaxMessages = 4
  MaxStarts = 2
INVARIANTS
  MissedExact
  PublishedExactly
PROPERTIES
  TopicsAreRead
  StopEnds
CHECK_DEADLOCK FALSE
