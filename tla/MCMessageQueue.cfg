SPECIFICATION FairSpec
CONSTANTS
  MaxLen = 2
  BatchSize = 2
  MaxMessages = 4
  MaxStarts = 2
INVARIANTS
  AckedWereHandled
  SkippedOnlyWhenLagging
PROPERTIES
  OrphansStay
  ImplementsAtMostOnce
  Drained
  LoopStops
CHECK_DEADLOCK FALSE
