\* A batch of 2 against 3 events: an event is overtaken when all three are
\* published between two polls.
CONSTANTS
  Sockets = {s1, s2}
  Readers = {r1}
  Stream <- MCStream
  Filters <- MCFilters
  SseCount = 2
SPECIFICATION Spec
INVARIANTS
  BroadcastReachesAll
PROPERTIES
  FirstSightInOrder
  SseMissesOnlyOvertaken
  FilterAsTold
  HandlersEnd
  NewestArrives
CHECK_DEADLOCK FALSE
