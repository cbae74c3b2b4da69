\* Two callers ask the node at once, and the answer that is older is stored
\* last.
SPECIFICATION HttpSpec
CONSTANTS
  Urls = {u1, u2}
  MaxRetries = 2
  MaxEvents = 2
  Callers = {c1, c2}
  Ttl = 2
  MaxAttempts = 2
  MaxTime = 3
INVARIANTS
  PostsAreRecorded
  EventsInOrder
  RowsAreTrue
  AnswersAreRecent
PROPERTIES
  EveryEventTaken
  CallsEnd
CHECK_DEADLOCK FALSE
