\* A newer signal and an older one that is more severe.
CONSTANTS
  Rows <- MCRows
  MaxRows = 3
  MinBtcs = {0, 1000}
  Limits = {1, 2}
SPECIFICATION SignalsSpec
INVARIANT LatestIsMostRecent
CHECK_DEADLOCK FALSE
