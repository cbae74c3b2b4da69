\* One transfer of critical size is enough.
CONSTANTS
  Rows <- MCRows
  MaxRows = 3
  MinBtcs = {0, 1000}
  Limits = {1, 2}
SPECIFICATION SignalsSpec
INVARIANT CriticalAreSignalled
CHECK_DEADLOCK FALSE
