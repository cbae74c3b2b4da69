\* Two transfers of one exchange are enough.
CONSTANTS
  Rows <- MCRows
  MaxRows = 3
  MinBtcs = {0, 1000}
  Limits = {1, 2}
SPECIFICATION SignalsSpec
INVARIANT BurstsAreSignalled
CHECK_DEADLOCK FALSE
