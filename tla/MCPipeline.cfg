SPECIFICATION PipelineSpec
CONSTANTS
  Workers = {w1, w2}
  Txs <- MCTxs
  MaxArrivals = 4
  NumSources = 2
  Ttl = 2
  MaxTime = 4
  MaxCalls = 4
  Rows <- MCRows
  MaxRows = 3
  MinBtcs = {0, 1000}
  Limits = {1, 2}
INVARIANTS
  StoredWasPublished
  OrphansComeFromAborts
  AnnouncedOnce
  LimitKeepsSeverest
  LatestIsListed
PROPERTIES
  NoRepublishOfStored
  ReturnsFresh
  FetchesApart
  CallsReturn
CHECK_DEADLOCK FALSE
