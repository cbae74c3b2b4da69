SPECIFICATION Spec
CONSTANTS
  w1 = w1
  Workers = {w1}
  Txs <- MCLargeTxs
  MaxArrivals = 2
INVARIANT LargeSingleOutputFound
CHECK_DEADLOCK FALSE
