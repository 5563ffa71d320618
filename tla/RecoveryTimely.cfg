SPECIFICATION BridgeSpec
CONSTANTS
  Branch = {1, 2}
  Rank = {1, 2}
  Cadences <- BridgeCadences
  MaxTime = 8
  MaxArrivals = 3
  HeedsRefusals = FALSE
CHECK_DEADLOCK FALSE
INVARIANTS Served
