SPECIFICATION Spec
CONSTANTS
  NoItem = NoItem
  Batches = {1}
  Deals = {1}
  Workers = {w1}
  MaxAttempts = 2
  MaxFaults = 0
  LeaseCoversRun = TRUE
INVARIANT CanceledBatchHasNoneWaiting
CHECK_DEADLOCK FALSE
