SPECIFICATION Spec
CONSTANTS
  NoItem = NoItem
  Batches = {1}
  Deals = {1, 2}
  Workers = {w1, w2}
  MaxAttempts = 2
  MaxFaults = 0
  LeaseCoversRun = TRUE
INVARIANT LastItemClosesBatch
SYMMETRY WorkerSymmetry
CHECK_DEADLOCK FALSE
