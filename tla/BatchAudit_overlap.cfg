SPECIFICATION BatchAuditSpec
CONSTANTS
  NoItem = NoItem
  Batches = {1}
  Deals = {1}
  Workers = {w1, w2}
  MaxAttempts = 2
  MaxFaults = 1
  LeaseCoversRun = FALSE
  ErrorKinds = {"transient", "permanent"}
INVARIANTS
  RowsAgree
  SuccessIsStored
  CompletedItemsAreAudited
PROPERTIES
  FinishedForGood
SYMMETRY WorkerSymmetry
CHECK_DEADLOCK FALSE
