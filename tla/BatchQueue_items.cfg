SPECIFICATION FairSpec
CONSTANTS
  NoItem = NoItem
  Batches = {1}
  Deals = {1, 2}
  Workers = {w1, w2}
  MaxAttempts = 2
  MaxFaults = 2
  LeaseCoversRun = TRUE
INVARIANTS
  ClaimsAreExclusive
  AttemptsWithinBudget
PROPERTY EveryItemSettles
CHECK_DEADLOCK FALSE
