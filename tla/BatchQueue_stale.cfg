SPECIFICATION Spec
CONSTANTS
  NoItem = NoItem
  Batches = {1}
  Deals = {1, 2}
  Workers = {w1, w2}
  MaxAttempts = 2
  MaxFaults = 1
  LeaseCoversRun = FALSE
INVARIANTS
  VerdictMeansDrained
  VerdictMatchesItems
  DroppedOnlyByCancel
  OrphansComeFromFaults
PROPERTIES
  SettledForGood
  LifecycleSpec
SYMMETRY WorkerSymmetry
CHECK_DEADLOCK FALSE
