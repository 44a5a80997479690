SPECIFICATION AuditSpec
CONSTANTS
  Executors = {x1, x2, x3}
  Keys = {k1, k2}
  NoKey = NoKey
  ErrorKinds = {"transient", "permanent"}
INVARIANTS
  AuditTypeOK
  RowsAgree
  SuccessIsStored
PROPERTY FinishedForGood
SYMMETRY ExecutionSymmetry
