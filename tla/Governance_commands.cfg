SPECIFICATION GovernanceSpec
CONSTANTS
  Deals = {d1, d2}
  None = None
  Messages = {m1, m2}
  Assessments = {1}
  Batched = {1}
  Expired = {m1, m2}
  Digests = {}
  Stamps = {1}
  Commands = {c1, c2}
  Exporters = {e1, e2}
  Batch = 1
  MaxExports = 2
  Retained = {"messages", "raw_analysis", "assessments", "reports"}
INVARIANTS
  GovernanceTypeOK
  DeletionIsThorough
  RetentionIsComplete
PROPERTY WholeReportsAreSafe
SYMMETRY GovernanceSymmetry
VIEW GovernanceView
CHECK_DEADLOCK FALSE
