SPECIFICATION TuiSpec
CONSTANTS
  Deals = {d1, d2}
  NoDeal = NoDeal
  Audits = {1, 2}
  MaxRequests = 5
  MaxPolls = 2
INVARIANT OpenBatchIsPolled
SYMMETRY TuiSymmetry
CHECK_DEADLOCK FALSE
