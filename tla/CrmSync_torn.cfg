SPECIFICATION CrmSpec
CONSTANTS
  Syncers = {s1, s2}
  Deals = {d1}
  MaxRuns = 2
INVARIANT StatisticsOfOneSnapshot
SYMMETRY CrmSymmetry
