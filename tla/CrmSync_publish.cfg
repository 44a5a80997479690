SPECIFICATION CrmSpec
CONSTANTS
  Syncers = {s1, s2}
  Deals = {d1, d2}
  MaxRuns = 2
INVARIANTS
  OneRunning
  ShownIsWhole
  MarkedAddUp
PROPERTY RunsEndOnce
SYMMETRY CrmSymmetry
VIEW PublicationView
