SPECIFICATION BackfillSpec
CONSTANTS
  Clients = {w1, w2}
  Slots = 2
  MaxAttempts = 2
  Deals = {1, 2, 3}
  NoDeal = NoDeal
  Audits = {a1}
  Messages = {1, 2}
  Visible <- SharedChats
  Limit = 2
INVARIANTS
  SummaryAddsUp
  CountedIsStored
  UpsertsDoNotDeadlock
PROPERTY RunEnds
CHECK_DEADLOCK FALSE
