SPECIFICATION ConversationSpec
CONSTANTS
  s1 = s1
  s2 = s2
  dc = dc
  cc = cc
  Sessions = {s1, s2}
  DealChats = {dc}
  ContactChats = {cc, dc}
  Kinds <- MCKinds
  None = None
  PageSize = 1
  MaxMessages = 3
  Lines <- MCLines
  MaxLines = 4
  Window = 2
  Closing = 2
  Context = 1
INVARIANTS
  CollectionIsComplete
  CollectionIsOfDeal
  SaleIsGrounded
  AdviceIsGrounded
VIEW ConversationView
CHECK_DEADLOCK FALSE
