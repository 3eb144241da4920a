CONSTANTS
  n1 = n1
  n2 = n2
  g1 = g1
  None = None
  Name = {n1, n2}
  GroupName = {g1}
  MaxRows = 2
  MaxLinks = 2
  DbFails = TRUE
  MaxStream = 2
  MaxPush = 1
  RecvMax = 1
  Others = {1}
  Coalesce = FALSE
  CanFail = TRUE
SPECIFICATION FairSpec
INVARIANTS OneOutstanding MenuMatchesSession StoreIsShown
PROPERTY AnswerComes
CHECK_DEADLOCK FALSE
