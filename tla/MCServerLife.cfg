CONSTANTS
  c1 = c1
  c2 = c2
  N = 2
  Conn = {c1, c2}
  EarlyQuit = FALSE
SPECIFICATION FairSpec
INVARIANTS PublishedLoopLives NoOrphanThread UpThenDownOnce
PROPERTIES StartReturns ServerEnds
CHECK_DEADLOCK FALSE
