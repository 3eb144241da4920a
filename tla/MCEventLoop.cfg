CONSTANTS
  t1 = t1
  t2 = t2
  f1 = f1
  f2 = f2
  Loop = Loop
  Thread <- MCThread
  Functor <- MCFunctor
  MaxPosts = 4
  EarlyCalls = FALSE
SPECIFICATION FairSpec
INVARIANTS NoLostWakeup FunctorsInOrder
PROPERTIES ImplementsExecutor PostedRuns QuitEndsLoop
