CONSTANTS
  kCheapPrepend = 2
  kInitialSize = 2
  ExtraSize = 2
  SocketRoom = 2
  HighWaterMark = 2
  MaxBytes = 4
  StringsOutlive = TRUE
SPECIFICATION FairSpec
INVARIANTS BuffersWellFormed ClosedAfterAllIsWritten WarnedOncePerFilling
PROPERTIES ImplementsInput ImplementsOutput SentArrives
CHECK_DEADLOCK FALSE
