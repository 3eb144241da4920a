CONSTANTS
  c1 = c1
  c2 = c2
  io1 = io1
  u1 = u1
  Base = Base
  Conn = {c1}
  IoLoops <- OneIo
  User = {u1}
  HasWriteCb = TRUE
  UserOps = {"send"}
  MaxSends = 2
  MaxMsgs = 1
SPECIFICATION FairSpec
INVARIANTS NoDanglingChannel UpThenDownOnce WritingIffBuffered
PROPERTY ClosedIsRemoved
CHECK_DEADLOCK FALSE
