CONSTANTS
  c1 = c1
  c2 = c2
  io1 = io1
  u1 = u1
  Base = Base
  Conn = {c1}
  IoLoops <- OneIo
  User = {u1}
  HasWriteCb = FALSE
  UserOps = {"send", "shutdown"}
  MaxSends = 2
  MaxMsgs = 1
SPECIFICATION Spec
INVARIANT FunctorTargetAlive
CHECK_DEADLOCK FALSE
