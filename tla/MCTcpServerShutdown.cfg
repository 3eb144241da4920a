CONSTANTS
  c1 = c1
  c2 = c2
  io1 = io1
  u1 = u1
  Base = Base
  Conn = {c1, c2}
  IoLoops <- NoIo
  User = {u1}
  HasWriteCb = FALSE
  UserOps = {"send", "shutdown"}
  MaxSends = 1
  MaxMsgs = 1
SPECIFICATION Spec
INVARIANTS ActiveAlive NoFatalCtl
CHECK_DEADLOCK FALSE
