CONSTANTS
  s1 = s1
  s2 = s2
  c1 = c1
  c2 = c2
  c3 = c3
  u1 = u1
  u2 = u2
  m1 = m1
  m2 = m2
  None = None
  Server = {s1}
  Conn = {c1, c2}
  SrvOf <- TwoOnOne
  User = {u1, u2}
  Member = {u1, u2}
  Msg = {}
  MaxLogins <- TwiceOnFirst
  MaxExits = 0
  LateRedis = FALSE
  Overlap = TRUE
  Relogin = FALSE
  CanReset = FALSE
  CanCrash = FALSE
SPECIFICATION Spec
SYMMETRY Symmetry
INVARIANT OneSession
CHECK_DEADLOCK FALSE
