CONSTANTS
  s1 = s1
  s2 = s2
  c1 = c1
  c2 = c2
  c3 = c3
  u1 = u1
  u2 = u2
  m1 = m1
  m2 = m2
  None = None
  Server = {s1, s2}
  Conn = {c1, c2, c3}
  SrvOf <- TwoOnFirst
  User = {u1, u2}
  Member = {u1, u2}
  Msg = {}
  MaxLogins <- TwiceOnFirst
  MaxExits = 1
  LateRedis = TRUE
  Overlap = FALSE
  Relogin = TRUE
  CanReset = FALSE
  CanCrash = FALSE
SPECIFICATION Spec
SYMMETRY Symmetry
INVARIANTS SessionsAgree OnlineIsReachable MapHoldsLiveOnce
CHECK_DEADLOCK FALSE
