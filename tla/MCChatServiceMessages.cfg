CONSTANTS
  s1 = s1
  s2 = s2
  c1 = c1
  c2 = c2
  c3 = c3
  u1 = u1
  u2 = u2
  m1 = m1
  m2 = m2
  None = None
  Server = {s1, s2}
  Conn = {c1, c3}
  SrvOf <- OneEach
  User = {u1, u2}
  Member = {u1, u2}
  Msg = {m1}
  MaxLogins <- TwiceOnFirst
  MaxExits = 1
  LateRedis = FALSE
  Overlap = FALSE
  Relogin = TRUE
  CanReset = TRUE
  CanCrash = TRUE
SPECIFICATION FairSpec
INVARIANTS  MapHoldsLiveOnce
PROPERTY GoneIsForgotten
CHECK_DEADLOCK FALSE
