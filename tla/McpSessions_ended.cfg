SPECIFICATION Spec
CONSTANTS
  None = None
  r1 = r1  r2 = r2  r3 = r3
  Requests = {r1, r2, r3}
  t1 = t1  t2 = t2
  Tokens = {t1, t2}
  u = u
  Users = {u}
  c = c
  Clients = {c}
  p = p  q = q
  Pods = {p, q}
  UserOf <- OneUser
  ClientOf <- OneClient
  Plans <- Mixes
  REAUTH_AFTER = 2
  ReadBound = 1
  MaxBatch = 2
  MaxClock = 3
INVARIANTS TypeOK EndedNotHonoured NoneLeftOpen
CHECK_DEADLOCK FALSE
