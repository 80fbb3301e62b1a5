SPECIFICATION Spec
CONSTANTS
  call1 = call1  call2 = call2  cookie = cookie  token = token
  connect = connect  disconnect = disconnect  signin = signin  delete = delete
  None = None  Start = Start
  Requests = {call1, call2, cookie, token, connect, disconnect, signin, delete}
  Kind <- KindOf
  MaxBusy = 4
SYMMETRY SameKind
INVARIANTS TypeOK NoOrphanRow PairMatches OverForGood CutForGood
CHECK_DEADLOCK FALSE
