SPECIFICATION Spec
CONSTANTS
  call1 = call1  call2 = call2  cookie = cookie  token = token
  connect = connect  disconnect = disconnect  signin = signin  delete = delete
  None = None  Start = Start
  Requests = {call1, disconnect}
  Kind <- KindOf
  MaxBusy = 2
INVARIANTS CookieStaysCut
CHECK_DEADLOCK FALSE
