\* Clients are revoked and accounts deleted while they refresh.
SPECIFICATION Spec
CONSTANTS
  alice = alice  web = web  none = none
  Users = {alice}
  Clients = {web, cli}
  Codes = {code}
  Legacy = {old}
  Requests = {r1, r2}
  Owner <- MCOwner
  Client <- MCClient
  Renewable = {alice}
  None = none
  Ops = {"refresh", "revokeGrant", "erase", "signIn"}
  Faults = FALSE
  CodeTTL = 1  SpentTTL = 2  TokenTTL = 2  Grace = 0  RequestBound = 1  MaxTime = 0
INVARIANT EndedGrantsStayEnded
CHECK_DEADLOCK FALSE
