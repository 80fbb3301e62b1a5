\* Three requests, each running to its end, while secrets age, expire and are pruned.
SPECIFICATION FairSpec
CONSTANTS
  alice = alice  web = web  none = none
  Users = {alice}
  Clients = {web, cli}
  Codes = {code}
  Legacy = {old}
  Requests = {r1, r2, r3}
  Owner <- MCOwner
  Client <- MCClient
  Renewable = {alice}
  None = none
  Ops = {"redeem", "refresh", "erase"}
  Faults = FALSE
  CodeTTL = 1  SpentTTL = 2  TokenTTL = 2  Grace = 1  RequestBound = 1  MaxTime = 3
INVARIANTS SpentOutlivesSuccessor
PROPERTY ReplayEndsTheGrant
CHECK_DEADLOCK FALSE
