\* Every interleaving of four requests of any kind, which may die at any step; time stands still.
SPECIFICATION Spec
CONSTANTS
  alice = alice  web = web  none = none
  Users = {alice}
  Clients = {web, cli}
  Codes = {code}
  Legacy = {old}
  Requests = {r1, r2, r3, r4}
  Owner <- MCOwner
  Client <- MCClient
  Renewable = {alice}
  None = none
  Ops = {"redeem", "refresh", "revoke", "revokeGrant", "erase", "signIn"}
  Faults = TRUE
  CodeTTL = 1  SpentTTL = 2  TokenTTL = 2  Grace = 0  RequestBound = 1  MaxTime = 0
SYMMETRY Symmetry
INVARIANTS TypeOK CodeRedeemedOnce OneHolder Provenance ReplayedCodeIsRecalled CodeReplayStaysWithItsClient
PROPERTY ImplementsLedger
CHECK_DEADLOCK FALSE
