SPECIFICATION Spec
CONSTANTS
  r1 = r1  r2 = r2  r3 = r3  r4 = r4  r5 = r5
  None = None
  Requests = {r1, r2, r3, r4, r5}
  Browsers = {b1, b2}
  Accounts = {a1, a2}
  Clients = {doc, reg}
  DocClients = {doc}
  Uris = {u1, u2}
  Plans <- Mixes
  Expiring = {r1}
SYMMETRY Alike
INVARIANTS TypeOK SignInStaysInItsBrowser ConsentIsPersonal AnsweredOnce ErasureEndsConsents CodesGoWhereRegistered QrConnectsOnce
CHECK_DEADLOCK FALSE
