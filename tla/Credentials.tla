----------------------------- MODULE Credentials -----------------------------
(***************************************************************************)
(* The stored Yandex connection of one hosted user: a row of               *)
(* user_credentials with an OAuth access and refresh token and, once Quasar *)
(* is connected, a web session cookie.  Seven kinds of request write it,   *)
(* each by reading the row, sometimes calling Yandex, and writing the whole *)
(* row back.  A "signin" is either of the two routes that sign a user in,  *)
(* /auth/callback and POST /auth/save-token: both save the user, then the  *)
(* tokens, and read the row in saveUserCredentials to keep its cookie.  A  *)
(* step is one awaited call.  What request r obtains from Yandex is named r. *)
(***************************************************************************)
EXTENDS Integers, FiniteSets

CONSTANTS
  Requests,
  Kind,      \* what a request is
  Start,     \* where the connection that was there before comes from
  MaxBusy,   \* bound: how many of the requests ever begin
  None

Kinds   == {"call", "cookie", "token", "connect", "disconnect", "signin", "delete"}
Origin  == Requests \cup {Start}
Token   == [grant: Origin, by: Origin]   \* the sign-in it stems from, who obtained it
Cookie  == [from: Origin, by: Origin]    \* the connect it stems from, who renewed it last
Pair    == [access: Token \cup {None}, refresh: Token \cup {None}]   \* what Yandex answers
Creds   == [access: Token \cup {None}, refresh: Token \cup {None}, cookie: Cookie \cup {None}]
Nothing == [access |-> None, refresh |-> None, cookie |-> None]

ASSUME CredentialsAssumption ==
  /\ Kind \in [Requests -> Kinds]
  /\ Start \notin Requests
  /\ None \notin Token \cup Cookie \cup Pair \cup Creds \cup Origin

VARIABLES
  user,     \* whether the row in users is there
  revoked,  \* the "token" requests whose pair in oauth_tokens a deletion removed
  row,      \* the row of user_credentials
  pc,
  snap,     \* the credentials a request was admitted with
  cur,      \* the credentials it last read, to be written back
  new,      \* what Yandex answered to a refresh
  bare,     \* the sign-ins that came with an access token alone
  cut,      \* history: cookies that were disconnected, replaced or deleted
  over,     \* history: sign-ins of which the row held a token and then none
  racers,   \* history: requests that had read the row before such an end
  back,     \* history: the cookies those have stored
  undone    \* history: whether one of those has written at all

vars == <<user, revoked, row, pc, snap, cur, new, bare, cut, over, racers, back, undone>>
history == <<bare, cut, over, racers, back, undone>>

(* The calls a request makes, and whether it has begun or ended.           *)
Calls(kind) ==
  CASE kind = "call"                      -> {"renew", "exists", "checkAccess", "save"}
    [] kind = "token"                     -> {"renew", "checkAccess", "exists", "save"}
    [] kind = "cookie"                    -> {"checkCookie", "exists", "save"}
    [] kind \in {"connect", "disconnect"} -> {"read", "save"}
    [] kind = "signin"                    -> {"saveUser", "read", "save"}
    [] kind = "delete"                    -> {"erase"}

Ended  == {"done", "failed"}
Labels == Ended \cup {"idle"} \cup UNION {Calls(k) : k \in Kinds}

TypeOK ==
  /\ user \in BOOLEAN /\ revoked \subseteq Requests
  /\ row \in Creds \cup {None}
  /\ pc \in [Requests -> Labels]
  /\ snap \in [Requests -> Creds]
  /\ cur \in [Requests -> Creds]
  /\ new \in [Requests -> Pair]
  /\ bare \subseteq Origin /\ cut \subseteq Origin /\ over \subseteq Origin
  /\ racers \subseteq Requests /\ back \subseteq Origin /\ undone \in BOOLEAN
  /\ \A r \in Requests : pc[r] \notin Ended \cup {"idle"} =>
       /\ pc[r] \in Calls(Kind[r])
       /\ Kind[r] = "cookie" => snap[r].cookie # None
       /\ Kind[r] = "call"   => snap[r].access # None /\ snap[r].refresh # None

StartToken == [grant |-> Start, by |-> Start]
StartCookie == [from |-> Start, by |-> Start]

(* The user has signed in and may have connected Quasar.  Any sign-in may  *)
(* come without a refresh token: Yandex may answer without one, and the    *)
(* callback page posts none to /auth/save-token.                           *)
Init ==
  /\ user = TRUE /\ revoked = {}
  /\ bare \in SUBSET ({Start} \cup {r \in Requests : Kind[r] = "signin"})
  /\ row \in [access: {StartToken}, refresh: {IF Start \in bare THEN None ELSE StartToken},
              cookie: {StartCookie, None}]
  /\ pc = [r \in Requests |-> "idle"]
  /\ snap = [r \in Requests |-> Nothing]
  /\ cur = [r \in Requests |-> Nothing]
  /\ new = [r \in Requests |-> [access |-> None, refresh |-> None]]
  /\ cut = {} /\ over = {} /\ racers = {} /\ back = {} /\ undone = FALSE

Goto(r, label) == pc' = [pc EXCEPT ![r] = label]

(* The calls of a request in order.                                        *)
First(r) ==
  CASE Kind[r] \in {"call", "token"}         -> "renew"
    [] Kind[r] = "cookie"                    -> "checkCookie"
    [] Kind[r] \in {"connect", "disconnect"} -> "read"
    [] Kind[r] = "signin"                    -> "saveUser"
    [] Kind[r] = "delete"                    -> "erase"

------------------------------------------------------------------------------
(* Admission.                                                              *)

(* checkBearer and the token endpoint read the credentials; the account    *)
(* pages need a session of the user; signing in needs neither.             *)
AdmittedAnyway(r) == Kind[r] = "signin" \/ (user /\ row # None)
                                   \* faulty: does not look at what is connected
Admitted(r) ==
  CASE Kind[r] = "signin"                           -> TRUE
    [] Kind[r] \in {"connect", "disconnect", "delete"} -> user
    [] Kind[r] = "call"   -> user /\ row # None /\ row.access # None /\ row.refresh # None
    [] Kind[r] = "cookie" -> user /\ row # None /\ row.cookie # None
    [] Kind[r] = "token"  -> user /\ row # None /\ (row.access # None \/ row.cookie # None)

Admit(r) ==
  /\ pc[r] = "idle"
  /\ Cardinality({q \in Requests : pc[q] # "idle"}) < MaxBusy
  /\ Admitted(r)
  /\ snap' = [snap EXCEPT ![r] = IF row = None THEN Nothing ELSE row]
  /\ Goto(r, First(r))
  /\ UNCHANGED <<user, revoked, row, cur, new, history>>

(* Any awaited call may fail, and the pod may die.                         *)
Fail(r) ==
  /\ pc[r] \notin Ended \cup {"idle"}
  /\ Goto(r, "failed")
  /\ UNCHANGED <<user, revoked, row, snap, cur, new, history>>

------------------------------------------------------------------------------
(* Refreshing the Yandex tokens: a tool call whose token has expired, and  *)
(* the token endpoint on every refresh it serves.                          *)

(* Yandex answers with a new access token of the sign-in that the refresh  *)
(* token stems from, and may replace the refresh token.                    *)
Renewed(r) == [grant |-> snap[r].refresh.grant, by |-> r]
OnlyReplaced(r) == {Renewed(r), None}   \* faulty: forgets the one that is not replaced
RefreshAfter(r) == {Renewed(r), snap[r].refresh}

(* Without a refresh token, the endpoint goes on with the tokens it read.  *)
Renew(r) ==
  /\ pc[r] = "renew"
  /\ IF snap[r].refresh = None
     THEN new' = [new EXCEPT ![r] = [access |-> snap[r].access, refresh |-> None]]
     ELSE \E refresh \in RefreshAfter(r) :
            new' = [new EXCEPT ![r] = [access |-> Renewed(r), refresh |-> refresh]]
  /\ Goto(r, IF Kind[r] = "call" THEN "exists" ELSE "checkAccess")
  /\ UNCHANGED <<user, revoked, row, snap, cur, history>>

AnyAccess(r)  == row # None        \* faulty: writes over whatever is there
SameAccess(r) == row # None /\ row.access = snap[r].access

(* "Connection changed; retry", unless the row still holds the token the   *)
(* request started from.                                                   *)
CheckAccess(r) ==
  /\ pc[r] = "checkAccess"
  /\ IF SameAccess(r)
     THEN cur' = [cur EXCEPT ![r] = row] /\ Goto(r, IF Kind[r] = "call" THEN "save" ELSE "exists")
     ELSE UNCHANGED cur /\ Goto(r, "failed")
  /\ UNCHANGED <<user, revoked, row, snap, new, history>>

AnyCookie(r)  == row # None        \* faulty: writes over whatever is there
SameCookie(r) == row # None /\ row.cookie = snap[r].cookie

(* "Quasar connection changed; reconnect": the same for a cookie that      *)
(* Yandex renewed.                                                         *)
CheckCookie(r) ==
  /\ pc[r] = "checkCookie"
  /\ IF SameCookie(r)
     THEN cur' = [cur EXCEPT ![r] = row] /\ Goto(r, "exists")
     ELSE UNCHANGED cur /\ Goto(r, "failed")
  /\ UNCHANGED <<user, revoked, row, snap, new, history>>

(* "Account deleted", and "Grant revoked" at the token endpoint, for which *)
(* a deletion is the end even if the user signs in again.  That a grant    *)
(* can also end by itself is left to Fail.                                 *)
Exists(r) ==
  /\ pc[r] = "exists"
  /\ Goto(r, IF ~user \/ r \in revoked THEN "failed"
             ELSE IF Kind[r] = "call" THEN "checkAccess" ELSE "save")
  /\ UNCHANGED <<user, revoked, row, snap, cur, new, history>>

------------------------------------------------------------------------------
(* The account pages and signing in.                                       *)

(* Connecting starts from an empty row if there is none, disconnecting     *)
(* leaves it alone.  Signing in reads the cookie to keep.                  *)
Read(r) ==
  /\ pc[r] = "read"
  /\ cur' = [cur EXCEPT ![r] = IF row = None THEN Nothing ELSE row]
  /\ Goto(r, IF Kind[r] = "disconnect" /\ row = None THEN "done" ELSE "save")
  /\ UNCHANGED <<user, revoked, row, snap, new, history>>

SaveUser(r) ==
  /\ pc[r] = "saveUser"
  /\ user' = TRUE
  /\ Goto(r, "read")
  /\ UNCHANGED <<revoked, row, snap, cur, new, history>>

(* Yandex's answer to the code, or what the callback page posts.           *)
TokensOfSignIn(r) ==
  LET own == [grant |-> r, by |-> r]
  IN [access |-> own, refresh |-> IF r \in bare THEN None ELSE own]

(* The row a request sends: all it read, but for its own part.             *)
Sent(r) ==
  LET tokens == IF Kind[r] = "signin" THEN TokensOfSignIn(r) ELSE new[r]
  IN CASE Kind[r] \in {"call", "token", "signin"} ->
            [access |-> tokens.access, refresh |-> tokens.refresh, cookie |-> cur[r].cookie]
       [] Kind[r] = "cookie"     -> [cur[r] EXCEPT !.cookie = [from |-> snap[r].cookie.from, by |-> r]]
       [] Kind[r] = "connect"    -> [cur[r] EXCEPT !.cookie = [from |-> r, by |-> r]]
       [] Kind[r] = "disconnect" -> [cur[r] EXCEPT !.cookie = None]

(* The upsert keeps the stored refresh token if none is sent.              *)
Merged(sent) ==
  IF sent.refresh = None /\ row # None THEN [sent EXCEPT !.refresh = row.refresh] ELSE sent

AnyOwner == TRUE                   \* faulty: no foreign key
HasOwner == user

(* What is in the row, and who has read it and is past its check.          *)
CookieOf(creds) == IF creds = None \/ creds.cookie = None THEN {} ELSE {creds.cookie.from}
TokensIn(creds) == IF creds = None THEN {} ELSE {creds.access, creds.refresh} \ {None}
GrantsIn(creds) == {token.grant : token \in TokensIn(creds)}
Holding(r)      == pc[r] = "save" \/ (Kind[r] \in {"cookie", "token"} /\ pc[r] = "exists")

(* The cookies and the sign-ins that request r has ended by writing.       *)
Record(r, cookies, grants) ==
  /\ cut' = cut \cup cookies
  /\ over' = over \cup grants
  /\ racers' = IF cookies \cup grants = {} THEN racers
               ELSE racers \cup {q \in Requests \ {r} : Holding(q)}
  /\ back' = IF r \in racers THEN back \cup CookieOf(row') ELSE back
  /\ undone' = (undone \/ r \in racers)
  /\ bare' = bare

Save(r) ==
  /\ pc[r] = "save"
  /\ IF HasOwner
     THEN /\ row' = Merged(Sent(r))
          /\ Record(r, IF Kind[r] \in {"connect", "disconnect"} THEN CookieOf(row) ELSE {},
                       GrantsIn(row) \ GrantsIn(row'))
          /\ Goto(r, "done")
     ELSE UNCHANGED <<row, history>> /\ Goto(r, "failed")
  /\ UNCHANGED <<user, revoked, snap, cur, new>>

(* One transaction clears every table of the user.                         *)
Erase(r) ==
  /\ pc[r] = "erase"
  /\ user' = FALSE
  /\ row' = None
  /\ revoked' = revoked \cup
       {q \in Requests : Kind[q] = "token" /\ pc[q] \notin Ended \cup {"idle"}}
  /\ Record(r, CookieOf(row), GrantsIn(row))
  /\ Goto(r, "done")
  /\ UNCHANGED <<snap, cur, new>>

Step(r) ==
  \/ Admit(r) \/ Renew(r) \/ CheckAccess(r) \/ CheckCookie(r) \/ Exists(r)
  \/ Read(r) \/ SaveUser(r) \/ Save(r) \/ Erase(r) \/ Fail(r)

Next == \E r \in Requests : Step(r)

Spec == Init /\ [][Next]_vars

------------------------------------------------------------------------------
(* Properties.                                                             *)

(* Stored credentials always have their user: a request in flight across   *)
(* the deletion of the account cannot bring the row back by itself.        *)
NoOrphanRow == row # None => user

(* The upsert keeps a refresh token where none is sent (COALESCE), which   *)
(* puts it beside an access token of another sign-in.  That happens only   *)
(* to the access token of a sign-in that came without a refresh token: no  *)
(* interleaving of writers separates a pair that came as one.              *)
PairMatches ==
  row # None /\ row.access # None /\ row.refresh # None =>
    row.access.grant = row.refresh.grant \/ row.access.grant \in bare

(* A cookie that was disconnected, replaced or deleted is not stored again, *)
(* but by a request that had read it before, or after such a one stored it. *)
CutForGood == CookieOf(row) \cap cut \subseteq back

(* Once the row holds no token of a sign-in any more, for it was replaced  *)
(* by a later one or deleted, none is stored again, unless by a request    *)
(* that had read the row before and was past its check.                    *)
OverForGood == undone \/ GrantsIn(row) \cap over = {}

(* Disconnecting removes the cookie (README), and deleting the account     *)
(* removes all: no cookie comes back but by connecting again.              *)
CookieStaysCut == CookieOf(row) \cap cut = {}
==============================================================================
