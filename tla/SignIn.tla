------------------------------- MODULE SignIn -------------------------------
(***************************************************************************)
(* The browser side of the hosted server: signing in at Yandex, the        *)
(* consent screen of an OAuth client, connecting Quasar with a QR code,    *)
(* logging out and deleting the account.  Each is a chain of requests tied *)
(* together by expiring rows of browser_transactions and oauth_pending;    *)
(* two browsers, two tabs or two clicks may send them at once.             *)
(*                                                                         *)
(* A request is a process and a step is one awaited call.  Random ids      *)
(* never repeat, so the state, consent, QR session or web session that a   *)
(* request creates is named after the request.  A call that throws, a pod  *)
(* that dies and an answer that is lost leave the request where it is:     *)
(* nothing obliges a request to go on.                                     *)
(***************************************************************************)

CONSTANTS
  Browsers, Accounts, Clients, Uris, Requests,
  DocClients,   \* the clients whose id is the URL of a metadata document
  Plans,        \* which request is of what kind
  Expiring,     \* bound: requests whose rows may be left for ten minutes
  None

Kinds == {"login", "callback", "saveToken", "authorize", "answer", "qr", "poll",
          "logout", "erase", "register"}
Completing == {"callback", "saveToken"}   \* what ends a sign-in with a web session

ASSUME SignInAssumption ==
  /\ Plans \subseteq [Requests -> Kinds \cup {None}]
  /\ DocClients \subseteq Clients
  /\ Expiring \subseteq Requests
  /\ Browsers \cap Requests = {}
  /\ None \notin Browsers \cup Accounts \cup Requests \cup Uris \cup Clients \cup Kinds

(* A web session is named after the request that made it, or, if it was    *)
(* there before, after its browser.                                        *)
SessionIds == Browsers \cup Requests

VARIABLES
  kind, pc,
  req,        \* what a request was sent with
  me,         \* the user a request found its session to belong to
  got,        \* the row it read last
  users,      \* table users
  linked,     \* users with a row in user_credentials
  quasar,     \* whose Yandex cookie is stored there
  sessions,   \* table web_sessions
  jar,        \* mctl_session in each browser
  tag,        \* mctl_login in each browser
  logins, consents, qrs, owners,   \* browser_transactions by namespace
  pending,    \* table oauth_pending
  codes,      \* table oauth_codes
  clients,    \* table oauth_clients
  old,        \* requests more than ten minutes ago
  scanned,    \* external: who confirmed a QR code in the Yandex app
  answered,   \* history: consents and QR codes whose transaction was used up
  named,      \* history: redirect URIs a client was ever stored with
  ended,      \* history: consents begun before a deletion of the account
  racing      \* history: requests under way during such a deletion

cookies == <<jar, tag>>
account == <<users, linked, quasar, sessions>>
flows   == <<logins, consents, qrs, owners, pending, codes, clients>>
history == <<answered, named, ended, racing>>
locals  == <<me, got>>
vars == <<kind, pc, req, locals, cookies, account, flows, old, scanned, history>>

Sent    == [browser: Browsers, session: SessionIds \cup {None}, tag: Requests \cup {None},
            of: Requests \cup {None}, client: Clients \cup {None},
            pick: Accounts \cup Uris \cup {"approve", "deny", None}, late: BOOLEAN]
Owner   == [user: Accounts, browser: SessionIds]
Pending == [user: Accounts, client: Clients, uri: Uris]
Document == [uris: SUBSET Uris]
Code    == [consent: Requests, by: Requests, user: Accounts, client: Clients, uri: Uris]

Ended  == {"idle", "done", "failed"}
Labels == Ended \cup
  {"session", "user", "session2", "user2", "reply",
   "saveLogin", "getLogin", "dropLogin", "saveUser", "saveLink", "saveSession",
   "register", "client", "fetch", "saveClient", "redirect", "owner", "savePending", "saveConsent",
   "getConsent", "dropConsent", "getPending", "dropPending", "readLink", "saveCode",
   "saveQr", "saveOwner", "getOwner", "getQr", "status", "saveBack", "dropQr", "dropOwner",
   "checkCookie", "saveCookie", "dropSession", "erase"}
Busy(r) == pc[r] \notin Ended

TypeOK ==
  /\ kind \in Plans
  /\ pc \in [Requests -> Labels]
  /\ req \in [Requests -> Sent \cup {None}]
  /\ me \in [Requests -> Accounts \cup {None}]
  /\ got \in [Requests -> SessionIds \cup Owner \cup Pending \cup Document \cup {None}]
  /\ users \subseteq Accounts /\ linked \subseteq users
  /\ quasar \in [Accounts -> Accounts \cup {None}]
  /\ sessions \in [SessionIds -> Accounts \cup {None}]
  /\ jar \in [Browsers -> SessionIds \cup {None}]
  /\ tag \in [Browsers -> Requests \cup {None}]
  /\ logins \subseteq Requests /\ qrs \subseteq Requests
  /\ consents \in [Requests -> SessionIds \cup {None}]
  /\ owners \in [Requests -> Owner \cup {None}]
  /\ pending \in [Requests -> Pending \cup {None}]
  /\ codes \subseteq Code
  /\ clients \in [Clients -> SUBSET Uris]
  /\ old \subseteq Requests
  /\ scanned \in [Requests -> Accounts \cup {None}]
  /\ answered \subseteq Requests /\ named \subseteq Clients \X Uris
  /\ ended \subseteq Requests \X Accounts /\ racing \subseteq Requests \X Accounts

(* A browser may be signed in from before.                                 *)
Init ==
  /\ kind \in Plans
  /\ pc = [r \in Requests |-> "idle"]
  /\ req = [r \in Requests |-> None] /\ me = req /\ got = req
  /\ \E home \in [Browsers -> Accounts \cup {None}] :
       /\ users = {home[b] : b \in Browsers} \ {None}
       /\ sessions = [s \in SessionIds |-> IF s \in Browsers THEN home[s] ELSE None]
       /\ jar = [b \in Browsers |-> IF home[b] = None THEN None ELSE b]
  /\ linked = users
  /\ quasar = [a \in Accounts |-> None]
  /\ tag = [b \in Browsers |-> None]
  /\ logins = {} /\ qrs = {} /\ codes = {}
  /\ consents = [r \in Requests |-> None] /\ owners = consents
  /\ pending = consents /\ scanned = consents
  /\ clients = [c \in Clients |-> {}]
  /\ old = {} /\ answered = {} /\ named = {} /\ ended = {} /\ racing = {}

------------------------------------------------------------------------------
(* Steps every request has.                                                *)

Goto(r, label) == pc' = [pc EXCEPT ![r] = label]
At(r, k, label) == kind[r] = k /\ pc[r] = label

(* What a browser sends along: both cookies and the id it was given.       *)
Send(r, b, of, client, pick) ==
  req' = [req EXCEPT ![r] =
    [browser |-> b, session |-> jar[b], tag |-> tag[b], of |-> of, client |-> client,
     pick |-> pick, late |-> of \in answered]]

(* The pages a request can follow from: a redirect to Yandex, a consent    *)
(* page, a QR code.  A client that was never registered is told so at once *)
(* and is left out.                                                        *)
Given(k) == {q \in Requests : kind[q] = k /\ pc[q] = "done"}

Inputs(k) ==
  CASE k \in Completing -> Given("login") \X {None} \X Accounts
    [] k = "authorize" -> {None} \X {c \in Clients : c \in DocClients \/ clients[c] # {}} \X Uris
    [] k = "answer"    -> Given("authorize") \X {None} \X {"approve", "deny"}
    [] k = "poll"      -> Given("qr") \X {None} \X {None}
    [] k = "register"  -> {None} \X (Clients \ DocClients) \X Uris
    [] OTHER           -> {<<None, None, None>>}

First(k) ==
  CASE k = "login" -> "saveLogin"   [] k \in Completing -> "getLogin"
    [] k = "answer" -> "getConsent" [] k = "poll" -> "getOwner"
    [] k = "logout" -> "dropSession" [] k = "register" -> "register"
    [] OTHER -> "session"

Start(r) ==
  /\ pc[r] = "idle" /\ kind[r] # None
  /\ \E b \in Browsers : \E in \in Inputs(kind[r]) : Send(r, b, in[1], in[2], in[3])
  /\ Goto(r, First(kind[r]))
  /\ UNCHANGED <<kind, locals, cookies, account, flows, old, scanned, history>>

(* getSessionUser: the session of the cookie, then its user.               *)
ReadSession(r) ==
  /\ pc[r] \in {"session", "session2"}
  /\ me' = [me EXCEPT ![r] = IF req[r].session = None THEN None ELSE sessions[req[r].session]]
  /\ Goto(r, IF pc[r] = "session" THEN "user" ELSE "user2")
  /\ UNCHANGED <<kind, req, got, cookies, account, flows, old, scanned, history>>

(* Whether the browser that answers a consent is the one it was shown to.  *)
SameBrowserAnyway(r) == me[r] # None /\ got[r] # None   \* faulty: takes any browser's
SameBrowser(r) ==
  /\ me[r] # None /\ got[r] # None /\ req[r].of \notin old
  /\ got[r] = req[r].session

(* Whether the browser that polls a QR code is the one it was made for.    *)
SameOwner(r) ==
  /\ me[r] # None /\ got[r] # None /\ req[r].of \notin old
  /\ got[r] = [user |-> me[r], browser |-> req[r].session]

(* What the handler does once it knows the user.                           *)
Known(r, user) ==
  CASE kind[r] = "authorize" /\ user # None -> "client"
    [] kind[r] = "qr" /\ user # None        -> "saveQr"
    [] kind[r] = "erase" /\ user # None     -> "erase"
    [] kind[r] = "erase"                    -> "reply"
    [] OTHER                                -> "failed"

ReadUser(r) ==
  /\ pc[r] = "user" /\ kind[r] \notin {"answer", "poll"}
  /\ LET user == IF me[r] \in users THEN me[r] ELSE None IN
       /\ me' = [me EXCEPT ![r] = user]
       /\ Goto(r, Known(r, user))
  /\ UNCHANGED <<kind, req, got, cookies, account, flows, old, scanned, history>>

(* For a request that belongs to a transaction, also whose that is.        *)
ReadOwner(r) ==
  /\ pc[r] = "user" /\ kind[r] \in {"answer", "poll"}
  /\ Goto(r, IF me[r] \notin users THEN "failed"
             ELSE IF kind[r] = "answer" THEN IF SameBrowser(r) THEN "dropConsent" ELSE "failed"
             ELSE IF SameOwner(r) THEN "getQr" ELSE "failed")
  /\ UNCHANGED <<kind, req, locals, cookies, account, flows, old, scanned, history>>

(* The second look of an approval and of a poll that has the cookie.       *)
ReadUserAgain(r) ==
  /\ pc[r] = "user2"
  /\ me' = [me EXCEPT ![r] = IF me[r] \in users THEN me[r] ELSE None]
  /\ Goto(r, IF kind[r] = "answer" THEN "getPending" ELSE "checkCookie")
  /\ UNCHANGED <<kind, req, got, cookies, account, flows, old, scanned, history>>

------------------------------------------------------------------------------
(* /auth/login, and its two ends: /auth/callback, to which Yandex redirects *)
(* with a code, and POST /auth/save-token, to which the callback page posts *)
(* a token that came in the fragment of its URL.                           *)

SaveLogin(r) ==
  /\ At(r, "login", "saveLogin")
  /\ logins' = logins \cup {r}
  /\ Goto(r, "reply")
  /\ UNCHANGED <<kind, req, locals, cookies, account, consents, qrs, owners, pending, codes,
                 clients, old, scanned, history>>

(* liveLoginTransaction: this browser has started the sign-in.             *)
LiveLoginAnyway(r) == req[r].of \in logins \ old   \* faulty: in whichever browser
LiveLogin(r) == req[r].of \in logins \ old /\ req[r].tag = req[r].of

Completes(r, label) == kind[r] \in Completing /\ pc[r] = label

GetLogin(r) ==
  /\ Completes(r, "getLogin")
  /\ Goto(r, IF LiveLogin(r) THEN "dropLogin" ELSE "failed")
  /\ UNCHANGED <<kind, req, locals, cookies, account, flows, old, scanned, history>>

DropLogin(r) ==
  /\ Completes(r, "dropLogin")
  /\ logins' = logins \ {req[r].of}
  /\ Goto(r, "saveUser")
  /\ UNCHANGED <<kind, req, locals, cookies, account, consents, qrs, owners, pending, codes,
                 clients, old, scanned, history>>

(* The exchange of Yandex's code, the devices and the profile come first;  *)
(* the code, or the token that was posted, decides whose account it is.    *)
SaveUser(r) ==
  /\ Completes(r, "saveUser")
  /\ users' = users \cup {req[r].pick}
  /\ Goto(r, "saveLink")
  /\ UNCHANGED <<kind, req, locals, cookies, linked, quasar, sessions, flows, old, scanned, history>>

(* The row refers to its user: without one the insert fails.               *)
AnyUser(u) == TRUE   \* faulty: the reference is not enforced
HasUser(u) == u \in users

SaveLink(r) ==
  /\ Completes(r, "saveLink")
  /\ IF HasUser(req[r].pick)
     THEN linked' = linked \cup {req[r].pick} /\ Goto(r, "saveSession")
     ELSE linked' = linked /\ Goto(r, "failed")
  /\ UNCHANGED <<kind, req, locals, cookies, users, quasar, sessions, flows, old, scanned, history>>

SaveSession(r) ==
  /\ Completes(r, "saveSession")
  /\ sessions' = [sessions EXCEPT ![r] = req[r].pick]
  /\ Goto(r, "reply")
  /\ UNCHANGED <<kind, req, locals, cookies, users, linked, quasar, flows, old, scanned, history>>

(* The response sets or clears the cookies of the browser.                 *)
Reply(r) ==
  /\ pc[r] = "reply"
  /\ LET b == req[r].browser IN
       /\ tag' = IF kind[r] = "login" THEN [tag EXCEPT ![b] = r] ELSE tag
       /\ jar' = CASE kind[r] \in Completing         -> [jar EXCEPT ![b] = r]
                   [] kind[r] \in {"logout", "erase"} -> [jar EXCEPT ![b] = None]
                   [] OTHER                          -> jar
  /\ Goto(r, "done")
  /\ UNCHANGED <<kind, req, locals, account, flows, old, scanned, history>>

------------------------------------------------------------------------------
(* /oauth/register and the opening of a consent by /oauth/authorize.       *)

(* A registered client gets a new id; its redirect URIs come with it.      *)
Register(r) ==
  /\ At(r, "register", "register")
  /\ clients[req[r].client] = {}
  /\ clients' = [clients EXCEPT ![req[r].client] = {req[r].pick}]
  /\ named' = named \cup {<<req[r].client, req[r].pick>>}
  /\ Goto(r, "done")
  /\ UNCHANGED <<kind, req, locals, cookies, account, logins, consents, qrs, owners, pending,
                 codes, old, scanned, answered, ended, racing>>

(* resolveClientMetadata: a client already stored is not fetched again.    *)
FindClient(r) ==
  /\ At(r, "authorize", "client")
  /\ Goto(r, IF req[r].client \in DocClients /\ clients[req[r].client] = {}
             THEN "fetch" ELSE "redirect")
  /\ UNCHANGED <<kind, req, locals, cookies, account, flows, old, scanned, history>>

(* The document names itself and its redirect URIs at the time.            *)
Fetch(r) ==
  /\ At(r, "authorize", "fetch")
  /\ \/ \E doc \in SUBSET Uris \ {{}} :
          got' = [got EXCEPT ![r] = [uris |-> doc]] /\ Goto(r, "saveClient")
     \/ got' = got /\ Goto(r, "redirect")
  /\ UNCHANGED <<kind, req, me, cookies, account, flows, old, scanned, history>>

SaveClient(r) ==
  /\ At(r, "authorize", "saveClient")
  /\ clients' = [clients EXCEPT ![req[r].client] = got[r].uris]
  /\ named' = named \cup {req[r].client} \X got[r].uris
  /\ got' = [got EXCEPT ![r] = None]
  /\ Goto(r, "redirect")
  /\ UNCHANGED <<kind, req, me, cookies, account, logins, consents, qrs, owners, pending,
                 codes, old, scanned, answered, ended, racing>>

(* isAllowedRedirectUri in the hosted mode.                                *)
AnyOfKnown(r) == clients[req[r].client] # {}   \* faulty: any URI of a client that is known
Allowed(r) == req[r].pick \in clients[req[r].client]

Redirect(r) ==
  /\ At(r, "authorize", "redirect")
  /\ Goto(r, IF Allowed(r) THEN "owner" ELSE "failed")
  /\ UNCHANGED <<kind, req, locals, cookies, account, flows, old, scanned, history>>

FindOwner(r) ==
  /\ kind[r] \in {"authorize", "answer"} /\ pc[r] = "owner"
  /\ Goto(r, IF me[r] \notin users THEN "failed"
             ELSE IF kind[r] = "authorize" THEN "savePending" ELSE "dropPending")
  /\ UNCHANGED <<kind, req, locals, cookies, account, flows, old, scanned, history>>

SavePending(r) ==
  /\ At(r, "authorize", "savePending")
  /\ pending' = [pending EXCEPT ![r] =
       [user |-> me[r], client |-> req[r].client, uri |-> req[r].pick]]
  /\ Goto(r, "saveConsent")
  /\ UNCHANGED <<kind, req, locals, cookies, account, logins, consents, qrs, owners, codes,
                 clients, old, scanned, history>>

SaveConsent(r) ==
  /\ At(r, "authorize", "saveConsent")
  /\ consents' = [consents EXCEPT ![r] = req[r].session]
  /\ Goto(r, "done")
  /\ UNCHANGED <<kind, req, locals, cookies, account, logins, qrs, owners, pending, codes,
                 clients, old, scanned, history>>

------------------------------------------------------------------------------
(* Answering it: POST /oauth/authorize, approveAuthorization and            *)
(* denyAuthorization.                                                      *)

GetConsent(r) ==
  /\ At(r, "answer", "getConsent")
  /\ got' = [got EXCEPT ![r] = consents[req[r].of]]
  /\ Goto(r, "session")
  /\ UNCHANGED <<kind, req, me, cookies, account, flows, old, scanned, history>>

UsedKept(p) == consents   \* faulty: leaves the transaction for the next answer
Used(p) == [consents EXCEPT ![p] = None]

DropConsent(r) ==
  /\ At(r, "answer", "dropConsent")
  /\ consents' = Used(req[r].of)
  /\ answered' = answered \cup {req[r].of}
  /\ Goto(r, IF req[r].pick = "deny" THEN "getPending" ELSE "session2")
  /\ UNCHANGED <<kind, req, locals, cookies, account, logins, qrs, owners, pending, codes,
                 clients, old, scanned, named, ended, racing>>

(* Only an approval asks whether the consent is still in time and whose it *)
(* is; a scope that does not fit would end it here too.                   *)
Approvable(r, p) == p.user = me[r] /\ req[r].of \notin old

GetPending(r) ==
  /\ At(r, "answer", "getPending")
  /\ LET p == pending[req[r].of] IN
       /\ got' = [got EXCEPT ![r] = p]
       /\ Goto(r, IF p = None THEN "failed"
                  ELSE IF req[r].pick = "deny" THEN "dropPending"
                  ELSE IF me[r] # None /\ Approvable(r, p) THEN "owner" ELSE "failed")
  /\ UNCHANGED <<kind, req, me, cookies, account, flows, old, scanned, history>>

DropPending(r) ==
  /\ At(r, "answer", "dropPending")
  /\ pending' = [pending EXCEPT ![req[r].of] = None]
  /\ Goto(r, IF req[r].pick = "deny" THEN "done" ELSE "readLink")
  /\ UNCHANGED <<kind, req, locals, cookies, account, logins, consents, qrs, owners, codes,
                 clients, old, scanned, history>>

ReadLink(r) ==
  /\ At(r, "answer", "readLink")
  /\ Goto(r, IF me[r] \in linked THEN "saveCode" ELSE "failed")
  /\ UNCHANGED <<kind, req, locals, cookies, account, flows, old, scanned, history>>

SaveCode(r) ==
  /\ At(r, "answer", "saveCode")
  /\ codes' = codes \cup {[consent |-> req[r].of, by |-> r, user |-> me[r],
                           client |-> got[r].client, uri |-> got[r].uri]}
  /\ Goto(r, "done")
  /\ UNCHANGED <<kind, req, locals, cookies, account, logins, consents, qrs, owners, pending,
                 clients, old, scanned, history>>

------------------------------------------------------------------------------
(* Connecting Quasar: /auth/qr-code and /auth/qr-status.                   *)

(* Three calls to Yandex Passport make the code.                           *)
SaveQr(r) ==
  /\ At(r, "qr", "saveQr")
  /\ qrs' = qrs \cup {r}
  /\ Goto(r, "saveOwner")
  /\ UNCHANGED <<kind, req, locals, cookies, account, logins, consents, owners, pending, codes,
                 clients, old, scanned, history>>

SaveOwner(r) ==
  /\ At(r, "qr", "saveOwner")
  /\ owners' = [owners EXCEPT ![r] = [user |-> me[r], browser |-> req[r].session]]
  /\ Goto(r, "done")
  /\ UNCHANGED <<kind, req, locals, cookies, account, logins, consents, qrs, pending, codes,
                 clients, old, scanned, history>>

(* The user scans it with any Yandex account.                              *)
Scan(q) ==
  /\ q \in Given("qr") /\ scanned[q] = None
  /\ \E a \in Accounts : scanned' = [scanned EXCEPT ![q] = a]
  /\ UNCHANGED <<kind, pc, req, locals, cookies, account, flows, old, history>>

GetOwner(r) ==
  /\ At(r, "poll", "getOwner")
  /\ got' = [got EXCEPT ![r] = owners[req[r].of]]
  /\ Goto(r, "session")
  /\ UNCHANGED <<kind, req, me, cookies, account, flows, old, scanned, history>>

GetQr(r) ==
  /\ At(r, "poll", "getQr")
  /\ Goto(r, IF req[r].of \in qrs \ old THEN "status" ELSE "failed")
  /\ UNCHANGED <<kind, req, locals, cookies, account, flows, old, scanned, history>>

(* Passport says waiting, or gives the session of whoever scanned.         *)
Status(r) ==
  /\ At(r, "poll", "status")
  /\ Goto(r, IF scanned[req[r].of] = None THEN "saveBack" ELSE "dropQr")
  /\ UNCHANGED <<kind, req, locals, cookies, account, flows, old, scanned, history>>

(* A waiting poll writes the session back with the cookies it was sent.    *)
SaveBack(r) ==
  /\ At(r, "poll", "saveBack")
  /\ qrs' = qrs \cup {req[r].of}
  /\ Goto(r, "done")
  /\ UNCHANGED <<kind, req, locals, cookies, account, logins, consents, owners, pending, codes,
                 clients, old, scanned, history>>

DropQr(r) ==
  /\ At(r, "poll", "dropQr")
  /\ qrs' = qrs \ {req[r].of}
  /\ Goto(r, "dropOwner")
  /\ UNCHANGED <<kind, req, locals, cookies, account, logins, consents, owners, pending, codes,
                 clients, old, scanned, history>>

StillOwned(q) == owners   \* faulty: relies on the QR session being gone
Disowned(q) == [owners EXCEPT ![q] = None]

DropOwner(r) ==
  /\ At(r, "poll", "dropOwner")
  /\ owners' = Disowned(req[r].of)
  /\ answered' = answered \cup {req[r].of}
  /\ Goto(r, "session2")
  /\ UNCHANGED <<kind, req, locals, cookies, account, logins, consents, qrs, pending, codes,
                 clients, old, scanned, named, ended, racing>>

(* assertCookieOwnedBy: the cookie is of the Yandex account signed in.     *)
CookieOf(r) == me[r] # None /\ scanned[req[r].of] = me[r]

CheckCookie(r) ==
  /\ At(r, "poll", "checkCookie")
  /\ Goto(r, IF CookieOf(r) THEN "saveCookie" ELSE "failed")
  /\ UNCHANGED <<kind, req, locals, cookies, account, flows, old, scanned, history>>

(* The row is read and written back with the cookie; see Credentials for   *)
(* what may happen in between.                                             *)
SaveCookie(r) ==
  /\ At(r, "poll", "saveCookie")
  /\ IF HasUser(me[r])
     THEN /\ quasar' = [quasar EXCEPT ![me[r]] = scanned[req[r].of]]
          /\ linked' = linked \cup {me[r]}
          /\ Goto(r, "done")
     ELSE UNCHANGED <<quasar, linked>> /\ Goto(r, "failed")
  /\ UNCHANGED <<kind, req, locals, cookies, users, sessions, flows, old, scanned, history>>

------------------------------------------------------------------------------
(* Logging out, deleting the account, and time.                            *)

DropSession(r) ==
  /\ At(r, "logout", "dropSession")
  /\ sessions' = [s \in SessionIds |-> IF s = req[r].session THEN None ELSE sessions[s]]
  /\ Goto(r, "reply")
  /\ UNCHANGED <<kind, req, locals, cookies, users, linked, quasar, flows, old, scanned, history>>

(* deleteUser: one transaction over every table that has the user's rows;  *)
(* browser_transactions are not among them.                                *)
RowsKept(u) == UNCHANGED <<sessions, pending, codes>>   \* faulty: leaves them to a cascade
DropRows(u) ==
  /\ sessions' = [s \in SessionIds |-> IF sessions[s] = u THEN None ELSE sessions[s]]
  /\ pending' = [p \in Requests |->
       IF pending[p] # None /\ pending[p].user = u THEN None ELSE pending[p]]
  /\ codes' = {c \in codes : c.user # u}

Erase(r) ==
  /\ At(r, "erase", "erase")
  /\ LET u == me[r] IN
       /\ users' = users \ {u} /\ linked' = linked \ {u}
       /\ quasar' = [quasar EXCEPT ![u] = None]
       /\ DropRows(u)
       /\ ended' = ended \cup {p \in Requests : kind[p] = "authorize" /\ pc[p] # "idle"} \X {u}
       /\ racing' = racing \cup {q \in Requests : Busy(q)} \X {u}
  /\ Goto(r, "reply")
  /\ UNCHANGED <<kind, req, locals, cookies, logins, consents, qrs, owners, clients, old,
                 scanned, answered, named>>

(* Ten minutes pass: the rows a request made are no longer answered.       *)
Expire(r) ==
  /\ r \in Expiring \cap (Given("login") \cup Given("authorize") \cup Given("qr"))
  /\ old' = old \cup {r}
  /\ UNCHANGED <<kind, pc, req, locals, cookies, account, flows, scanned, history>>

SigningIn(r) == \/ SaveLogin(r) \/ GetLogin(r) \/ DropLogin(r) \/ SaveUser(r) \/ SaveLink(r)
                \/ SaveSession(r) \/ Reply(r)
Opening(r)   == \/ Register(r) \/ FindClient(r) \/ Fetch(r) \/ SaveClient(r) \/ Redirect(r)
                \/ FindOwner(r) \/ SavePending(r) \/ SaveConsent(r)
Answering(r) == \/ GetConsent(r) \/ DropConsent(r) \/ GetPending(r) \/ DropPending(r)
                \/ ReadLink(r) \/ SaveCode(r)
Polling(r)   == \/ SaveQr(r) \/ SaveOwner(r) \/ GetOwner(r) \/ GetQr(r) \/ Status(r)
                \/ SaveBack(r) \/ DropQr(r) \/ DropOwner(r) \/ CheckCookie(r) \/ SaveCookie(r)

Step(r) == \/ ReadSession(r) \/ ReadUser(r) \/ ReadOwner(r) \/ ReadUserAgain(r)
           \/ SigningIn(r) \/ Opening(r) \/ Answering(r) \/ Polling(r)
           \/ DropSession(r) \/ Erase(r)

Next == \E r \in Requests : Start(r) \/ Step(r) \/ Scan(r) \/ Expire(r)

Spec == Init /\ [][Next]_vars

------------------------------------------------------------------------------
(* What the browser side promises.                                         *)

(* A sign-in is completed only in the browser that started it: whichever   *)
(* route ends it, the web session goes to the browser that /auth/login had *)
(* sent to Yandex.                                                         *)
SignInStaysInItsBrowser ==
  \A r \in Requests : kind[r] \in Completing /\ sessions[r] # None =>
    req[req[r].of].browser = req[r].browser

(* A code is issued only to the account that the consent was opened for,   *)
(* in the web session it was opened in: approveAuthorization and the       *)
(* consent transaction together, though each looks at one of the two.      *)
ConsentIsPersonal ==
  \A c \in codes :
    /\ req[c.by].session = req[c.consent].session
    /\ c.user = me[c.consent] /\ c.user = me[c.by]
    /\ req[c.by].pick = "approve"

(* Once an answer has used a consent up, approving or denying it, no       *)
(* request that is sent later gets a code for it.  (Answers sent before    *)
(* that can: two clicks at once may give two codes, or a code after a      *)
(* denial.)                                                                *)
AnsweredOnce == \A c \in codes : ~req[c.by].late

(* Deleting an account ends the consents that were open: a code for the    *)
(* same account, signed in again, stems from a consent opened later or     *)
(* from an approval that was under way during the deletion.                *)
ErasureEndsConsents ==
  \A c \in codes : <<c.consent, c.user>> \in ended => <<c.by, c.user>> \in racing

(* The redirect URI that receives a code was registered for its client,    *)
(* even when the metadata document changes between two fetches.            *)
CodesGoWhereRegistered == \A c \in codes : <<c.client, c.uri>> \in named

(* A QR code connects Quasar once and to the account it was scanned with:  *)
(* a poll sent after another one finished stores nothing, though a waiting *)
(* poll may have written the QR session back, and the cookie stored for a  *)
(* user is of the user's own Yandex account.                               *)
QrConnectsOnce ==
  /\ \A a \in Accounts : quasar[a] \in {None, a}
  /\ \A r \in Requests : kind[r] = "poll" /\ pc[r] \in {"saveCookie", "done"}
       => ~req[r].late
==============================================================================
