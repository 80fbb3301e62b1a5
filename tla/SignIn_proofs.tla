--------------------------- MODULE SignIn_proofs ---------------------------
(***************************************************************************)
(* What TLAPS proves of SignIn, for any number of browsers, accounts,      *)
(* clients, redirect URIs and requests of any kinds, and whatever expires. *)
(***************************************************************************)
EXTENDS SignIn, TLAPS

USE SignInAssumption DEF Kinds, Completing, Completes

------------------------------------------------------------------------------
(* Types, and the course a request of each kind takes.                     *)

(* The page a request follows from.                                        *)
From(r, k) == req[r].of \in Requests /\ kind[req[r].of] = k /\ pc[req[r].of] = "done"

(* What a request of each kind is sent with.                               *)
Inputs_OK(r) ==
  /\ req[r] \in Sent
  /\ kind[r] \in Completing => From(r, "login") /\ req[r].pick \in Accounts
  /\ kind[r] = "answer"    => From(r, "authorize") /\ req[r].pick \in {"approve", "deny"}
  /\ kind[r] = "poll"      => From(r, "qr")
  /\ kind[r] \in {"authorize", "register"} => req[r].client \in Clients /\ req[r].pick \in Uris

Labels_OK(r) ==
  /\ kind[r] = None       => pc[r] = "idle"
  /\ kind[r] = "login"    => pc[r] \in {"idle", "saveLogin", "reply", "done"}
  /\ kind[r] \in Completing => pc[r] \in {"idle", "getLogin", "dropLogin", "saveUser", "saveLink",
                                        "saveSession", "reply", "done", "failed"}
  /\ kind[r] = "authorize" => pc[r] \in {"idle", "session", "user", "client", "fetch", "saveClient",
                                         "redirect", "owner", "savePending", "saveConsent", "done",
                                         "failed"}
  /\ kind[r] = "answer"   => pc[r] \in {"idle", "getConsent", "session", "user", "dropConsent",
                                        "session2", "user2", "getPending", "owner", "dropPending",
                                        "readLink", "saveCode", "done", "failed"}
  /\ kind[r] = "qr"       => pc[r] \in {"idle", "session", "user", "saveQr", "saveOwner", "done",
                                        "failed"}
  /\ kind[r] = "poll"     => pc[r] \in {"idle", "getOwner", "session", "user", "getQr", "status",
                                        "saveBack", "dropQr", "dropOwner", "session2", "user2",
                                        "checkCookie", "saveCookie", "done", "failed"}
  /\ kind[r] = "logout"   => pc[r] \in {"idle", "dropSession", "reply", "done"}
  /\ kind[r] = "erase"    => pc[r] \in {"idle", "session", "user", "erase", "reply", "done"}
  /\ kind[r] = "register" => pc[r] \in {"idle", "register", "done"}

(* What a request has found by the time it is at a label.                  *)
Locals_OK(r) ==
  /\ me[r] # None => pc[r] # "idle" /\ req[r].session # None
  /\ kind[r] = "authorize" /\ pc[r] \in {"client", "fetch", "saveClient", "redirect", "owner",
                                         "savePending", "saveConsent", "done"} => me[r] # None
  /\ kind[r] = "authorize" /\ pc[r] = "saveClient" => got[r] \in Document
  /\ kind[r] = "qr" /\ pc[r] \in {"saveQr", "saveOwner", "done"} => me[r] # None
  /\ kind[r] = "erase" /\ pc[r] = "erase" => me[r] # None
  /\ kind[r] = "answer" /\ req[r].pick = "approve"
     /\ pc[r] \in {"owner", "dropPending", "readLink", "saveCode"} =>
       me[r] # None /\ got[r] \in Pending /\ got[r].user = me[r]
  /\ kind[r] = "answer" /\ pc[r] \in {"session2", "user2", "owner", "readLink", "saveCode"} =>
       req[r].pick = "approve"
  /\ kind[r] = "poll" /\ pc[r] = "saveCookie" => CookieOf(r)

Course ==
  \A r \in Requests :
    /\ pc[r] # "idle" => Inputs_OK(r)
    /\ Labels_OK(r)
    /\ Locals_OK(r)

(* A request is sent with what its kind calls for.                         *)
LEMMA StartTyped ==
  ASSUME TypeOK, NEW r \in Requests, Start(r)
  PROVE  /\ req' \in [Requests -> Sent \cup {None}]
         /\ \A q \in Requests \ {r} : req'[q] = req[q] /\ pc'[q] = pc[q]
         /\ \E b \in Browsers : req'[r].browser = b /\ req'[r].session = jar[b] /\ req'[r].tag = tag[b]
         /\ req'[r].late = (req'[r].of \in answered)
         /\ pc'[r] # "idle" /\ Inputs_OK(r)' /\ Labels_OK(r)'
<1> USE DEF TypeOK
<1>1. PICK b \in Browsers, in \in Inputs(kind[r]) : Send(r, b, in[1], in[2], in[3])
  BY DEF Start
<1> DEFINE sent == [browser |-> b, session |-> jar[b], tag |-> tag[b], of |-> in[1],
                    client |-> in[2], pick |-> in[3], late |-> in[1] \in answered]
<1>2. kind[r] \in Kinds /\ kind' = kind /\ pc' = [pc EXCEPT ![r] = First(kind[r])]
  BY DEF Start, Goto
<1>3. /\ kind[r] \in Completing  => in[1] \in Given("login") /\ in[2] = None /\ in[3] \in Accounts
      /\ kind[r] = "answer"    => in[1] \in Given("authorize") /\ in[2] = None /\ in[3] \in {"approve", "deny"}
      /\ kind[r] = "poll"      => in[1] \in Given("qr") /\ in[2] = None /\ in[3] = None
      /\ kind[r] \in {"authorize", "register"} => in[1] = None /\ in[2] \in Clients /\ in[3] \in Uris
      /\ kind[r] \in {"login", "qr", "logout", "erase"} => in[1] = None /\ in[2] = None /\ in[3] = None
  BY <1>1, <1>2 DEF Inputs
<1>4. /\ in[1] \in Requests \cup {None} /\ in[2] \in Clients \cup {None}
      /\ in[3] \in Accounts \cup Uris \cup {"approve", "deny", None}
  BY <1>2, <1>3 DEF Given
<1>5. sent \in Sent
  BY <1>4 DEF Sent
<1>6. req' = [req EXCEPT ![r] = sent]
  BY <1>1 DEF Send
<1>7. req'[r] = sent /\ \A q \in Requests \ {r} : req'[q] = req[q] /\ pc'[q] = pc[q]
  BY <1>2, <1>6
<1>8. \A k : in[1] \in Given(k) => in[1] # r
  BY DEF Given, Start
<1>9. pc'[r] = First(kind[r]) /\ First(kind[r]) # "idle"
  BY <1>2 DEF First
<1>10. Labels_OK(r)'
  BY <1>2, <1>9 DEF Labels_OK, First, Start
<1>11. Inputs_OK(r)'
  BY <1>2, <1>3, <1>5, <1>7, <1>8 DEF Inputs_OK, From, Given
<1> QED  BY <1>5, <1>6, <1>7, <1>9, <1>10, <1>11

(* A step of one request leaves the others where they are.                 *)
LEMMA StepFrame ==
  ASSUME TypeOK, Course, NEW r \in Requests, Step(r)
  PROVE  /\ kind' = kind /\ req' = req /\ scanned' = scanned /\ old' = old
         /\ Busy(r)
         /\ pc' \in [Requests -> Labels]
         /\ \A q \in Requests \ {r} : pc'[q] = pc[q] /\ me'[q] = me[q] /\ got'[q] = got[q]
<1> USE DEF TypeOK, Busy, Ended, Labels, Goto, At, locals
<1>1. CASE ReadSession(r) \/ ReadUser(r) \/ ReadOwner(r) \/ ReadUserAgain(r)
  BY <1>1 DEF ReadSession, ReadUser, ReadOwner, ReadUserAgain, Known
<1>2. CASE SigningIn(r)
  BY <1>2 DEF SigningIn, SaveLogin, GetLogin, DropLogin, SaveUser, SaveLink, SaveSession, Reply
<1>3. CASE Opening(r)
  BY <1>3 DEF Opening, Register, FindClient, Fetch, SaveClient, Redirect, FindOwner, SavePending,
              SaveConsent
<1>4. CASE Answering(r)
  BY <1>4 DEF Answering, GetConsent, DropConsent, GetPending, DropPending, ReadLink, SaveCode
<1>5. CASE Polling(r)
  BY <1>5 DEF Polling, SaveQr, SaveOwner, GetOwner, GetQr, Status, SaveBack, DropQr, DropOwner,
              CheckCookie, SaveCookie
<1>6. CASE DropSession(r) \/ Erase(r)
  BY <1>6 DEF DropSession, Erase
<1> QED  BY <1>1, <1>2, <1>3, <1>4, <1>5, <1>6 DEF Step

(* ... and what they were sent with stays typed.                           *)
LEMMA OthersKeep ==
  ASSUME TypeOK, Course, NEW r \in Requests, Step(r)
  PROVE  /\ Inputs_OK(r)'
         /\ \A q \in Requests \ {r} :
              (pc'[q] # "idle" => Inputs_OK(q)') /\ Labels_OK(q)' /\ Locals_OK(q)'
<1>1. /\ kind' = kind /\ req' = req /\ scanned' = scanned /\ pc[r] \notin {"idle", "done"}
      /\ \A q \in Requests \ {r} : pc'[q] = pc[q] /\ me'[q] = me[q] /\ got'[q] = got[q]
  BY StepFrame DEF Busy, Ended
<1>2. \A q \in Requests, k \in Kinds : From(q, k) => From(q, k)'
  BY <1>1 DEF From
<1>3. \A q \in Requests : Inputs_OK(q) => Inputs_OK(q)'
  BY <1>1, <1>2 DEF Inputs_OK
<1>4. \A q \in Requests \ {r} : Labels_OK(q)' /\ Locals_OK(q)'
  BY <1>1 DEF Course, Labels_OK, Locals_OK, CookieOf
<1> QED  BY <1>1, <1>3, <1>4 DEF Course

(* The types hold at first.                                                *)
LEMMA TypeInit == Init => TypeOK /\ Course
<1> SUFFICES ASSUME Init PROVE TypeOK /\ Course
  OBVIOUS
<1>1. PICK home \in [Browsers -> Accounts \cup {None}] :
        /\ users = {home[b] : b \in Browsers} \ {None}
        /\ sessions = [s \in SessionIds |-> IF s \in Browsers THEN home[s] ELSE None]
        /\ jar = [b \in Browsers |-> IF home[b] = None THEN None ELSE b]
  BY DEF Init
<1>2. TypeOK
  BY <1>1 DEF Init, TypeOK, SessionIds, Labels, Ended
<1>3. Course
  BY DEF Init, Course, Labels_OK, Locals_OK
<1> QED  BY <1>2, <1>3

(* Each step keeps the tables typed and brings its request on its course.  *)
LEMMA TypeStep ==
  ASSUME TypeOK, Course, NEW r \in Requests, Step(r)
  PROVE  TypeOK' /\ Course'
<1>1. /\ kind' = kind /\ req' = req /\ scanned' = scanned /\ old' = old
      /\ pc' \in [Requests -> Labels]
  BY StepFrame
<1>2. Inputs_OK(r) /\ Labels_OK(r) /\ Locals_OK(r) /\ req[r] \in Sent
  BY StepFrame DEF Course, Busy, Ended, Inputs_OK
<1>3. SUFFICES TypeOK' /\ Labels_OK(r)' /\ Locals_OK(r)'
  BY OthersKeep DEF Course
<1> USE DEF TypeOK, Labels_OK, Locals_OK, Goto, At, locals, Sent
<1>4. ASSUME ReadSession(r) \/ ReadUser(r) \/ ReadOwner(r) \/ ReadUserAgain(r)
      PROVE  TypeOK' /\ Labels_OK(r)' /\ Locals_OK(r)'
  BY <1>1, <1>2, <1>4 DEF ReadSession, ReadUser, ReadOwner, ReadUserAgain, Known, cookies, account,
                          flows, history
<1>5. ASSUME SigningIn(r) PROVE TypeOK' /\ Labels_OK(r)' /\ Locals_OK(r)'
  <2> USE DEF cookies, account, flows, history, Inputs_OK
  <2>1. CASE SaveLogin(r)
    BY <1>1, <1>2, <2>1 DEF SaveLogin
  <2>2. CASE GetLogin(r)
    BY <1>1, <1>2, <2>2 DEF GetLogin
  <2>3. CASE DropLogin(r)
    BY <1>1, <1>2, <2>3 DEF DropLogin
  <2>4. CASE SaveUser(r)
    BY <1>1, <1>2, <2>4 DEF SaveUser
  <2>5. CASE SaveLink(r)
    BY <1>1, <1>2, <2>5 DEF SaveLink, HasUser
  <2>6. CASE SaveSession(r)
    BY <1>1, <1>2, <2>6 DEF SaveSession, SessionIds
  <2>7. CASE Reply(r)
    BY <1>1, <1>2, <2>7 DEF Reply, SessionIds
  <2> QED  BY <1>5, <2>1, <2>2, <2>3, <2>4, <2>5, <2>6, <2>7 DEF SigningIn
<1>6. ASSUME Opening(r) PROVE TypeOK' /\ Labels_OK(r)' /\ Locals_OK(r)'
  <2> USE DEF cookies, account, flows, history, Inputs_OK
  <2>1. CASE Register(r)
    BY <1>1, <1>2, <2>1 DEF Register
  <2>2. CASE FindClient(r)
    BY <1>1, <1>2, <2>2 DEF FindClient
  <2>3. CASE Fetch(r)
    BY <1>1, <1>2, <2>3 DEF Fetch, Document
  <2>4. CASE SaveClient(r)
    BY <1>1, <1>2, <2>4 DEF SaveClient, Document
  <2>5. CASE Redirect(r)
    BY <1>1, <1>2, <2>5 DEF Redirect
  <2>6. CASE FindOwner(r)
    BY <1>1, <1>2, <2>6 DEF FindOwner
  <2>7. CASE SavePending(r)
    BY <1>1, <1>2, <2>7 DEF SavePending, Pending, SessionIds
  <2>8. CASE SaveConsent(r)
    BY <1>1, <1>2, <2>8 DEF SaveConsent, SessionIds
  <2> QED  BY <1>6, <2>1, <2>2, <2>3, <2>4, <2>5, <2>6, <2>7, <2>8 DEF Opening
<1>7. ASSUME Answering(r) PROVE TypeOK' /\ Labels_OK(r)' /\ Locals_OK(r)'
  <2> USE DEF cookies, account, flows, history, Inputs_OK, From
  <2>1. CASE GetConsent(r)
    BY <1>1, <1>2, <2>1 DEF GetConsent
  <2>2. CASE DropConsent(r)
    BY <1>1, <1>2, <2>2 DEF DropConsent, Used
  <2>3. CASE GetPending(r)
    BY <1>1, <1>2, <2>3 DEF GetPending, Approvable
  <2>4. CASE DropPending(r)
    BY <1>1, <1>2, <2>4 DEF DropPending
  <2>5. CASE ReadLink(r)
    BY <1>1, <1>2, <2>5 DEF ReadLink
  <2>6. CASE SaveCode(r)
    BY <1>1, <1>2, <2>6 DEF SaveCode, Code, Pending
  <2> QED  BY <1>7, <2>1, <2>2, <2>3, <2>4, <2>5, <2>6 DEF Answering
<1>8. ASSUME Polling(r) PROVE TypeOK' /\ Labels_OK(r)' /\ Locals_OK(r)'
  <2> USE DEF cookies, account, flows, history, Inputs_OK, From
  <2>1. CASE SaveQr(r)
    BY <1>1, <1>2, <2>1 DEF SaveQr
  <2>2. CASE SaveOwner(r)
    BY <1>1, <1>2, <2>2 DEF SaveOwner, Owner
  <2>3. CASE GetOwner(r)
    BY <1>1, <1>2, <2>3 DEF GetOwner
  <2>4. CASE GetQr(r)
    BY <1>1, <1>2, <2>4 DEF GetQr
  <2>5. CASE Status(r)
    BY <1>1, <1>2, <2>5 DEF Status
  <2>6. CASE SaveBack(r)
    BY <1>1, <1>2, <2>6 DEF SaveBack
  <2>7. CASE DropQr(r)
    BY <1>1, <1>2, <2>7 DEF DropQr
  <2>8. CASE DropOwner(r)
    BY <1>1, <1>2, <2>8 DEF DropOwner, Disowned
  <2>9. CASE CheckCookie(r)
    BY <1>1, <1>2, <2>9 DEF CheckCookie, CookieOf
  <2>10. CASE SaveCookie(r)
    BY <1>1, <1>2, <2>10 DEF SaveCookie, CookieOf, HasUser
  <2> QED  BY <1>8, <2>1, <2>2, <2>3, <2>4, <2>5, <2>6, <2>7, <2>8, <2>9, <2>10 DEF Polling
<1>9. ASSUME DropSession(r) \/ Erase(r) PROVE TypeOK' /\ Labels_OK(r)' /\ Locals_OK(r)'
  <2>1. CASE DropSession(r)
    BY <1>1, <1>2, <2>1 DEF DropSession, cookies, account, flows, history
  <2>2. CASE Erase(r)
    BY <1>1, <1>2, <2>2 DEF Erase, DropRows, cookies, account, flows, history
  <2> QED  BY <1>9, <2>1, <2>2
<1> QED  BY <1>4, <1>5, <1>6, <1>7, <1>8, <1>9 DEF Step

(* The other steps: a request is sent, a QR code scanned, time passes.     *)
LEMMA TypeOther ==
  ASSUME TypeOK, Course, NEW r \in Requests, Start(r) \/ Scan(r) \/ Expire(r)
  PROVE  TypeOK' /\ Course'
<1>1. CASE Start(r)
  <2>1. /\ req' \in [Requests -> Sent \cup {None}]
        /\ \A q \in Requests \ {r} : req'[q] = req[q] /\ pc'[q] = pc[q]
        /\ Inputs_OK(r)' /\ Labels_OK(r)'
    BY <1>1, StartTyped
  <2>2. /\ UNCHANGED <<kind, me, got, scanned>> /\ pc[r] = "idle" /\ pc' \in [Requests -> Labels]
        /\ pc'[r] \in {"saveLogin", "getLogin", "getConsent", "getOwner", "dropSession", "register", "session"}
    BY <1>1 DEF Start, Goto, First, TypeOK, locals, Labels
  <2>3. TypeOK'
    BY <1>1, <2>1, <2>2 DEF Start, TypeOK, cookies, account, flows, history
  <2>4. \A q \in Requests, k \in Kinds : q # r /\ From(q, k) => From(q, k)'
    BY <2>1, <2>2 DEF From
  <2>5. \A q \in Requests \ {r} : pc'[q] # "idle" => Inputs_OK(q)'
    BY <2>1, <2>2, <2>4 DEF Inputs_OK, Course
  <2>6. me[r] = None
    BY <2>2 DEF Course, Locals_OK
  <2>7. \A q \in Requests : Labels_OK(q)' /\ Locals_OK(q)'
    BY <2>1, <2>2, <2>6 DEF Course, Labels_OK, Locals_OK, CookieOf
  <2> QED  BY <2>1, <2>3, <2>5, <2>7 DEF Course
<1>2. CASE Scan(r)
  <2>1. PICK a \in Accounts : scanned' = [scanned EXCEPT ![r] = a] /\ scanned[r] = None
    BY <1>2 DEF Scan
  <2>2. TypeOK'
    BY <1>2, <2>1 DEF Scan, TypeOK, locals, cookies, account, flows, history
  <2>3. \A q \in Requests : CookieOf(q) => CookieOf(q)'
    BY <1>2, <2>1 DEF Scan, CookieOf, TypeOK, locals
  <2> QED
    BY <1>2, <2>2, <2>3 DEF Scan, Course, Labels_OK, Locals_OK, Inputs_OK, From, locals
<1>3. CASE Expire(r)
  BY <1>3 DEF Expire, TypeOK, Course, Labels_OK, Locals_OK, Inputs_OK, From, CookieOf, locals, cookies,
              account, flows, history
<1> QED  BY <1>1, <1>2, <1>3

LEMMA TypeNext == TypeOK /\ Course /\ [Next]_vars => TypeOK' /\ Course'
<1>1. CASE UNCHANGED vars
  BY <1>1 DEF vars, TypeOK, Course, Labels_OK, Locals_OK, Inputs_OK, From, CookieOf, locals, cookies,
              account, flows, history
<1> QED  BY <1>1, TypeStep, TypeOther DEF Next

(* Type correctness.                                                       *)
THEOREM TypeCorrect == Spec => []TypeOK
<1>1. Spec => [](TypeOK /\ Course)
  BY TypeInit, TypeNext, PTL DEF Spec
<1> QED  BY <1>1, PTL

(* A label names the call that comes next.                                 *)
LEMMA ActionAt ==
  ASSUME NEW r \in Requests, Step(r)
  PROVE  /\ pc[r] \in {"session", "session2"} => ReadSession(r)
         /\ pc[r] = "user" => ReadUser(r) \/ ReadOwner(r)
         /\ (pc[r] = "reply" => Reply(r)) /\ (pc[r] = "saveLogin" => SaveLogin(r))
         /\ (pc[r] = "getLogin" => GetLogin(r)) /\ (pc[r] = "dropLogin" => DropLogin(r))
         /\ (pc[r] = "saveUser" => SaveUser(r)) /\ (pc[r] = "saveLink" => SaveLink(r))
         /\ (pc[r] = "saveSession" => SaveSession(r)) /\ (pc[r] = "register" => Register(r))
         /\ (pc[r] = "client" => FindClient(r)) /\ (pc[r] = "fetch" => Fetch(r))
         /\ (pc[r] = "saveClient" => SaveClient(r)) /\ (pc[r] = "redirect" => Redirect(r))
         /\ (pc[r] = "owner" => FindOwner(r)) /\ (pc[r] = "savePending" => SavePending(r))
         /\ (pc[r] = "saveConsent" => SaveConsent(r)) /\ (pc[r] = "getConsent" => GetConsent(r))
         /\ (pc[r] = "dropConsent" => DropConsent(r)) /\ (pc[r] = "getPending" => GetPending(r))
         /\ (pc[r] = "dropPending" => DropPending(r)) /\ (pc[r] = "readLink" => ReadLink(r))
         /\ (pc[r] = "saveCode" => SaveCode(r)) /\ (pc[r] = "saveQr" => SaveQr(r))
         /\ (pc[r] = "saveOwner" => SaveOwner(r)) /\ (pc[r] = "getOwner" => GetOwner(r))
         /\ (pc[r] = "getQr" => GetQr(r)) /\ (pc[r] = "status" => Status(r))
         /\ (pc[r] = "saveBack" => SaveBack(r)) /\ (pc[r] = "dropQr" => DropQr(r))
         /\ (pc[r] = "dropOwner" => DropOwner(r)) /\ (pc[r] = "checkCookie" => CheckCookie(r))
         /\ (pc[r] = "saveCookie" => SaveCookie(r)) /\ (pc[r] = "dropSession" => DropSession(r))
         /\ (pc[r] = "erase" => Erase(r)) /\ (pc[r] = "user2" => ReadUserAgain(r))
BY DEF Step, SigningIn, Opening, Answering, Polling, ReadSession, ReadUser, ReadOwner,
       ReadUserAgain, SaveLogin, GetLogin, DropLogin, SaveUser, SaveLink, SaveSession, Reply,
       Register, FindClient, Fetch, SaveClient, Redirect, FindOwner, SavePending,
       SaveConsent, GetConsent, DropConsent, GetPending, DropPending, ReadLink, SaveCode,
       SaveQr, SaveOwner, GetOwner, GetQr, Status, SaveBack, DropQr, DropOwner,
       CheckCookie, SaveCookie, DropSession, Erase, At

(* A request does not begin again.                                         *)
LEMMA NeverIdle ==
  ASSUME TypeOK, NEW r \in Requests, Step(r)
  PROVE  pc'[r] # "idle"
<1>1. CASE ReadSession(r) \/ ReadUser(r) \/ ReadOwner(r) \/ ReadUserAgain(r)
  BY <1>1 DEF ReadSession, ReadUser, ReadOwner, ReadUserAgain, Known, Goto, TypeOK
<1>2. CASE SigningIn(r) \/ Opening(r)
  BY <1>2 DEF SigningIn, SaveLogin, GetLogin, DropLogin, SaveUser, SaveLink, SaveSession, Reply,
              Opening, Register, FindClient, Fetch, SaveClient, Redirect, FindOwner, SavePending,
              SaveConsent, Goto, TypeOK
<1>3. CASE Answering(r) \/ DropSession(r) \/ Erase(r)
  BY <1>3 DEF Answering, GetConsent, DropConsent, GetPending, DropPending, ReadLink, SaveCode,
              DropSession, Erase, Goto, TypeOK
<1>4. CASE Polling(r)
  BY <1>4 DEF Polling, SaveQr, SaveOwner, GetOwner, GetQr, Status, SaveBack, DropQr, DropOwner,
              CheckCookie, SaveCookie, Goto, TypeOK
<1> QED  BY <1>1, <1>2, <1>3, <1>4 DEF Step

(* Which steps write which table.                                          *)
LEMMA Writers ==
  ASSUME TypeOK, Course, NEW r \in Requests, Step(r)
  PROVE  /\ UNCHANGED cookies \/ Reply(r)
         /\ UNCHANGED sessions \/ SaveSession(r) \/ DropSession(r) \/ Erase(r)
         /\ UNCHANGED quasar \/ SaveCookie(r) \/ Erase(r)
         /\ UNCHANGED consents \/ SaveConsent(r) \/ DropConsent(r)
         /\ UNCHANGED owners \/ SaveOwner(r) \/ DropOwner(r)
         /\ UNCHANGED pending \/ SavePending(r) \/ DropPending(r) \/ Erase(r)
         /\ UNCHANGED codes \/ SaveCode(r) \/ Erase(r)
         /\ UNCHANGED <<clients, named>> \/ Register(r) \/ SaveClient(r)
         /\ UNCHANGED answered \/ DropConsent(r) \/ DropOwner(r)
         /\ UNCHANGED <<ended, racing>> \/ Erase(r)
<1> USE DEF cookies, account, flows, history
<1>1. CASE ReadSession(r) \/ ReadUser(r) \/ ReadOwner(r) \/ ReadUserAgain(r)
  BY <1>1 DEF ReadSession, ReadUser, ReadOwner, ReadUserAgain
<1>2. CASE SigningIn(r)
  BY <1>2 DEF SigningIn, SaveLogin, GetLogin, DropLogin, SaveUser, SaveLink, SaveSession, Reply
<1>3. CASE Opening(r)
  BY <1>3 DEF Opening, FindClient, Fetch, Redirect, FindOwner, Register, SaveClient, SavePending,
              SaveConsent
<1>4. CASE Answering(r)
  BY <1>4 DEF Answering, GetConsent, DropConsent, GetPending, DropPending, ReadLink, SaveCode
<1>5. CASE Polling(r)
  BY <1>5 DEF Polling, SaveQr, SaveOwner, GetOwner, GetQr, Status, SaveBack, DropQr, DropOwner,
              CheckCookie, SaveCookie
<1>6. CASE DropSession(r) \/ Erase(r)
  BY <1>6 DEF DropSession, Erase
<1> QED  BY <1>1, <1>2, <1>3, <1>4, <1>5, <1>6 DEF Step

(* The steps that are not a Step write no table, and only Start a request. *)
LEMMA OtherFrame ==
  ASSUME NEW r \in Requests, Start(r) \/ Scan(r) \/ Expire(r)
  PROVE  /\ UNCHANGED <<kind, me, got, cookies, account, flows, history>>
         /\ UNCHANGED <<pc, req>> \/ Start(r)
BY DEF Start, Scan, Expire, locals

------------------------------------------------------------------------------
(* Sign-ins and web sessions.                                              *)

(* A session that a browser was given is never written again but to end.   *)
Settled(s) == s \in Requests => kind[s] \in Completing /\ pc[s] = "done"

Sessions_OK ==
  /\ \A b \in Browsers : jar[b] # None => Settled(jar[b])
  /\ \A r \in Requests : pc[r] # "idle" /\ req[r].session # None => Settled(req[r].session)
  /\ \A r \in Requests : sessions[r] # None => kind[r] \in Completing /\ pc[r] \in {"reply", "done"}

(* The login cookie of a browser names a sign-in that it began, and a      *)
(* callback that got past its first read brought the cookie of its own.    *)
Began(q, b) == q \in Requests /\ pc[q] # "idle" /\ req[q].browser = b

Logins_OK ==
  /\ \A b \in Browsers : tag[b] # None => Began(tag[b], b)
  /\ \A r \in Requests : pc[r] # "idle" /\ req[r].tag # None => Began(req[r].tag, req[r].browser)
  /\ \A r \in Requests : kind[r] \in Completing /\ pc[r] \notin {"idle", "getLogin", "failed"} =>
       req[r].tag = req[r].of

LEMMA SessionsInit == Init => Sessions_OK /\ Logins_OK
BY DEF Init, Sessions_OK, Logins_OK, Settled, SessionIds

LEMMA SessionsStep ==
  ASSUME TypeOK, Course, Sessions_OK, NEW r \in Requests, Step(r)
  PROVE  /\ Sessions_OK'
         /\ \A s \in SessionIds : Settled(s) => sessions'[s] \in {sessions[s], None}
<1>1. /\ kind' = kind /\ req' = req /\ pc[r] \notin {"idle", "done", "failed"}
      /\ \A q \in Requests \ {r} : pc'[q] = pc[q]
  BY StepFrame DEF Busy, Ended
<1>2. \A s \in SessionIds : Settled(s) => Settled(s)'
  BY <1>1 DEF Settled
<1>3. TypeOK'
  BY TypeStep
<1>4. (\A b \in Browsers : jar[b] # None => Settled(jar[b]))'
  <2>1. CASE Reply(r)
    <3>1. \A b \in Browsers : jar'[b] \in {jar[b], r, None} /\ (jar'[b] = r /\ jar[b] # r => kind[r] \in Completing)
      BY <2>1 DEF Reply, TypeOK
    <3>2. pc'[r] = "done"
      BY <2>1 DEF Reply, Goto, TypeOK
    <3> QED  BY <1>1, <1>2, <3>1, <3>2 DEF Sessions_OK, Settled, TypeOK
  <2>2. CASE UNCHANGED cookies
    BY <1>2, <2>2 DEF Sessions_OK, cookies, TypeOK
  <2> QED  BY <2>1, <2>2, Writers
<1>5. (\A q \in Requests : pc[q] # "idle" /\ req[q].session # None => Settled(req[q].session))'
  <2>1. \A q \in Requests : pc'[q] # "idle" => pc[q] # "idle" /\ req[q].session \in SessionIds \cup {None}
    BY <1>1 DEF Course, Inputs_OK, Sent
  <2> QED  BY <1>1, <1>2, <2>1 DEF Sessions_OK, Settled
<1>6. /\ \A q \in Requests : sessions'[q] # None => kind'[q] \in Completing /\ pc'[q] \in {"reply", "done"}
      /\ \A s \in SessionIds : Settled(s) => sessions'[s] \in {sessions[s], None}
  <2>1. CASE SaveSession(r)
    BY <1>1, <2>1 DEF SaveSession, Goto, At, Sessions_OK, Settled, TypeOK, SessionIds
  <2>2. CASE DropSession(r) \/ Erase(r)
    <3>1. \A s \in SessionIds : sessions'[s] \in {sessions[s], None}
      BY <2>2 DEF DropSession, Erase, DropRows
    <3>2. kind[r] \notin Completing
      BY <2>2 DEF DropSession, Erase, At
    <3> QED  BY <1>1, <3>1, <3>2 DEF Sessions_OK, SessionIds
  <2>3. CASE UNCHANGED sessions
    <3>1. pc[r] \in {"reply", "done"} => pc'[r] \in {"reply", "done"}
      <4>1. pc[r] = "reply" => Reply(r)
        BY ActionAt
      <4> QED  BY <1>1, <4>1 DEF Reply, Goto, TypeOK
    <3> QED  BY <1>1, <2>3, <3>1 DEF Sessions_OK, SessionIds
  <2> QED  BY <2>1, <2>2, <2>3, Writers
<1> QED  BY <1>4, <1>5, <1>6 DEF Sessions_OK

LEMMA LoginsStep ==
  ASSUME TypeOK, Course, Logins_OK, NEW r \in Requests, Step(r)
  PROVE  Logins_OK'
<1>1. /\ kind' = kind /\ req' = req /\ pc[r] \notin {"idle", "done", "failed"}
      /\ \A q \in Requests \ {r} : pc'[q] = pc[q]
  BY StepFrame DEF Busy, Ended
<1>2. pc'[r] # "idle"
  BY NeverIdle
<1>3. \A q \in Requests, b \in Browsers : Began(q, b) => Began(q, b)'
  BY <1>1, <1>2 DEF Began
<1>4. (\A b \in Browsers : tag[b] # None => Began(tag[b], b))'
  <2>1. CASE Reply(r)
    <3>1. tag' = IF kind[r] = "login" THEN [tag EXCEPT ![req[r].browser] = r] ELSE tag
      BY <2>1 DEF Reply
    <3>2. (Began(r, req[r].browser))'
      BY <1>1, <1>2 DEF Began
    <3>3. \A b \in Browsers : tag'[b] # tag[b] => tag'[b] = r /\ b = req[r].browser
      BY <3>1 DEF TypeOK
    <3> QED  BY <1>1, <1>3, <3>2, <3>3 DEF Logins_OK, Began
  <2>2. CASE UNCHANGED cookies
    BY <1>3, <2>2 DEF Logins_OK, cookies, Began
  <2> QED  BY <2>1, <2>2, Writers
<1>5. (\A q \in Requests : pc[q] # "idle" /\ req[q].tag # None => Began(req[q].tag, req[q].browser))'
  <2>1. \A q \in Requests : pc'[q] # "idle" => pc[q] # "idle" /\ req[q].browser \in Browsers
    BY <1>1 DEF Course, Inputs_OK, Sent
  <2> QED  BY <1>1, <1>3, <2>1 DEF Logins_OK, Began
<1>6. kind[r] \in Completing /\ pc'[r] \notin {"idle", "getLogin", "failed"} => req[r].tag = req[r].of
  <2>1. pc[r] = "getLogin" => GetLogin(r)
    BY ActionAt
  <2> QED  BY <1>1, <2>1 DEF Logins_OK, GetLogin, LiveLogin, Goto, TypeOK
<1> QED  BY <1>1, <1>4, <1>5, <1>6 DEF Logins_OK

(* A request is sent with what is in the browser.                          *)
LEMMA SessionsOther ==
  ASSUME TypeOK, Course, Sessions_OK, Logins_OK, NEW r \in Requests, Start(r) \/ Scan(r) \/ Expire(r)
  PROVE  Sessions_OK' /\ Logins_OK'
<1>1. UNCHANGED <<kind, jar, tag, sessions>>
  BY OtherFrame DEF cookies, account
<1>2. CASE UNCHANGED <<pc, req>>
  BY <1>1, <1>2 DEF Sessions_OK, Logins_OK, Settled, Began
<1>3. CASE Start(r)
  <2>1. PICK b \in Browsers : req'[r].browser = b /\ req'[r].session = jar[b] /\ req'[r].tag = tag[b]
    BY <1>3, StartTyped
  <2>2. /\ \A q \in Requests \ {r} : req'[q] = req[q] /\ pc'[q] = pc[q]
        /\ pc[r] = "idle" /\ pc'[r] # "idle"
    BY <1>3, StartTyped DEF Start
  <2>3. \A s : Settled(s) => Settled(s)'
    BY <1>1, <2>2 DEF Settled
  <2>4. \A q, c : Began(q, c) => Began(q, c)'
    BY <2>2 DEF Began
  <2>5. kind[r] \in Completing => pc'[r] = "getLogin"
    BY <1>3 DEF First, Start, Goto, TypeOK
  <2>6. Sessions_OK'
    BY <1>1, <2>1, <2>2, <2>3 DEF Sessions_OK, Settled
  <2>7. Logins_OK'
    BY <1>1, <2>1, <2>2, <2>4, <2>5 DEF Logins_OK, Began
  <2> QED  BY <2>6, <2>7
<1> QED  BY <1>2, <1>3, OtherFrame

LEMMA SessionsNext ==
  TypeOK /\ Course /\ Sessions_OK /\ Logins_OK /\ [Next]_vars => Sessions_OK' /\ Logins_OK'
<1>1. CASE UNCHANGED vars
  BY <1>1 DEF vars, cookies, account, Sessions_OK, Logins_OK, Settled, Began
<1> QED  BY <1>1, SessionsStep, LoginsStep, SessionsOther DEF Next

(* A web session goes to the browser that had begun the sign-in.           *)
THEOREM SessionsGoHome == Spec => []SignInStaysInItsBrowser
<1>1. TypeOK /\ Course /\ Sessions_OK /\ Logins_OK => SignInStaysInItsBrowser
  BY DEF SignInStaysInItsBrowser, Sessions_OK, Logins_OK, Began, Course, Inputs_OK, From
<1>2. Spec => [](TypeOK /\ Course /\ Sessions_OK /\ Logins_OK)
  BY TypeInit, TypeNext, SessionsInit, SessionsNext, PTL DEF Spec
<1> QED  BY <1>1, <1>2, PTL

------------------------------------------------------------------------------
(* Consents: from the request that opens one to the code.                  *)

Names(c, u) == <<c, u>> \in named

Opened_OK ==
  /\ \A c \in Clients : \A u \in clients[c] : Names(c, u)
  /\ \A p \in Requests : kind[p] = "authorize" /\ pc[p] \in {"owner", "savePending"} =>
       Names(req[p].client, req[p].pick)
  /\ \A p \in Requests : pending[p] # None =>
       /\ kind[p] = "authorize" /\ pc[p] \in {"saveConsent", "done"}
       /\ pending[p].user = me[p] /\ Names(pending[p].client, pending[p].uri)
  /\ \A p \in Requests : consents[p] # None =>
       kind[p] = "authorize" /\ pc[p] = "done" /\ consents[p] = req[p].session

(* An answer that was let through comes from the session of its consent,   *)
(* and goes by its pending row.                                            *)
LetThrough == {"dropConsent", "session2", "user2", "getPending", "owner", "dropPending", "readLink",
               "saveCode", "done"}

Answer_OK(r) ==
  /\ pc[r] \in {"session", "user"} => got[r] \in {None, req[req[r].of].session}
  /\ pc[r] \in LetThrough => req[r].session = req[req[r].of].session
  /\ req[r].pick = "approve" /\ pc[r] \in {"owner", "dropPending", "readLink", "saveCode"} =>
       me[req[r].of] = me[r] /\ Names(got[r].client, got[r].uri)

Answers_OK == \A r \in Requests : kind[r] = "answer" => Answer_OK(r)

Code_OK(c) ==
  /\ kind[c.by] = "answer" /\ pc[c.by] = "done" /\ req[c.by].pick = "approve"
  /\ c.consent = req[c.by].of
  /\ req[c.by].session = req[c.consent].session
  /\ c.user = me[c.by] /\ c.user = me[c.consent]
  /\ Names(c.client, c.uri)

Codes_OK == \A c \in codes : Code_OK(c)

LEMMA ConsentsInit == Init => Opened_OK /\ Answers_OK /\ Codes_OK
BY DEF Init, Opened_OK, Answers_OK, Codes_OK, Answer_OK, LetThrough

(* Names are only added.                                                   *)
LEMMA NamesStay ==
  ASSUME TypeOK, Course, NEW r \in Requests, Step(r)
  PROVE  \A c, u : Names(c, u) => Names(c, u)'
<1>1. named \subseteq named'
  BY Writers DEF Register, SaveClient
<1> QED  BY <1>1 DEF Names

LEMMA OpenedStep ==
  ASSUME TypeOK, Course, Opened_OK, NEW r \in Requests, Step(r)
  PROVE  Opened_OK'
<1>1. /\ kind' = kind /\ req' = req /\ pc[r] \notin {"idle", "done", "failed"}
      /\ \A q \in Requests \ {r} : pc'[q] = pc[q] /\ me'[q] = me[q]
  BY StepFrame DEF Busy, Ended
<1>2. \A c, u : Names(c, u) => Names(c, u)'
  BY NamesStay
<1>3. (\A c \in Clients : \A u \in clients[c] : Names(c, u))'
  <2>1. CASE Register(r)
    BY <1>2, <2>1 DEF Register, Opened_OK, Names, TypeOK
  <2>2. CASE SaveClient(r)
    <3>1. \A c \in Clients : c # req[r].client => clients'[c] = clients[c]
      BY <2>2 DEF SaveClient, TypeOK
    <3>2. req[r].client \in Clients /\ clients'[req[r].client] = got[r].uris
      BY <1>1, <2>2 DEF SaveClient, TypeOK, Course, Inputs_OK, At
    <3>3. \A u \in got[r].uris : Names(req[r].client, u)'
      BY <2>2 DEF SaveClient, Names
    <3> QED  BY <1>1, <1>2, <3>1, <3>2, <3>3 DEF Opened_OK
  <2>3. CASE UNCHANGED clients
    BY <1>2, <2>3 DEF Opened_OK, Names
  <2> QED  BY <2>1, <2>2, <2>3, Writers
<1>4. (\A p \in Requests : kind[p] = "authorize" /\ pc[p] \in {"owner", "savePending"} =>
         Names(req[p].client, req[p].pick))'
  <2>1. ASSUME kind[r] = "authorize", pc'[r] = "owner" PROVE Names(req[r].client, req[r].pick)
    <3>1. CASE Redirect(r)
      BY <1>1, <2>1, <3>1 DEF Redirect, Allowed, Opened_OK, Goto, TypeOK, Course, Inputs_OK
    <3>2. pc[r] # "owner" => Redirect(r)
      <4>1. pc[r] \in {"session", "user", "client", "fetch", "saveClient", "redirect", "owner",
                       "savePending", "saveConsent"}
        BY <1>1, <2>1 DEF Course, Labels_OK
      <4> QED
        BY <2>1, <4>1, ActionAt DEF ReadSession, ReadUser, ReadOwner, FindClient, Fetch, SaveClient,
             SavePending, SaveConsent, Goto, TypeOK, Known
    <3> QED  BY <1>1, <2>1, <3>1, <3>2 DEF Opened_OK
  <2>2. ASSUME kind[r] = "authorize", pc'[r] = "savePending" PROVE pc[r] = "owner"
    <3>1. pc[r] \in {"session", "user", "client", "fetch", "saveClient", "redirect", "owner",
                     "savePending", "saveConsent"}
      BY <1>1, <2>2 DEF Course, Labels_OK
    <3> QED
      BY <2>2, <3>1, ActionAt DEF ReadSession, ReadUser, ReadOwner, FindClient, Fetch, SaveClient,
           Redirect, SavePending, SaveConsent, Goto, TypeOK, Known
  <2> QED  BY <1>1, <1>2, <2>1, <2>2 DEF Opened_OK, Names
<1>5. kind[r] = "authorize" /\ pc[r] \in {"savePending", "saveConsent"} =>
        me'[r] = me[r] /\ pc'[r] \in {"saveConsent", "done"}
  BY ActionAt DEF SavePending, SaveConsent, Goto, At, TypeOK, locals
<1>6. (\A p \in Requests : pending[p] # None =>
         /\ kind[p] = "authorize" /\ pc[p] \in {"saveConsent", "done"}
         /\ pending[p].user = me[p] /\ Names(pending[p].client, pending[p].uri))'
  <2>1. CASE SavePending(r)
    <3>1. /\ kind[r] = "authorize" /\ pc[r] = "savePending" /\ pc'[r] = "saveConsent" /\ me' = me
          /\ pending' = [pending EXCEPT ![r] =
                [user |-> me[r], client |-> req[r].client, uri |-> req[r].pick]]
      BY <2>1 DEF SavePending, At, Goto, locals, TypeOK
    <3> QED  BY <1>1, <1>2, <3>1 DEF Opened_OK, Names, TypeOK
  <2>2. CASE DropPending(r) \/ Erase(r) \/ UNCHANGED pending
    <3>1. \A p \in Requests : pending'[p] \in {pending[p], None}
      BY <2>2 DEF DropPending, Erase, DropRows, TypeOK
    <3> QED  BY <1>1, <1>2, <1>5, <3>1 DEF Opened_OK, Names
  <2> QED  BY <2>1, <2>2, Writers
<1>7. (\A p \in Requests : consents[p] # None =>
         kind[p] = "authorize" /\ pc[p] = "done" /\ consents[p] = req[p].session)'
  <2>1. CASE SaveConsent(r)
    BY <1>1, <2>1 DEF SaveConsent, At, Goto, Opened_OK, TypeOK
  <2>2. CASE DropConsent(r)
    BY <1>1, <2>2 DEF DropConsent, Used, Opened_OK, TypeOK
  <2>3. CASE UNCHANGED consents
    BY <1>1, <2>3 DEF Opened_OK
  <2> QED  BY <2>1, <2>2, <2>3, Writers
<1> QED  BY <1>3, <1>4, <1>6, <1>7 DEF Opened_OK

(* The sessions and the account of a consent are those of its request.     *)
LEMMA AnswersStep ==
  ASSUME TypeOK, Course, Opened_OK, Answers_OK, NEW r \in Requests, Step(r)
  PROVE  Answers_OK'
<1>1. /\ kind' = kind /\ req' = req /\ pc[r] \notin {"idle", "done", "failed"}
      /\ \A q \in Requests \ {r} : pc'[q] = pc[q] /\ me'[q] = me[q] /\ got'[q] = got[q]
  BY StepFrame DEF Busy, Ended
<1>2. \A c, u : Names(c, u) => Names(c, u)'
  BY NamesStay
<1>3. \A q \in Requests : kind[q] = "answer" /\ pc[q] # "idle" =>
        req[q].of \in Requests \ {r} /\ req[q].pick \in {"approve", "deny"}
  BY <1>1 DEF Course, Inputs_OK, From
<1>4. ASSUME NEW q \in Requests \ {r}, kind[q] = "answer" PROVE Answer_OK(q)'
  BY <1>1, <1>2, <1>3, <1>4 DEF Answers_OK, Answer_OK, LetThrough
<1>5. ASSUME kind[r] = "answer" PROVE Answer_OK(r)'
  <2> DEFINE p == req[r].of
  <2>1. Answer_OK(r) /\ p \in Requests \ {r} /\ me'[p] = me[p] /\ req' = req
    BY <1>1, <1>3, <1>5 DEF Answers_OK
  <2>2. CASE GetConsent(r)
    BY <2>1, <2>2 DEF GetConsent, Answer_OK, LetThrough, At, Goto, TypeOK, Opened_OK
  <2>3. CASE ReadSession(r) \/ ReadUserAgain(r)
    BY <1>5, <2>1, <2>3 DEF ReadSession, ReadUserAgain, Answer_OK, LetThrough, Goto, TypeOK
  <2>4. CASE ReadOwner(r)
    BY <1>5, <2>1, <2>4 DEF ReadOwner, SameBrowser, Answer_OK, LetThrough, Goto, TypeOK, locals
  <2>5. CASE DropConsent(r)
    BY <2>1, <2>5 DEF DropConsent, Answer_OK, LetThrough, At, Goto, TypeOK, locals
  <2>6. CASE GetPending(r)
    <3>1. /\ pc[r] = "getPending" /\ me' = me /\ got' = [got EXCEPT ![r] = pending[p]]
          /\ pc'[r] \in {"owner", "dropPending", "failed"}
          /\ pc'[r] = "dropPending" => req[r].pick = "deny" 
          /\ pc'[r] = "owner" => pending[p] # None /\ pending[p].user = me[r]
      BY <2>6 DEF GetPending, At, Goto, TypeOK, Approvable
    <3>2. pc'[r] = "owner" => Names(pending[p].client, pending[p].uri) /\ pending[p].user = me[p]
      BY <2>1, <3>1 DEF Opened_OK
    <3>3. got'[r] = pending[p]
      BY <3>1 DEF TypeOK
    <3> QED  BY <1>2, <2>1, <3>1, <3>2, <3>3 DEF Answer_OK, LetThrough
  <2>7. CASE FindOwner(r) \/ DropPending(r) \/ ReadLink(r) \/ SaveCode(r)
    <3>1. /\ me' = me /\ got' = got
          /\ pc[r] \in {"owner", "dropPending", "readLink", "saveCode"}
          /\ pc'[r] \in {"dropPending", "readLink", "saveCode", "done", "failed"}
      BY <1>5, <2>7 DEF FindOwner, DropPending, ReadLink, SaveCode, At, Goto, TypeOK, locals
    <3> QED  BY <1>2, <2>1, <3>1 DEF Answer_OK, LetThrough
  <2>8. pc[r] \in {"getConsent", "session", "user", "dropConsent", "session2", "user2", "getPending",
                   "owner", "dropPending", "readLink", "saveCode"}
    BY <1>1, <1>5 DEF Course, Labels_OK
  <2>9. ~ReadUser(r)
    BY <1>5 DEF ReadUser
  <2> QED  BY <2>2, <2>3, <2>4, <2>5, <2>6, <2>7, <2>8, <2>9, ActionAt
<1> QED  BY <1>1, <1>4, <1>5 DEF Answers_OK

LEMMA CodesStep ==
  ASSUME TypeOK, Course, Answers_OK, Codes_OK, NEW r \in Requests, Step(r)
  PROVE  Codes_OK'
<1>1. /\ kind' = kind /\ req' = req /\ pc[r] \notin {"idle", "done", "failed"}
      /\ \A q \in Requests \ {r} : pc'[q] = pc[q] /\ me'[q] = me[q]
  BY StepFrame DEF Busy, Ended
<1>2. \A c, u : Names(c, u) => Names(c, u)'
  BY NamesStay
<1>3. ASSUME NEW c \in codes PROVE Code_OK(c)'
  <2>1. c.by \in Requests /\ c.consent \in Requests /\ pc[c.by] = "done" /\ kind[c.by] = "answer"
    BY DEF TypeOK, Code, Codes_OK, Code_OK
  <2>2. pc[c.consent] = "done"
    BY <2>1 DEF Codes_OK, Code_OK, Course, Inputs_OK, From
  <2>3. c.by # r /\ c.consent # r
    BY <1>1, <2>1, <2>2
  <2> QED  BY <1>1, <1>2, <2>1, <2>3 DEF Codes_OK, Code_OK
<1>4. CASE SaveCode(r)
  <2> DEFINE new == [consent |-> req[r].of, by |-> r, user |-> me[r],
                     client |-> got[r].client, uri |-> got[r].uri]
  <2>1. /\ kind[r] = "answer" /\ pc[r] = "saveCode" /\ pc'[r] = "done" /\ me' = me
        /\ codes' = codes \cup {new}
    BY <1>4 DEF SaveCode, At, Goto, TypeOK, locals
  <2>2. req[r].pick = "approve" /\ Answer_OK(r)
    BY <2>1 DEF Course, Locals_OK, Answers_OK
  <2>3. /\ req[r].session = req[req[r].of].session /\ me[req[r].of] = me[r]
        /\ <<got[r].client, got[r].uri>> \in named'
    BY <1>2, <2>1, <2>2 DEF Answer_OK, LetThrough, Names
  <2>4. ASSUME NEW c, c = new PROVE Code_OK(c)'
    BY <1>1, <2>1, <2>2, <2>3, <2>4 DEF Code_OK, Names
  <2> QED  BY <1>3, <2>1, <2>4 DEF Codes_OK
<1>5. CASE UNCHANGED codes \/ Erase(r)
  <2>1. codes' \subseteq codes
    BY <1>5 DEF Erase, DropRows
  <2> QED  BY <1>3, <2>1 DEF Codes_OK
<1> QED  BY <1>4, <1>5, Writers

LEMMA ConsentsOther ==
  ASSUME TypeOK, Course, Opened_OK, Answers_OK, Codes_OK,
         NEW r \in Requests, Start(r) \/ Scan(r) \/ Expire(r)
  PROVE  Opened_OK' /\ Answers_OK' /\ Codes_OK'
<1>1. UNCHANGED <<kind, me, got, clients, named, pending, consents, codes>>
  BY OtherFrame DEF flows, history
<1>2. CASE UNCHANGED <<pc, req>>
  BY <1>1, <1>2 DEF Opened_OK, Answers_OK, Answer_OK, Codes_OK, Code_OK, Names
<1>3. CASE Start(r)
  <2>1. /\ \A q \in Requests \ {r} : req'[q] = req[q] /\ pc'[q] = pc[q]
        /\ pc[r] = "idle"
    BY <1>3, StartTyped DEF Start
  <2>2. pc'[r] \in {"saveLogin", "getLogin", "getConsent", "getOwner", "dropSession", "register", "session"}
    BY <1>3 DEF Start, Goto, TypeOK, First
  <2>3. kind[r] = "answer" => pc'[r] = "getConsent"
    BY <1>3 DEF Start, Goto, TypeOK, First
  <2>4. \A q \in Requests : pc[q] # "idle" /\ kind[q] = "answer" => req[q].of \in Requests \ {r}
    BY <2>1 DEF Course, Inputs_OK, From
  <2>5. Opened_OK'
    BY <1>1, <2>1, <2>2 DEF Opened_OK, Names
  <2>6. \A q \in Requests : kind[q] = "answer" => Answer_OK(q)'
    BY <1>1, <2>1, <2>3, <2>4 DEF Answers_OK, Answer_OK, LetThrough, Names
  <2>7. ASSUME NEW c \in codes PROVE Code_OK(c)'
    <3>1. c.by \in Requests \ {r} /\ pc[c.by] # "idle" /\ kind[c.by] = "answer" /\ c.consent = req[c.by].of
      BY <2>1 DEF TypeOK, Code, Codes_OK, Code_OK
    <3>2. c.consent \in Requests \ {r}
      BY <2>4, <3>1
    <3> QED  BY <1>1, <2>1, <3>1, <3>2 DEF Codes_OK, Code_OK, Names
  <2> QED  BY <1>1, <2>5, <2>6, <2>7 DEF Answers_OK, Codes_OK
<1> QED  BY <1>2, <1>3, OtherFrame

LEMMA ConsentsNext ==
  TypeOK /\ Course /\ Opened_OK /\ Answers_OK /\ Codes_OK /\ [Next]_vars =>
    Opened_OK' /\ Answers_OK' /\ Codes_OK'
<1>1. CASE UNCHANGED vars
  BY <1>1 DEF vars, locals, flows, history, Opened_OK, Answers_OK, Answer_OK, Codes_OK, Code_OK, Names
<1> QED  BY <1>1, OpenedStep, AnswersStep, CodesStep, ConsentsOther DEF Next

LEMMA ConsentsAlways == Spec => [](TypeOK /\ Course /\ Opened_OK /\ Answers_OK /\ Codes_OK)
BY TypeInit, TypeNext, ConsentsInit, ConsentsNext, PTL DEF Spec

(* A code is for the account, and from the web session, that the consent   *)
(* was opened in.                                                          *)
THEOREM ConsentsArePersonal == Spec => []ConsentIsPersonal
<1>1. TypeOK /\ Codes_OK => ConsentIsPersonal
  BY DEF ConsentIsPersonal, Codes_OK, Code_OK
<1> QED  BY <1>1, ConsentsAlways, PTL

(* A code goes to a redirect URI that was registered for its client.       *)
THEOREM CodesAreRegistered == Spec => []CodesGoWhereRegistered
<1>1. Codes_OK => CodesGoWhereRegistered
  BY DEF CodesGoWhereRegistered, Codes_OK, Code_OK, Names
<1> QED  BY <1>1, ConsentsAlways, PTL

------------------------------------------------------------------------------
(* What was answered stays answered: consents and QR codes.                *)

(* The row of a transaction that was used up is gone for good, ...         *)
Used_OK ==
  \A p \in answered :
    /\ pc[p] = "done"
    /\ kind[p] = "authorize" => consents[p] = None
    /\ kind[p] = "qr" => owners[p] = None

(* ... and a request that was sent later finds nothing.                    *)
Late_OK ==
  \A r \in Requests : pc[r] # "idle" /\ req[r].late =>
    /\ req[r].of \in answered
    /\ kind[r] \in {"answer", "poll"} =>
         /\ pc[r] \in {"getConsent", "getOwner", "session", "user", "failed"}
         /\ pc[r] \in {"session", "user"} => got[r] = None

Cookies_OK == \A a \in Accounts : quasar[a] \in {None, a}

LEMMA UsedInit == Init => Used_OK /\ Late_OK /\ Cookies_OK
BY DEF Init, Used_OK, Late_OK, Cookies_OK

LEMMA UsedStep ==
  ASSUME TypeOK, Course, Used_OK, Late_OK, Cookies_OK, NEW r \in Requests, Step(r)
  PROVE  Used_OK' /\ Late_OK' /\ Cookies_OK'
<1>1. /\ kind' = kind /\ req' = req /\ pc[r] \notin {"idle", "done", "failed"}
      /\ \A q \in Requests \ {r} : pc'[q] = pc[q] /\ got'[q] = got[q]
  BY StepFrame DEF Busy, Ended
<1>2. /\ kind[r] = "answer" => kind[req[r].of] = "authorize" /\ pc[req[r].of] = "done"
      /\ kind[r] = "poll" => kind[req[r].of] = "qr" /\ pc[req[r].of] = "done"
      /\ kind[r] \in {"answer", "poll"} => req[r].of \in Requests
  BY <1>1 DEF Course, Inputs_OK, From
<1>3. \A p \in answered : p \in Requests \ {r}
  BY <1>1 DEF Used_OK, TypeOK
<1>4. Used_OK'
  <2>1. CASE DropConsent(r)
    BY <1>1, <1>2, <1>3, <2>1 DEF DropConsent, At, Used, Used_OK, TypeOK
  <2>2. CASE DropOwner(r)
    BY <1>1, <1>2, <1>3, <2>2 DEF DropOwner, At, Disowned, Used_OK, TypeOK
  <2>3. CASE UNCHANGED answered
    <3>1. \A p \in answered : consents'[p] \in {consents[p], None}
      BY <1>3, Writers DEF SaveConsent, DropConsent, Used, TypeOK
    <3>2. \A p \in answered : owners'[p] \in {owners[p], None}
      BY <1>3, Writers DEF SaveOwner, DropOwner, Disowned, TypeOK
    <3> QED  BY <1>1, <1>3, <2>3, <3>1, <3>2 DEF Used_OK
  <2> QED  BY <2>1, <2>2, <2>3, Writers
<1>5. answered \subseteq answered'
  BY Writers DEF DropConsent, DropOwner
<1>6. ASSUME req[r].late, kind[r] \in {"answer", "poll"}
      PROVE  /\ pc'[r] \in {"getConsent", "getOwner", "session", "user", "failed"}
             /\ pc'[r] \in {"session", "user"} => got'[r] = None
  <2>1. /\ req[r].of \in answered /\ pc[r] \in {"getConsent", "getOwner", "session", "user"}
        /\ pc[r] \in {"session", "user"} => got[r] = None
    BY <1>1, <1>6 DEF Late_OK
  <2>2. CASE pc[r] = "getConsent"
    BY <1>2, <2>1, <2>2, ActionAt DEF GetConsent, At, Used_OK, Goto, TypeOK
  <2>3. CASE pc[r] = "getOwner"
    BY <1>2, <2>1, <2>3, ActionAt DEF GetOwner, At, Used_OK, Goto, TypeOK
  <2>4. CASE pc[r] = "session"
    BY <2>1, <2>4, ActionAt DEF ReadSession, Goto, TypeOK
  <2>5. CASE pc[r] = "user"
    BY <1>6, <2>1, <2>5, ActionAt DEF ReadUser, ReadOwner, SameBrowser, SameOwner, Goto, TypeOK
  <2> QED  BY <2>1, <2>2, <2>3, <2>4, <2>5
<1>7. Late_OK'
  BY <1>1, <1>5, <1>6 DEF Late_OK
<1>8. Cookies_OK'
  <2>1. CASE SaveCookie(r)
    BY <1>1, <2>1 DEF SaveCookie, At, Cookies_OK, Course, Locals_OK, CookieOf, TypeOK
  <2>2. CASE Erase(r)
    BY <2>2 DEF Erase, Cookies_OK, TypeOK
  <2> QED  BY <2>1, <2>2, Writers DEF Cookies_OK
<1> QED  BY <1>4, <1>7, <1>8

LEMMA UsedNext ==
  TypeOK /\ Course /\ Used_OK /\ Late_OK /\ Cookies_OK /\ [Next]_vars =>
    Used_OK' /\ Late_OK' /\ Cookies_OK'
<1> SUFFICES ASSUME TypeOK, Course, Used_OK, Late_OK, Cookies_OK, [Next]_vars
             PROVE  Used_OK' /\ Late_OK' /\ Cookies_OK'
  OBVIOUS
<1>1. CASE UNCHANGED vars
  BY <1>1 DEF vars, locals, account, flows, history, Used_OK, Late_OK, Cookies_OK
<1>2. ASSUME NEW r \in Requests, Start(r) \/ Scan(r) \/ Expire(r)
      PROVE  Used_OK' /\ Late_OK' /\ Cookies_OK'
  <2>1. UNCHANGED <<kind, got, quasar, consents, owners, answered>>
    BY <1>2, OtherFrame DEF account, flows, history
  <2>2. CASE UNCHANGED <<pc, req>>
    BY <2>1, <2>2 DEF Used_OK, Late_OK, Cookies_OK
  <2>3. CASE Start(r)
    <3>1. /\ \A q \in Requests \ {r} : req'[q] = req[q] /\ pc'[q] = pc[q]
          /\ pc[r] = "idle" /\ req'[r].late = (req'[r].of \in answered)
      BY <2>3, StartTyped DEF Start
    <3>2. kind[r] = "answer" => pc'[r] = "getConsent"
      BY <2>3 DEF Start, Goto, TypeOK, First
    <3>3. kind[r] = "poll" => pc'[r] = "getOwner"
      BY <2>3 DEF Start, Goto, TypeOK, First
    <3>4. Used_OK' /\ Cookies_OK'
      BY <2>1, <3>1 DEF Used_OK, Cookies_OK, TypeOK
    <3>5. Late_OK'
      BY <2>1, <3>1, <3>2, <3>3 DEF Late_OK
    <3> QED  BY <3>4, <3>5
  <2> QED  BY <1>2, <2>2, <2>3, OtherFrame
<1> QED  BY <1>1, <1>2, UsedStep DEF Next

LEMMA UsedAlways == Spec => [](TypeOK /\ Course /\ Used_OK /\ Late_OK /\ Cookies_OK)
BY TypeInit, TypeNext, UsedInit, UsedNext, PTL DEF Spec

(* No answer that is sent after a consent was answered gets a code.        *)
THEOREM OneAnswer == Spec => []AnsweredOnce
<1>1. TypeOK /\ Late_OK /\ Codes_OK => AnsweredOnce
  BY DEF TypeOK, Code, Late_OK, Codes_OK, Code_OK, AnsweredOnce
<1> QED  BY <1>1, ConsentsAlways, UsedAlways, PTL

(* A QR code connects once, and with a cookie of the account it is for.    *)
THEOREM OneConnection == Spec => []QrConnectsOnce
<1>1. TypeOK /\ Late_OK /\ Cookies_OK => QrConnectsOnce
  BY DEF TypeOK, Late_OK, Cookies_OK, QrConnectsOnce
<1> QED  BY <1>1, UsedAlways, PTL

------------------------------------------------------------------------------
(* Deleting an account.                                                    *)

(* The session of a consent that a deletion found begun is not a session   *)
(* of the account any more, so that no answer learns from it whose it is   *)
(* but those that had done so by then.                                     *)
Gone(p, u) ==
  /\ pc[p] # "idle"
  /\ req[p].session # None => sessions[req[p].session] # u
  /\ \A r \in Requests :
       kind[r] = "answer" /\ Busy(r) /\ me[r] = u /\ req[r].session = req[p].session =>
         <<r, u>> \in racing

Ended_OK ==
  /\ \A p \in Requests, u \in Accounts : <<p, u>> \in ended => Gone(p, u)
  /\ ErasureEndsConsents

(* A request learns whose it is from its session, and may forget it.       *)
LEMMA MeStep ==
  ASSUME TypeOK, Course, NEW r \in Requests, Step(r)
  PROVE  \/ me'[r] \in {me[r], None}
         \/ req[r].session # None /\ me'[r] = sessions[req[r].session]
<1> USE DEF TypeOK, locals
<1>1. CASE ReadSession(r) \/ ReadUser(r) \/ ReadOwner(r) \/ ReadUserAgain(r)
  BY <1>1 DEF ReadSession, ReadUser, ReadOwner, ReadUserAgain
<1>2. CASE SigningIn(r) \/ DropSession(r) \/ Erase(r)
  BY <1>2 DEF SigningIn, SaveLogin, GetLogin, DropLogin, SaveUser, SaveLink, SaveSession, Reply,
              DropSession, Erase
<1>3. CASE Opening(r) \/ Answering(r)
  BY <1>3 DEF Opening, FindClient, Fetch, Redirect, FindOwner, Register, SaveClient, SavePending,
              SaveConsent, Answering, GetConsent, DropConsent, GetPending, DropPending, ReadLink,
              SaveCode
<1>4. CASE Polling(r)
  BY <1>4 DEF Polling, SaveQr, SaveOwner, GetOwner, GetQr, Status, SaveBack, DropQr, DropOwner,
              CheckCookie, SaveCookie
<1> QED  BY <1>1, <1>2, <1>3, <1>4 DEF Step

LEMMA EndedInit == Init => Ended_OK
BY DEF Init, Ended_OK, ErasureEndsConsents

LEMMA EndedStep ==
  ASSUME TypeOK, Course, Sessions_OK, Answers_OK, Codes_OK, Ended_OK,
         NEW r \in Requests, Step(r)
  PROVE  Ended_OK'
<1>1. /\ kind' = kind /\ req' = req /\ Busy(r)
      /\ \A q \in Requests \ {r} : pc'[q] = pc[q] /\ me'[q] = me[q]
  BY StepFrame
<1>2. \A q \in Requests : Busy(q)' => Busy(q)
  BY <1>1 DEF Busy
<1>3. \A q \in Requests : pc[q] # "idle" => pc'[q] # "idle"
  BY <1>1, NeverIdle
<1>4. \A p \in Requests : pc[p] # "idle" /\ req[p].session # None =>
        /\ req[p].session \in SessionIds
        /\ sessions'[req[p].session] \in {sessions[req[p].session], None}
  BY SessionsStep DEF Sessions_OK, Course, Inputs_OK, Sent
<1>5. me'[r] = me[r] \/ me'[r] = None \/ (req[r].session # None /\ me'[r] = sessions[req[r].session])
  BY MeStep
<1>6. racing \subseteq racing'
  BY Writers DEF Erase
<1>7. ASSUME NEW p \in Requests, NEW u \in Accounts, <<p, u>> \in ended
      PROVE  Gone(p, u)'
  <2>1. Gone(p, u)
    BY <1>7 DEF Ended_OK
  <2>2. req[p].session # None => sessions'[req[p].session] # u
    BY <1>4, <2>1 DEF Gone
  <2>3. ASSUME NEW q \in Requests, kind[q] = "answer", Busy(q)', me'[q] = u,
               req[q].session = req[p].session
        PROVE  <<q, u>> \in racing
    BY <1>1, <1>2, <1>5, <2>1, <2>3 DEF Gone
  <2> QED  BY <1>1, <1>3, <1>6, <2>1, <2>2, <2>3 DEF Gone
<1>8. CASE Erase(r)
  <2>1. /\ ended' = ended \cup {p \in Requests : kind[p] = "authorize" /\ pc[p] # "idle"} \X {me[r]}
        /\ racing' = racing \cup {q \in Requests : Busy(q)} \X {me[r]}
        /\ sessions' = [s \in SessionIds |-> IF sessions[s] = me[r] THEN None ELSE sessions[s]]
        /\ codes' = {c \in codes : c.user # me[r]}
        /\ me' = me
    BY <1>8 DEF Erase, DropRows, locals
  <2>2. ASSUME NEW p \in Requests, NEW u \in Accounts, u = me[r], pc[p] # "idle" PROVE Gone(p, u)'
    <3>1. req[p].session # None => sessions'[req[p].session] # u
      BY <1>4, <2>1, <2>2
    <3>2. \A q \in Requests : Busy(q)' => <<q, u>> \in racing'
      BY <1>2, <2>1, <2>2
    <3> QED  BY <1>1, <1>3, <2>1, <2>2, <3>1, <3>2 DEF Gone
  <2>3. \A p \in Requests, u \in Accounts : <<p, u>> \in ended' =>
          <<p, u>> \in ended \/ (pc[p] # "idle" /\ u = me[r])
    BY <2>1
  <2>4. ErasureEndsConsents'
    BY <1>6, <2>1 DEF ErasureEndsConsents, Ended_OK
  <2> QED  BY <1>7, <2>2, <2>3, <2>4 DEF Ended_OK
<1>9. CASE UNCHANGED <<ended, racing>>
  <2>1. CASE SaveCode(r)
    <3> DEFINE new == [consent |-> req[r].of, by |-> r, user |-> me[r],
                       client |-> got[r].client, uri |-> got[r].uri]
    <3>1. kind[r] = "answer" /\ pc[r] = "saveCode" /\ codes' = codes \cup {new}
      BY <2>1 DEF SaveCode, At
    <3>2. /\ req[r].session = req[req[r].of].session /\ req[r].of \in Requests
          /\ me[r] \in Accounts
      BY <3>1 DEF Answers_OK, Answer_OK, LetThrough, Course, Inputs_OK, From, Locals_OK, TypeOK
    <3>3. <<req[r].of, me[r]>> \in ended => <<r, me[r]>> \in racing
      BY <1>1, <3>1, <3>2 DEF Ended_OK, Gone
    <3> QED  BY <1>7, <1>9, <3>1, <3>3 DEF Ended_OK, ErasureEndsConsents
  <2>2. CASE UNCHANGED codes \/ Erase(r)
    <3>1. codes' \subseteq codes
      BY <2>2 DEF Erase, DropRows
    <3> QED  BY <1>7, <1>9, <3>1 DEF Ended_OK, ErasureEndsConsents
  <2> QED  BY <2>1, <2>2, Writers
<1> QED  BY <1>8, <1>9, Writers

LEMMA EndedNext ==
  TypeOK /\ Course /\ Sessions_OK /\ Answers_OK /\ Codes_OK /\ Ended_OK /\ [Next]_vars => Ended_OK'
<1> SUFFICES ASSUME TypeOK, Course, Sessions_OK, Answers_OK, Codes_OK, Ended_OK, [Next]_vars
             PROVE  Ended_OK'
  OBVIOUS
<1>1. CASE UNCHANGED vars
  BY <1>1 DEF vars, locals, account, flows, history, Ended_OK, Gone, Busy, ErasureEndsConsents
<1>2. ASSUME NEW r \in Requests, Start(r) \/ Scan(r) \/ Expire(r) PROVE Ended_OK'
  <2>1. UNCHANGED <<kind, me, sessions, codes, ended, racing>>
    BY <1>2, OtherFrame DEF account, flows, history
  <2>2. CASE UNCHANGED <<pc, req>>
    BY <2>1, <2>2 DEF Ended_OK, Gone, Busy, ErasureEndsConsents
  <2>3. CASE Start(r)
    <3>1. /\ \A q \in Requests \ {r} : req'[q] = req[q] /\ pc'[q] = pc[q]
          /\ pc[r] = "idle"
      BY <2>3, StartTyped DEF Start
    <3>2. me[r] = None
      BY <3>1 DEF Course, Locals_OK
    <3>3. \A p \in Requests, u \in Accounts : Gone(p, u) => Gone(p, u)'
      BY <2>1, <3>1, <3>2 DEF Gone, Busy
    <3> QED  BY <2>1, <3>3 DEF Ended_OK, ErasureEndsConsents
  <2> QED  BY <1>2, <2>2, <2>3, OtherFrame
<1> QED  BY <1>1, <1>2, EndedStep DEF Next

(* A code for a consent that was begun before its account was deleted      *)
(* stems from an answer that was under way at the time.                    *)
THEOREM ErasureEnds == Spec => []ErasureEndsConsents
<1>1. Spec => [](TypeOK /\ Course /\ Sessions_OK /\ Logins_OK)
  BY TypeInit, TypeNext, SessionsInit, SessionsNext, PTL DEF Spec
<1>2. Spec => []Ended_OK
  BY <1>1, ConsentsAlways, EndedInit, EndedNext, PTL DEF Spec
<1>3. Ended_OK => ErasureEndsConsents
  BY DEF Ended_OK
<1> QED  BY <1>2, <1>3, PTL
============================================================================
