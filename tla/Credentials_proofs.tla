------------------------- MODULE Credentials_proofs -------------------------
(***************************************************************************)
(* What TLAPS proves of Credentials, for any number of requests of every   *)
(* kind, in every interleaving and with every failure.                     *)
(***************************************************************************)
EXTENDS Credentials, TLAPS

USE CredentialsAssumption

(* An access token never comes without the refresh token of its sign-in,   *)
(* if that gave one.                                                       *)
Paired(c) ==
  /\ c.access # None /\ c.access.grant \notin bare =>
       c.refresh # None /\ c.refresh.grant = c.access.grant
  /\ c.refresh # None => c.refresh.grant \notin bare

(* So it is in the row, and in whatever a request may write to it.         *)
PairsInv ==
  /\ row # None => Paired(row)
  /\ \A r \in Requests : Paired(snap[r]) /\ Paired(cur[r]) /\ Paired(new[r])

(* Cookies are only known once their connect has saved them; and a request *)
(* about to write a cookie that has ended had read it before.              *)
Known(o) == o # Start => pc[o] = "done"
CutInv ==
  /\ \A o \in cut \cup CookieOf(row) : Known(o)
  /\ \A r \in Requests : \A o \in CookieOf(snap[r]) \cup CookieOf(cur[r]) : Known(o)
  /\ \A r \in Requests : Kind[r] = "cookie" /\ Holding(r) => cur[r].cookie = snap[r].cookie
  /\ CookieOf(row) \cap cut \subseteq back
  /\ \A r \in Requests \ racers : Holding(r) => CookieOf(cur[r]) \cap cut \subseteq back

------------------------------------------------------------------------------
(* The origins of cookies and of tokens.                                   *)
LEMMA CookieOfType == \A c \in Creds \cup {None} : CookieOf(c) \subseteq Origin
BY DEF CookieOf, Creds, Cookie

LEMMA GrantsMember ==
  ASSUME NEW c \in Creds \cup Pair, NEW g
  PROVE  /\ c # None
         /\ g \in GrantsIn(c) <=> \/ (c.access # None /\ g = c.access.grant)
                                 \/ (c.refresh # None /\ g = c.refresh.grant)
<1>1. c # None
  OBVIOUS
<1>2. TokensIn(c) = {c.access, c.refresh} \ {None}
  BY <1>1 DEF TokensIn
<1> QED  BY <1>1, <1>2 DEF GrantsIn

LEMMA GrantsInType ==
  /\ \A c \in Creds \cup Pair \cup {None} : GrantsIn(c) \subseteq Origin
  /\ Nothing \in Creds /\ Nothing # None /\ GrantsIn(Nothing) = {} /\ GrantsIn(None) = {}
<1>1. ASSUME NEW c \in Creds \cup Pair PROVE GrantsIn(c) \subseteq Origin
  <2>1. c.access \in Token \cup {None} /\ c.refresh \in Token \cup {None}
    BY <1>1 DEF Creds, Pair
  <2> QED  BY <1>1, <2>1, GrantsMember DEF Token
<1>2. Nothing \in Creds
  BY DEF Nothing, Creds
<1>3. GrantsIn(Nothing) = {} /\ GrantsIn(None) = {}
  BY DEF Nothing, GrantsIn, TokensIn
<1> QED  BY <1>1, <1>2, <1>3, GrantsMember

(* Which sign-ins give no refresh token does not change.                   *)
LEMMA BareStays == [Next]_vars => bare' = bare
BY DEF Next, Step, Admit, Renew, CheckAccess, CheckCookie, Exists, Read, SaveUser, Save, Erase, Fail,
       Record, history, vars

(* What a request sends is a row, and stays one when merged.               *)
LEMMA SentType ==
  ASSUME TypeOK, NEW r \in Requests, pc[r] = "save"
  PROVE  Sent(r) \in Creds /\ Merged(Sent(r)) \in Creds
<1>1. cur[r] \in Creds /\ snap[r] \in Creds /\ new[r] \in Pair
  BY DEF TypeOK, Pair
<1>2. Kind[r] = "cookie" => snap[r].cookie \in Cookie
  BY <1>1 DEF TypeOK, Creds, Ended
<1>3. TokensOfSignIn(r) \in Pair
  BY DEF TokensOfSignIn, Pair, Token, Origin
<1>4. Kind[r] \in {"call", "token", "signin", "cookie", "connect", "disconnect"} => Sent(r) \in Creds
  BY <1>1, <1>2, <1>3 DEF Sent, Pair, Creds, Cookie, Origin
<1>5. Sent(r) \in Creds
  BY <1>4 DEF TypeOK, Calls, Kinds, Ended
<1>6. row \in Creds \cup {None}
  BY DEF TypeOK
<1> QED  BY <1>5, <1>6 DEF Merged, Creds

(* The types hold at first.                                                *)
LEMMA TypeInit == Init => TypeOK
<1>1. StartToken \in Token /\ StartCookie \in Cookie /\ Nothing \in Creds
  BY DEF StartToken, StartCookie, Token, Cookie, Origin, Nothing, Creds
<1>2. "idle" \in Labels
  BY DEF Labels
<1>3. Init => row \in Creds
  BY <1>1 DEF Init, Creds
<1>4. [access |-> None, refresh |-> None] \in Pair
  BY DEF Pair
<1> SUFFICES ASSUME Init PROVE TypeOK
  OBVIOUS
<1>5. /\ pc \in [Requests -> Labels] /\ snap \in [Requests -> Creds] /\ cur \in [Requests -> Creds]
      /\ new \in [Requests -> Pair]
  BY <1>1, <1>2, <1>4 DEF Init
<1>6. \A r \in Requests : pc[r] = "idle"
  BY DEF Init
<1>7. /\ user \in BOOLEAN /\ row \in Creds /\ revoked \subseteq Requests
      /\ bare \subseteq Origin /\ cut \subseteq Origin /\ over \subseteq Origin
      /\ racers \subseteq Requests /\ back \subseteq Origin /\ undone \in BOOLEAN
  BY <1>3 DEF Init, Origin
<1> QED  BY <1>5, <1>6, <1>7 DEF TypeOK

(* Every step keeps the types.                                             *)
LEMMA TypeNext == TypeOK /\ [Next]_vars => TypeOK'
<1> SUFFICES ASSUME TypeOK, [Next]_vars PROVE TypeOK'
  OBVIOUS
<1>1. \A k \in Kinds : Calls(k) \subseteq Labels
  BY DEF Labels
<1>2. {"done", "failed"} \subseteq Labels
  BY DEF Labels, Ended
<1>3. ASSUME NEW r \in Requests, NEW label, Goto(r, label), UNCHANGED snap,
             label \in Ended \/ label \in Calls(Kind[r]),
             label \in Ended \/ pc[r] \notin Ended \cup {"idle"}
      PROVE  /\ pc' \in [Requests -> Labels]
             /\ \A q \in Requests : pc'[q] \notin Ended \cup {"idle"} =>
                  /\ pc'[q] \in Calls(Kind[q])
                  /\ Kind[q] = "cookie" => snap'[q].cookie # None
                  /\ Kind[q] = "call"   => snap'[q].access # None /\ snap'[q].refresh # None
  BY <1>1, <1>2, <1>3 DEF Goto, TypeOK, Ended
<1>4. Nothing \in Creds
  BY DEF Nothing, Creds
<1>5. ASSUME NEW r \in Requests, Admit(r) PROVE TypeOK'
  <2>1. First(r) \in Calls(Kind[r]) /\ First(r) \in Labels
    BY <1>1 DEF First, Calls, Kinds
  <2>2. /\ pc' = [pc EXCEPT ![r] = First(r)]
        /\ snap' = [snap EXCEPT ![r] = IF row = None THEN Nothing ELSE row]
    BY <1>5 DEF Admit, Goto
  <2>3. /\ Kind[r] = "cookie" => snap'[r].cookie # None
        /\ Kind[r] = "call"   => snap'[r].access # None /\ snap'[r].refresh # None
    BY <1>5, <2>2 DEF Admit, Admitted, TypeOK
  <2> QED  BY <1>4, <1>5, <2>1, <2>2, <2>3 DEF Admit, TypeOK, history
<1>6. ASSUME NEW r \in Requests, Fail(r) PROVE TypeOK'
  BY <1>3, <1>6 DEF Fail, TypeOK, history, Ended
<1>7. ASSUME NEW r \in Requests, Renew(r) PROVE TypeOK'
  <2>1. pc[r] = "renew" /\ Kind[r] \in {"call", "token"}
    BY <1>7 DEF Renew, TypeOK, Calls, Kinds, Ended
  <2>2. snap[r].refresh # None => Renewed(r) \in Token
    BY DEF TypeOK, Creds, Token, Origin, Renewed
  <2>3. new' \in [Requests -> Pair]
    <3>1. snap[r].access \in Token \cup {None} /\ snap[r].refresh \in Token \cup {None}
      BY DEF TypeOK, Creds
    <3>2. \E pair \in Pair : new' = [new EXCEPT ![r] = pair]
      BY <1>7, <2>2, <3>1 DEF Renew, RefreshAfter, Pair
    <3> QED  BY <3>2 DEF TypeOK, Pair
  <2>4. \A label \in {"exists", "checkAccess"} : label \in Calls(Kind[r])
    BY <2>1 DEF Calls
  <2> QED  BY <1>3, <1>7, <2>1, <2>3, <2>4 DEF Renew, TypeOK, history, Ended, Pair
<1>8. ASSUME NEW r \in Requests, CheckAccess(r) PROVE TypeOK'
  <2>1. pc[r] = "checkAccess" /\ Kind[r] \in {"call", "token"}
    BY <1>8 DEF CheckAccess, TypeOK, Calls, Kinds, Ended
  <2>2. \A label \in {"save", "exists"} : label \in Calls(Kind[r])
    BY <2>1 DEF Calls
  <2>3. cur' \in [Requests -> Creds]
    BY <1>8 DEF CheckAccess, SameAccess, TypeOK
  <2> QED  BY <1>3, <1>8, <2>1, <2>2, <2>3 DEF CheckAccess, TypeOK, history, Ended
<1>9. ASSUME NEW r \in Requests, CheckCookie(r) PROVE TypeOK'
  <2>1. pc[r] = "checkCookie" /\ Kind[r] = "cookie"
    BY <1>9 DEF CheckCookie, TypeOK, Calls, Kinds, Ended
  <2>2. "exists" \in Calls(Kind[r])
    BY <2>1 DEF Calls
  <2>3. cur' \in [Requests -> Creds]
    BY <1>9 DEF CheckCookie, SameCookie, TypeOK
  <2> QED  BY <1>3, <1>9, <2>1, <2>2, <2>3 DEF CheckCookie, TypeOK, history, Ended
<1>10. ASSUME NEW r \in Requests, Exists(r) PROVE TypeOK'
  <2>1. pc[r] = "exists" /\ Kind[r] \in {"call", "token", "cookie"}
    BY <1>10 DEF Exists, TypeOK, Calls, Kinds, Ended
  <2>2. "save" \in Calls(Kind[r]) /\ (Kind[r] = "call" => "checkAccess" \in Calls(Kind[r]))
    BY <2>1 DEF Calls
  <2> QED  BY <1>3, <1>10, <2>1, <2>2 DEF Exists, TypeOK, history, Ended
<1>11. ASSUME NEW r \in Requests, Read(r) PROVE TypeOK'
  <2>1. pc[r] = "read" /\ Kind[r] \in {"connect", "disconnect", "signin"}
    BY <1>11 DEF Read, TypeOK, Calls, Kinds, Ended
  <2>2. "save" \in Calls(Kind[r])
    BY <2>1 DEF Calls
  <2>3. cur' \in [Requests -> Creds]
    BY <1>4, <1>11 DEF Read, TypeOK
  <2> QED  BY <1>3, <1>11, <2>1, <2>2, <2>3 DEF Read, TypeOK, history, Ended
<1>12. ASSUME NEW r \in Requests, SaveUser(r) PROVE TypeOK'
  <2>1. pc[r] = "saveUser" /\ Kind[r] = "signin"
    BY <1>12 DEF SaveUser, TypeOK, Calls, Kinds, Ended
  <2>2. "read" \in Calls(Kind[r])
    BY <2>1 DEF Calls
  <2> QED  BY <1>3, <1>12, <2>1, <2>2 DEF SaveUser, TypeOK, history, Ended
<1>13. CookieOf(row) \subseteq Origin /\ GrantsIn(row) \subseteq Origin
  BY CookieOfType, GrantsInType DEF TypeOK
<1>14. ASSUME NEW r \in Requests, NEW C \in SUBSET Origin, NEW G \in SUBSET Origin, Record(r, C, G),
              row' \in Creds \cup {None}
       PROVE  /\ bare' \subseteq Origin /\ cut' \subseteq Origin /\ over' \subseteq Origin
              /\ racers' \subseteq Requests /\ back' \subseteq Origin /\ undone' \in BOOLEAN
  BY <1>14, CookieOfType DEF Record, TypeOK
<1>15. ASSUME NEW r \in Requests, Save(r) PROVE TypeOK'
  <2>1. pc[r] = "save"
    BY <1>15 DEF Save
  <2>2. CASE HasOwner
    <3>1. row' \in Creds
      BY <1>15, <2>1, <2>2, SentType DEF Save
    <3>2. /\ bare' \subseteq Origin /\ cut' \subseteq Origin /\ over' \subseteq Origin
          /\ racers' \subseteq Requests /\ back' \subseteq Origin /\ undone' \in BOOLEAN
      BY <1>13, <1>14, <1>15, <2>2, <3>1 DEF Save
    <3> QED  BY <1>3, <1>15, <2>1, <2>2, <3>1, <3>2 DEF Save, TypeOK, Ended
  <2>3. CASE ~HasOwner
    BY <1>3, <1>15, <2>1, <2>3 DEF Save, TypeOK, history, Ended
  <2> QED  BY <2>2, <2>3
<1>16. ASSUME NEW r \in Requests, Erase(r) PROVE TypeOK'
  <2>1. /\ bare' \subseteq Origin /\ cut' \subseteq Origin /\ over' \subseteq Origin
        /\ racers' \subseteq Requests /\ back' \subseteq Origin /\ undone' \in BOOLEAN
    BY <1>13, <1>14, <1>16 DEF Erase
  <2> QED  BY <1>3, <1>16, <2>1 DEF Erase, TypeOK, Ended
<1>17. CASE UNCHANGED vars
  BY <1>17 DEF vars, TypeOK
<1> QED
  BY <1>5, <1>6, <1>7, <1>8, <1>9, <1>10, <1>11, <1>12, <1>15, <1>16, <1>17 DEF Next, Step

(* The declared types hold, and every request holds what its next call     *)
(* uses.                                                                   *)
THEOREM TypeCorrect == Spec => []TypeOK
BY TypeInit, TypeNext, PTL DEF Spec

------------------------------------------------------------------------------
(* The row needs its user at every write, and goes with him.               *)
THEOREM NoRowWithoutUser == Spec => []NoOrphanRow
<1>1. Init => NoOrphanRow
  BY DEF Init, NoOrphanRow
<1>2. NoOrphanRow /\ [Next]_vars => NoOrphanRow'
  BY DEF NoOrphanRow, Next, Step, Admit, Renew, CheckAccess, CheckCookie, Exists, Read, SaveUser,
         Save, Erase, Fail, HasOwner, vars
<1> QED  BY <1>1, <1>2, PTL DEF Spec

------------------------------------------------------------------------------
LEMMA PairsInit == Init => PairsInv
<1> SUFFICES ASSUME Init PROVE PairsInv
  OBVIOUS
<1>1. StartToken \in Token /\ StartToken.grant = Start
  BY DEF StartToken, Token, Origin
<1>2. Paired(row)
  BY <1>1 DEF Init, Paired
<1> QED  BY <1>2 DEF Init, PairsInv, Paired, Nothing

(* No writer ever separates a pair: merging adds a refresh token only to a *)
(* row that has no access token, or one that came alone.                   *)
LEMMA PairsNext == TypeOK /\ PairsInv /\ [Next]_vars => PairsInv'
<1> SUFFICES ASSUME TypeOK, PairsInv, [Next]_vars PROVE PairsInv'
  OBVIOUS
<1> USE BareStays
<1>1. Paired(Nothing)
  BY DEF Paired, Nothing
<1>2. ASSUME NEW r \in Requests, Renew(r) PROVE PairsInv'
  <2>1. UNCHANGED <<row, snap, cur, bare>>
    BY <1>2 DEF Renew, history
  <2>2. \E pair : new' = [new EXCEPT ![r] = pair] /\ Paired(pair)
    <3>1. CASE snap[r].refresh = None
      BY <1>2, <3>1 DEF Renew, Paired, PairsInv
    <3>2. CASE snap[r].refresh # None
      <4>1. Renewed(r) \in Token /\ Renewed(r).grant = snap[r].refresh.grant
        BY <3>2 DEF TypeOK, Creds, Token, Origin, Renewed
      <4>2. PICK refresh \in {Renewed(r), snap[r].refresh} :
              new' = [new EXCEPT ![r] = [access |-> Renewed(r), refresh |-> refresh]]
        BY <1>2, <3>2 DEF Renew, RefreshAfter
      <4>3. refresh # None /\ refresh.grant = Renewed(r).grant
        BY <3>2, <4>1
      <4>4. Paired([access |-> Renewed(r), refresh |-> refresh])
        BY <3>2, <4>1, <4>3 DEF Paired, PairsInv
      <4> QED  BY <4>2, <4>4
    <3> QED  BY <3>1, <3>2
  <2>3. \A q \in Requests : Paired(new'[q])
    BY <2>1, <2>2 DEF PairsInv, Paired, TypeOK
  <2> QED  BY <2>1, <2>3 DEF PairsInv, Paired
<1>3. ASSUME NEW r \in Requests,
             Admit(r) \/ CheckAccess(r) \/ CheckCookie(r) \/ Exists(r) \/ Read(r) \/ SaveUser(r)
               \/ Fail(r)
      PROVE  PairsInv'
  <2>1. UNCHANGED <<row, new>>
    BY <1>3 DEF Admit, CheckAccess, CheckCookie, Exists, Read, SaveUser, Fail
  <2>2. \/ snap' = snap
        \/ \E c \in {row, Nothing} : snap' = [snap EXCEPT ![r] = c] /\ c # None
    BY <1>3 DEF Admit, CheckAccess, CheckCookie, Exists, Read, SaveUser, Fail, CredentialsAssumption,
                Nothing, Creds
  <2>3. \/ cur' = cur
        \/ \E c \in {row, Nothing} : cur' = [cur EXCEPT ![r] = c] /\ c # None
    BY <1>3 DEF Admit, CheckAccess, CheckCookie, Exists, Read, SaveUser, Fail, SameAccess, SameCookie,
                Nothing, Creds
  <2>4. \A q \in Requests : Paired(snap'[q])
    BY <1>1, <2>2 DEF PairsInv, TypeOK
  <2>5. \A q \in Requests : Paired(cur'[q])
    BY <1>1, <2>3 DEF PairsInv, TypeOK
  <2> QED  BY <2>1, <2>4, <2>5 DEF PairsInv, Paired
<1>4. ASSUME NEW r \in Requests, Save(r) PROVE PairsInv'
  <2>1. pc[r] = "save" /\ UNCHANGED <<snap, cur, new>>
    BY <1>4 DEF Save
  <2>2. cur[r] \in Creds /\ snap[r] \in Creds /\ Paired(cur[r]) /\ Paired(new[r])
    BY DEF PairsInv, TypeOK
  <2>3. Paired(TokensOfSignIn(r))
    BY DEF Paired, TokensOfSignIn
  <2>4. Kind[r] \in {"call", "token", "signin", "cookie", "connect", "disconnect"}
    BY <2>1 DEF TypeOK, Calls, Kinds, Ended
  <2>5. Paired(Sent(r))
    <3>1. CASE Kind[r] \in {"call", "token"}
      BY <2>2, <3>1 DEF Sent, Paired
    <3>2. CASE Kind[r] = "signin"
      BY <2>3, <3>2 DEF Sent, Paired
    <3>3. CASE Kind[r] \in {"cookie", "connect", "disconnect"}
      BY <2>2, <3>3 DEF Sent, Paired, Creds
    <3> QED  BY <2>4, <3>1, <3>2, <3>3
  <2>6. Sent(r) \in Creds /\ Merged(Sent(r)) \in Creds
    BY <2>1, SentType
  <2> DEFINE sent == Sent(r)
  <2> HIDE DEF sent
  <2>7. Paired(Merged(sent))
    <3>1. CASE sent.refresh = None /\ row # None
      <4>1. /\ Merged(sent).access = sent.access /\ Merged(sent).refresh = row.refresh
        BY <2>6, <3>1 DEF Merged, Creds, sent
      <4> QED  BY <2>5, <3>1, <4>1 DEF Paired, PairsInv, sent
    <3>2. CASE ~(sent.refresh = None /\ row # None)
      BY <2>5, <3>2 DEF Merged, sent
    <3> QED  BY <3>1, <3>2
  <2>8. row' \in {row, Merged(sent)}
    BY <1>4 DEF Save, sent
  <2> QED  BY <2>1, <2>7, <2>8 DEF PairsInv, Paired
<1>5. ASSUME NEW r \in Requests, Erase(r) PROVE PairsInv'
  BY <1>5 DEF Erase, PairsInv, Paired
<1>6. CASE UNCHANGED vars
  BY <1>6 DEF vars, PairsInv, Paired
<1> QED  BY <1>2, <1>3, <1>4, <1>5, <1>6 DEF Next, Step

(* A pair that came as one is not separated, whichever writers interleave: *)
(* only an access token that came alone stands beside another's refresh    *)
(* token.                                                                  *)
THEOREM TokensMatch == Spec => []PairMatches
<1>1. Init => PairsInv
  BY PairsInit
<1>2. PairsInv => PairMatches
  BY DEF PairsInv, PairMatches, Paired
<1> QED  BY <1>1, <1>2, TypeInit, TypeNext, PairsNext, PTL DEF Spec

------------------------------------------------------------------------------
(* A request that is done stays so.                                        *)
LEMMA DoneStays ==
  ASSUME TypeOK, [Next]_vars, NEW o \in Origin, Known(o)
  PROVE  Known(o)'
BY DEF Known, Origin, TypeOK, Next, Step, Admit, Renew, CheckAccess, CheckCookie, Exists, Read, SaveUser,
       Save, Erase, Fail, Goto, Ended, vars

(* The cookie a request writes.                                            *)
LEMMA CookieSent ==
  ASSUME TypeOK, CutInv, NEW r \in Requests, pc[r] = "save"
  PROVE  CookieOf(Merged(Sent(r))) = CASE Kind[r] = "connect"    -> {r}
                                       [] Kind[r] = "disconnect" -> {}
                                       [] OTHER                  -> CookieOf(cur[r])
<1>1. cur[r] \in Creds /\ snap[r] \in Creds /\ Sent(r) \in Creds /\ Merged(Sent(r)) \in Creds
  BY SentType DEF TypeOK
<1>2. Kind[r] \in {"call", "token", "signin", "cookie", "connect", "disconnect"}
  BY DEF TypeOK, Calls, Kinds, Ended
<1>3. Merged(Sent(r)).cookie = Sent(r).cookie
  <2> DEFINE sent == Sent(r)
  <2>1. sent \in Creds
    BY <1>1
  <2> HIDE DEF sent
  <2>2. Merged(sent).cookie = sent.cookie
    BY <2>1 DEF Merged, Creds
  <2> QED  BY <2>2 DEF sent
<1>4. CookieOf(Merged(Sent(r))) = CookieOf(Sent(r))
  BY <1>1, <1>3 DEF CookieOf, Creds
<1>5. CASE Kind[r] \in {"call", "token", "signin"}
  <2>1. Sent(r).cookie = cur[r].cookie
    BY <1>5 DEF Sent
  <2> QED  BY <1>1, <1>4, <1>5, <2>1 DEF CookieOf, Creds
<1>6. CASE Kind[r] = "cookie"
  <2>1. Sent(r).cookie = [from |-> snap[r].cookie.from, by |-> r]
    BY <1>1, <1>6 DEF Sent, Creds
  <2>2. cur[r].cookie = snap[r].cookie /\ snap[r].cookie \in Cookie
    BY <1>1, <1>6 DEF CutInv, Holding, TypeOK, Creds, Ended
  <2>3. [from |-> snap[r].cookie.from, by |-> r] \in Cookie
    BY <2>2 DEF Cookie, Origin
  <2> QED  BY <1>1, <1>4, <1>6, <2>1, <2>2, <2>3 DEF CookieOf, Creds
<1>7. CASE Kind[r] = "connect"
  <2>1. Sent(r).cookie = [from |-> r, by |-> r]
    BY <1>1, <1>7 DEF Sent, Creds
  <2>2. [from |-> r, by |-> r] \in Cookie
    BY DEF Cookie, Origin
  <2> QED  BY <1>1, <1>4, <1>7, <2>1, <2>2 DEF CookieOf, Creds
<1>8. CASE Kind[r] = "disconnect"
  <2>1. Sent(r).cookie = None
    BY <1>1, <1>8 DEF Sent, Creds
  <2> QED  BY <1>1, <1>4, <1>8, <2>1 DEF CookieOf, Creds
<1> QED  BY <1>2, <1>5, <1>6, <1>7, <1>8

(* A cookie that has ended is only written by a request that had read it   *)
(* before: one case for each call that writes what the invariant speaks of. *)
LEMMA CutNext == TypeOK /\ CutInv /\ [Next]_vars => CutInv'
<1> SUFFICES ASSUME TypeOK, CutInv, [Next]_vars PROVE CutInv'
  OBVIOUS
<1>1. \A o \in Origin : Known(o) => Known(o)'
  BY DoneStays
<1>2. \A q \in Requests : snap[q] \in Creds /\ cur[q] \in Creds
  BY DEF TypeOK
<1>3. /\ CookieOf(row) \subseteq Origin /\ cut \subseteq Origin
      /\ \A q \in Requests : CookieOf(snap[q]) \subseteq Origin /\ CookieOf(cur[q]) \subseteq Origin
  BY <1>2, CookieOfType DEF TypeOK
<1>4. CookieOf(Nothing) = {}
  BY DEF CookieOf, Nothing
<1>5. ASSUME NEW r \in Requests, Admit(r) \/ Renew(r) \/ SaveUser(r) \/ Fail(r) PROVE CutInv'
  <2>1. UNCHANGED <<row, cur, history>>
    BY <1>5 DEF Admit, Renew, SaveUser, Fail
  <2>2. \A q \in Requests : Holding(q)' => Holding(q) /\ q # r
    BY <1>5 DEF Admit, Renew, SaveUser, Fail, Holding, Goto, TypeOK, First, Ended, Kinds
  <2>3. \A q \in Requests \ {r} : snap'[q] = snap[q]
    BY <1>5 DEF Admit, Renew, SaveUser, Fail, TypeOK
  <2>4. CookieOf(snap'[r]) \subseteq CookieOf(snap[r]) \cup CookieOf(row)
    BY <1>4, <1>5 DEF Admit, Renew, SaveUser, Fail, TypeOK
  <2>5. \A q \in Requests : CookieOf(snap'[q]) \subseteq CookieOf(snap[q]) \cup CookieOf(row)
    BY <2>3, <2>4
  <2> QED  BY <1>1, <1>3, <2>1, <2>2, <2>3, <2>5 DEF CutInv, history, CookieOf
<1>6. ASSUME NEW r \in Requests, CheckAccess(r) \/ CheckCookie(r) \/ Read(r) \/ Exists(r) PROVE CutInv'
  <2>1. UNCHANGED <<row, snap, history>>
    BY <1>6 DEF CheckAccess, CheckCookie, Read, Exists
  <2>2. \A q \in Requests \ {r} : cur'[q] = cur[q] /\ (Holding(q)' <=> Holding(q))
    BY <1>6 DEF CheckAccess, CheckCookie, Read, Exists, TypeOK, Holding, Goto
  <2>3. \/ cur'[r] = cur[r] /\ (Holding(r)' => Holding(r))
        \/ CookieOf(cur'[r]) \subseteq CookieOf(row)
    BY <1>4, <1>6 DEF CheckAccess, CheckCookie, Read, Exists, TypeOK, Holding, Goto, CookieOf, SameAccess,
                     SameCookie, Kinds, Calls, Ended
  <2>4. Kind[r] = "cookie" /\ Holding(r)' => cur'[r].cookie = snap[r].cookie
    BY <1>6 DEF CheckAccess, CheckCookie, Read, Exists, TypeOK, Holding, Goto, SameCookie, Calls, Ended, CutInv
  <2>5. \A q \in Requests : CookieOf(cur'[q]) \subseteq CookieOf(cur[q]) \cup CookieOf(row)
    BY <2>2, <2>3
  <2> QED  BY <1>1, <1>3, <2>1, <2>2, <2>3, <2>4, <2>5 DEF CutInv, history, CookieOf
<1>7. ASSUME NEW r \in Requests, Save(r) PROVE CutInv'
  <2>1. pc[r] = "save" /\ Holding(r) /\ UNCHANGED <<snap, cur>>
    BY <1>7 DEF Save, Holding
  <2>2. \A q \in Requests : Holding(q)' => Holding(q) /\ q # r
    BY <1>7 DEF Save, Holding, Goto, TypeOK
  <2>3. CASE ~HasOwner
    BY <1>1, <1>3, <1>7, <2>1, <2>2, <2>3 DEF Save, CutInv, history, CookieOf
  <2>4. CASE HasOwner
    <3> DEFINE ended == IF Kind[r] \in {"connect", "disconnect"} THEN CookieOf(row) ELSE {}
               saved == CookieOf(row')
    <3>1. /\ cut' = cut \cup ended
          /\ back' = IF r \in racers THEN back \cup saved ELSE back
          /\ racers \subseteq racers'
          /\ ended # {} => \A q \in Requests \ {r} : Holding(q) => q \in racers'
          /\ pc'[r] = "done"
      BY <1>7, <2>4 DEF Save, Record, Goto, TypeOK
    <3>2. saved = CASE Kind[r] = "connect"    -> {r}
                    [] Kind[r] = "disconnect" -> {}
                    [] OTHER                  -> CookieOf(cur[r])
      BY <1>7, <2>1, <2>4, CookieSent DEF Save
    <3>3. \A o \in saved \cup cut' : Known(o)'
      BY <1>1, <1>3, <3>1, <3>2 DEF CutInv, Known
    <3>4. r \notin cut \cup CookieOf(row)
      BY <2>1 DEF CutInv, Known, CredentialsAssumption
    <3>5. saved \cap cut' \subseteq back'
      BY <2>1, <3>1, <3>2, <3>4 DEF CutInv
    <3>6. \A q \in Requests \ racers' : Holding(q)' => CookieOf(cur[q]) \cap cut' \subseteq back'
      BY <2>2, <3>1 DEF CutInv
    <3>7. \A q \in Requests : CookieOf(snap'[q]) = CookieOf(snap[q]) /\ CookieOf(cur'[q]) = CookieOf(cur[q])
      BY <2>1
    <3> HIDE DEF ended
    <3> QED  BY <1>1, <1>3, <2>1, <2>2, <3>3, <3>5, <3>6, <3>7 DEF CutInv, CookieOf
  <2> QED  BY <2>3, <2>4
<1>8. ASSUME NEW r \in Requests, Erase(r) PROVE CutInv'
  <2>1. UNCHANGED <<snap, cur>> /\ CookieOf(row') = {}
    BY <1>8 DEF Erase, CookieOf
  <2>2. \A q \in Requests : Holding(q)' => Holding(q) /\ q # r
    BY <1>8 DEF Erase, Holding, Goto, TypeOK, Calls, Kinds, Ended
  <2>3. /\ cut' = cut \cup CookieOf(row)
        /\ back \subseteq back'
        /\ racers \subseteq racers'
        /\ CookieOf(row) # {} => \A q \in Requests \ {r} : Holding(q) => q \in racers'
    BY <1>8 DEF Erase, Record
  <2>4. \A q \in Requests \ racers' : Holding(q)' => CookieOf(cur[q]) \cap cut' \subseteq back'
    BY <2>2, <2>3 DEF CutInv
  <2>5. \A o \in cut' : Known(o)'
    BY <1>1, <1>3, <2>3 DEF CutInv
  <2>6. \A q \in Requests : CookieOf(snap'[q]) = CookieOf(snap[q]) /\ CookieOf(cur'[q]) = CookieOf(cur[q])
    BY <2>1
  <2> QED  BY <1>1, <1>3, <2>1, <2>2, <2>4, <2>5, <2>6 DEF CutInv, CookieOf
<1>9. CASE UNCHANGED vars
  BY <1>9 DEF vars, CutInv, Known, Holding, CookieOf
<1> QED  BY <1>5, <1>6, <1>7, <1>8, <1>9 DEF Next, Step

(* No cookie that was disconnected, replaced or deleted is stored again,   *)
(* but by a request that had read it before, or after such a one stored it. *)
THEOREM CutStaysCut == Spec => []CutForGood
<1>1. Init => CutInv
  BY DEF Init, CutInv, Known, CookieOf, Nothing, StartCookie, Holding
<1>2. CutInv => CutForGood
  BY DEF CutInv, CutForGood
<1> QED  BY <1>1, <1>2, TypeInit, TypeNext, CutNext, PTL DEF Spec


------------------------------------------------------------------------------
(* The tokens r sends when it saves, and whether it is past its check: a   *)
(* renewal whose grant a deletion has ended does not get to save any more. *)
Tokens(r) ==
  CASE Kind[r] \in {"call", "token"} -> new[r]
    [] Kind[r] = "signin"            -> TokensOfSignIn(r)
    [] OTHER                         -> [access |-> cur[r].access, refresh |-> cur[r].refresh]
WillSave(r) == pc[r] = "save" \/ (Holding(r) /\ r \notin revoked)

(* A renewal still to compare the access token it started from with the    *)
(* stored one, of which some sign-in is over.                              *)
AccessOf(c)  == IF c = None THEN None ELSE c.access
Unchecked(r) ==
  /\ Kind[r] = "call" \/ (Kind[r] = "token" /\ r \notin revoked)
  /\ pc[r] \in Calls(Kind[r]) /\ ~Holding(r)
Stale(r)     == Unchecked(r) /\ GrantsIn(snap[r]) \cap over # {}

(* What a request has read is stored or over.                              *)
SignInsKnown ==
  /\ \A g \in over \cup GrantsIn(row) : Known(g)
  /\ \A r \in Requests : GrantsIn(snap[r]) \cup GrantsIn(cur[r]) \subseteq GrantsIn(row) \cup over

(* What Yandex answered stems from what was sent.                          *)
AnswersMatch ==
  \A r \in Requests :
    Kind[r] \in {"call", "token"} /\ pc[r] \in {"exists", "checkAccess", "save"} =>
      /\ GrantsIn(new[r]) \subseteq GrantsIn(snap[r])
      /\ new[r].refresh = None => new[r].access = snap[r].access
      /\ new[r].refresh # None => /\ new[r].access # None /\ snap[r].refresh # None
                                  /\ new[r].access.grant = snap[r].refresh.grant

(* No one who will write brings a sign-in back that is over, and a renewal *)
(* of one finds another access token than it started from.                 *)
OverInv ==
  /\ SignInsKnown /\ AnswersMatch
  /\ undone \/
       /\ GrantsIn(row) \cap over = {}
       /\ \A r \in Requests \ racers : WillSave(r) => GrantsIn(Tokens(r)) \cap over = {}
       /\ \A s \in Requests : Stale(s) =>
            /\ AccessOf(row) # snap[s].access
            /\ \A r \in Requests \ racers : WillSave(r) => Tokens(r).access # snap[s].access

(* A sign-in that gave a refresh token and is in a row is there with it.   *)
LEMMA Refreshed ==
  ASSUME NEW c \in Creds \cup Pair, Paired(c), NEW g \in GrantsIn(c), g \notin bare
  PROVE  c.refresh # None /\ c.refresh.grant = g
BY GrantsMember DEF Paired

(* Priming what is said of a row.                                          *)
LEMMA Primed ==
  /\ GrantsIn(row)' = GrantsIn(row')
  /\ \A q \in Requests : /\ GrantsIn(snap[q])' = GrantsIn(snap'[q])
                         /\ GrantsIn(cur[q])' = GrantsIn(cur'[q])
                         /\ GrantsIn(new[q])' = GrantsIn(new'[q])
                         /\ GrantsIn(Tokens(q))' = GrantsIn(Tokens(q)')
BY DEF GrantsIn, TokensIn

(* The tokens of a row that is sent, and after the merge.                  *)
LEMMA TokensSent ==
  ASSUME TypeOK, NEW r \in Requests, pc[r] = "save"
  PROVE  /\ Tokens(r) \in Pair
         /\ Merged(Sent(r)) \in Creds
         /\ Merged(Sent(r)).access = Tokens(r).access
         /\ Merged(Sent(r)).refresh = IF Tokens(r).refresh = None /\ row # None
                                      THEN row.refresh ELSE Tokens(r).refresh
<1>1. cur[r] \in Creds /\ snap[r] \in Creds /\ new[r] \in Pair /\ TokensOfSignIn(r) \in Pair
  BY DEF TypeOK, Pair, TokensOfSignIn, Token, Origin
<1>2. Kind[r] \in {"call", "token", "signin", "cookie", "connect", "disconnect"}
  BY DEF TypeOK, Calls, Kinds, Ended
<1>3. Tokens(r) \in Pair
  BY <1>1 DEF Tokens, Creds, Pair
<1>4. Sent(r).access = Tokens(r).access /\ Sent(r).refresh = Tokens(r).refresh
  <2>1. CASE Kind[r] \in {"call", "token"}
    BY <2>1 DEF Sent, Tokens
  <2>2. CASE Kind[r] = "signin"
    BY <2>2 DEF Sent, Tokens
  <2>3. CASE Kind[r] \in {"cookie", "connect", "disconnect"}
    BY <1>1, <2>3 DEF Sent, Tokens, Creds
  <2> QED  BY <1>2, <2>1, <2>2, <2>3
<1> DEFINE sent == Sent(r)
<1>5. sent \in Creds /\ Merged(sent) \in Creds
  BY SentType
<1>6. Sent(r) = sent
  OBVIOUS
<1> HIDE DEF sent
<1>7. /\ Merged(sent).access = sent.access
      /\ Merged(sent).refresh = IF sent.refresh = None /\ row # None THEN row.refresh ELSE sent.refresh
  BY <1>5 DEF Merged, Creds
<1> QED  BY <1>3, <1>4, <1>5, <1>6, <1>7

(* What a request about to save sends is a pair: its own sign-in's, or of  *)
(* sign-ins that are stored or over.                                       *)
LEMMA TokensKnown ==
  ASSUME TypeOK, PairsInv, OverInv, NEW r \in Requests, pc[r] = "save"
  PROVE  /\ Paired(Tokens(r))
         /\ Kind[r] = "signin" => /\ GrantsIn(Tokens(r)) = {r}
                                  /\ Tokens(r).access # None /\ Tokens(r).access.grant = r
         /\ Kind[r] # "signin" => GrantsIn(Tokens(r)) \subseteq GrantsIn(row) \cup over
<1>1. Kind[r] \in {"call", "token", "signin", "cookie", "connect", "disconnect"}
  BY DEF TypeOK, Calls, Kinds, Ended
<1>2. CASE Kind[r] \in {"call", "token"}
  <2>1. Tokens(r) = new[r]
    BY <1>2 DEF Tokens
  <2>2. GrantsIn(new[r]) \subseteq GrantsIn(snap[r])
    BY <1>2 DEF OverInv, AnswersMatch
  <2> QED  BY <1>2, <2>1, <2>2 DEF OverInv, SignInsKnown, PairsInv
<1>3. CASE Kind[r] = "signin"
  <2>1. Tokens(r) = TokensOfSignIn(r)
    BY <1>3 DEF Tokens
  <2>2. [grant |-> r, by |-> r] # None /\ TokensOfSignIn(r) \in Pair
    BY DEF Token, Origin, Pair, TokensOfSignIn
  <2>3. /\ TokensOfSignIn(r).access = [grant |-> r, by |-> r]
        /\ TokensOfSignIn(r).refresh = IF r \in bare THEN None ELSE [grant |-> r, by |-> r]
    BY DEF TokensOfSignIn
  <2>4. \A g : g \in GrantsIn(TokensOfSignIn(r)) <=> g = r
    BY <2>2, <2>3, GrantsMember
  <2>5. GrantsIn(TokensOfSignIn(r)) = {r}
    BY <2>4
  <2>6. Paired(TokensOfSignIn(r))
    BY <2>3 DEF Paired
  <2> QED  BY <1>3, <2>1, <2>2, <2>3, <2>5, <2>6
<1>4. CASE Kind[r] \in {"cookie", "connect", "disconnect"}
  <2> DEFINE pair == [access |-> cur[r].access, refresh |-> cur[r].refresh]
  <2>1. Tokens(r) = pair /\ cur[r] \in Creds
    BY <1>4 DEF Tokens, TypeOK
  <2>2. pair \in Pair
    BY <2>1 DEF Pair, Creds
  <2>3. GrantsIn(pair) \subseteq GrantsIn(cur[r]) /\ Paired(pair)
    BY <2>1, <2>2, GrantsMember DEF PairsInv, Paired
  <2> QED  BY <1>4, <2>1, <2>3 DEF OverInv, SignInsKnown
<1> QED  BY <1>1, <1>2, <1>3, <1>4

LEMMA OverInit == Init => OverInv
<1> SUFFICES ASSUME Init PROVE OverInv
  OBVIOUS
<1>1. StartToken \in Token /\ StartToken.grant = Start /\ StartCookie \in Cookie
  BY DEF StartToken, StartCookie, Token, Cookie, Origin
<1>2. row \in Creds /\ row.access = StartToken /\ row.refresh \in {StartToken, None}
  BY <1>1 DEF Init, Creds
<1>3. \A g \in GrantsIn(row) : g = Start
  BY <1>1, <1>2, GrantsMember
<1> QED  BY <1>3, GrantsInType DEF Init, OverInv, SignInsKnown, AnswersMatch, Known, WillSave, Holding, Stale

(* The steps that only move on, or look at the row.                        *)
LEMMA OverOfReads ==
  ASSUME TypeOK, PairsInv, OverInv, NEW r \in Requests,
         Admit(r) \/ Renew(r) \/ SaveUser(r) \/ Fail(r) \/ Exists(r) \/ Read(r)
           \/ CheckCookie(r) \/ CheckAccess(r)
  PROVE  OverInv'
<1> USE DEF TypeOK
<1>1. /\ UNCHANGED <<revoked, row, bare, over, racers, undone>>
      /\ \A q \in Requests : q # r => /\ pc'[q] = pc[q] /\ snap'[q] = snap[q]
                                      /\ cur'[q] = cur[q] /\ new'[q] = new[q]
  BY DEF Admit, Renew, SaveUser, Fail, Exists, Read, CheckCookie, CheckAccess, Goto, history
<1>2. /\ snap'[r] = snap[r] \/ (Admit(r) /\ snap'[r] \in {row, Nothing} /\ (row # None => snap'[r] = row))
      /\ cur'[r] = cur[r] \/ ((Read(r) \/ CheckCookie(r) \/ CheckAccess(r)) /\ cur'[r] \in {row, Nothing}
                               /\ (row # None => cur'[r] = row) /\ (row = None => cur'[r] = Nothing))
      /\ new'[r] = new[r] \/ Renew(r)
  BY DEF Admit, Renew, SaveUser, Fail, Exists, Read, CheckCookie, CheckAccess, SameCookie, SameAccess
<1>3. ASSUME NEW g \in Origin, Known(g) PROVE Known(g)'
  BY <1>1, <1>3 DEF Known, Origin, Admit, Renew, SaveUser, Fail, Exists, Read, CheckCookie, CheckAccess, Goto, Ended
<1>4. SignInsKnown'
  <2>1. \A q \in Requests : /\ GrantsIn(snap'[q]) \in {GrantsIn(snap[q]), GrantsIn(row), {}}
                            /\ GrantsIn(cur'[q]) \in {GrantsIn(cur[q]), GrantsIn(row), {}}
    BY <1>1, <1>2, GrantsInType
  <2>2. GrantsIn(row)' = GrantsIn(row) /\ over' = over
    BY <1>1, Primed
  <2>3. \A g \in over' \cup GrantsIn(row)' : Known(g)'
    BY <1>3, <2>2, GrantsInType DEF OverInv, SignInsKnown
  <2> QED  BY <2>1, <2>2, <2>3, Primed DEF OverInv, SignInsKnown
<1>5. AnswersMatch'
  <2>1. ASSUME NEW q \in Requests, Kind[q] \in {"call", "token"},
               pc'[q] \in {"exists", "checkAccess", "save"}
        PROVE  /\ GrantsIn(new'[q]) \subseteq GrantsIn(snap'[q])
               /\ new'[q].refresh = None => new'[q].access = snap'[q].access
               /\ new'[q].refresh # None => /\ new'[q].access # None /\ snap'[q].refresh # None
                                            /\ new'[q].access.grant = snap'[q].refresh.grant
    <3>1. CASE q # r
      BY <1>1, <2>1, <3>1 DEF OverInv, AnswersMatch
    <3>2. CASE q = r /\ ~Renew(r)
      <4>1. pc[r] \in {"exists", "checkAccess", "save"} /\ ~Admit(r)
        BY <2>1, <3>2 DEF Admit, SaveUser, Fail, Exists, Read, CheckCookie, CheckAccess, Goto, First,
           Ended, Calls, Kinds
      <4> QED  BY <1>2, <2>1, <3>2, <4>1 DEF OverInv, AnswersMatch
    <3>3. CASE q = r /\ Renew(r)
      <4>1. snap'[r] = snap[r] /\ snap[r] \in Creds
        BY <3>3 DEF Renew
      <4>2. CASE snap[r].refresh = None
        <5> DEFINE held == [access |-> snap[r].access, refresh |-> None]
        <5>1. new'[r] = held /\ held.access = snap[r].access /\ held.refresh = None
          BY <3>3, <4>2 DEF Renew
        <5>2. held \in Pair
          BY <4>1 DEF Pair, Creds
        <5> HIDE DEF held
        <5>3. GrantsIn(held) \subseteq GrantsIn(snap[r])
          BY <4>1, <5>1, <5>2, GrantsMember
        <5> QED  BY <3>3, <4>1, <4>2, <5>1, <5>3
      <4>3. CASE snap[r].refresh # None
        <5>1. Renewed(r) \in Token /\ Renewed(r).grant = snap[r].refresh.grant /\ Renewed(r) # None
          BY <4>1, <4>3 DEF Creds, Token, Origin, Renewed
        <5>2. PICK refresh \in {Renewed(r), snap[r].refresh} :
                new' = [new EXCEPT ![r] = [access |-> Renewed(r), refresh |-> refresh]]
          BY <3>3, <4>3 DEF Renew, RefreshAfter
        <5> DEFINE pair == [access |-> Renewed(r), refresh |-> refresh]
        <5>3. new'[r] = pair /\ pair.access = Renewed(r) /\ pair.refresh = refresh /\ pair \in Pair
          BY <4>1, <5>1, <5>2 DEF Pair, Creds
        <5> HIDE DEF pair
        <5>4. refresh # None /\ refresh.grant = snap[r].refresh.grant
          BY <4>3, <5>1
        <5>5. GrantsIn(pair) \subseteq GrantsIn(snap[r])
          BY <4>1, <4>3, <5>1, <5>3, <5>4, GrantsMember
        <5> QED  BY <3>3, <4>1, <4>3, <5>1, <5>3, <5>4, <5>5
      <4> QED  BY <4>2, <4>3
    <3> QED  BY <3>1, <3>2, <3>3
  <2> QED  BY <2>1, Primed DEF AnswersMatch
<1>6. ASSUME ~undone, NEW s \in Requests, Stale(s)' PROVE Stale(s) /\ snap'[s] = snap[s]
  <2>1. CASE s # r
    BY <1>1, <1>6, <2>1, Primed DEF Stale, Unchecked, Holding
  <2>2. CASE s = r
    <3>1. ~Admit(r)
      <4>1. ASSUME Admit(r) PROVE GrantsIn(snap'[r]) \in {GrantsIn(row), {}}
        BY <1>2, <4>1, GrantsInType DEF Admit
      <4>2. GrantsIn(snap'[r]) \cap over # {}
        BY <1>1, <1>6, <2>2, Primed DEF Stale
      <4> QED  BY <1>6, <4>1, <4>2 DEF OverInv
    <3>2. snap'[r] = snap[r]
      BY <1>2, <3>1
    <3>3. Unchecked(r)
      BY <1>1, <1>6, <2>2, <3>1 DEF Stale, Unchecked, Holding, Renew, SaveUser, Fail, Exists, Read,
         CheckCookie, CheckAccess, Goto, Ended, Calls, Kinds
    <3> QED  BY <1>1, <1>6, <2>2, <3>2, <3>3, Primed DEF Stale
  <2> QED  BY <2>1, <2>2
<1>7. ASSUME ~undone, NEW q \in Requests \ racers, WillSave(q)'
      PROVE  /\ GrantsIn(Tokens(q)') \cap over = {}
             /\ \A s \in Requests : Stale(s) => Tokens(q)'.access # snap[s].access
  <2>1. /\ GrantsIn(row) \cap over = {}
        /\ WillSave(q) => GrantsIn(Tokens(q)) \cap over = {}
        /\ \A s \in Requests : Stale(s) => /\ AccessOf(row) # snap[s].access
                                           /\ WillSave(q) => Tokens(q).access # snap[s].access
    BY <1>7 DEF OverInv
  <2>2. CASE WillSave(q) /\ cur'[q] = cur[q] /\ new'[q] = new[q]
    <3>1. Tokens(q)' = Tokens(q)
      BY <1>1, <2>2 DEF Tokens, TokensOfSignIn
    <3> QED  BY <2>1, <2>2, <3>1
  <2>3. CASE q # r
    <3>1. WillSave(q) /\ cur'[q] = cur[q] /\ new'[q] = new[q]
      BY <1>1, <1>7, <2>3 DEF WillSave, Holding
    <3> QED  BY <2>2, <3>1
  <2>4. CASE q = r /\ (Admit(r) \/ Renew(r) \/ SaveUser(r) \/ Fail(r))
    <3>1. ~WillSave(r)'
      BY <2>4 DEF Admit, Renew, SaveUser, Fail, WillSave, Holding, Goto, First, Kinds, Ended, Calls
    <3> QED  BY <1>7, <2>4, <3>1
  <2>5. CASE q = r /\ Exists(r)
    <3>1. WillSave(r) /\ cur'[r] = cur[r] /\ new'[r] = new[r]
      BY <1>1, <1>7, <2>5 DEF WillSave, Holding, Exists, Goto, Calls, Kinds, Ended
    <3> QED  BY <2>2, <2>5, <3>1
  <2>6. CASE q = r /\ (CheckCookie(r) \/ (Read(r) /\ Kind[r] # "signin"))
    <3>1. Kind[r] \notin {"call", "token", "signin"}
      BY <2>6 DEF CheckCookie, Read, Calls, Kinds, Ended
    <3>2. cur'[r] = IF row = None THEN Nothing ELSE row
      BY <1>7, <2>6, <3>1 DEF CheckCookie, Read, SameCookie, WillSave, Holding, Goto
    <3> DEFINE pair == [access |-> cur'[r].access, refresh |-> cur'[r].refresh]
    <3>3. Tokens(r)' = pair /\ pair.access = cur'[r].access /\ pair.refresh = cur'[r].refresh
      BY <3>1 DEF Tokens
    <3>4. cur'[r] \in Creds /\ pair \in Pair
      BY <3>2, GrantsInType DEF Pair, Creds
    <3> HIDE DEF pair
    <3>5. GrantsIn(pair) \subseteq GrantsIn(cur'[r]) /\ GrantsIn(cur'[r]) \subseteq GrantsIn(row)
      BY <3>2, <3>3, <3>4, GrantsMember, GrantsInType
    <3>6. pair.access = AccessOf(row)
      BY <3>2, <3>3 DEF AccessOf, Nothing
    <3> QED  BY <2>1, <2>6, <3>3, <3>5, <3>6
  <2>7. CASE q = r /\ Read(r) /\ Kind[r] = "signin"
    <3>1. Tokens(r)' = TokensOfSignIn(r) /\ pc[r] = "read"
      BY <1>1, <2>7 DEF Tokens, Read, TokensOfSignIn
    <3>2. [grant |-> r, by |-> r] \in Token /\ [grant |-> r, by |-> r] # None
      BY DEF Token, Origin
    <3>3. /\ TokensOfSignIn(r).access = [grant |-> r, by |-> r]
          /\ TokensOfSignIn(r).refresh = IF r \in bare THEN None ELSE [grant |-> r, by |-> r]
          /\ TokensOfSignIn(r) \in Pair
      BY <3>2 DEF TokensOfSignIn, Pair
    <3>4. \A g \in GrantsIn(TokensOfSignIn(r)) : g = r
      BY <3>2, <3>3, GrantsMember
    <3>5. r \notin over \cup GrantsIn(row)
      BY <3>1 DEF OverInv, SignInsKnown, Known
    <3>6. ASSUME NEW s \in Requests PROVE snap[s].access # [grant |-> r, by |-> r]
      <4>1. snap[s] \in Creds /\ r \notin GrantsIn(snap[s])
        BY <3>5 DEF OverInv, SignInsKnown
      <4> QED  BY <3>2, <4>1, GrantsMember
    <3> QED  BY <2>7, <3>1, <3>3, <3>4, <3>5, <3>6
  <2>8. CASE q = r /\ CheckAccess(r)
    <3>1. /\ SameAccess(r) /\ Kind[r] \in {"call", "token"} /\ pc[r] = "checkAccess"
          /\ Kind[r] = "token" => r \notin revoked
      BY <1>1, <1>7, <2>8 DEF WillSave, Holding, CheckAccess, Goto, Calls, Kinds, Ended
    <3>2. Tokens(r)' = new[r]
      BY <2>8, <3>1 DEF Tokens, CheckAccess
    <3>3. /\ GrantsIn(new[r]) \subseteq GrantsIn(snap[r])
          /\ new[r].refresh = None => new[r].access = snap[r].access
          /\ new[r].refresh # None => /\ new[r].access # None /\ snap[r].refresh # None
                                      /\ new[r].access.grant = snap[r].refresh.grant
      BY <3>1 DEF OverInv, AnswersMatch
    <3>4. /\ row # None /\ AccessOf(row) = snap[r].access
          /\ snap[r] \in Creds /\ new[r] \in Pair /\ Paired(snap[r])
      BY <3>1 DEF PairsInv, SameAccess, AccessOf, Pair
    <3>5. GrantsIn(snap[r]) \cap over = {}
      <4>1. ~Stale(r)
        BY <2>1, <3>4
      <4>2. Unchecked(r)
        BY <3>1 DEF Unchecked, Holding, Calls
      <4> QED  BY <4>1, <4>2 DEF Stale
    <3>6. ASSUME NEW s \in Requests, Stale(s), new[r].access = snap[s].access PROVE FALSE
      <4>1. AccessOf(row) # snap[s].access /\ GrantsIn(snap[s]) \cap over # {}
        BY <2>1, <3>6 DEF Stale
      <4>2. new[r].refresh # None /\ new[r].access # None /\ snap[r].refresh # None
        BY <3>3, <3>4, <3>6, <4>1
      <4>3. /\ snap[s] \in Creds /\ Paired(snap[s]) /\ snap[s].access # None
            /\ snap[s].access.grant = snap[r].refresh.grant
        BY <3>3, <3>6, <4>2 DEF PairsInv
      <4>4. snap[r].refresh.grant \notin bare /\ snap[r].refresh.grant \in GrantsIn(snap[r])
        BY <3>4, <4>2, GrantsMember DEF Paired
      <4>5. \A g \in GrantsIn(snap[s]) : g = snap[r].refresh.grant
        BY <4>3, <4>4, GrantsMember DEF Paired
      <4> QED  BY <3>5, <4>1, <4>4, <4>5
    <3> QED  BY <2>8, <3>2, <3>3, <3>5, <3>6
  <2> QED  BY <2>3, <2>4, <2>5, <2>6, <2>7, <2>8
<1>8. ASSUME ~undone'
      PROVE  /\ GrantsIn(row)' \cap over' = {}
             /\ \A q \in Requests \ racers' : WillSave(q)' => GrantsIn(Tokens(q))' \cap over' = {}
             /\ \A s \in Requests : Stale(s)' =>
                  /\ AccessOf(row)' # snap'[s].access
                  /\ \A q \in Requests \ racers' : WillSave(q)' => Tokens(q)'.access # snap'[s].access
  <2>1. GrantsIn(row) \cap over = {} /\ \A s \in Requests : Stale(s) => AccessOf(row) # snap[s].access
    BY <1>1, <1>8 DEF OverInv
  <2>2. AccessOf(row)' = AccessOf(row)
    BY <1>1 DEF AccessOf
  <2> QED  BY <1>1, <1>6, <1>7, <1>8, <2>1, <2>2, Primed
<1> QED  BY <1>4, <1>5, <1>8 DEF OverInv

(* Writing the row: what leaves it is over, and what is over is not in it. *)
LEMMA OverOfSave ==
  ASSUME TypeOK, PairsInv, OverInv, NEW r \in Requests, Save(r)
  PROVE  OverInv'
<1>1. /\ pc[r] = "save" /\ WillSave(r) /\ UNCHANGED <<revoked, snap, cur, new>>
      /\ pc'[r] \in Ended /\ bare' = bare
      /\ \A q \in Requests : q # r => pc'[q] = pc[q]
  BY DEF Save, WillSave, Goto, TypeOK, Ended, Record, history
<1>2. \A q \in Requests : WillSave(q)' => WillSave(q) /\ Holding(q) /\ q # r
  BY <1>1 DEF WillSave, Holding, Ended
<1>3. /\ \A g \in Origin : Known(g) => Known(g)'
      /\ over \subseteq Origin /\ GrantsIn(row) \subseteq Origin
  BY <1>1, GrantsInType DEF Known, Origin, TypeOK, Ended
<1>4. AnswersMatch'
  <2>1. \A q \in Requests : Kind[q] \in {"call", "token"} /\ pc'[q] \in {"exists", "checkAccess", "save"}
                              => q # r /\ pc'[q] = pc[q]
    BY <1>1 DEF Ended
  <2> QED  BY <1>1, <2>1, Primed DEF OverInv, AnswersMatch
<1>5. \A q \in Requests : Tokens(q)' = Tokens(q) /\ (Unchecked(q)' => Unchecked(q))
  <2>1. \A q \in Requests : Tokens(q)' = Tokens(q)
    BY <1>1 DEF Tokens, TokensOfSignIn
  <2>2. \A q \in Requests : Unchecked(q)' => Unchecked(q)
    BY <1>1 DEF Unchecked, Holding, Ended, Calls, Kinds
  <2> QED  BY <2>1, <2>2
<1>6. CASE HasOwner
  <2> DEFINE ended == GrantsIn(row) \ GrantsIn(row')
  <2>1. /\ pc'[r] = "done"
        /\ over' = over \cup ended /\ undone' = (undone \/ r \in racers)
        /\ racers \subseteq racers'
        /\ ended # {} => \A q \in Requests \ {r} : Holding(q) => q \in racers'
    BY <1>6 DEF Save, Record, Goto, TypeOK
  <2>2. /\ row' \in Creds
        /\ row'.access = Tokens(r).access
        /\ row'.refresh = IF Tokens(r).refresh = None /\ row # None
                          THEN row.refresh ELSE Tokens(r).refresh
    BY <1>1, <1>6, TokensSent DEF Save
  <2>3. /\ Paired(Tokens(r)) /\ Tokens(r) \in Pair
        /\ Kind[r] = "signin" => GrantsIn(Tokens(r)) = {r} /\ Tokens(r).access # None
                                   /\ Tokens(r).access.grant = r
        /\ Kind[r] # "signin" => GrantsIn(Tokens(r)) \subseteq GrantsIn(row) \cup over
    BY <1>1, TokensKnown, TokensSent
  <2>4. GrantsIn(row') \subseteq GrantsIn(Tokens(r)) \cup GrantsIn(row)
    <3>1. row \in Creds \cup {None}
      BY DEF TypeOK
    <3> QED  BY <2>2, <2>3, <3>1, GrantsMember
  <2>5. r \notin over \cup GrantsIn(row)
    BY <1>1 DEF OverInv, SignInsKnown, Known, CredentialsAssumption
  <2>6. SignInsKnown'
    <3>1. \A g \in over' \cup GrantsIn(row') : g = r \/ g \in over \cup GrantsIn(row)
      BY <2>1, <2>3, <2>4
    <3>2. \A g \in over' \cup GrantsIn(row') : Known(g)'
      BY <1>3, <2>1, <3>1 DEF OverInv, SignInsKnown, Known
    <3>3. GrantsIn(row) \cup over \subseteq GrantsIn(row') \cup over'
      BY <2>1
    <3> HIDE DEF ended
    <3> QED  BY <1>1, <3>2, <3>3, Primed DEF OverInv, SignInsKnown
  <2>7. ASSUME ~undone'
        PROVE  /\ GrantsIn(row') \cap over' = {}
               /\ \A q \in Requests \ racers' : WillSave(q)' => GrantsIn(Tokens(q)) \cap over' = {}
               /\ \A s \in Requests : Stale(s)' =>
                    /\ row'.access # snap[s].access
                    /\ \A q \in Requests \ racers' : WillSave(q)' => Tokens(q).access # snap[s].access
    <3>1. /\ GrantsIn(row) \cap over = {}
          /\ \A q \in Requests \ racers : WillSave(q) => GrantsIn(Tokens(q)) \cap over = {}
          /\ \A s \in Requests : Stale(s) =>
                \A q \in Requests \ racers : WillSave(q) => Tokens(q).access # snap[s].access
          /\ r \notin racers
      BY <2>1, <2>7 DEF OverInv
    <3>2. GrantsIn(row') \cap over' = {}
      BY <1>1, <2>1, <2>4, <3>1
    <3>3. \A q \in Requests \ racers' : WillSave(q)' => GrantsIn(Tokens(q)) \cap over' = {}
      BY <1>2, <2>1, <3>1
    <3>4. ASSUME NEW s \in Requests, Stale(s)', Stale(s)
          PROVE  /\ row'.access # snap[s].access
                 /\ \A q \in Requests \ racers' : WillSave(q)' => Tokens(q).access # snap[s].access
      BY <1>1, <1>2, <2>1, <2>2, <3>1, <3>4
    <3>5. ASSUME NEW s \in Requests, Stale(s)', ~Stale(s)
          PROVE  /\ row'.access # snap[s].access
                 /\ \A q \in Requests \ racers' : WillSave(q)' => Tokens(q).access # snap[s].access
      <4>1. PICK g \in GrantsIn(snap[s]) : g \in ended
        BY <1>1, <1>5, <2>1, <3>5, Primed DEF Stale
      <4>2. \A q \in Requests \ racers' : ~WillSave(q)'
        BY <1>2, <2>1, <4>1
      <4>3. /\ snap[s] \in Creds /\ Paired(snap[s]) /\ row \in Creds /\ Paired(row)
            /\ g \in GrantsIn(row) /\ g \notin GrantsIn(row')
        <5>1. row # None
          BY <4>1, GrantsInType
        <5> QED  BY <4>1, <5>1 DEF TypeOK, PairsInv
      <4>4. ASSUME row'.access = snap[s].access PROVE FALSE
        <5>1. snap[s].access # None => snap[s].access.grant # g
          BY <2>2, <4>3, <4>4, GrantsMember
        <5>2. snap[s].refresh # None /\ snap[s].refresh.grant = g /\ g \notin bare
          BY <4>1, <4>3, <5>1, GrantsMember DEF Paired
        <5>3. row.refresh # None /\ row.refresh.grant = g
          BY <4>3, <5>2, Refreshed
        <5>4. Tokens(r).refresh # None
          BY <2>2, <4>3, <5>3, GrantsMember
        <5>5. /\ Tokens(r).refresh.grant \notin bare
              /\ Tokens(r).refresh.grant \in GrantsIn(row') /\ Tokens(r).refresh.grant \in GrantsIn(Tokens(r))
          BY <2>2, <2>3, <5>4, GrantsMember DEF Paired
        <5>6. CASE Kind[r] = "signin"
          <6>1. r \in GrantsIn(snap[s])
            BY <2>2, <2>3, <4>3, <4>4, <5>6, GrantsMember
          <6> QED  BY <2>5, <6>1 DEF OverInv, SignInsKnown
        <5>7. CASE Kind[r] # "signin"
          <6>1. Tokens(r).refresh.grant \in GrantsIn(row)
            BY <1>1, <2>3, <3>1, <5>5, <5>7
          <6>2. Tokens(r).refresh.grant = g
            BY <4>3, <5>3, <5>5, <6>1, Refreshed
          <6> QED  BY <4>3, <5>5, <6>2
        <5> QED  BY <5>6, <5>7
      <4> QED  BY <4>2, <4>4
    <3> QED  BY <3>2, <3>3, <3>4, <3>5
  <2>8. AccessOf(row)' = row'.access
    BY <2>2, GrantsMember DEF AccessOf
  <2> QED  BY <1>1, <1>4, <1>5, <2>6, <2>7, <2>8, Primed DEF OverInv
<1>7. CASE ~HasOwner
  <2>1. UNCHANGED <<row, over, racers, undone>> /\ AccessOf(row)' = AccessOf(row)
    BY <1>7 DEF Save, history, AccessOf
  <2>2. SignInsKnown'
    BY <1>1, <1>3, <2>1, Primed DEF OverInv, SignInsKnown
  <2>3. \A s \in Requests : Stale(s)' => Stale(s)
    BY <1>1, <1>5, <2>1, Primed DEF Stale
  <2> QED  BY <1>1, <1>2, <1>4, <1>5, <2>1, <2>2, <2>3, Primed DEF OverInv
<1> QED  BY <1>6, <1>7

(* A deletion ends the sign-ins in the row, and every token request that   *)
(* is under way.                                                           *)
LEMMA OverOfErase ==
  ASSUME TypeOK, OverInv, NEW r \in Requests, Erase(r)
  PROVE  OverInv'
<1>1. /\ UNCHANGED <<snap, cur, new>> /\ row' = None /\ pc'[r] = "done" /\ pc[r] = "erase"
      /\ revoked \subseteq revoked' /\ bare' = bare
      /\ \A q \in Requests : q # r => pc'[q] = pc[q]
  BY DEF Erase, Goto, TypeOK, Record
<1>2. /\ over' = over \cup GrantsIn(row)
      /\ undone' = (undone \/ r \in racers)
      /\ racers \subseteq racers'
      /\ GrantsIn(row) # {} => \A q \in Requests \ {r} : Holding(q) => q \in racers'
  BY DEF Erase, Record
<1>3. \A q \in Requests : WillSave(q)' => WillSave(q) /\ Holding(q) /\ q # r
  BY <1>1 DEF WillSave, Holding
<1>4. GrantsIn(row') = {} /\ AccessOf(row)' = None
  BY <1>1, GrantsInType DEF AccessOf
<1>5. SignInsKnown'
  <2>1. \A g \in Origin : Known(g) => Known(g)'
    BY <1>1 DEF Known, Origin
  <2>2. over \subseteq Origin /\ GrantsIn(row) \subseteq Origin
    BY GrantsInType DEF TypeOK
  <2> QED  BY <1>1, <1>2, <1>4, <2>1, <2>2, Primed DEF OverInv, SignInsKnown
<1>6. AnswersMatch'
  <2>1. \A q \in Requests : Kind[q] \in {"call", "token"} /\ pc'[q] \in {"exists", "checkAccess", "save"}
                              => q # r /\ pc'[q] = pc[q]
    BY <1>1
  <2> QED  BY <1>1, <2>1, Primed DEF OverInv, AnswersMatch
<1>7. \A q \in Requests : Tokens(q)' = Tokens(q)
  BY <1>1 DEF Tokens, TokensOfSignIn
<1>8. ASSUME ~undone', NEW q \in Requests \ racers', WillSave(q)'
      PROVE  GrantsIn(row) = {} /\ over' = over /\ GrantsIn(Tokens(q)) \cap over = {}
  BY <1>2, <1>3, <1>8 DEF OverInv
<1>9. ASSUME NEW s \in Requests, Stale(s)'
      PROVE  /\ Kind[s] = "call" /\ snap[s].access # None
             /\ over' = over => Stale(s)
  <2>1. s # r /\ pc'[s] = pc[s] /\ pc[s] \in Calls(Kind[s]) /\ pc[s] \notin Ended \cup {"idle"}
    BY <1>1, <1>9 DEF Stale, Unchecked, Calls, Kinds, Ended
  <2>2. Kind[s] = "call"
    BY <1>9, <2>1 DEF Stale, Unchecked, Erase
  <2>3. over' = over => Stale(s)
    BY <1>1, <1>9, <2>1, <2>2, Primed DEF Stale, Unchecked, Holding
  <2> QED  BY <2>1, <2>2, <2>3 DEF TypeOK
<1>10. ASSUME ~undone', NEW s \in Requests, Stale(s)', NEW q \in Requests \ racers', WillSave(q)'
       PROVE  Tokens(q).access # snap[s].access
  BY <1>2, <1>3, <1>8, <1>9, <1>10 DEF OverInv
<1> QED  BY <1>1, <1>4, <1>5, <1>6, <1>7, <1>8, <1>9, <1>10, Primed DEF OverInv

(* No step forgets a sign-in that is over, but for those who had read it.  *)
LEMMA OverNext == TypeOK /\ PairsInv /\ OverInv /\ [Next]_vars => OverInv'
<1> SUFFICES ASSUME TypeOK, PairsInv, OverInv, [Next]_vars PROVE OverInv'
  OBVIOUS
<1>1. CASE UNCHANGED vars
  <2>1. SignInsKnown' /\ AnswersMatch'
    <3>1. UNCHANGED <<row, pc, snap, cur, new, over>> /\ \A o : Known(o)' <=> Known(o)
      BY <1>1 DEF vars, Known
    <3> QED  BY <3>1, Primed DEF OverInv, SignInsKnown, AnswersMatch
  <2>2. \A q \in Requests : /\ WillSave(q)' <=> WillSave(q)
                            /\ Unchecked(q)' <=> Unchecked(q)
                            /\ Tokens(q)' = Tokens(q)
    BY <1>1 DEF vars, WillSave, Holding, Tokens, TokensOfSignIn, Unchecked
  <2>3. UNCHANGED <<row, snap, over, racers, undone>> /\ AccessOf(row)' = AccessOf(row)
    BY <1>1 DEF vars, AccessOf
  <2>4. \A s \in Requests : Stale(s)' <=> Stale(s)
    BY <2>2, <2>3, Primed DEF Stale
  <2> QED  BY <2>1, <2>2, <2>3, <2>4, Primed DEF OverInv
<1> QED  BY <1>1, OverOfReads, OverOfSave, OverOfErase DEF Next, Step

(* No tokens of a sign-in that has left the row, replaced by a later one   *)
(* or deleted, are stored again, but by a request that had read them       *)
(* before and was past its check.                                          *)
THEOREM OverStaysOver == Spec => []OverForGood
<1>1. OverInv => OverForGood
  BY DEF OverInv, OverForGood
<1> QED  BY <1>1, TypeInit, TypeNext, PairsInit, PairsNext, OverInit, OverNext, PTL DEF Spec
=============================================================================
