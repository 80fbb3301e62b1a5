---------------------------- MODULE McpSessions ----------------------------
(***************************************************************************)
(* The requests that bear an access token, JSON-RPC, REST and the event    *)
(* streams with the messages posted to them, beside those that end grants  *)
(* and close the streams of them.                                          *)
(*                                                                         *)
(* A token is checked by three reads of the storage (checkBearer) before   *)
(* its request is admitted, and again before a tool runs, unless that is   *)
(* within REAUTH_AFTER of its admission.  What a tool does is the module   *)
(* Commands; here it begins and ends.  Streams live in the memory of one   *)
(* pod: sseTransports and sseOwners, which always change together, are     *)
(* `sessions', and a stream is named after the request that opened it.     *)
(***************************************************************************)
EXTENDS Naturals, FiniteSets

CONSTANTS
  Requests, Pods, Users, Clients, Tokens,
  UserOf, ClientOf,     \* [Tokens -> Users], [Tokens -> Clients]
  Plans,                \* which request is what: [kind, token, pod, to] each, or None
  REAUTH_AFTER,
  ReadBound,            \* how long the three reads of one check may take
  MaxBatch, MaxClock,   \* bounds
  None

Bearing == {"rpc", "rest", "stream", "message"}
Ending  == {"revoke", "revokeGrant", "delete"}
Ask     == [kind : Bearing \cup Ending, token : Tokens, pod : Pods, to : Requests \cup {None}]

ASSUME McpSessionsAssumption ==
  /\ UserOf \in [Tokens -> Users] /\ ClientOf \in [Tokens -> Clients]
  /\ None \notin Requests \cup Nat
  /\ Plans \subseteq [Requests -> Ask \cup {None}]
  /\ {REAUTH_AFTER, ReadBound, MaxBatch, MaxClock} \subseteq Nat
  /\ REAUTH_AFTER > 0

VARIABLES
  clock,
  live, users, linked,  \* rows of tokens that have not expired, users, users with credentials
  sessions,
  ask, pc,
  left,                 \* calls left in a batch
  admitted,             \* when a request was admitted
  readAt,               \* when the check under way read the token
  ran,                  \* when the tool now running began
  gone, cut,            \* history: since when the row of a token, a user's credentials are not there
  ended,                \* history: the tokens a request has ended
  racing                \* history: streams being checked while a grant was ended

rows  == <<live, users, linked, gone, cut>>
check == <<admitted, readAt>>
vars  == <<clock, rows, sessions, ask, pc, left, check, ran, ended, racing>>

Kind(r)   == ask[r].kind
Token(r)  == ask[r].token
Streams   == {r \in Requests : ask[r] # None /\ Kind(r) = "stream"}
Checking  == {"token", "user", "creds"}

TypeOK ==
  /\ clock \in 0..MaxClock
  /\ live \subseteq Tokens /\ users \subseteq Users /\ linked \subseteq users
  /\ \A t \in live : UserOf[t] \in users
  /\ ask \in Plans
  /\ pc \in [Requests -> Checking \cup {"idle", "body", "run", "open", "lookup", "end", "walk",
                                        "closed", "done"}]
  /\ sessions = {s \in Streams : pc[s] = "open"}
  /\ left \in [Requests -> 0..MaxBatch]
  /\ admitted \in [Requests -> 0..MaxClock \cup {None}]
  /\ readAt \in [Requests -> 0..MaxClock] /\ ran \in [Requests -> 0..MaxClock]
  /\ gone \in [Tokens -> 0..MaxClock \cup {None}] /\ cut \in [Users -> 0..MaxClock \cup {None}]
  /\ live = {t \in Tokens : gone[t] = None} /\ linked = {u \in Users : cut[u] = None}
  /\ ended \in [Requests -> SUBSET Tokens] /\ racing \subseteq Streams

Init ==
  /\ clock = 0
  /\ live = Tokens /\ users = Users /\ linked = Users
  /\ sessions = {} /\ ask \in Plans
  /\ pc = [r \in Requests |-> "idle"] /\ left = [r \in Requests |-> 0]
  /\ admitted = [r \in Requests |-> None] /\ readAt = left /\ ran = left
  /\ gone = [t \in Tokens |-> None] /\ cut = [u \in Users |-> None]
  /\ ended = [r \in Requests |-> {}] /\ racing = {}

Goto(r, label) == pc' = [pc EXCEPT ![r] = label]
At(r, label)   == pc[r] = label

------------------------------------------------------------------------------
(* A request comes in; the limiter or the size of its body may stop it. A  *)
(* message needs its session on the pod that gets it.                      *)
Arrive(r) ==
  /\ At(r, "idle") /\ ask[r] # None
  /\ \/ Goto(r, "done")
     \/ /\ Kind(r) \in Bearing
        /\ Kind(r) = "message" => ask[r].to \in sessions /\ ask[ask[r].to].pod = ask[r].pod
        /\ Goto(r, "token")
     \/ Kind(r) = "revoke" /\ Goto(r, "lookup")
     \/ Kind(r) \in {"revokeGrant", "delete"} /\ Goto(r, "end")
  /\ UNCHANGED <<clock, rows, sessions, ask, left, check, ran, ended, racing>>

(* A call of a batch goes by the admission while that is fresh.            *)
FreshForEver(r) == TRUE      \* faulty: whenever it was
Fresh(r) == clock - admitted[r] < REAUTH_AFTER

(* The next of n calls.                                                    *)
NextCall(r, n) ==
  /\ left' = [left EXCEPT ![r] = n]
  /\ \/ n = 0 /\ Goto(r, "done") /\ ran' = ran
     \/ n > 0 /\ Fresh(r) /\ Goto(r, "run") /\ ran' = [ran EXCEPT ![r] = clock]
     \/ n > 0 /\ ~Fresh(r) /\ Goto(r, "token") /\ ran' = ran

(* A check fails: nobody is admitted, a call is answered with an error.    *)
Reject(r) ==
  /\ readAt' = [readAt EXCEPT ![r] = 0] /\ admitted' = admitted /\ sessions' = sessions
  /\ IF admitted[r] # None /\ Kind(r) = "rpc"
     THEN NextCall(r, left[r] - 1)
     ELSE Goto(r, "done") /\ UNCHANGED <<left, ran>>

(* ... or is passed: the request goes on to its body or is a session from  *)
(* now on, or its tool runs.  A message needs the bearer of its session.   *)
OwnerOf(s) == Token(s)

Admit(r) ==
  /\ \/ Kind(r) \in {"rpc", "rest"} /\ Goto(r, "body") /\ sessions' = sessions
     \/ Kind(r) = "stream" /\ Goto(r, "open") /\ sessions' = sessions \cup {r}
     \/ /\ Kind(r) = "message" /\ sessions' = sessions
        /\ Goto(r, IF ask[r].to \in sessions /\ OwnerOf(ask[r].to) = Token(r) THEN "body" ELSE "done")
  /\ admitted' = [admitted EXCEPT ![r] = clock] /\ ran' = ran

Pass(r) ==
  /\ readAt' = [readAt EXCEPT ![r] = 0] /\ left' = left
  /\ \/ admitted[r] = None /\ Admit(r)
     \/ /\ admitted[r] # None /\ Goto(r, "run")
        /\ ran' = [ran EXCEPT ![r] = clock] /\ UNCHANGED <<admitted, sessions>>

(* The three reads; each may also fail.                                    *)
ReadToken(r) ==
  /\ At(r, "token")
  /\ \/ /\ Token(r) \in live /\ Goto(r, "user") /\ readAt' = [readAt EXCEPT ![r] = clock]
        /\ UNCHANGED <<admitted, sessions, left, ran>>
     \/ Reject(r)
  /\ UNCHANGED <<clock, rows, ask, ended, racing>>

ReadUser(r) ==
  /\ At(r, "user")
  /\ \/ /\ UserOf[Token(r)] \in users /\ Goto(r, "creds")
        /\ UNCHANGED <<check, sessions, left, ran>>
     \/ Reject(r)
  /\ UNCHANGED <<clock, rows, ask, ended, racing>>

ReadCreds(r) ==
  /\ At(r, "creds")
  /\ \/ UserOf[Token(r)] \in linked /\ Pass(r)
     \/ Reject(r)
  /\ UNCHANGED <<clock, rows, ask, ended, racing>>

(* The body is there, or is none; a message is taken by its session if     *)
(* that is still open, and its tool is checked by the bearer of the stream.*)
ReadBody(r) ==
  /\ At(r, "body")
  /\ \/ Goto(r, "done") /\ UNCHANGED <<left, ran>>
     \/ Kind(r) = "rpc" /\ \E n \in 0..MaxBatch : NextCall(r, n)
     \/ /\ Kind(r) = "rest" \/ (Kind(r) = "message" /\ ask[r].to \in sessions)
        /\ Goto(r, "token") /\ UNCHANGED <<left, ran>>
  /\ UNCHANGED <<clock, rows, sessions, ask, check, ended, racing>>

Finish(r) ==
  /\ At(r, "run")
  /\ IF Kind(r) = "rpc" THEN NextCall(r, left[r] - 1)
     ELSE Goto(r, "done") /\ UNCHANGED <<left, ran>>
  /\ UNCHANGED <<clock, rows, sessions, ask, check, ended, racing>>

(* The client closes its stream, or the connection breaks.                 *)
OthersKept(closed) == sessions     \* faulty: nothing is taken out
Without(closed) == sessions \ closed

Leave(s) ==
  /\ s \in sessions
  /\ sessions' = Without({s}) /\ Goto(s, "done")
  /\ UNCHANGED <<clock, rows, ask, left, check, ran, ended, racing>>

------------------------------------------------------------------------------
(* Ending grants.                                                          *)

(* Takes rows away.                                                        *)
Lose(tokens, holders) ==
  /\ live' = live \ tokens /\ linked' = linked \ holders
  /\ gone' = [t \in Tokens |-> IF t \in live \cap tokens THEN clock ELSE gone[t]]
  /\ cut' = [u \in Users |-> IF u \in linked \cap holders THEN clock ELSE cut[u]]

(* Revoking a token closes nothing unless it is found first.               *)
LookUp(r) ==
  /\ At(r, "lookup")
  /\ Goto(r, IF Token(r) \in live THEN "end" ELSE "done")
  /\ UNCHANGED <<clock, rows, sessions, ask, left, check, ran, ended, racing>>

(* The tokens a request ends: one, those of a client, all of a user.       *)
Ends(r) ==
  {t \in Tokens :
     CASE Kind(r) = "revoke"      -> t = Token(r)
       [] Kind(r) = "revokeGrant" -> UserOf[t] = UserOf[Token(r)] /\ ClientOf[t] = ClientOf[Token(r)]
       [] OTHER                   -> UserOf[t] = UserOf[Token(r)]}

(* The statement that ends them, or its failure.                           *)
End(r) ==
  /\ At(r, "end")
  /\ \/ /\ Goto(r, "walk")
        /\ LET deleted == IF Kind(r) = "delete" THEN {UserOf[Token(r)]} ELSE {} IN
             users' = users \ deleted /\ Lose(Ends(r), deleted)
        /\ ended' = [ended EXCEPT ![r] = Ends(r)]
        /\ racing' = racing \cup {s \in Streams : pc[s] \in {"user", "creds"}}
     \/ Goto(r, "done") /\ UNCHANGED <<rows, ended, racing>>
  /\ UNCHANGED <<clock, sessions, ask, left, check, ran>>

(* closeSessions, on its own pod: the sessions of the user, of one client  *)
(* unless the account is deleted.                                          *)
OfTheClient(r, s) ==     \* faulty: of one client in any case, which deletion does not name
  UserOf[OwnerOf(s)] = UserOf[Token(r)] /\ Kind(r) # "delete" /\ ClientOf[OwnerOf(s)] = ClientOf[Token(r)]
Concerned(r, s) ==
  /\ UserOf[OwnerOf(s)] = UserOf[Token(r)]
  /\ Kind(r) = "delete" \/ ClientOf[OwnerOf(s)] = ClientOf[Token(r)]

Remaining(r) == {s \in sessions : ask[s].pod = ask[r].pod /\ Concerned(r, s)}

(* One of them is closed, and awaited: others come and go meanwhile.  The  *)
(* loop goes over a Map, so it also meets those that have come.            *)
CloseNext(r) ==
  /\ At(r, "walk")
  /\ \E s \in Remaining(r) : sessions' = Without({s}) /\ Goto(s, "done")
  /\ UNCHANGED <<clock, rows, ask, left, check, ran, ended, racing>>

WalkEnds(r) ==
  /\ At(r, "walk") /\ Remaining(r) = {} /\ Goto(r, "closed")
  /\ UNCHANGED <<clock, rows, sessions, ask, left, check, ran, ended, racing>>

(* A token is rotated or expires; credentials are removed, or an account   *)
(* is connected, again if need be.                                         *)
Retire(t) ==
  /\ t \in live /\ Lose({t}, {})
  /\ UNCHANGED <<clock, users, sessions, ask, pc, left, check, ran, ended, racing>>

Unlink(u) ==
  /\ u \in linked /\ Lose({}, {u})
  /\ UNCHANGED <<clock, users, sessions, ask, pc, left, check, ran, ended, racing>>

Link(u) ==
  /\ u \notin linked /\ users' = users \cup {u} /\ linked' = linked \cup {u}
  /\ cut' = [cut EXCEPT ![u] = None]
  /\ UNCHANGED <<clock, live, gone, sessions, ask, pc, left, check, ran, ended, racing>>

Tick ==
  /\ clock < MaxClock
  /\ \A r \in Requests : pc[r] \in {"user", "creds"} => clock - readAt[r] < ReadBound
  /\ clock' = clock + 1
  /\ UNCHANGED <<rows, sessions, ask, pc, left, check, ran, ended, racing>>

Step(r) ==
  \/ Arrive(r) \/ ReadToken(r) \/ ReadUser(r) \/ ReadCreds(r) \/ ReadBody(r) \/ Finish(r)
  \/ LookUp(r) \/ End(r) \/ CloseNext(r) \/ WalkEnds(r)

Next ==
  \/ \E r \in Requests : Step(r) \/ Leave(r)
  \/ \E t \in Tokens : Retire(t)
  \/ \E u \in Users : Unlink(u) \/ Link(u)
  \/ Tick

Spec == Init /\ [][Next]_vars

------------------------------------------------------------------------------
(* What ending a grant is worth.                                           *)

(* However long a batch runs, a stream stays open or a body takes to come, *)
(* and however a grant came to its end: no tool begins on a token later    *)
(* than one admission, and what that may be reused for, after its row or   *)
(* the credentials of its user went.                                       *)
InTime(r, since) == since = None \/ ran[r] < since + ReadBound + REAUTH_AFTER

EndedNotHonoured ==
  \A r \in Requests : At(r, "run") => InTime(r, gone[Token(r)]) /\ InTime(r, cut[UserOf[Token(r)]])

(* When a request that ended grants is answered, no session of theirs is   *)
(* left on its pod, whichever came and went while it closed them, but for  *)
(* a stream that was just being checked when the grants ended.             *)
NoneLeftOpen ==
  \A r \in Requests : \A s \in sessions :
    At(r, "closed") /\ ask[s].pod = ask[r].pod /\ Token(s) \in ended[r] => s \in racing
============================================================================
