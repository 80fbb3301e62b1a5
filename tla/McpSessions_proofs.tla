------------------------- MODULE McpSessions_proofs -------------------------
(***************************************************************************)
(* What TLAPS proves of McpSessions, for any number of users, grants,      *)
(* requests and pods, any batches and however time passes.                 *)
(***************************************************************************)
EXTENDS McpSessions, TLAPS

USE McpSessionsAssumption

------------------------------------------------------------------------------
(* Types, and the course a request of each kind takes.                     *)

Labels_OK(r) ==
  /\ ask[r] = None => pc[r] = "idle"
  /\ ask[r] # None /\ Kind(r) \in {"rpc", "rest", "message"} =>
       pc[r] \in Checking \cup {"idle", "body", "run", "done"}
  /\ ask[r] # None /\ Kind(r) = "stream" => pc[r] \in Checking \cup {"idle", "open", "done"}
  /\ ask[r] # None /\ Kind(r) \in Ending => pc[r] \in {"idle", "lookup", "end", "walk", "closed", "done"}

(* Who has a body or a tool under way was admitted, a stream is checked    *)
(* but once, and a batch that is checked again has calls left.             *)
Locals_OK(r) ==
  /\ pc[r] \in {"body", "run"} => admitted[r] # None
  /\ pc[r] = "idle" => admitted[r] = None
  /\ ask[r] # None /\ Kind(r) = "stream" /\ pc[r] \in Checking => admitted[r] = None
  /\ ask[r] # None /\ Kind(r) = "rpc" =>
       (pc[r] = "run" \/ (pc[r] \in Checking /\ admitted[r] # None) => left[r] > 0)

Course == \A r \in Requests : Labels_OK(r) /\ Locals_OK(r)

LEMMA AskTyped ==
  ASSUME TypeOK, NEW r \in Requests, ask[r] # None
  PROVE  /\ ask[r] \in Ask /\ Kind(r) \in Bearing \cup Ending /\ Token(r) \in Tokens
         /\ UserOf[Token(r)] \in Users
BY DEF TypeOK, Ask, Kind, Token

LEMMA TypeInit == Init => TypeOK /\ Course
BY DEF Init, TypeOK, Course, Labels_OK, Locals_OK, Streams, Kind, Checking

(* A step of one request leaves the others where they are, but for the     *)
(* sessions that CloseNext ends.                                           *)
LEMMA Frame ==
  ASSUME TypeOK, Course, NEW r \in Requests,
         Step(r) \/ Leave(r), ~CloseNext(r)
  PROVE  /\ ask' = ask /\ clock' = clock
         /\ \A q \in Requests \ {r} :
              pc'[q] = pc[q] /\ left'[q] = left[q] /\ admitted'[q] = admitted[q]
              /\ readAt'[q] = readAt[q] /\ ran'[q] = ran[q] /\ ended'[q] = ended[q]
<1> USE DEF TypeOK, Goto, check
<1>1. CASE ReadToken(r) \/ ReadUser(r) \/ ReadCreds(r)
  BY <1>1 DEF ReadToken, ReadUser, ReadCreds, Reject, Pass, Admit, NextCall
<1>2. CASE Arrive(r) \/ ReadBody(r) \/ Finish(r) \/ Leave(r)
  BY <1>2 DEF Arrive, ReadBody, Finish, Leave, NextCall
<1>3. CASE LookUp(r) \/ End(r) \/ WalkEnds(r)
  BY <1>3 DEF LookUp, End, WalkEnds
<1> QED  BY <1>1, <1>2, <1>3 DEF Step

(* Each step keeps the state typed and brings its request on its course.   *)
LEMMA CheckTyped ==
  ASSUME TypeOK, Course, NEW r \in Requests, ReadToken(r) \/ ReadUser(r) \/ ReadCreds(r)
  PROVE  TypeOK' /\ Course'
<1>1. ask[r] # None /\ Kind(r) \in Bearing /\ pc[r] \in Checking
  BY AskTyped DEF Course, Labels_OK, ReadToken, ReadUser, ReadCreds, At, Checking, Bearing, Ending
<1>2. clock \in 0..MaxClock /\ clock' = clock /\ ask' = ask /\ UNCHANGED <<rows, ended, racing>>
  BY DEF ReadToken, ReadUser, ReadCreds, TypeOK
<1>3. /\ pc' \in [Requests -> Checking \cup {"idle", "body", "run", "open", "lookup", "end", "walk",
                                        "closed", "done"}]
      /\ left' \in [Requests -> 0..MaxBatch] /\ readAt' \in [Requests -> 0..MaxClock]
      /\ ran' \in [Requests -> 0..MaxClock] /\ admitted' \in [Requests -> 0..MaxClock \cup {None}]
      /\ sessions' = {s \in Streams : pc'[s] = "open"}
      /\ Labels_OK(r)' /\ Locals_OK(r)'
  <2> USE DEF TypeOK, Goto, check, Checking, Labels_OK, Locals_OK, Course, Kind, Bearing, Ending, At, Streams
  <2>1. CASE ReadToken(r)
    BY <1>1, <1>2, <2>1 DEF ReadToken, Reject, NextCall
  <2>2. CASE ReadUser(r)
    BY <1>1, <1>2, <2>2 DEF ReadUser, Reject, NextCall
  <2>3. CASE ReadCreds(r) /\ Reject(r)
    BY <1>1, <1>2, <2>3 DEF ReadCreds, Reject, NextCall
  <2>4. CASE ReadCreds(r) /\ Pass(r) /\ admitted[r] # None
    BY <1>1, <1>2, <2>4 DEF ReadCreds, Pass, Admit
  <2>5. CASE ReadCreds(r) /\ Pass(r) /\ admitted[r] = None
    BY <1>1, <1>2, <2>5 DEF ReadCreds, Pass, Admit
  <2> QED  BY <2>1, <2>2, <2>3, <2>4, <2>5 DEF ReadCreds
<1>4. ~CloseNext(r)
  BY <1>1 DEF CloseNext, At, Checking
<1>5. \A q \in Requests \ {r} : Labels_OK(q)' /\ Locals_OK(q)'
  BY <1>4, Frame DEF Course, Labels_OK, Locals_OK, Kind, Step
<1> QED  BY <1>2, <1>3, <1>5 DEF TypeOK, Course, Streams, Kind, rows

LEMMA OthersTyped ==
  ASSUME TypeOK, Course, NEW r \in Requests, Arrive(r) \/ ReadBody(r) \/ Finish(r) \/ Leave(r)
  PROVE  TypeOK' /\ Course'
<1>1. ask[r] # None
  BY DEF Course, Labels_OK, Arrive, ReadBody, Finish, Leave, At, TypeOK, Streams
<1>2. /\ clock \in 0..MaxClock /\ clock' = clock /\ ask' = ask
      /\ UNCHANGED <<rows, ended, racing, admitted, readAt>>
  BY DEF Arrive, ReadBody, Finish, Leave, TypeOK, check
<1>3. /\ pc' \in [Requests -> Checking \cup {"idle", "body", "run", "open", "lookup", "end", "walk",
                                        "closed", "done"}]
      /\ left' \in [Requests -> 0..MaxBatch] /\ ran' \in [Requests -> 0..MaxClock]
      /\ sessions' = {s \in Streams : pc'[s] = "open"}
      /\ Labels_OK(r)' /\ Locals_OK(r)'
  <2> USE DEF TypeOK, Goto, check, Checking, Labels_OK, Locals_OK, Course, Kind, Bearing, Ending, At, Streams
  <2>1. CASE Arrive(r)
    BY <1>1, <1>2, <2>1 DEF Arrive
  <2>2. CASE ReadBody(r)
    BY <1>1, <1>2, <2>2 DEF ReadBody, NextCall
  <2>3. CASE Finish(r)
    BY <1>1, <1>2, <2>3 DEF Finish, NextCall
  <2>4. CASE Leave(r)
    BY <1>1, <1>2, <2>4 DEF Leave, Without
  <2> QED  BY <2>1, <2>2, <2>3, <2>4
<1>4. ~CloseNext(r)
  BY DEF Arrive, ReadBody, Finish, Leave, CloseNext, At, TypeOK
<1>5. \A q \in Requests \ {r} : Labels_OK(q)' /\ Locals_OK(q)'
  BY <1>4, Frame DEF Course, Labels_OK, Locals_OK, Kind, Step
<1> QED  BY <1>2, <1>3, <1>5 DEF TypeOK, Course, Streams, Kind, rows

(* The rows that go, and when.                                             *)
LEMMA LoseTyped ==
  ASSUME TypeOK, NEW tokens, NEW holders, Lose(tokens, holders)
  PROVE  /\ gone' \in [Tokens -> 0..MaxClock \cup {None}] /\ cut' \in [Users -> 0..MaxClock \cup {None}]
         /\ live' = {t \in Tokens : gone'[t] = None} /\ linked' = {u \in Users : cut'[u] = None}
         /\ live' = live \ tokens /\ linked' = linked \ holders
         /\ \A t \in Tokens : gone'[t] = gone[t] \/ (gone[t] = None /\ gone'[t] = clock)
         /\ \A u \in Users : cut'[u] = cut[u] \/ (cut[u] = None /\ cut'[u] = clock)
BY DEF Lose, TypeOK

LEMMA EndingTyped ==
  ASSUME TypeOK, Course, NEW r \in Requests, LookUp(r) \/ End(r) \/ WalkEnds(r)
  PROVE  TypeOK' /\ Course'
<1>1. ask[r] # None /\ Kind(r) \in Ending /\ ask[r] \in Ask
  BY AskTyped DEF Course, Labels_OK, LookUp, End, WalkEnds, At, Checking, Bearing, Ending
<1>2. UNCHANGED <<clock, ask, sessions, left, check, ran>>
  BY DEF LookUp, End, WalkEnds
<1>3. /\ pc' \in [Requests -> Checking \cup {"idle", "body", "run", "open", "lookup", "end", "walk",
                                        "closed", "done"}]
      /\ sessions' = {s \in Streams : pc'[s] = "open"}
      /\ Labels_OK(r)' /\ Locals_OK(r)'
  BY <1>1, <1>2 DEF LookUp, End, WalkEnds, At, TypeOK, Goto, Checking, Labels_OK, Locals_OK, Course,
                    Kind, Bearing, Ending, Streams, check
<1>4. /\ users' \subseteq Users /\ live' \subseteq Tokens /\ linked' \subseteq users'
      /\ \A t \in live' : UserOf[t] \in users'
      /\ gone' \in [Tokens -> 0..MaxClock \cup {None}] /\ cut' \in [Users -> 0..MaxClock \cup {None}]
      /\ live' = {t \in Tokens : gone'[t] = None} /\ linked' = {u \in Users : cut'[u] = None}
      /\ ended' \in [Requests -> SUBSET Tokens] /\ racing' \subseteq Streams
  <2>1. CASE UNCHANGED <<rows, ended, racing>>
    BY <2>1 DEF TypeOK, rows
  <2>2. CASE End(r) /\ ~UNCHANGED <<rows, ended, racing>>
    <3> DEFINE deleted == IF Kind(r) = "delete" THEN {UserOf[Token(r)]} ELSE {}
    <3>1. /\ users' = users \ deleted /\ Lose(Ends(r), deleted)
          /\ ended' = [ended EXCEPT ![r] = Ends(r)]
          /\ racing' = racing \cup {s \in Streams : pc[s] \in {"user", "creds"}}
      BY <2>2 DEF End
    <3>2. Kind(r) = "delete" => Ends(r) = {t \in Tokens : UserOf[t] = UserOf[Token(r)]}
      BY DEF Ends
    <3>3. Ends(r) \subseteq Tokens
      BY DEF Ends
    <3> QED  BY <3>1, <3>2, <3>3, LoseTyped DEF TypeOK
  <2> QED  BY <2>1, <2>2 DEF LookUp, End, WalkEnds
<1>5. ~CloseNext(r)
  BY DEF LookUp, End, WalkEnds, CloseNext, At, TypeOK
<1>6. \A q \in Requests \ {r} : Labels_OK(q)' /\ Locals_OK(q)'
  BY <1>5, Frame DEF Course, Labels_OK, Locals_OK, Kind, Step
<1> QED  BY <1>2, <1>3, <1>4, <1>6 DEF TypeOK, Course, Streams, Kind, check

(* A session that is closed is that of an open stream.                     *)
LEMMA CloseTyped ==
  ASSUME TypeOK, Course, NEW r \in Requests, CloseNext(r)
  PROVE  TypeOK' /\ Course'
<1>1. PICK s \in sessions : sessions' = sessions \ {s} /\ pc' = [pc EXCEPT ![s] = "done"]
  BY DEF CloseNext, Remaining, Without, Goto
<1>2. s \in Streams /\ pc[s] = "open"
  BY DEF TypeOK
<1> QED
  BY <1>1, <1>2 DEF CloseNext, TypeOK, Course, Labels_OK, Locals_OK, Streams, Kind, check, rows,
                    Checking, Ending

LEMMA EnvironmentTyped ==
  ASSUME TypeOK, Course,
         (\E t \in Tokens : Retire(t)) \/ (\E u \in Users : Unlink(u) \/ Link(u)) \/ Tick
  PROVE  TypeOK' /\ Course'
<1>1. UNCHANGED <<ask, pc, sessions, left, check, ran, ended, racing>>
  BY DEF Retire, Unlink, Link, Tick
<1>2. Course'
  BY <1>1 DEF Course, Labels_OK, Locals_OK, Kind, check
<1>3. TypeOK'
  <2>1. ASSUME NEW t \in Tokens, Retire(t) PROVE TypeOK'
    BY <1>1, <2>1, LoseTyped DEF Retire, TypeOK, Streams, Kind, check
  <2>2. ASSUME NEW u \in Users, Unlink(u) PROVE TypeOK'
    BY <1>1, <2>2, LoseTyped DEF Unlink, TypeOK, Streams, Kind, check
  <2>3. ASSUME NEW u \in Users, Link(u) PROVE TypeOK'
    BY <1>1, <2>3 DEF Link, TypeOK, Streams, Kind, check
  <2>4. CASE Tick
    BY <1>1, <2>4 DEF Tick, TypeOK, Streams, Kind, check, rows
  <2> QED  BY <2>1, <2>2, <2>3, <2>4
<1> QED  BY <1>2, <1>3

LEMMA TypeNext == TypeOK /\ Course /\ [Next]_vars => TypeOK' /\ Course'
<1>1. CASE UNCHANGED vars
  BY <1>1 DEF vars, rows, check, TypeOK, Course, Labels_OK, Locals_OK, Streams, Kind
<1> QED  BY <1>1, CheckTyped, OthersTyped, EndingTyped, CloseTyped, EnvironmentTyped DEF Next, Step

(* Type correctness: the sessions are the streams that are open, the live  *)
(* tokens those whose users exist.                                         *)
THEOREM TypeCorrect == Spec => []TypeOK
<1>1. Spec => [](TypeOK /\ Course)
  BY TypeInit, TypeNext, PTL DEF Spec
<1> QED  BY <1>1, PTL

------------------------------------------------------------------------------
(* No tool begins on a token that ended too long ago.                      *)

(* A check that has read the token is not over time, and read it before    *)
(* it went; an admission follows such a check at once, and precedes every  *)
(* end of the credentials; so does the beginning of a tool, within what an *)
(* admission may be reused for.                                            *)
Read_OK(r) ==
  pc[r] \in {"user", "creds"} =>
    /\ readAt[r] <= clock /\ clock <= readAt[r] + ReadBound
    /\ gone[Token(r)] = None \/ readAt[r] <= gone[Token(r)]

Admitted_OK(r) ==
  ask[r] # None /\ admitted[r] # None =>
    /\ admitted[r] <= clock
    /\ gone[Token(r)] = None \/ admitted[r] <= gone[Token(r)] + ReadBound
    /\ cut[UserOf[Token(r)]] = None \/ admitted[r] <= cut[UserOf[Token(r)]]

Ran_OK(r) ==
  /\ ran[r] <= clock
  /\ At(r, "run") => InTime(r, gone[Token(r)]) /\ InTime(r, cut[UserOf[Token(r)]])

Times_OK == \A r \in Requests : Read_OK(r) /\ Admitted_OK(r) /\ Ran_OK(r)

LEMMA TimesInit == Init => Times_OK
BY DEF Init, Times_OK, Read_OK, Admitted_OK, Ran_OK, At

(* Rows go at the time, and only credentials come back.                    *)
LEMMA RowsNext ==
  ASSUME TypeOK, Course, Next
  PROVE  /\ \A t \in Tokens : gone'[t] = gone[t] \/ (gone[t] = None /\ gone'[t] = clock)
         /\ \A u \in Users : cut'[u] \in {cut[u], None} \/ (cut[u] = None /\ cut'[u] = clock)
         /\ UNCHANGED rows \/ UNCHANGED clock
<1>1. ASSUME NEW tokens, NEW holders, Lose(tokens, holders)
      PROVE  /\ \A t \in Tokens : gone'[t] = gone[t] \/ (gone[t] = None /\ gone'[t] = clock)
             /\ \A u \in Users : cut'[u] \in {cut[u], None} \/ (cut[u] = None /\ cut'[u] = clock)
  BY <1>1, LoseTyped
<1>2. ASSUME NEW r \in Requests, Step(r) \/ Leave(r), ~End(r) PROVE UNCHANGED rows
  BY <1>2 DEF Step, Arrive, ReadToken, ReadUser, ReadCreds, ReadBody, Finish, LookUp, CloseNext, WalkEnds,
              Leave
<1>3. ASSUME NEW r \in Requests, End(r)
      PROVE UNCHANGED clock /\ (UNCHANGED rows \/ \E tokens, holders : Lose(tokens, holders))
  BY <1>3 DEF End
<1>4. ASSUME NEW u \in Users, Link(u) PROVE cut' = [cut EXCEPT ![u] = None] /\ gone' = gone /\ clock' = clock
  BY <1>4 DEF Link
<1>5. ASSUME NEW t \in Tokens, Retire(t) PROVE Lose({t}, {}) /\ clock' = clock
  BY <1>5 DEF Retire
<1>6. ASSUME NEW u \in Users, Unlink(u) PROVE Lose({}, {u}) /\ clock' = clock
  BY <1>6 DEF Unlink
<1>7. Tick => UNCHANGED rows
  BY DEF Tick
<1>8. UNCHANGED rows => gone' = gone /\ cut' = cut
  BY DEF rows
<1> QED  BY <1>1, <1>2, <1>3, <1>4, <1>5, <1>6, <1>7, <1>8 DEF Next, TypeOK

(* What a request found stays in time while it waits.                      *)
LEMMA TimesKept ==
  ASSUME TypeOK, Course, Next, NEW q \in Requests, Read_OK(q), Admitted_OK(q), Ran_OK(q),
         ask' = ask, clock <= clock', clock' \in Nat,
         pc'[q] = pc[q] \/ pc'[q] \notin {"user", "creds", "run"},
         pc[q] \in {"user", "creds"} => clock' <= readAt[q] + ReadBound,
         admitted'[q] = admitted[q], readAt'[q] = readAt[q], ran'[q] = ran[q]
  PROVE  Read_OK(q)' /\ Admitted_OK(q)' /\ Ran_OK(q)'
<1>1. /\ clock \in Nat /\ readAt[q] \in Nat /\ ran[q] \in Nat /\ admitted[q] \in Nat \cup {None}
      /\ \A t \in Tokens : gone[t] \in Nat \cup {None}
      /\ \A u \in Users : cut[u] \in Nat \cup {None}
  BY DEF TypeOK
<1>2. pc[q] # "idle" => ask[q] # None
  BY DEF Course, Labels_OK
<1>3. CASE ask[q] # None
  <2> DEFINE g == gone[Token(q)]  c == cut[UserOf[Token(q)]]
  <2>1. Token(q)' = Token(q) /\ Token(q) \in Tokens /\ UserOf[Token(q)] \in Users
    BY <1>3, AskTyped DEF Token
  <2>2. (gone'[Token(q)] = g \/ (g = None /\ gone'[Token(q)] = clock))
    BY <2>1, RowsNext
  <2>3. cut'[UserOf[Token(q)]] \in {c, None} \/ (c = None /\ cut'[UserOf[Token(q)]] = clock)
    BY <2>1, RowsNext
  <2>4. g \in Nat \cup {None} /\ c \in Nat \cup {None}
    BY <1>1, <2>1
  <2>5. Read_OK(q)'
    BY <1>1, <2>1, <2>2, <2>4 DEF Read_OK
  <2>6. Admitted_OK(q)'
    BY <1>1, <2>1, <2>2, <2>3, <2>4 DEF Admitted_OK
  <2>7. Ran_OK(q)'
    BY <1>1, <2>1, <2>2, <2>3, <2>4 DEF Ran_OK, At, InTime
  <2> QED  BY <2>5, <2>6, <2>7
<1>4. CASE ask[q] = None
  BY <1>1, <1>2, <1>4 DEF Read_OK, Admitted_OK, Ran_OK, At, Course, Labels_OK
<1> QED  BY <1>3, <1>4

(* The steps of a request that move its own check or tool on.              *)
LEMMA TimesStep ==
  ASSUME TypeOK, Course, NEW r \in Requests, Read_OK(r), Admitted_OK(r), Ran_OK(r),
         ReadToken(r) \/ ReadUser(r) \/ ReadCreds(r) \/ ReadBody(r) \/ Finish(r)
  PROVE  Read_OK(r)' /\ Admitted_OK(r)' /\ Ran_OK(r)'
<1> DEFINE g == gone[Token(r)]  c == cut[UserOf[Token(r)]]
<1>1. /\ ask[r] # None /\ UNCHANGED <<clock, rows, ask>>
      /\ pc[r] \in Checking \cup {"body", "run"} 
  BY DEF Course, Labels_OK, ReadToken, ReadUser, ReadCreds, ReadBody, Finish, At, Checking
<1>2. /\ Token(r) \in Tokens /\ UserOf[Token(r)] \in Users /\ Token(r)' = Token(r) /\ Kind(r)' = Kind(r)
      /\ gone' = gone /\ cut' = cut /\ clock' = clock
  BY <1>1, AskTyped DEF Token, Kind, rows
<1>3. /\ g \in Nat \cup {None} /\ c \in Nat \cup {None} /\ clock \in Nat /\ readAt[r] \in Nat
      /\ ran[r] \in Nat /\ admitted[r] \in Nat \cup {None}
  BY <1>2 DEF TypeOK
<1> USE DEF TypeOK, Goto
<1>4. (* A call that runs on an admission goes by it within its time. *)
      ASSUME NEW n, NextCall(r, n), admitted[r] # None, admitted' = admitted
      PROVE  Read_OK(r)' /\ Admitted_OK(r)' /\ Ran_OK(r)'
  <2>1. /\ pc'[r] \in {"done", "run", "token"}
        /\ pc'[r] = "run" => clock - admitted[r] < REAUTH_AFTER /\ ran'[r] = clock
        /\ ran'[r] \in {ran[r], clock}
    BY <1>4 DEF NextCall, Fresh
  <2>2. Ran_OK(r)'
    BY <1>1, <1>2, <1>3, <1>4, <2>1 DEF Ran_OK, Admitted_OK, At, InTime
  <2>3. Admitted_OK(r)' /\ Read_OK(r)'
    BY <1>1, <1>2, <1>4, <2>1 DEF Read_OK, Admitted_OK
  <2> QED  BY <2>2, <2>3
<1>5. ASSUME Reject(r) PROVE Read_OK(r)' /\ Admitted_OK(r)' /\ Ran_OK(r)'
  <2>1. CASE admitted[r] # None /\ Kind(r) = "rpc"
    BY <1>4, <1>5, <2>1 DEF Reject
  <2>2. CASE ~(admitted[r] # None /\ Kind(r) = "rpc")
    BY <1>1, <1>2, <1>3, <1>5, <2>2 DEF Reject, Read_OK, Admitted_OK, Ran_OK, At
  <2> QED  BY <2>1, <2>2
<1>6. CASE ReadToken(r)
  <2>1. CASE Token(r) \in live /\ Goto(r, "user") /\ readAt' = [readAt EXCEPT ![r] = clock]
             /\ UNCHANGED <<admitted, sessions, left, ran>>
    BY <1>1, <1>2, <1>3, <2>1 DEF Read_OK, Admitted_OK, Ran_OK, At
  <2> QED  BY <1>5, <1>6, <2>1 DEF ReadToken
<1>7. CASE ReadUser(r)
  <2>1. CASE Goto(r, "creds") /\ UNCHANGED <<check, sessions, left, ran>>
    BY <1>1, <1>2, <1>3, <1>7, <2>1 DEF ReadUser, Read_OK, Admitted_OK, Ran_OK, At, check
  <2> QED  BY <1>5, <1>7, <2>1 DEF ReadUser
<1>8. CASE ReadCreds(r)
  <2>1. CASE UserOf[Token(r)] \in linked /\ Pass(r)
    <3>1. c = None /\ (g = None \/ clock <= g + ReadBound)
      BY <1>2, <1>3, <1>8, <2>1 DEF ReadCreds, At, Read_OK
    <3>2. /\ pc'[r] \in {"body", "open", "done", "run"}
          /\ (admitted'[r] = clock /\ ran'[r] = ran[r] /\ pc'[r] # "run")
             \/ (admitted'[r] = admitted[r] /\ ran'[r] = clock)
      BY <2>1 DEF Pass, Admit
    <3>3. Read_OK(r)' /\ Admitted_OK(r)'
      BY <1>1, <1>2, <1>3, <3>1, <3>2 DEF Read_OK, Admitted_OK
    <3>4. Ran_OK(r)'
      BY <1>2, <1>3, <3>1, <3>2 DEF Ran_OK, At, InTime
    <3> QED  BY <3>3, <3>4
  <2> QED  BY <1>5, <1>8, <2>1 DEF ReadCreds
<1>9. CASE ReadBody(r) \/ Finish(r)
  <2>1. admitted[r] # None /\ UNCHANGED check
    BY <1>9 DEF ReadBody, Finish, At, Course, Locals_OK
  <2>2. CASE \E n : NextCall(r, n)
    BY <1>4, <2>1, <2>2 DEF check
  <2>3. CASE (Goto(r, "done") \/ Goto(r, "token")) /\ UNCHANGED <<left, ran>>
    BY <1>1, <1>2, <1>3, <2>1, <2>3 DEF Read_OK, Admitted_OK, Ran_OK, At, check
  <2> QED  BY <1>9, <2>2, <2>3 DEF ReadBody, Finish
<1> QED  BY <1>6, <1>7, <1>8, <1>9

LEMMA TimesNext == TypeOK /\ Course /\ TypeOK' /\ Times_OK /\ [Next]_vars => Times_OK'
<1> SUFFICES ASSUME TypeOK, Course, TypeOK', Times_OK, [Next]_vars PROVE Times_OK'
  OBVIOUS
<1>1. CASE UNCHANGED vars
  BY <1>1 DEF vars, rows, check, Times_OK, Read_OK, Admitted_OK, Ran_OK, At, InTime, Token
<1>2. clock \in Nat /\ clock' \in Nat
  BY DEF TypeOK
<1>3. ASSUME NEW r \in Requests, Step(r) \/ Leave(r), ~CloseNext(r) PROVE Times_OK'
  <2>1. \A q \in Requests \ {r} : Read_OK(q)' /\ Admitted_OK(q)' /\ Ran_OK(q)'
    BY <1>2, <1>3, Frame, TimesKept DEF Times_OK, Next, Read_OK
  <2>2. CASE ReadToken(r) \/ ReadUser(r) \/ ReadCreds(r) \/ ReadBody(r) \/ Finish(r)
    BY <2>1, <2>2, TimesStep DEF Times_OK
  <2>3. CASE Arrive(r) \/ LookUp(r) \/ End(r) \/ WalkEnds(r) \/ Leave(r)
    <3>1. pc'[r] \notin {"user", "creds", "run"} /\ pc[r] \notin {"user", "creds"}
          /\ UNCHANGED <<clock, ask, check, ran>>
      BY <2>3 DEF Arrive, LookUp, End, WalkEnds, Leave, Goto, At, TypeOK, Streams
    <3> QED  BY <1>2, <1>3, <2>1, <3>1, TimesKept DEF Times_OK, Next, check
  <2> QED  BY <1>3, <2>2, <2>3 DEF Step
<1>4. ASSUME NEW r \in Requests, CloseNext(r) PROVE Times_OK'
  <2>1. UNCHANGED <<clock, ask, check, ran>> /\ \A q \in Requests : pc'[q] \in {pc[q], "done"}
    BY <1>4 DEF CloseNext, Goto, TypeOK
  <2> QED  BY <1>2, <1>4, <2>1, TimesKept DEF Times_OK, Next, Step, check, Read_OK
<1>5. CASE (\E t \in Tokens : Retire(t)) \/ (\E u \in Users : Unlink(u) \/ Link(u))
  <2>1. UNCHANGED <<clock, ask, pc, check, ran>>
    BY <1>5 DEF Retire, Unlink, Link
  <2> QED  BY <1>2, <1>5, <2>1, TimesKept DEF Times_OK, Next, check, Read_OK
<1>6. CASE Tick
  <2>1. /\ UNCHANGED <<ask, pc, check, ran>> /\ clock' = clock + 1
        /\ \A q \in Requests : pc[q] \in {"user", "creds"} => clock' <= readAt[q] + ReadBound
    BY <1>6 DEF Tick, TypeOK
  <2> QED  BY <1>2, <1>6, <2>1, TimesKept DEF Times_OK, Next, check
<1> QED  BY <1>1, <1>3, <1>4, <1>5, <1>6 DEF Next

(* No tool begins on a token later than an admission may be reused for     *)
(* after the token, or the credentials of its user, went.                  *)
THEOREM EndedTokensRunNothing == Spec => []EndedNotHonoured
<1>1. Spec => [](TypeOK /\ Course)
  BY TypeInit, TypeNext, PTL DEF Spec
<1>2. Spec => []Times_OK
  BY <1>1, TimesInit, TimesNext, PTL DEF Spec
<1>3. Times_OK => EndedNotHonoured
  BY DEF Times_OK, Ran_OK, EndedNotHonoured
<1> QED  BY <1>2, <1>3, PTL

------------------------------------------------------------------------------
(* Sessions do not outlive the grants that a request ended.                *)

(* What a request has ended stays ended, so that only a stream which had   *)
(* read its token before can still become a session; those that were one   *)
(* are closed by the time the request is done with them.                   *)
Over_OK(r) ==
  /\ ended[r] # {} => pc[r] \in {"walk", "closed"} /\ ask[r] # None /\ ended[r] = Ends(r)
  /\ ended[r] \cap live = {}

Caught_OK(r) ==
  \A s \in Streams : Token(s) \in ended[r] =>
    /\ pc[s] \in {"user", "creds"} => s \in racing
    /\ pc[r] = "closed" /\ s \in sessions /\ ask[s].pod = ask[r].pod => s \in racing

Closed_OK == \A r \in Requests : Over_OK(r) /\ Caught_OK(r)

LEMMA ClosedInit == Init => Closed_OK
BY DEF Init, Closed_OK, Over_OK, Caught_OK

(* closeSessions concerns the sessions of every token that was ended.      *)
LEMMA EndsConcerned ==
  ASSUME NEW r, NEW s, Kind(r) \in Ending, Token(s) \in Ends(r)
  PROVE  Concerned(r, s)
BY DEF Ends, Concerned, OwnerOf, Ending

(* Who writes the history, and which rows come and go.                     *)
LEMMA ClosedFrame ==
  ASSUME TypeOK, Course, Next
  PROVE  /\ ask' = ask /\ live' \subseteq live /\ racing \subseteq racing'
         /\ UNCHANGED <<ended, racing>> \/ \E r \in Requests : End(r)
<1>1. ASSUME NEW r \in Requests, Step(r) \/ Leave(r), ~End(r) PROVE UNCHANGED <<ask, rows, ended, racing>>
  BY <1>1 DEF Step, Arrive, ReadToken, ReadUser, ReadCreds, ReadBody, Finish, LookUp, CloseNext, WalkEnds,
              Leave
<1>2. ASSUME NEW r \in Requests, End(r) PROVE ask' = ask /\ live' \subseteq live /\ racing \subseteq racing'
  BY <1>2 DEF End, Lose, rows
<1>3. CASE (\E t \in Tokens : Retire(t)) \/ (\E u \in Users : Unlink(u) \/ Link(u)) \/ Tick
  BY <1>3 DEF Retire, Unlink, Link, Tick, Lose, rows
<1> QED  BY <1>1, <1>2, <1>3 DEF Next, rows

(* A stream gets on only by its own steps, and reads its token first.      *)
LEMMA StreamStep ==
  ASSUME TypeOK, Course, Next, NEW s \in Streams
  PROVE  /\ pc'[s] \in {"user", "creds"} => pc[s] \in {"user", "creds"} \/ Token(s) \in live
         /\ s \in sessions' => s \in sessions \/ pc[s] = "creds"
<1>1. s \in Requests /\ ask[s] # None /\ Kind(s) = "stream"
  BY DEF Streams
<1>2. pc[s] \in Checking \cup {"idle", "open", "done"} /\ (pc[s] \in Checking => admitted[s] = None)
  BY <1>1 DEF Course, Labels_OK, Locals_OK
<1>3. CASE Step(s) \/ Leave(s)
  BY <1>1, <1>2, <1>3 DEF Step, Arrive, ReadToken, ReadUser, ReadCreds, ReadBody, Finish, LookUp, End, CloseNext,
       WalkEnds, Leave, Reject, Pass, Admit, Goto, At, TypeOK, Without, Checking
<1>4. ASSUME NEW r \in Requests \ {s}, Step(r) \/ Leave(r), ~CloseNext(r)
      PROVE  pc'[s] = pc[s] /\ (s \in sessions' => s \in sessions)
  <2>1. pc'[s] = pc[s]
    BY <1>1, <1>4, Frame
  <2>2. sessions' \subseteq sessions \cup {r}
    BY <1>4 DEF Step, Arrive, ReadToken, ReadUser, ReadCreds, ReadBody, Finish, LookUp, End, WalkEnds,
                Leave, Reject, Pass, Admit, Without, check
  <2> QED  BY <2>1, <2>2, <1>4
<1>5. ASSUME NEW r \in Requests, CloseNext(r)
      PROVE  pc'[s] \in {pc[s], "done"} /\ (s \in sessions' => s \in sessions)
  BY <1>1, <1>5 DEF CloseNext, Goto, Without, TypeOK
<1>6. CASE (\E t \in Tokens : Retire(t)) \/ (\E u \in Users : Unlink(u) \/ Link(u)) \/ Tick
  BY <1>6 DEF Retire, Unlink, Link, Tick
<1> QED  BY <1>1, <1>3, <1>4, <1>5, <1>6 DEF Next

(* A request that has ended grants walks until nothing is left.            *)
LEMMA WalkStep ==
  ASSUME TypeOK, Course, Next, NEW r \in Requests, pc[r] \in {"walk", "closed"}
  PROVE  /\ pc'[r] \in {"walk", "closed"}
         /\ pc[r] = "closed" \/ pc'[r] = "walk" \/ (Remaining(r) = {} /\ sessions' = sessions)
<1>0. r \notin Streams /\ ask[r] # None
  BY DEF Streams, Course, Labels_OK, Checking
<1>1. CASE Step(r) \/ Leave(r)
  BY <1>0, <1>1 DEF Step, Arrive, ReadToken, ReadUser, ReadCreds, ReadBody, Finish, LookUp, End, CloseNext,
       WalkEnds, Leave, Goto, At, TypeOK, Remaining
<1>2. ASSUME NEW q \in Requests \ {r}, Step(q) \/ Leave(q), ~CloseNext(q) PROVE pc'[r] = pc[r]
  BY <1>2, Frame
<1>3. ASSUME NEW q \in Requests, CloseNext(q) PROVE pc'[r] = pc[r]
  BY <1>0, <1>3 DEF CloseNext, Goto, TypeOK, Remaining
<1>4. CASE (\E t \in Tokens : Retire(t)) \/ (\E u \in Users : Unlink(u) \/ Link(u)) \/ Tick
  BY <1>4 DEF Retire, Unlink, Link, Tick
<1> QED  BY <1>1, <1>2, <1>3, <1>4 DEF Next

LEMMA ClosedNext == TypeOK /\ Course /\ TypeOK' /\ Closed_OK /\ [Next]_vars => Closed_OK'
<1> SUFFICES ASSUME TypeOK, Course, TypeOK', Closed_OK, Next PROVE Closed_OK'
  <2>1. UNCHANGED vars /\ Closed_OK => Closed_OK'
    BY DEF vars, rows, Closed_OK, Over_OK, Caught_OK, Streams, Kind, Token, Ends
  <2> QED  BY <2>1
<1>1. /\ ask' = ask /\ live' \subseteq live /\ racing \subseteq racing'
      /\ UNCHANGED <<ended, racing>> \/ \E r \in Requests : End(r)
  BY ClosedFrame
<1>2. Streams' = Streams /\ \A r : Token(r)' = Token(r) /\ Kind(r)' = Kind(r)
  BY <1>1 DEF Streams, Token, Kind
<1>3. \A r : Ends(r)' = Ends(r)
  BY <1>2 DEF Ends
<1>4. ASSUME NEW r \in Requests, ended'[r] = ended[r] PROVE Over_OK(r)' /\ Caught_OK(r)'
  <2>1. Over_OK(r) /\ Caught_OK(r)
    BY DEF Closed_OK
  <2>2. CASE ended[r] = {}
    BY <1>4, <2>2 DEF Over_OK, Caught_OK
  <2>3. CASE ended[r] # {}
    <3>1. pc[r] \in {"walk", "closed"} /\ ask[r] # None /\ ended[r] = Ends(r) /\ ended[r] \cap live = {}
      BY <2>1, <2>3 DEF Over_OK
    <3>2. /\ pc'[r] \in {"walk", "closed"}
          /\ pc[r] = "closed" \/ pc'[r] = "walk" \/ (Remaining(r) = {} /\ sessions' = sessions)
      BY <3>1, WalkStep
    <3>3. Over_OK(r)'
      BY <1>1, <1>3, <1>4, <3>1, <3>2 DEF Over_OK
    <3>4. ASSUME NEW s \in Streams, Token(s) \in ended[r]
          PROVE  /\ pc'[s] \in {"user", "creds"} => s \in racing
                 /\ pc'[r] = "closed" /\ s \in sessions' /\ ask[s].pod = ask[r].pod => s \in racing
      <4>1. /\ pc'[s] \in {"user", "creds"} => pc[s] \in {"user", "creds"} \/ Token(s) \in live
            /\ s \in sessions' => s \in sessions \/ pc[s] = "creds"
        BY StreamStep
      <4>2. Token(s) \notin live
        BY <3>1, <3>4
      <4>3. pc[s] \in {"user", "creds"} => s \in racing
        BY <2>1, <3>4 DEF Caught_OK
      <4>4. ASSUME pc'[r] = "closed", s \in sessions', ask[s].pod = ask[r].pod PROVE s \in racing
        <5>1. CASE pc[r] = "closed"
          BY <2>1, <3>4, <4>1, <4>3, <4>4, <5>1 DEF Caught_OK
        <5>2. CASE Remaining(r) = {} /\ sessions' = sessions
          <6>1. Kind(r) \in Ending
            BY <3>1, AskTyped DEF Course, Labels_OK, Checking, Bearing, Ending
          <6>2. Concerned(r, s)
            BY <3>1, <3>4, <6>1, EndsConcerned
          <6> QED  BY <4>4, <5>2, <6>2 DEF Remaining
        <5> QED  BY <3>2, <4>4, <5>1, <5>2
      <4> QED  BY <4>1, <4>2, <4>3, <4>4
    <3>5. Caught_OK(r)'
      BY <1>1, <1>2, <1>4, <3>4 DEF Caught_OK
    <3> QED  BY <3>3, <3>5
  <2> QED  BY <2>2, <2>3
<1>5. ASSUME NEW r \in Requests, End(r), ended'[r] # ended[r] PROVE Over_OK(r)' /\ Caught_OK(r)'
  <2>1. /\ ask[r] # None /\ pc'[r] = "walk" /\ ended'[r] = Ends(r)
        /\ racing' = racing \cup {s \in Streams : pc[s] \in {"user", "creds"}}
        /\ live' = live \ Ends(r) /\ pc' = [pc EXCEPT ![r] = "walk"]
    BY <1>5 DEF End, Lose, Course, Labels_OK, At, Goto, TypeOK
  <2>2. Over_OK(r)'
    BY <1>1, <1>3, <2>1 DEF Over_OK
  <2>3. Caught_OK(r)'
    BY <1>2, <2>1 DEF Caught_OK, TypeOK
  <2> QED  BY <2>2, <2>3
<1>6. ASSUME NEW r \in Requests, End(r), NEW q \in Requests \ {r} PROVE ended'[q] = ended[q]
  BY <1>6 DEF End, TypeOK
<1> QED  BY <1>1, <1>4, <1>5, <1>6 DEF Closed_OK

(* A request that ended grants is done only when their sessions on its pod *)
(* are closed, but for streams that were being checked at the time.        *)
THEOREM NoSessionOutlivesItsGrant == Spec => []NoneLeftOpen
<1>1. Spec => [](TypeOK /\ Course)
  BY TypeInit, TypeNext, PTL DEF Spec
<1>2. Spec => []Closed_OK
  BY <1>1, ClosedInit, ClosedNext, PTL DEF Spec
<1>3. TypeOK /\ Closed_OK => NoneLeftOpen
  BY DEF Closed_OK, Caught_OK, NoneLeftOpen, TypeOK, At, Streams
<1> QED  BY <1>1, <1>2, <1>3, PTL
============================================================================
