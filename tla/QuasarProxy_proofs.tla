-------------------------- MODULE QuasarProxy_proofs --------------------------
(***************************************************************************)
(* What TLAPS proves of QuasarProxy, for any number of senders, cleaners,  *)
(* pods and speakers: the per-speaker line is exclusive and first come,    *)
(* first served; the user's own scenarios are never touched; and, with one *)
(* pod and no late calls, every trigger speaks its own words.              *)
(***************************************************************************)
EXTENDS QuasarProxy, TLAPS

USE QuasarAssumption

------------------------------------------------------------------------------
(* Types.                                                                  *)

(* What a write may change in the Yandex account: the scenario it names.   *)
LEMMA ApplyKeeps ==
  ASSUME TypeOK, NEW w \in Write, Apply(w)
  PROVE  /\ scen' \in [Ids -> Scenario \cup {None}]
         /\ said' \in [Senders -> SUBSET (Senders \cup {None})]
         /\ left' \in [Cleaners -> SUBSET Ids]
         /\ \A s \in Ids : s # w.id => scen'[s] = scen[s]
<1>1. CASE w.op = "create"
  <2>1. w.by \in Senders /\ w.id \in Ids
    BY <1>1 DEF Write
  <2>2. [device |-> Device[w.by], name |-> "proxy", text |-> None] \in Scenario
    BY <2>1 DEF Scenario, Names
  <2>3. scen' = [scen EXCEPT ![w.id] = [device |-> Device[w.by], name |-> "proxy", text |-> None]]
        /\ said' = said /\ left' = left
    BY <1>1 DEF Apply
  <2> QED  BY <2>1, <2>2, <2>3 DEF TypeOK
<1>2. CASE w.op = "put"
  <2>1. w.by \in Senders /\ w.id \in Ids
    BY <1>2 DEF Write
  <2>2. scen[w.id] \in Scenario
    BY <1>2, <2>1 DEF Apply, Accepted, TypeOK
  <2>3. [scen[w.id] EXCEPT !.name = "proxy", !.text = w.by] \in Scenario
    BY <2>1, <2>2 DEF Scenario, Names
  <2>4. /\ scen' = [scen EXCEPT ![w.id] = [scen[w.id] EXCEPT !.name = "proxy", !.text = w.by]]
        /\ said' = said /\ left' = [c \in Cleaners |-> left[c] \ {w.id}]
    BY <1>2, <2>1 DEF Apply, TypeOK
  <2> QED  BY <2>1, <2>3, <2>4 DEF TypeOK
<1>3. CASE w.op = "trigger"
  <2>1. w.by \in Senders /\ w.id \in Ids
    BY <1>3 DEF Write
  <2>2. scen[w.id] \in Scenario
    BY <1>3, <2>1 DEF Apply, Accepted, TypeOK
  <2>3. scen[w.id].text \in Senders \cup {None}
    BY <2>2 DEF Scenario
  <2> QED  BY <1>3, <2>1, <2>3 DEF Apply, TypeOK
<1>4. CASE w.op = "delete"
  <2>1. w.id \in Ids
    BY <1>4 DEF Write
  <2> QED  BY <1>4, <2>1 DEF Apply, TypeOK
<1> QED  BY <1>1, <1>2, <1>3, <1>4 DEF Write

(* The same for every way a call can end.                                  *)
LEMMA CallKeeps ==
  ASSUME TypeOK, NEW w \in Write,
         Answered(w) \/ Refused(w) \/ Lost(w)
  PROVE  /\ scen' \in [Ids -> Scenario \cup {None}]
         /\ said' \in [Senders -> SUBSET (Senders \cup {None})]
         /\ left' \in [Cleaners -> SUBSET Ids]
         /\ \A s \in Ids : s # w.id => scen'[s] = scen[s]
         /\ limbo' \in {limbo, limbo \cup {w}}
         /\ limbo' \subseteq Write
<1>1. CASE Apply(w) /\ UNCHANGED limbo
  BY <1>1, ApplyKeeps DEF TypeOK
<1>2. CASE UNCHANGED upstream
  BY <1>2 DEF TypeOK, upstream
<1>3. CASE limbo' = limbo \cup {w} /\ UNCHANGED <<scen, said, left>>
  BY <1>3 DEF TypeOK
<1> QED  BY <1>1, <1>2, <1>3 DEF Answered, Refused, Lost

(* The types hold at first.                                                *)
LEMMA TypeInit == Init => TypeOK
<1> SUFFICES ASSUME Init PROVE TypeOK
  OBVIOUS
<1>1. PICK renamed \in SUBSET {s \in Old : owned[Device[s]] = s} :
        scen = [s \in Ids |->
                 IF s \in Senders THEN None
                 ELSE [device |-> Device[s], text |-> None,
                       name |-> IF s \in Foreign \cup renamed THEN "other" ELSE "proxy"]]
  BY DEF Init
<1>2. \A s \in Old \cup Foreign, n \in Names :
        [device |-> Device[s], text |-> None, name |-> n] \in Scenario
  BY DEF Scenario
<1>3. scen \in [Ids -> Scenario \cup {None}]
  BY <1>1, <1>2 DEF Ids, Names
<1> QED  BY <1>3 DEF Init, TypeOK, Ids, Active, InLock



(* Every step keeps the types.                                             *)
LEMMA TypeNext == TypeOK /\ [Next]_vars => TypeOK'
<1> SUFFICES ASSUME TypeOK, [Next]_vars PROVE TypeOK'
  OBVIOUS
<1> USE DEF TypeOK, Active, InLock, Chores, Ended, Goto, upstream, lines, work
<1>1. ASSUME NEW r \in Senders, NEW label \in Ended, Release(r, label)
      PROVE  /\ pc' \in [Senders \cup Cleaners -> Active \cup Chores \cup Ended \cup {"idle"}]
             /\ tail' \in [Pods \X Devices -> Senders \cup {None}]
             /\ prev' = prev /\ ticket' = ticket /\ tickets' = tickets
             /\ \A q \in Senders : pc'[q] \in InLock => pc[q] = pc'[q]
  BY <1>1 DEF Release, TailAfter
<1>2. ASSUME NEW r \in Senders, NEW from, NEW op \in {"create", "put", "trigger"},
             NEW id \in Ids, NEW next \in {"record", "trigger", "done"},
             Call(r, from, op, id, next),
             sid' \in [Senders -> Ids \cup {None}],
             sid'[r] # None, \A q \in Senders : q # r => sid'[q] = sid[q]
      PROVE  TypeOK'
  <2> DEFINE w == [op |-> op, id |-> id, by |-> r]
  <2>1. w \in Write
    BY DEF Write
  <2>2. Answered(w) \/ Refused(w) \/ Lost(w)
    BY <1>2 DEF Call
  <2>3. /\ scen' \in [Ids -> Scenario \cup {None}]
        /\ said' \in [Senders -> SUBSET (Senders \cup {None})]
        /\ left' \in [Cleaners -> SUBSET Ids]
        /\ limbo' \subseteq Write
    BY <2>1, <2>2, CallKeeps
  <2>4. CASE Release(r, "done") \/ Release(r, "failed")
    BY <2>3, <2>4, <1>1, <1>2 DEF Call
  <2>5. CASE Goto(r, next) /\ UNCHANGED lines
    BY <2>3, <2>5, <1>2 DEF Call
  <2> QED  BY <1>2, <2>4, <2>5 DEF Call
<1>3. ASSUME NEW r \in Senders, Enqueue(r) PROVE TypeOK'
  BY <1>3 DEF Enqueue, Key
<1>4. ASSUME NEW r \in Senders, Acquire(r) PROVE TypeOK'
  BY <1>4 DEF Acquire
<1>5. ASSUME NEW r \in Senders, List(r) PROVE TypeOK'
  <2>1. {<<s, scen[s].name>> : s \in {i \in Ids : scen[i] # None}} \in SUBSET (Ids \X Names)
    BY DEF Scenario
  <2> QED  BY <1>5, <2>1 DEF List
<1>6. ASSUME NEW r \in Senders, NotRead(r) PROVE TypeOK'
  BY <1>6, <1>1 DEF NotRead
<1>7. ASSUME NEW r \in Senders, Adopt(r) PROVE TypeOK'
  <2> DEFINE choices == IF \E n \in Names : <<owned[Device[r]], n>> \in seen[r]
                        THEN {owned[Device[r]]} ELSE Named(r)
  <2>1. seen[r] \subseteq Ids \X Names
    OBVIOUS
  <2>2. \A s, n : <<s, n>> \in Ids \X Names => s \in Ids
    OBVIOUS
  <2>3. choices \subseteq Ids
    BY <2>1, <2>2 DEF Named
  <2>4. CASE \E s \in choices : sid' = [sid EXCEPT ![r] = s] /\ Goto(r, "record")
    <3>1. PICK s \in Ids : sid' = [sid EXCEPT ![r] = s] /\ pc' = [pc EXCEPT ![r] = "record"]
      BY <2>3, <2>4
    <3>2. s # None
      BY <3>1
    <3> QED  BY <1>7, <3>1, <3>2 DEF Adopt
  <2>5. CASE UNCHANGED sid /\ Goto(r, "create")
    BY <1>7, <2>5 DEF Adopt
  <2> HIDE DEF choices
  <2> QED  BY <1>7, <2>4, <2>5 DEF Adopt, choices
<1>8. ASSUME NEW r \in Senders, Create(r) PROVE TypeOK'
  BY <1>8, <1>2 DEF Create, Ids
<1>9. ASSUME NEW r \in Senders, Record(r) PROVE TypeOK'
  BY <1>9 DEF Record, Ids
<1>10. ASSUME NEW r \in Senders, Put(r) PROVE TypeOK'
  <2>1. pc[r] = "put"
    BY <1>10 DEF Put, Call
  <2> QED  BY <1>10, <1>2, <2>1 DEF Put
<1>11. ASSUME NEW r \in Senders, Trigger(r) PROVE TypeOK'
  <2>1. pc[r] = "trigger"
    BY <1>11 DEF Trigger, Call
  <2> QED  BY <1>11, <1>2, <2>1 DEF Trigger
<1>12. ASSUME NEW c \in Cleaners, StartClean(c) PROVE TypeOK'
  BY <1>12 DEF StartClean, Proxies
<1>13. ASSUME NEW c \in Cleaners, Count(c) PROVE TypeOK'
  BY <1>13 DEF Count, Proxies
<1>14. ASSUME NEW c \in Cleaners, ListRecorded(c) PROVE TypeOK'
  BY <1>14 DEF ListRecorded, Ids
<1>15. ASSUME NEW c \in Cleaners, ListAll(c) PROVE TypeOK'
  BY <1>15 DEF ListAll, Ours
<1>16. ASSUME NEW c \in Cleaners, Delete(c) PROVE TypeOK'
  <2>1. PICK s \in todo[c] :
          LET w == [op |-> "delete", id |-> s, by |-> c]
          IN /\ todo' = [todo EXCEPT ![c] = @ \ {s}]
             /\ \/ Answered(w) /\ UNCHANGED bad
                \/ (Refused(w) \/ Lost(w)) /\ bad' = [bad EXCEPT ![c] = FailureCounted(c)]
    BY <1>16 DEF Delete
  <2> DEFINE w == [op |-> "delete", id |-> s, by |-> c]
  <2>2. w \in Write
    BY DEF Write
  <2>3. /\ scen' \in [Ids -> Scenario \cup {None}]
        /\ said' \in [Senders -> SUBSET (Senders \cup {None})]
        /\ left' \in [Cleaners -> SUBSET Ids]
        /\ limbo' \subseteq Write
    BY <2>1, <2>2, CallKeeps
  <2> QED  BY <1>16, <2>1, <2>3 DEF Delete, FailureCounted
<1>17. ASSUME NEW c \in Cleaners, Swept(c) \/ GiveUp(c) PROVE TypeOK'
  BY <1>17 DEF Swept, GiveUp
<1>18. ASSUME NEW c \in Cleaners, Forget(c) \/ Unlink(c) \/ ForgetAgain(c) PROVE TypeOK'
  <2>1. Nothing \in [Devices -> Ids \cup {None}]
    BY DEF Nothing
  <2>2. CASE Forget(c)
    BY <2>1, <2>2 DEF Forget
  <2>3. CASE Unlink(c)
    <3>1. owned' \in [Devices -> Ids \cup {None}]
      BY <2>1, <2>3 DEF Unlink
    <3>2. \E label \in {"done", "forgetAgain"} : pc' = [pc EXCEPT ![c] = label]
      BY <2>3 DEF Unlink
    <3> QED  BY <2>3, <3>1, <3>2 DEF Unlink
  <2>4. CASE ForgetAgain(c)
    BY <2>1, <2>4 DEF ForgetAgain
  <2> QED  BY <1>18, <2>2, <2>3, <2>4
<1>19. ASSUME NEW w \in limbo, Land(w) PROVE TypeOK'
  <2>1. w \in Write
    OBVIOUS
  <2>2. /\ scen' \in [Ids -> Scenario \cup {None}]
        /\ said' \in [Senders -> SUBSET (Senders \cup {None})]
        /\ left' \in [Cleaners -> SUBSET Ids]
    BY <1>19, <2>1, ApplyKeeps DEF Land
  <2> QED  BY <1>19, <2>2 DEF Land
<1>20. ASSUME NEW s \in Ids, Rename(s) PROVE TypeOK'
  <2>1. [scen[s] EXCEPT !.name = "other"] \in Scenario
    BY <1>20 DEF Rename, Scenario, Names
  <2>2. scen' = [scen EXCEPT ![s] = [scen[s] EXCEPT !.name = "other"]]
    BY <1>20 DEF Rename
  <2> QED  BY <1>20, <2>1, <2>2 DEF Rename
<1>21. ASSUME NEW p \in Pods, Crash(p) PROVE TypeOK'
  BY <1>21 DEF Crash
<1>22. CASE UNCHANGED vars
  BY <1>22 DEF vars
<1> QED
  BY <1>3, <1>4, <1>5, <1>6, <1>7, <1>8, <1>9, <1>10, <1>11, <1>12, <1>13, <1>14, <1>15, <1>16,
     <1>17, <1>18, <1>19, <1>20, <1>21, <1>22 DEF Next, Send, Clean

(* The declared types hold in every reachable state.                       *)
THEOREM TypeCorrect == Spec => []TypeOK
BY TypeInit, TypeNext, PTL DEF Spec

------------------------------------------------------------------------------
(* The line of a speaker.  Whoever is in line knows the sender just before *)
(* it, and the tail is the last one.                                       *)
Line ==
  /\ \A r \in Senders : pc[r] \in Active =>
       /\ ticket[r] <= tickets
       /\ tail[Key(r)] \in Senders
       /\ pc[tail[Key(r)]] \in Active
       /\ Key(tail[Key(r)]) = Key(r)
       /\ ticket[r] <= ticket[tail[Key(r)]]
  /\ \A r, q \in Senders :
       pc[r] \in Active /\ pc[q] \in Active /\ Key(r) = Key(q) /\ r # q =>
         /\ ticket[r] # ticket[q]
         /\ ticket[r] < ticket[q] =>
              /\ pc[q] = "waiting"
              /\ prev[q] \in Senders /\ pc[prev[q]] \in Active
              /\ Key(prev[q]) = Key(q)
              /\ ticket[r] <= ticket[prev[q]] /\ ticket[prev[q]] < ticket[q]

(* A key is a pod and a speaker.                                           *)
LEMMA KeyType == \A r \in Senders : Key(r) \in Pods \X Devices /\ Key(r)[1] = Pod[r]
BY DEF Key, Ids

(* The line does not see what a sender does between its list and its       *)
(* trigger, nor what the cleaners do.                                      *)
LEMMA LineUnseen ==
  ASSUME Line, UNCHANGED lines,
         \A q \in Senders : /\ pc'[q] \in Active <=> pc[q] \in Active
                            /\ pc'[q] = "waiting" <=> pc[q] = "waiting"
  PROVE  Line'
<1> SUFFICES ASSUME UNCHANGED <<tail, prev, ticket, tickets>>,
                    \A q \in Senders : Key(q)' = Key(q)
             PROVE  Line'
  BY DEF lines, Key
<1>1. \A q \in Senders : tail[Key(q)] \in Senders =>
        (pc'[tail[Key(q)]] \in Active <=> pc[tail[Key(q)]] \in Active)
  OBVIOUS
<1>2. \A q \in Senders : prev[q] \in Senders =>
        (pc'[prev[q]] \in Active <=> pc[prev[q]] \in Active)
  OBVIOUS
<1> QED  BY <1>1, <1>2 DEF Line, Key

(* A sender that joins becomes the tail.                                   *)
LEMMA LineGrows ==
  ASSUME TypeOK, Line, NEW q \in Senders, Enqueue(q)
  PROVE  Line'
<1> DEFINE k == Key(q)
<1>1. /\ pc[q] = "idle" /\ pc[q] \notin Active
      /\ pc' = [pc EXCEPT ![q] = "waiting"]
      /\ prev' = [prev EXCEPT ![q] = tail[k]]
      /\ tail' = [tail EXCEPT ![k] = q]
      /\ tickets' = tickets + 1
      /\ ticket' = [ticket EXCEPT ![q] = tickets + 1]
  BY DEF Enqueue, Goto, Active, InLock
<1>2. \A r \in Senders : Key(r) \in Pods \X Devices
  BY KeyType
<1>3. /\ tickets \in Nat /\ ticket \in [Senders -> Nat] /\ tail \in [Pods \X Devices -> Senders \cup {None}]
      /\ prev \in [Senders -> Senders \cup {None}]
      /\ \A r \in Senders : r # q => pc'[r] = pc[r] /\ ticket'[r] = ticket[r] /\ prev'[r] = prev[r]
      /\ pc'[q] = "waiting" /\ ticket'[q] = tickets + 1 /\ prev'[q] = tail[k]
      /\ \A j \in Pods \X Devices : tail'[j] = IF j = k THEN q ELSE tail[j]
  BY <1>1, <1>2 DEF TypeOK
<1>4. "waiting" \in Active
  BY DEF Active
<1> HIDE DEF k
<1>5. \A r \in Senders : pc'[r] \in Active =>
        /\ ticket'[r] <= tickets'
        /\ tail'[Key(r)] \in Senders
        /\ pc'[tail'[Key(r)]] \in Active
        /\ Key(tail'[Key(r)]) = Key(r)
        /\ ticket'[r] <= ticket'[tail'[Key(r)]]
  <2> SUFFICES ASSUME NEW r \in Senders, pc'[r] \in Active
               PROVE  /\ ticket'[r] <= tickets'
                      /\ tail'[Key(r)] \in Senders
                      /\ pc'[tail'[Key(r)]] \in Active
                      /\ Key(tail'[Key(r)]) = Key(r)
                      /\ ticket'[r] <= ticket'[tail'[Key(r)]]
    OBVIOUS
  <2>1. CASE r = q
    BY <1>1, <1>2, <1>3, <1>4, <2>1 DEF k
  <2>2. CASE r # q /\ Key(r) = k
    BY <1>1, <1>2, <1>3, <1>4, <2>2 DEF k, Line
  <2>3. CASE r # q /\ Key(r) # k
    <3>1. pc[r] \in Active /\ tail'[Key(r)] = tail[Key(r)]
      BY <1>2, <1>3, <2>3
    <3>2. tail[Key(r)] \in Senders /\ tail[Key(r)] # q
      BY <3>1, <1>1 DEF Line
    <3> QED  BY <1>1, <1>3, <3>1, <3>2, <2>3 DEF Line
  <2> QED  BY <2>1, <2>2, <2>3
<1>6. ASSUME NEW r \in Senders, NEW t \in Senders,
             pc'[r] \in Active, pc'[t] \in Active, Key(r) = Key(t), r # t
      PROVE  /\ ticket'[r] # ticket'[t]
             /\ ticket'[r] < ticket'[t] =>
                  /\ pc'[t] = "waiting"
                  /\ prev'[t] \in Senders /\ pc'[prev'[t]] \in Active
                  /\ Key(prev'[t]) = Key(t)
                  /\ ticket'[r] <= ticket'[prev'[t]] /\ ticket'[prev'[t]] < ticket'[t]
  <2>1. CASE t = q
    <3>1. pc[r] \in Active
      BY <1>3, <1>6, <2>1
    <3>2. /\ tail[k] \in Senders /\ pc[tail[k]] \in Active /\ Key(tail[k]) = k
          /\ ticket[r] <= ticket[tail[k]] /\ ticket[r] <= tickets
      BY <3>1, <1>6, <2>1 DEF Line, k
    <3>3. tail[k] # q /\ ticket[tail[k]] <= tickets
      BY <3>2, <1>1 DEF Line
    <3> QED  BY <1>1, <1>3, <1>6, <2>1, <3>1, <3>2, <3>3 DEF k
  <2>2. CASE r = q
    <3>1. pc[t] \in Active /\ ticket[t] <= tickets
      BY <1>3, <1>6, <2>2 DEF Line
    <3> QED  BY <1>3, <1>6, <2>2, <3>1
  <2>3. CASE r # q /\ t # q
    <3>1. pc[r] \in Active /\ pc[t] \in Active
      BY <1>3, <1>6, <2>3
    <3>2. ticket[r] < ticket[t] => prev[t] # q
      BY <3>1, <1>6, <1>1 DEF Line
    <3> QED  BY <1>3, <1>6, <2>3, <3>1, <3>2 DEF Line
  <2> QED  BY <2>1, <2>2, <2>3
<1> QED  BY <1>5, <1>6 DEF Line, Key

(* The first in line enters: nobody with an earlier ticket is there.       *)
LEMMA LineEntered ==
  ASSUME TypeOK, Line, NEW q \in Senders, Acquire(q)
  PROVE  Line'
<1>1. /\ pc[q] = "waiting" /\ pc' = [pc EXCEPT ![q] = "list"]
      /\ UNCHANGED <<tail, prev, ticket, tickets>>
      /\ prev[q] # None => pc[prev[q]] \in Ended
  BY DEF Acquire, Goto, Released, lines
<1>2. prev[q] \in Senders => pc[prev[q]] \notin Active
  BY <1>1 DEF Ended, Active, InLock, Ids
<1>3. \A r \in Senders : pc'[r] \in Active <=> pc[r] \in Active
  BY <1>1 DEF TypeOK, Active, InLock
<1>4. \A r \in Senders : r # q => pc'[r] = pc[r]
  BY <1>1 DEF TypeOK
<1>5. \A r \in Senders : pc[r] \in Active /\ Key(r) = Key(q) /\ r # q => ~(ticket[r] < ticket[q])
  BY <1>1, <1>2 DEF Line, Active
<1> QED  BY <1>1, <1>3, <1>4, <1>5 DEF Line, Key

(* Whoever releases the line was the first in it.                          *)
LEMMA LineShrinks ==
  ASSUME TypeOK, Line, NEW q \in Senders, pc[q] \in InLock,
         NEW label \in Ended, Release(q, label)
  PROVE  Line'
<1>1. /\ pc' = [pc EXCEPT ![q] = label] /\ UNCHANGED <<prev, ticket, tickets>>
      /\ tail' = [tail EXCEPT ![Key(q)] = IF tail[Key(q)] = q THEN None ELSE tail[Key(q)]]
  BY DEF Release, Goto, TailAfter
<1>2. \A r \in Senders : Key(r) \in Pods \X Devices
  BY KeyType
<1>3. pc[q] \in Active /\ pc[q] # "waiting" /\ label \notin Active
  BY DEF Ended, Active, InLock
<1>4. /\ ticket \in [Senders -> Nat] /\ pc'[q] \notin Active
      /\ \A r \in Senders : r # q => pc'[r] = pc[r]
      /\ \A j \in Pods \X Devices :
           tail'[j] = IF j = Key(q) /\ tail[j] = q THEN None ELSE tail[j]
  BY <1>1, <1>2, <1>3 DEF TypeOK
<1>5. \A r \in Senders : pc[r] \in Active /\ Key(r) = Key(q) /\ r # q => ticket[q] < ticket[r]
  BY <1>3, <1>4 DEF Line
<1>6. ASSUME NEW r \in Senders, pc'[r] \in Active
      PROVE  /\ ticket'[r] <= tickets'
             /\ tail'[Key(r)] \in Senders
             /\ pc'[tail'[Key(r)]] \in Active
             /\ Key(tail'[Key(r)]) = Key(r)
             /\ ticket'[r] <= ticket'[tail'[Key(r)]]
  <2>1. r # q /\ pc[r] \in Active
    BY <1>4, <1>6
  <2>2. tail[Key(r)] # q
    BY <1>4, <1>5, <2>1 DEF Line
  <2> QED  BY <1>1, <1>2, <1>4, <2>1, <2>2 DEF Line
<1>7. ASSUME NEW r \in Senders, NEW t \in Senders,
             pc'[r] \in Active, pc'[t] \in Active, Key(r) = Key(t), r # t
      PROVE  /\ ticket'[r] # ticket'[t]
             /\ ticket'[r] < ticket'[t] =>
                  /\ pc'[t] = "waiting"
                  /\ prev'[t] \in Senders /\ pc'[prev'[t]] \in Active
                  /\ Key(prev'[t]) = Key(t)
                  /\ ticket'[r] <= ticket'[prev'[t]] /\ ticket'[prev'[t]] < ticket'[t]
  <2>1. r # q /\ t # q /\ pc[r] \in Active /\ pc[t] \in Active
    BY <1>4, <1>7
  <2>2. ticket[r] < ticket[t] => prev[t] # q
    BY <1>4, <1>5, <1>7, <2>1 DEF Line
  <2> QED  BY <1>1, <1>4, <1>7, <2>1, <2>2 DEF Line
<1> QED  BY <1>6, <1>7 DEF Line, Key

(* With a pod, its lines are gone, and nobody is left in them.             *)
LEMMA LineLost ==
  ASSUME TypeOK, Line, NEW p \in Pods, Crash(p)
  PROVE  Line'
<1>1. /\ pc' = [q \in Senders \cup Cleaners |->
                  IF q \in Senders /\ Pod[q] = p /\ pc[q] \in Active THEN "dead" ELSE pc[q]]
      /\ tail' = [k \in Pods \X Devices |-> IF k[1] = p THEN None ELSE tail[k]]
      /\ UNCHANGED <<prev, ticket, tickets>>
  BY DEF Crash
<1>2. "dead" \notin Active
  BY DEF Active, InLock
<1>3. \A r \in Senders : pc'[r] \in Active => Pod[r] # p /\ pc'[r] = pc[r]
  BY <1>1, <1>2
<1>4. \A r \in Senders : Key(r) \in Pods \X Devices /\ Key(r)[1] = Pod[r]
  BY KeyType
<1>5. \A r \in Senders : Pod[r] # p => tail'[Key(r)] = tail[Key(r)] /\ pc'[r] = pc[r]
  BY <1>1, <1>4
<1>6. \A r, q \in Senders : Key(r) = Key(q) => Pod[r] = Pod[q]
  BY <1>4
<1> QED  BY <1>1, <1>3, <1>5, <1>6 DEF Line, Key

(* Every scenario the server knows as its own acts on the right speaker    *)
(* and is none of the user's.                                              *)
Known ==
  /\ \A d \in Devices : owned[d] # None => owned[d] \notin Foreign /\ Device[owned[d]] = d
  /\ \A r \in Senders : sid[r] # None => sid[r] \notin Foreign /\ Device[sid[r]] = Device[r]
  /\ \A s \in Foreign : scen[s] # None /\ scen[s].name = "other"
  /\ \A r \in Senders, s \in Foreign : <<s, "proxy">> \notin seen[r]
  /\ \A c \in Cleaners : todo[c] \cap Foreign = {}
  /\ \A w \in limbo : w.id \notin Foreign

(* Between its PUT and its trigger, a sender's scenario holds its words.   *)
Written ==
  /\ limbo = {}
  /\ \A r \in Senders :
       pc[r] = "trigger" => scen[sid[r]] = None \/ scen[sid[r]].text = r
  /\ OwnWords

------------------------------------------------------------------------------
(* The line, for every step.                                               *)
LEMMA LineNext == TypeOK /\ Line /\ [Next]_vars => Line'
<1> SUFFICES ASSUME TypeOK, Line, [Next]_vars PROVE Line'
  OBVIOUS
<1>1. ASSUME NEW r \in Senders, NEW from \in InLock, NEW op, NEW id,
             NEW next \in {"record", "trigger", "done"}, Call(r, from, op, id, next)
      PROVE  Line'
  <2>1. pc[r] \in InLock
    BY <1>1 DEF Call
  <2>2. CASE Release(r, "done") \/ Release(r, "failed")
    BY <2>1, <2>2, LineShrinks DEF Ended
  <2>3. CASE Goto(r, next) /\ UNCHANGED lines /\ next # "done"
    <3>1. pc' = [pc EXCEPT ![r] = next] /\ next \in InLock
      BY <1>1, <2>3 DEF Goto, InLock
    <3> QED  BY <2>1, <2>3, <3>1, LineUnseen DEF TypeOK, Active, InLock
  <2> QED  BY <1>1, <2>2, <2>3 DEF Call
<1>2. ASSUME NEW r \in Senders, Enqueue(r) PROVE Line'
  BY <1>2, LineGrows
<1>3. ASSUME NEW r \in Senders, Send(r) PROVE Line'
  <2>1. CASE Acquire(r)
    BY <2>1, LineEntered
  <2>2. CASE NotRead(r)
    BY <2>2, LineShrinks DEF NotRead, InLock, Ended
  <2>3. CASE List(r) \/ Adopt(r) \/ Record(r)
    <3>1. pc[r] \in InLock /\ UNCHANGED lines
      BY <2>3 DEF List, Adopt, Record, InLock
    <3>2. \E next \in InLock : pc' = [pc EXCEPT ![r] = next]
      BY <2>3 DEF List, Adopt, Record, Goto, InLock
    <3> QED  BY <3>1, <3>2, LineUnseen DEF TypeOK, Active, InLock
  <2>4. CASE Create(r)
    BY <2>4, <1>1 DEF Create, InLock
  <2>5. CASE Put(r)
    BY <2>5, <1>1 DEF Put, InLock
  <2>6. CASE Trigger(r)
    BY <2>6, <1>1 DEF Trigger, InLock
  <2> QED  BY <1>3, <2>1, <2>2, <2>3, <2>4, <2>5, <2>6 DEF Send
<1>4. ASSUME NEW c \in Cleaners, StartClean(c) \/ Clean(c) PROVE Line'
  <2>1. UNCHANGED lines
    BY <1>4 DEF StartClean, Clean, Count, ListRecorded, ListAll, Delete, Swept, GiveUp, Forget,
                Unlink, ForgetAgain
  <2>2. pc' = pc \/ \E label : pc' = [pc EXCEPT ![c] = label]
    BY <1>4 DEF StartClean, Clean, Count, ListRecorded, ListAll, Delete, Swept, GiveUp, Forget,
                Unlink, ForgetAgain, Goto
  <2>3. \A q \in Senders : pc'[q] = pc[q]
    BY <2>2 DEF TypeOK
  <2> QED  BY <2>1, <2>3, LineUnseen
<1>5. ASSUME NEW w \in limbo, Land(w) PROVE Line'
  BY <1>5, LineUnseen DEF Land
<1>6. ASSUME NEW s \in Ids, Rename(s) PROVE Line'
  BY <1>6, LineUnseen DEF Rename
<1>7. ASSUME NEW p \in Pods, Crash(p) PROVE Line'
  BY <1>7, LineLost
<1>8. CASE UNCHANGED vars
  BY <1>8, LineUnseen DEF vars, lines
<1> QED  BY <1>2, <1>3, <1>4, <1>5, <1>6, <1>7, <1>8 DEF Next

(* The line is sound in every reachable state.                             *)
LEMMA LineCorrect == Spec => [](TypeOK /\ Line)
<1>1. Init => Line
  BY DEF Init, Line, Active, InLock
<1> QED  BY <1>1, TypeInit, TypeNext, LineNext, PTL DEF Spec

(* Between list and trigger there is one sender per pod and speaker: the   *)
(* promise chain of runWithLock excludes all others, whatever fails.       *)
THEOREM OneAtATime == Spec => []Exclusive
<1>1. TypeOK /\ Line => Exclusive
  <2> SUFFICES ASSUME TypeOK, Line, NEW r \in Senders, NEW q \in Senders,
                      pc[r] \in InLock, pc[q] \in InLock, Key(r) = Key(q), r # q
               PROVE  FALSE
    BY DEF Exclusive
  <2>1. ticket[r] \in Nat /\ ticket[q] \in Nat
    BY DEF TypeOK
  <2>2. pc[r] \in Active /\ pc[q] \in Active /\ pc[r] # "waiting" /\ pc[q] # "waiting"
    BY DEF Active, InLock
  <2>3. ticket[r] # ticket[q] /\ ~(ticket[r] < ticket[q]) /\ ~(ticket[q] < ticket[r])
    BY <2>2 DEF Line
  <2> QED  BY <2>1, <2>3
<1> QED  BY <1>1, LineCorrect, PTL

(* Requests for one speaker are served in the order they came: runWithLock *)
(* never lets a later one enter while an earlier one is in line.           *)
THEOREM FirstComeFirstServed == Spec => []InTurn
<1>1. TypeOK /\ Line => InTurn
  <2> SUFFICES ASSUME TypeOK, Line, NEW r \in Senders, NEW q \in Senders,
                      Key(r) = Key(q), pc[r] \in Active, pc[q] \in Active, ticket[r] < ticket[q]
               PROVE  pc[q] = "waiting"
    BY DEF InTurn
  <2>1. r # q
    BY DEF TypeOK
  <2> QED  BY <2>1 DEF Line
<1> QED  BY <1>1, LineCorrect, PTL
------------------------------------------------------------------------------
(* A step that leaves the user's scenarios alone, and learns of none.      *)
LEMMA KnownUnseen ==
  ASSUME TypeOK, Known,
         \A s \in Foreign : scen'[s] = scen[s],
         UNCHANGED <<owned, sid, seen>>,
         \A c \in Cleaners : todo'[c] \cap Foreign = {},
         \A w \in limbo' : w.id \notin Foreign
  PROVE  Known'
BY DEF Known

(* No step writes to or deletes a scenario of the user's, and what the     *)
(* server holds as its own stays its own.                                  *)
LEMMA KnownNext ==
  TypeOK /\ Known /\ [Next]_vars => Known' /\ \A s \in Foreign : scen'[s] = scen[s]
<1> SUFFICES ASSUME TypeOK, Known, [Next]_vars
             PROVE  Known' /\ \A s \in Foreign : scen'[s] = scen[s]
  OBVIOUS
<1> DEFINE Kept == \A s \in Foreign : scen'[s] = scen[s]
<1>1. ASSUME NEW r \in Senders, NEW from, NEW op \in {"create", "put", "trigger"},
             NEW id \in Ids \ Foreign, NEW next, Call(r, from, op, id, next)
      PROVE  Kept /\ (\A w \in limbo' : w.id \notin Foreign)
             /\ UNCHANGED <<owned, seen, todo>>
  <2> DEFINE w == [op |-> op, id |-> id, by |-> r]
  <2>1. w \in Write
    BY DEF Write
  <2>2. Answered(w) \/ Refused(w) \/ Lost(w)
    BY <1>1 DEF Call
  <2>3. (\A s \in Ids : s # w.id => scen'[s] = scen[s]) /\ limbo' \in {limbo, limbo \cup {w}}
    BY <2>1, <2>2, CallKeeps
  <2> QED  BY <1>1, <2>3 DEF Call, Known, Ids
<1>2. ASSUME NEW r \in Senders, Send(r) \/ Enqueue(r) PROVE Known' /\ Kept
  <2>1. CASE Enqueue(r) \/ Acquire(r) \/ NotRead(r)
    BY <2>1, KnownUnseen DEF Enqueue, Acquire, NotRead, upstream, work, Known
  <2>2. CASE List(r)
    <3> DEFINE shown == {<<s, scen[s].name>> : s \in {i \in Ids : scen[i] # None}}
    <3>1. \A s \in Foreign : <<s, "proxy">> \notin shown
      BY DEF Known
    <3>2. seen' = [seen EXCEPT ![r] = shown] /\ UNCHANGED <<upstream, owned, sid, todo>>
      BY <2>2 DEF List
    <3> HIDE DEF shown
    <3>3. \A q \in Senders, s \in Foreign : <<s, "proxy">> \notin seen'[q]
      <4> SUFFICES ASSUME NEW q \in Senders, NEW s \in Foreign
                   PROVE  <<s, "proxy">> \notin seen'[q]
        OBVIOUS
      <4>1. CASE q = r
        BY <3>1, <3>2, <4>1 DEF TypeOK
      <4>2. CASE q # r
        BY <3>2, <4>2 DEF TypeOK, Known
      <4> QED  BY <4>1, <4>2
    <3> QED  BY <3>2, <3>3 DEF Known, upstream
  <2>3. CASE Adopt(r)
    <3> DEFINE choices == IF \E n \in Names : <<owned[Device[r]], n>> \in seen[r]
                          THEN {owned[Device[r]]} ELSE Named(r)
    <3>1. UNCHANGED <<upstream, owned, seen, todo>>
      BY <2>3 DEF Adopt, lines
    <3>2. \A s, n : <<s, n>> \in seen[r] => s \in Ids
      BY DEF TypeOK
    <3>3. \A s \in choices : s \notin Foreign /\ Device[s] = Device[r]
      BY <3>2 DEF Named, Known, Ids
    <3>4. sid' = sid \/ \E s \in choices : sid' = [sid EXCEPT ![r] = s]
      BY <2>3 DEF Adopt
    <3> HIDE DEF choices
    <3>5. \A q \in Senders : sid'[q] # None => sid'[q] \notin Foreign /\ Device[sid'[q]] = Device[q]
      BY <3>3, <3>4 DEF Known, TypeOK
    <3> QED  BY <3>1, <3>5 DEF Known, upstream
  <2>4. CASE Create(r)
    <3>1. r \in Ids \ Foreign
      BY DEF Ids
    <3>2. Kept /\ (\A w \in limbo' : w.id \notin Foreign) /\ UNCHANGED <<owned, seen, todo>>
      BY <2>4, <3>1, <1>1 DEF Create
    <3>3. \A q \in Senders : sid'[q] # None => sid'[q] \notin Foreign /\ Device[sid'[q]] = Device[q]
      BY <2>4, <3>1 DEF Create, Known, TypeOK
    <3> QED  BY <3>2, <3>3 DEF Known
  <2>5. CASE Record(r)
    <3>1. sid[r] # None
      BY <2>5 DEF Record, TypeOK
    <3>2. owned' = [owned EXCEPT ![Device[r]] = sid[r]] /\ UNCHANGED <<upstream, work>>
      BY <2>5 DEF Record
    <3>3. \A d \in Devices : owned'[d] # None => owned'[d] \notin Foreign /\ Device[owned'[d]] = d
      BY <3>1, <3>2 DEF Known, TypeOK, Ids
    <3> QED  BY <3>2, <3>3 DEF Known, upstream, work
  <2>6. CASE Put(r) \/ Trigger(r)
    <3>1. sid[r] \in Ids \ Foreign
      BY <2>6 DEF Put, Trigger, Call, TypeOK, Known
    <3>2. Kept /\ (\A w \in limbo' : w.id \notin Foreign) /\ UNCHANGED <<owned, seen, todo>>
      BY <2>6, <3>1, <1>1 DEF Put, Trigger
    <3> QED  BY <2>6, <3>2, KnownUnseen DEF Put, Trigger, Known
  <2> QED  BY <1>2, <2>1, <2>2, <2>3, <2>4, <2>5, <2>6 DEF Send
<1>3. ASSUME NEW c \in Cleaners, StartClean(c) \/ Clean(c) PROVE Known' /\ Kept
  <2>1. CASE StartClean(c) \/ Count(c) \/ Swept(c) \/ GiveUp(c)
    BY <2>1, KnownUnseen DEF StartClean, Count, Swept, GiveUp, upstream, work, Known
  <2>2. CASE ListRecorded(c)
    <3>1. \A s \in {owned[d] : d \in Devices} \ {None} : s \notin Foreign
      BY DEF Known
    <3>2. \A q \in Cleaners : todo'[q] \cap Foreign = {}
      BY <2>2, <3>1 DEF ListRecorded, Known, TypeOK
    <3> QED  BY <2>2, <3>2, KnownUnseen DEF ListRecorded, upstream, Known
  <2>3. CASE ListAll(c)
    <3>1. Ours(c) \cap Foreign = {}
      BY DEF Ours, Proxies, Known
    <3>2. \A q \in Cleaners : todo'[q] \cap Foreign = {}
      BY <2>3, <3>1 DEF ListAll, Known, TypeOK
    <3> QED  BY <2>3, <3>2, KnownUnseen DEF ListAll, upstream, Known
  <2>4. CASE Delete(c)
    <3>1. PICK s \in todo[c] :
            LET w == [op |-> "delete", id |-> s, by |-> c]
            IN /\ todo' = [todo EXCEPT ![c] = @ \ {s}]
               /\ \/ Answered(w) /\ UNCHANGED bad
                  \/ (Refused(w) \/ Lost(w)) /\ bad' = [bad EXCEPT ![c] = FailureCounted(c)]
      BY <2>4 DEF Delete
    <3> DEFINE w == [op |-> "delete", id |-> s, by |-> c]
    <3>2. w \in Write /\ s \notin Foreign
      BY DEF Write, TypeOK, Known
    <3>3. (\A t \in Ids : t # w.id => scen'[t] = scen[t]) /\ limbo' \in {limbo, limbo \cup {w}}
      BY <3>1, <3>2, CallKeeps
    <3>4. Kept /\ \A v \in limbo' : v.id \notin Foreign
      BY <3>2, <3>3 DEF Known, Ids
    <3>5. \A q \in Cleaners : todo'[q] \cap Foreign = {}
      BY <3>1 DEF Known, TypeOK
    <3> QED  BY <2>4, <3>4, <3>5, KnownUnseen DEF Delete
  <2>5. CASE Forget(c) \/ Unlink(c) \/ ForgetAgain(c)
    <3>1. UNCHANGED <<upstream, work>>
      BY <2>5 DEF Forget, Unlink, ForgetAgain
    <3>2. owned' = owned \/ owned' = Nothing
      BY <2>5 DEF Forget, Unlink, ForgetAgain
    <3> QED  BY <3>1, <3>2 DEF Known, Nothing, upstream, work
  <2> QED  BY <1>3, <2>1, <2>2, <2>3, <2>4, <2>5 DEF Clean
<1>4. ASSUME NEW w \in limbo, Land(w) PROVE Known' /\ Kept
  <2>1. w \in Write /\ w.id \notin Foreign
    BY DEF TypeOK, Known
  <2>2. \A s \in Ids : s # w.id => scen'[s] = scen[s]
    BY <1>4, <2>1, ApplyKeeps DEF Land
  <2>3. Kept /\ (\A v \in limbo' : v.id \notin Foreign) /\ UNCHANGED work /\ UNCHANGED owned
    BY <1>4, <2>1, <2>2 DEF Land, Known, Ids
  <2> QED  BY <2>3, KnownUnseen DEF work, Known
<1>5. ASSUME NEW s \in Ids, Rename(s) PROVE Known' /\ Kept
  <2>1. s \notin Foreign
    BY <1>5 DEF Rename, Known
  <2> QED  BY <1>5, <2>1, KnownUnseen DEF Rename, work, Known, TypeOK, Ids
<1>6. ASSUME NEW p \in Pods, Crash(p) PROVE Known' /\ Kept
  BY <1>6, KnownUnseen DEF Crash, upstream, work, Known
<1>7. CASE UNCHANGED vars
  BY <1>7, KnownUnseen DEF vars, upstream, work, Known
<1> QED  BY <1>2, <1>3, <1>4, <1>5, <1>6, <1>7 DEF Next

(* At first the server knows only proxies recorded for their speaker.      *)
LEMMA KnownInit == Init => Known
<1> SUFFICES ASSUME Init PROVE Known
  OBVIOUS
<1>1. PICK renamed \in SUBSET {s \in Old : owned[Device[s]] = s} :
        scen = [s \in Ids |->
                 IF s \in Senders THEN None
                 ELSE [device |-> Device[s], text |-> None,
                       name |-> IF s \in Foreign \cup renamed THEN "other" ELSE "proxy"]]
  BY DEF Init
<1>2. \A s \in Foreign : scen[s].name = "other" /\ s \notin Senders
  BY <1>1 DEF Ids
<1>3. \A s \in Foreign : scen[s] = [device |-> Device[s], text |-> None, name |-> "other"]
  BY <1>1, <1>2 DEF Ids
<1>4. \A s \in Foreign : scen[s] # None
  <2> SUFFICES ASSUME NEW s \in Foreign PROVE scen[s] # None
    OBVIOUS
  <2> DEFINE rec == [device |-> Device[s], text |-> None, name |-> "other"]
  <2>1. scen[s] = rec
    BY <1>3
  <2>2. rec \in Scenario
    BY DEF Scenario, Names
  <2> HIDE DEF rec
  <2> QED  BY <2>1, <2>2
<1> QED  BY <1>2, <1>4 DEF Init, Known, Ids

(* Whatever fails, arrives late, is renamed or runs beside it, the server  *)
(* never writes to or deletes a scenario the user made.                    *)
THEOREM UsersScenariosKept == Spec => ForeignKept
<1>1. TypeOK /\ Known /\ [Next]_vars => [\A s \in Foreign : scen'[s] = scen[s]]_vars
  BY KnownNext
<1> QED  BY <1>1, TypeInit, TypeNext, KnownInit, KnownNext, PTL DEF Spec, ForeignKept
------------------------------------------------------------------------------
(* The words, when every speaker is served by one pod and no call arrives  *)
(* after the server gave it up.                                            *)
OnePodEach == \A r, q \in Senders : Device[r] = Device[q] => Pod[r] = Pod[q]

(* Senders at work on one scenario are one sender.                         *)
LEMMA AloneOnScenario ==
  ASSUME OnePodEach, TypeOK, Line, Known,
         NEW r \in Senders, NEW q \in Senders, pc[r] \in InLock, pc[q] = "trigger",
         \/ sid[r] = sid[q] /\ pc[r] \in {"record", "put", "trigger"}
         \/ sid[q] = r
  PROVE  r = q
<1>1. sid[q] # None /\ Device[sid[q]] = Device[q]
  BY DEF TypeOK, Known
<1>2. Device[r] = Device[q]
  BY <1>1 DEF Known
<1>3. Key(r) = Key(q)
  BY <1>2 DEF OnePodEach, Key
<1>4. ticket[r] \in Nat /\ ticket[q] \in Nat
  BY DEF TypeOK
<1>5. pc[r] \in Active /\ pc[q] \in Active /\ pc[r] # "waiting" /\ pc[q] # "waiting"
  BY DEF Active, InLock
<1> QED  BY <1>3, <1>4, <1>5 DEF Line

(* What a step that triggers nothing must leave alone.                     *)
LEMMA WrittenUnseen ==
  ASSUME TypeOK, Written, limbo' = {}, UNCHANGED <<said, sid>>,
         \A q \in Senders : pc'[q] = "trigger" => pc[q] = "trigger",
         \A q \in Senders : pc[q] = "trigger" =>
           scen'[sid[q]] \in {None, scen[sid[q]]} \/ scen'[sid[q]].text = q
  PROVE  Written'
BY DEF Written, OwnWords

(* A sender's write comes to a scenario no other sender has written to and *)
(* not yet triggered.                                                      *)
LEMMA WrittenByCall ==
  ASSUME OnePodEach, Late = FALSE, TypeOK, Line, Known, Written,
         NEW r \in Senders, Create(r) \/ Put(r) \/ Trigger(r)
  PROVE  Written'
<1>1. CASE Create(r)
  <2> DEFINE w == [op |-> "create", id |-> r, by |-> r]
  <2>1. w \in Write
    BY DEF Write, Ids
  <2>2. pc[r] = "create" /\ (Answered(w) \/ Refused(w) \/ Lost(w))
    BY <1>1 DEF Create, Call
  <2>3. \A s \in Ids : s # r => scen'[s] = scen[s]
    BY <2>1, <2>2, CallKeeps
  <2>4. \A q \in Senders : pc[q] = "trigger" => q # r /\ sid[q] # r /\ sid[q] \in Ids
    BY <2>2, AloneOnScenario DEF InLock, TypeOK
  <2>5. limbo' = {} /\ said' = said
    BY <2>2 DEF Answered, Refused, Lost, Apply, upstream, Written
  <2>6. \A q \in Senders : pc'[q] = "trigger" => pc[q] = "trigger" /\ sid'[q] = sid[q]
    BY <1>1, <2>2 DEF Create, Call, Release, Goto, TypeOK
  <2>7. \A q \in Senders : pc'[q] = "trigger" => scen'[sid'[q]] = scen[sid[q]]
    BY <2>3, <2>4, <2>6
  <2> QED  BY <2>5, <2>6, <2>7 DEF Written, OwnWords
<1>2. CASE Put(r)
  <2> DEFINE w == [op |-> "put", id |-> sid[r], by |-> r]
  <2>1. pc[r] = "put" /\ sid[r] \in Ids /\ sid' = sid
    BY <1>2 DEF Put, Call, TypeOK
  <2>2. w \in Write
    BY <2>1 DEF Write
  <2>3. Answered(w) \/ Refused(w) \/ Lost(w)
    BY <1>2 DEF Put, Call
  <2>4. \A s \in Ids : s # sid[r] => scen'[s] = scen[s]
    BY <2>2, <2>3, CallKeeps
  <2>5. \A q \in Senders : pc[q] = "trigger" => q # r /\ sid[q] # sid[r] /\ sid[q] \in Ids
    BY <2>1, AloneOnScenario DEF InLock, TypeOK
  <2>6. limbo' = {} /\ said' = said
    BY <2>3 DEF Answered, Refused, Lost, Apply, upstream, Written
  <2>7. CASE Apply(w) /\ pc' = [pc EXCEPT ![r] = "trigger"]
    <3>1. scen[sid[r]] \in Scenario
      BY <2>1, <2>7 DEF Apply, Accepted, TypeOK
    <3>2. scen' = [scen EXCEPT ![sid[r]] = [scen[sid[r]] EXCEPT !.name = "proxy", !.text = r]]
      BY <2>1, <2>7 DEF Apply, TypeOK
    <3>3. scen'[sid[r]].text = r
      BY <2>1, <3>1, <3>2 DEF TypeOK, Scenario
    <3>4. \A q \in Senders : q # r /\ pc'[q] = "trigger" => pc[q] = "trigger"
      BY <2>7 DEF TypeOK
    <3>5. \A q \in Senders : pc'[q] = "trigger" => scen'[sid[q]] = None \/ scen'[sid[q]].text = q
      BY <2>4, <2>5, <3>3, <3>4 DEF Written
    <3> QED  BY <2>1, <2>6, <3>5 DEF Written, OwnWords
  <2>8. CASE Release(r, "failed")
    <3>1. \A q \in Senders : pc'[q] = "trigger" => pc[q] = "trigger"
      BY <2>8 DEF Release, Goto, TypeOK
    <3> QED  BY <2>1, <2>4, <2>5, <2>6, <3>1, WrittenUnseen
  <2> QED  BY <1>2, <2>7, <2>8 DEF Put, Call, Answered, Goto
<1>3. CASE Trigger(r)
  <2> DEFINE w == [op |-> "trigger", id |-> sid[r], by |-> r]
  <2>1. pc[r] = "trigger" /\ sid[r] \in Ids /\ sid' = sid
    BY <1>3 DEF Trigger, Call, TypeOK
  <2>2. Answered(w) \/ Refused(w) \/ Lost(w)
    BY <1>3 DEF Trigger, Call
  <2>3. /\ limbo' = {} /\ scen' = scen
        /\ \/ said' = said
           \/ scen[sid[r]] # None /\ said' = [said EXCEPT ![r] = @ \cup {scen[sid[r]].text}]
    BY <2>2 DEF Answered, Refused, Lost, Apply, Accepted, upstream, Written
  <2>4. \A q \in Senders : said'[q] \subseteq {q}
    BY <2>1, <2>3 DEF Written, OwnWords, TypeOK
  <2>5. \A q \in Senders : pc'[q] = "trigger" => pc[q] = "trigger"
    BY <1>3 DEF Trigger, Call, Release, Goto, TypeOK
  <2> QED  BY <2>1, <2>3, <2>4, <2>5 DEF Written, OwnWords
<1> QED  BY <1>1, <1>2, <1>3

(* The words, for every step.                                              *)
LEMMA WrittenNext ==
  ASSUME OnePodEach, Late = FALSE
  PROVE  TypeOK /\ Line /\ Known /\ Written /\ [Next]_vars => Written'
<1> SUFFICES ASSUME TypeOK, Line, Known, Written, [Next]_vars PROVE Written'
  OBVIOUS
<1>1. ASSUME NEW r \in Senders, Enqueue(r) \/ Acquire(r) \/ List(r) \/ NotRead(r) \/ Record(r)
      PROVE  Written'
  <2>1. UNCHANGED <<upstream, sid>>
    BY <1>1 DEF Enqueue, Acquire, List, NotRead, Record, work
  <2>2. \E label \in {"waiting", "list", "adopt", "failed", "put"} : pc' = [pc EXCEPT ![r] = label]
    BY <1>1 DEF Enqueue, Acquire, List, NotRead, Record, Release, Goto
  <2> QED  BY <2>1, <2>2, WrittenUnseen DEF upstream, Written, TypeOK
<1>2. ASSUME NEW r \in Senders, Adopt(r) PROVE Written'
  <2>1. pc[r] = "adopt" /\ UNCHANGED upstream
    BY <1>2 DEF Adopt
  <2>2. \A q \in Senders : pc'[q] = "trigger" => pc[q] = "trigger" /\ sid'[q] = sid[q]
    BY <1>2, <2>1 DEF Adopt, Goto, TypeOK
  <2> QED  BY <2>1, <2>2 DEF Written, OwnWords, upstream
<1>3. ASSUME NEW c \in Cleaners, StartClean(c) \/ (Clean(c) /\ ~Delete(c)) PROVE Written'
  <2>1. UNCHANGED <<scen, said, limbo, sid>>
    BY <1>3 DEF StartClean, Clean, Count, ListRecorded, ListAll, Swept, GiveUp, Forget, Unlink,
                ForgetAgain, upstream, work
  <2>2. \E label : pc' = [pc EXCEPT ![c] = label]
    BY <1>3 DEF StartClean, Clean, Count, ListRecorded, ListAll, Swept, GiveUp, Forget, Unlink,
                ForgetAgain, Goto
  <2>3. \A q \in Senders : pc'[q] = pc[q]
    BY <2>2 DEF TypeOK
  <2> QED  BY <2>1, <2>3, WrittenUnseen DEF Written
<1>4. ASSUME NEW c \in Cleaners, Delete(c) PROVE Written'
  <2>1. PICK s \in todo[c] :
          LET w == [op |-> "delete", id |-> s, by |-> c]
          IN \/ Answered(w) /\ UNCHANGED bad
             \/ (Refused(w) \/ Lost(w)) /\ bad' = [bad EXCEPT ![c] = FailureCounted(c)]
    BY <1>4 DEF Delete
  <2> DEFINE w == [op |-> "delete", id |-> s, by |-> c]
  <2>2. scen' = scen \/ scen' = [scen EXCEPT ![s] = None]
    BY <2>1 DEF Answered, Refused, Lost, Apply, upstream
  <2>3. limbo' = {} /\ said' = said
    BY <2>1 DEF Answered, Refused, Lost, Apply, upstream, Written
  <2>4. \A q \in Senders : pc[q] = "trigger" => scen'[sid[q]] \in {None, scen[sid[q]]}
    BY <2>2 DEF TypeOK
  <2> QED  BY <1>4, <2>3, <2>4, WrittenUnseen DEF Delete
<1>5. ASSUME NEW w \in limbo, Land(w) PROVE Written'
  BY <1>5 DEF Written
<1>6. ASSUME NEW s \in Ids, Rename(s) PROVE Written'
  <2>1. scen[s] \in Scenario
    BY <1>6 DEF Rename, TypeOK
  <2>2. scen' = [scen EXCEPT ![s] = [scen[s] EXCEPT !.name = "other"]]
    BY <1>6 DEF Rename
  <2>3. scen'[s].text = scen[s].text
    BY <2>1, <2>2 DEF TypeOK, Scenario
  <2>4. UNCHANGED <<said, limbo, sid, pc>>
    BY <1>6 DEF Rename, work
  <2>5. \A q \in Senders : pc[q] = "trigger" =>
          scen'[sid[q]] \in {None, scen[sid[q]]} \/ scen'[sid[q]].text = q
    <3> SUFFICES ASSUME NEW q \in Senders, pc[q] = "trigger"
                 PROVE  scen'[sid[q]] \in {None, scen[sid[q]]} \/ scen'[sid[q]].text = q
      OBVIOUS
    <3>1. CASE sid[q] = s
      BY <1>6, <2>3, <3>1 DEF Written, Rename
    <3>2. CASE sid[q] # s
      BY <2>2, <3>2 DEF TypeOK
    <3> QED  BY <3>1, <3>2
  <2> QED  BY <2>4, <2>5, WrittenUnseen DEF Written
<1>7. ASSUME NEW p \in Pods, Crash(p) PROVE Written'
  <2>1. UNCHANGED <<upstream, sid>>
    BY <1>7 DEF Crash, work
  <2>2. \A q \in Senders : pc'[q] = "trigger" => pc[q] = "trigger"
    BY <1>7 DEF Crash
  <2> QED  BY <2>1, <2>2, WrittenUnseen DEF upstream, Written
<1>8. CASE UNCHANGED vars
  BY <1>8, WrittenUnseen DEF vars, upstream, work, Written
<1> QED
  BY <1>1, <1>2, <1>3, <1>4, <1>5, <1>6, <1>7, <1>8, WrittenByCall DEF Next, Send, Clean

(* A trigger speaks the words of the request that pulled it: the line      *)
(* around PUT and trigger is enough, on one pod and without late calls.    *)
THEOREM WordsAreOwn ==
  ASSUME OnePodEach, Late = FALSE
  PROVE  Spec => []OwnWords
<1>1. Init => Line /\ Written
  BY DEF Init, Line, Written, OwnWords, Active, InLock
<1>2. Written => OwnWords
  BY DEF Written
<1> QED
  BY <1>1, <1>2, TypeInit, TypeNext, LineNext, KnownInit, KnownNext, WrittenNext, PTL DEF Spec

------------------------------------------------------------------------------
(* The cleanup.                                                            *)

(* A scenario that a sender has yet to create, itself or by a call it gave *)
(* up, is not there and was found by nobody; and it is created only once.  *)
Uncreated == {"idle", "waiting", "list", "adopt", "create"}
CreateOf(r) == [op |-> "create", id |-> r, by |-> r]
Unborn(r) == pc[r] \in Uncreated \/ CreateOf(r) \in limbo
BornOnce ==
  /\ \A w \in limbo : w.op = "create" => w.id \in Senders /\ w = CreateOf(w.id)
  /\ \A r \in Senders :
       /\ Unborn(r) => scen[r] = None /\ \A c \in Cleaners : r \notin left[c]
       /\ pc[r] \in Uncreated => CreateOf(r) \notin limbo

(* What a cleaner found is on its list until it is gone, or a request has  *)
(* written to it, or the cleaner knows that it failed.                     *)
Cleaned ==
  \A c \in Cleaners : ~bad[c] =>
    \A s \in left[c] \cap Proxies :
      /\ pc[c] \notin {"forget", "unlink", "forgetAgain", "done"}
      /\ pc[c] = "delete" => s \in todo[c]

(* What the end of a call can change, a late one included: a creation      *)
(* brings its own scenario and no other, and no other write brings any.    *)
LEMMA CreateChanges ==
  ASSUME TypeOK, NEW r \in Senders, NEW w, w = CreateOf(r),
         Answered(w) \/ Refused(w) \/ Lost(w) \/ Land(w)
  PROVE  /\ left' = left
         /\ \A s \in Ids : s # r => scen'[s] = scen[s]
         /\ limbo' \subseteq limbo \cup {w}
         /\ Land(w) => w \notin limbo'
         /\ ~Land(w) /\ w \in limbo' /\ w \notin limbo => scen' = scen
<1>1. w \in Write /\ w.op = "create" /\ w.id = r
  BY DEF CreateOf, Write, Ids
<1>2. Apply(w) => left' = left /\ \A s \in Ids : s # r => scen'[s] = scen[s]
  BY <1>1, ApplyKeeps DEF Apply
<1> QED  BY <1>2 DEF Answered, Refused, Lost, Land, upstream

LEMMA OthersChange ==
  ASSUME TypeOK, NEW w \in Write, w.op # "create",
         Answered(w) \/ Refused(w) \/ Lost(w) \/ Land(w)
  PROVE  /\ \A c \in Cleaners : left'[c] \subseteq left[c]
         /\ \A s \in Ids : scen[s] = None => scen'[s] = None
         /\ limbo' \subseteq limbo \cup {w}
         /\ \A c \in Cleaners : \A s \in left'[c] : s \in Proxies' => s \in Proxies
<1>1. CASE Apply(w)
  <2>1. w.id \in Ids /\ scen[w.id] # None /\ w.op \in {"put", "trigger", "delete"}
    BY <1>1 DEF Write, Apply, Accepted, Ids
  <2>2. \A s \in Ids : s # w.id => scen'[s] = scen[s]
    BY <1>1, ApplyKeeps
  <2>3. limbo' \subseteq limbo \cup {w}
    BY DEF Answered, Refused, Lost, Land, upstream
  <2>4. CASE w.op = "put"
    <3>1. left' = [c \in Cleaners |-> left[c] \ {w.id}]
      BY <1>1, <2>4 DEF Apply
    <3> QED  BY <2>1, <2>2, <2>3, <3>1 DEF Proxies
  <2>5. CASE w.op = "trigger"
    <3>1. left' = left /\ scen' = scen
      BY <1>1, <2>5 DEF Apply
    <3> QED  BY <2>3, <3>1 DEF Proxies
  <2>6. CASE w.op = "delete"
    <3>1. left' = left /\ scen'[w.id] = None
      BY <1>1, <2>1, <2>6 DEF Apply, TypeOK
    <3> QED  BY <2>1, <2>2, <2>3, <3>1 DEF Proxies
  <2> QED  BY <2>1, <2>4, <2>5, <2>6
<1>2. CASE UNCHANGED <<scen, left>>
  BY <1>2 DEF Answered, Refused, Lost, Land, upstream, Proxies
<1> QED  BY <1>1, <1>2 DEF Answered, Refused, Lost, Land, upstream

(* So every write leaves the cleaners at most what they had found.         *)
LEMMA FoundShrinks ==
  ASSUME TypeOK, BornOnce, NEW w \in Write,
         w.op = "create" => w.id \in Senders /\ w = CreateOf(w.id) /\ Unborn(w.id),
         Answered(w) \/ Refused(w) \/ Lost(w) \/ Land(w)
  PROVE  \A c \in Cleaners : left'[c] \cap Proxies' \subseteq left[c] \cap Proxies
<1>1. CASE w.op = "create"
  <2>1. left' = left /\ \A s \in Ids : s # w.id => scen'[s] = scen[s]
    BY <1>1, CreateChanges
  <2>2. \A c \in Cleaners : w.id \notin left[c]
    BY <1>1 DEF BornOnce
  <2> QED  BY <2>1, <2>2 DEF Proxies
<1>2. CASE w.op # "create"
  BY <1>2, OthersChange
<1> QED  BY <1>1, <1>2

(* Nothing is born by a step that creates nothing and starts no sender     *)
(* over.                                                                   *)
LEMMA BornUnseen ==
  ASSUME TypeOK, BornOnce,
         \A r \in Senders : pc'[r] \in Uncreated => pc[r] \in Uncreated,
         \A s \in Ids : scen[s] = None => scen'[s] = None,
         \A c \in Cleaners : \A s \in left'[c] : s \in left[c] \/ scen[s] # None,
         \A w \in limbo' : w \in limbo \/ w.op # "create"
  PROVE  BornOnce'
<1>1. \A r \in Senders : CreateOf(r)' = CreateOf(r) /\ CreateOf(r).op = "create" /\ r \in Ids
  BY DEF CreateOf, Ids
<1>2. \A r \in Senders : Unborn(r)' => Unborn(r)
  BY <1>1 DEF Unborn
<1>3. \A w \in limbo' : w.op = "create" => w.id \in Senders /\ w = CreateOf(w.id)
  BY DEF BornOnce
<1>4. \A r \in Senders : /\ Unborn(r)' => scen'[r] = None /\ \A c \in Cleaners : r \notin left'[c]
                         /\ pc'[r] \in Uncreated => CreateOf(r) \notin limbo'
  BY <1>1, <1>2 DEF BornOnce
<1> QED  BY <1>3, <1>4 DEF BornOnce, CreateOf

(* A call of a sender.                                                     *)
LEMMA BornByCall ==
  ASSUME TypeOK, BornOnce, NEW r \in Senders, Create(r) \/ Put(r) \/ Trigger(r)
  PROVE  /\ BornOnce'
         /\ \A c \in Cleaners : left'[c] \cap Proxies' \subseteq left[c] \cap Proxies
<1>1. CASE Create(r)
  <2> DEFINE w == CreateOf(r)
  <2>1. w \in Write /\ w.id = r /\ w.op = "create"
    BY DEF Write, Ids, CreateOf
  <2>2. pc[r] = "create" /\ (Answered(w) \/ Refused(w) \/ Lost(w)) /\ Unborn(r)
    BY <1>1 DEF Create, Call, CreateOf, BornOnce, Uncreated, Land, Unborn
  <2>3. /\ pc'[r] \notin Uncreated
        /\ \A q \in Senders : q # r => pc'[q] = pc[q] /\ CreateOf(q) # w
    BY <1>1, <2>1 DEF Create, Call, Release, Goto, TypeOK, Uncreated, CreateOf
  <2>4. /\ left' = left /\ \A s \in Ids : s # r => scen'[s] = scen[s]
        /\ limbo' \subseteq limbo \cup {w}
        /\ w \in limbo' => scen' = scen
    BY <2>2, CreateChanges DEF BornOnce, Uncreated
  <2> HIDE DEF w
  <2>5. CreateOf(r) = w
    BY DEF w
  <2>6. \A q \in Senders : /\ Unborn(q)' => scen'[q] = None /\ \A c \in Cleaners : q \notin left'[c]
                           /\ pc'[q] \in Uncreated => CreateOf(q) \notin limbo'
    <3>1. ASSUME NEW q \in Senders, q # r
          PROVE  /\ Unborn(q)' => scen'[q] = None /\ \A c \in Cleaners : q \notin left'[c]
                 /\ pc'[q] \in Uncreated => CreateOf(q) \notin limbo'
      BY <2>3, <2>4, <3>1 DEF BornOnce, Unborn, CreateOf, Ids
    <3>2. Unborn(r)' => scen' = scen
      BY <2>3, <2>4, <2>5 DEF Unborn, CreateOf
    <3> QED  BY <2>2, <2>3, <2>4, <3>1, <3>2 DEF BornOnce
  <2>7. \A x \in limbo' : x.op = "create" => x.id \in Senders /\ x = CreateOf(x.id)
    BY <2>1, <2>4, <2>5 DEF BornOnce
  <2>8. \A c \in Cleaners : left'[c] \cap Proxies' \subseteq left[c] \cap Proxies
    BY <2>1, <2>2, <2>5, FoundShrinks
  <2> QED  BY <2>6, <2>7, <2>8 DEF BornOnce, CreateOf
<1>2. CASE Put(r) \/ Trigger(r)
  <2>1. PICK op \in {"put", "trigger"}, next \in {"trigger", "done"} : Call(r, op, op, sid[r], next)
    BY <1>2 DEF Put, Trigger
  <2> DEFINE w == [op |-> op, id |-> sid[r], by |-> r]
  <2>2. pc[r] = op /\ sid[r] \in Ids
    BY <2>1 DEF Call, TypeOK
  <2>3. w \in Write /\ w.op # "create"
    BY <2>2 DEF Write
  <2>4. Answered(w) \/ Refused(w) \/ Lost(w)
    BY <2>1 DEF Call
  <2>5. \A q \in Senders : pc'[q] \in Uncreated => pc[q] \in Uncreated
    BY <2>1 DEF Call, Release, Goto, TypeOK, Uncreated
  <2> HIDE DEF w
  <2>6. BornOnce'
    BY <2>3, <2>4, <2>5, OthersChange, BornUnseen
  <2>7. \A c \in Cleaners : left'[c] \cap Proxies' \subseteq left[c] \cap Proxies
    BY <2>3, <2>4, FoundShrinks
  <2> QED  BY <2>6, <2>7
<1> QED  BY <1>1, <1>2

(* What was found, when a step changes nothing but scenarios.              *)
LEMMA CleanedKept ==
  ASSUME Cleaned, UNCHANGED <<bad, todo>>,
         \A c \in Cleaners : pc'[c] = pc[c],
         \A c \in Cleaners : left'[c] \cap Proxies' \subseteq left[c] \cap Proxies
  PROVE  Cleaned'
BY DEF Cleaned

(* The two invariants, for every step.                                     *)
LEMMA CleanedNext == TypeOK /\ BornOnce /\ Cleaned /\ [Next]_vars => BornOnce' /\ Cleaned'
<1> SUFFICES ASSUME TypeOK, BornOnce, Cleaned, [Next]_vars PROVE BornOnce' /\ Cleaned'
  OBVIOUS
<1>1. \A c \in Cleaners : c \notin Senders
  OBVIOUS
<1>2. ASSUME NEW r \in Senders, Create(r) \/ Put(r) \/ Trigger(r) PROVE BornOnce' /\ Cleaned'
  <2>1. /\ UNCHANGED <<bad, todo>>
        /\ \A c \in Cleaners : pc'[c] = pc[c]
    BY <1>1, <1>2 DEF Create, Put, Trigger, Call, Release, Goto, TypeOK
  <2> QED  BY <1>2, <2>1, BornByCall, CleanedKept
<1>3. ASSUME NEW r \in Senders,
             Enqueue(r) \/ Acquire(r) \/ List(r) \/ NotRead(r) \/ Adopt(r) \/ Record(r)
      PROVE  BornOnce' /\ Cleaned'
  <2>1. UNCHANGED <<upstream, bad, todo>> /\ \A c \in Cleaners : pc'[c] = pc[c]
    BY <1>1, <1>3 DEF Enqueue, Acquire, List, NotRead, Adopt, Record, Release, Goto, TypeOK, work
  <2>2. \A q \in Senders : pc'[q] \in Uncreated => pc[q] \in Uncreated
    BY <1>3 DEF Enqueue, Acquire, List, NotRead, Adopt, Record, Release, Goto, TypeOK, Uncreated
  <2>3. Proxies' = Proxies
    BY <2>1 DEF upstream, Proxies
  <2>4. BornOnce'
    BY <2>1, <2>2, BornUnseen DEF upstream
  <2>5. \A c \in Cleaners : left'[c] \cap Proxies' \subseteq left[c] \cap Proxies
    BY <2>1, <2>3 DEF upstream
  <2> QED  BY <2>1, <2>4, <2>5, CleanedKept
<1>4. ASSUME NEW c \in Cleaners, StartClean(c) PROVE BornOnce' /\ Cleaned'
  <2>1. /\ UNCHANGED <<scen, limbo, bad, todo>> /\ Proxies' = Proxies
        /\ \A d \in Cleaners : d # c => pc'[d] = pc[d] /\ left'[d] = left[d]
        /\ left'[c] = Proxies \/ left'[c] = left[c]
        /\ pc'[c] = IF linked THEN "recorded" ELSE "count"
        /\ \A q \in Senders : pc'[q] = pc[q]
    BY <1>1, <1>4 DEF StartClean, Goto, TypeOK, work, Proxies
  <2>2. \A d \in Cleaners : \A s \in left'[d] : s \in left[d] \/ scen[s] # None
    BY <2>1 DEF Proxies
  <2>3. BornOnce'
    BY <2>1, <2>2, BornUnseen
  <2> QED  BY <2>1, <2>3 DEF Cleaned
<1>5. ASSUME NEW c \in Cleaners, Count(c) PROVE BornOnce' /\ Cleaned'
  <2>1. /\ UNCHANGED <<scen, limbo, todo>> /\ Proxies' = Proxies
        /\ \A d \in Cleaners : d # c => pc'[d] = pc[d] /\ left'[d] = left[d] /\ bad'[d] = bad[d]
        /\ left'[c] = Proxies \cap {owned[d] : d \in Devices}
        /\ bad'[c] = (owned # Nothing)
        /\ \A q \in Senders : pc'[q] = pc[q]
    BY <1>1, <1>5 DEF Count, Goto, TypeOK, Proxies
  <2>2. \A d \in Cleaners : \A s \in left'[d] : s \in left[d] \/ scen[s] # None
    BY <2>1 DEF Proxies
  <2>3. BornOnce'
    BY <2>1, <2>2, BornUnseen
  <2>4. ~bad'[c] => left'[c] = {}
    <3>1. None \notin Proxies
      BY DEF Proxies
    <3>2. owned = Nothing => \A d \in Devices : owned[d] = None
      BY DEF Nothing
    <3> QED  BY <2>1, <3>1, <3>2
  <2> QED  BY <2>1, <2>3, <2>4 DEF Cleaned
<1>6. ASSUME NEW c \in Cleaners,
             ListRecorded(c) \/ ListAll(c) \/ Swept(c) \/ GiveUp(c) \/ Forget(c) \/ Unlink(c)
               \/ ForgetAgain(c)
      PROVE  BornOnce' /\ Cleaned'
  <2>1. /\ UNCHANGED upstream /\ Proxies' = Proxies
        /\ \A d \in Cleaners : d # c => pc'[d] = pc[d] /\ bad'[d] = bad[d] /\ todo'[d] = todo[d]
        /\ \A q \in Senders : pc'[q] = pc[q]
    BY <1>1, <1>6 DEF ListRecorded, ListAll, Swept, GiveUp, Forget, Unlink, ForgetAgain, Goto, TypeOK,
                      work, upstream, Proxies
  <2>2. BornOnce'
    BY <2>1, BornUnseen DEF upstream
  <2>3. ~bad'[c] => \A s \in left[c] \cap Proxies :
          /\ pc'[c] \notin {"forget", "unlink", "forgetAgain", "done"}
          /\ pc'[c] = "delete" => s \in todo'[c]
    <3>1. CASE ListRecorded(c) \/ Swept(c) \/ GiveUp(c)
      BY <1>6, <3>1 DEF ListRecorded, Swept, GiveUp, Goto, TypeOK, work, Cleaned, Chores
    <3>2. CASE ListAll(c)
      BY <3>2 DEF ListAll, Goto, TypeOK, Ours, Proxies
    <3>3. CASE Forget(c) \/ Unlink(c) \/ ForgetAgain(c)
      BY <3>3 DEF Forget, Unlink, ForgetAgain, Goto, TypeOK, work, Cleaned
    <3> QED  BY <1>6, <3>1, <3>2, <3>3
  <2> QED  BY <2>1, <2>2, <2>3 DEF Cleaned, upstream
<1>7. ASSUME NEW c \in Cleaners, Delete(c) PROVE BornOnce' /\ Cleaned'
  <2>1. PICK s \in todo[c] :
          LET w == [op |-> "delete", id |-> s, by |-> c]
          IN /\ todo' = [todo EXCEPT ![c] = todo[c] \ {s}]
             /\ \/ Answered(w) /\ UNCHANGED bad
                \/ (Refused(w) \/ Lost(w)) /\ bad' = [bad EXCEPT ![c] = TRUE]
    BY <1>7 DEF Delete, FailureCounted
  <2> DEFINE w == [op |-> "delete", id |-> s, by |-> c]
  <2>2. w \in Write /\ w.op # "create" /\ s \in Ids /\ w.op = "delete" /\ w.id = s
    BY DEF Write, TypeOK
  <2>3. pc' = pc /\ (Answered(w) \/ Refused(w) \/ Lost(w)) /\ pc[c] = "delete"
    BY <1>7, <2>1 DEF Delete
  <2> HIDE DEF w
  <2>4. BornOnce'
    BY <2>2, <2>3, OthersChange, BornUnseen
  <2>5. \A d \in Cleaners : left'[d] \cap Proxies' \subseteq left[d] \cap Proxies
    BY <2>2, <2>3, FoundShrinks
  <2>6. ~bad'[c] => s \notin Proxies'
    <3>1. CASE Answered(w)
      BY <2>2, <3>1 DEF Answered, Apply, Proxies, TypeOK
    <3>2. CASE bad' = [bad EXCEPT ![c] = TRUE]
      BY <3>2 DEF TypeOK
    <3> QED  BY <2>1, <3>1, <3>2 DEF w
  <2>7. /\ todo'[c] = todo[c] \ {s} /\ (~bad'[c] => ~bad[c])
        /\ \A d \in Cleaners : d # c => todo'[d] = todo[d] /\ bad'[d] = bad[d]
    BY <2>1 DEF TypeOK
  <2> QED  BY <2>3, <2>4, <2>5, <2>6, <2>7 DEF Cleaned
<1>8. ASSUME NEW w \in limbo, Land(w) PROVE BornOnce' /\ Cleaned'
  <2>1. /\ UNCHANGED <<bad, todo, pc>> /\ limbo' = limbo \ {w} /\ w \in Write
        /\ w.op = "create" => w.id \in Senders /\ w = CreateOf(w.id) /\ Unborn(w.id)
    BY <1>8 DEF Land, work, TypeOK, BornOnce, Unborn
  <2>2. \A c \in Cleaners : left'[c] \cap Proxies' \subseteq left[c] \cap Proxies
    BY <1>8, <2>1, FoundShrinks
  <2>3. CASE w.op = "create"
    <3>1. left' = left /\ \A s \in Ids : s # w.id => scen'[s] = scen[s]
      BY <1>8, <2>1, <2>3, CreateChanges
    <3>2. \A q \in Senders : Unborn(q)' => Unborn(q) /\ q # w.id
      BY <2>1, <2>3 DEF Unborn, BornOnce, CreateOf
    <3>3. \A q \in Senders : /\ Unborn(q)' => scen'[q] = None /\ \A c \in Cleaners : q \notin left'[c]
                             /\ pc'[q] \in Uncreated => CreateOf(q) \notin limbo'
      BY <2>1, <3>1, <3>2 DEF BornOnce, Ids
    <3>4. BornOnce'
      BY <2>1, <3>3 DEF BornOnce, CreateOf
    <3> QED  BY <2>1, <2>2, <3>4, CleanedKept
  <2>4. CASE w.op # "create"
    <3>1. BornOnce'
      BY <1>8, <2>1, <2>4, OthersChange, BornUnseen
    <3> QED  BY <2>1, <2>2, <3>1, CleanedKept
  <2> QED  BY <2>3, <2>4
<1>9. ASSUME NEW s \in Ids, Rename(s) PROVE BornOnce' /\ Cleaned'
  <2>1. /\ UNCHANGED <<limbo, left, bad, todo, pc>>
        /\ \A i \in Ids : i # s => scen'[i] = scen[i]
        /\ s \in Proxies /\ scen[s] # None
    BY <1>9 DEF Rename, TypeOK, work, Proxies
  <2>2. BornOnce'
    BY <2>1, BornUnseen
  <2>3. \A c \in Cleaners : left'[c] \cap Proxies' \subseteq left[c] \cap Proxies
    BY <2>1 DEF Proxies
  <2> QED  BY <2>1, <2>2, <2>3, CleanedKept
<1>10. ASSUME NEW p \in Pods, Crash(p) PROVE BornOnce' /\ Cleaned'
  <2>1. UNCHANGED <<upstream, bad, todo>> /\ Proxies' = Proxies
    BY <1>10 DEF Crash, work, upstream, Proxies
  <2>2. /\ \A c \in Cleaners : pc'[c] = pc[c]
        /\ \A q \in Senders : pc'[q] \in Uncreated => pc[q] \in Uncreated
    BY <1>1, <1>10 DEF Crash, Uncreated
  <2>3. BornOnce'
    BY <2>1, <2>2, BornUnseen DEF upstream
  <2> QED  BY <2>1, <2>2, <2>3, CleanedKept DEF upstream
<1>11. CASE UNCHANGED vars
  <2>1. UNCHANGED <<upstream, bad, todo, pc>> /\ Proxies' = Proxies
    BY <1>11 DEF vars, work, upstream, Proxies
  <2>2. BornOnce'
    BY <2>1, BornUnseen DEF upstream
  <2> QED  BY <2>1, <2>2, CleanedKept DEF upstream
<1> QED
  BY <1>2, <1>3, <1>4, <1>5, <1>6, <1>7, <1>8, <1>9, <1>10, <1>11 DEF Next, Send, Clean

(* Whatever is lost, late or runs beside it, a cleanup that reports        *)
(* success has removed what it found and nobody wrote to since.            *)
THEOREM SuccessMeansClean == Spec => []CleanupComplete
<1>1. Init => BornOnce /\ Cleaned
  <2> SUFFICES ASSUME Init PROVE BornOnce /\ Cleaned
    OBVIOUS
  <2>1. \A r \in Senders : scen[r] = None
    BY DEF Init, Ids
  <2> QED  BY <2>1 DEF Init, BornOnce, Cleaned
<1>2. Cleaned => CleanupComplete
  BY DEF Cleaned, CleanupComplete
<1> QED  BY <1>1, <1>2, TypeInit, TypeNext, CleanedNext, PTL DEF Spec
==============================================================================
