----------------------------- MODULE QuasarProxy -----------------------------
(***************************************************************************)
(* Speech and commands through Quasar for one hosted user.  To make a      *)
(* speaker act, the server keeps one proxy scenario per speaker in the     *)
(* user's Yandex account: it writes the words into the scenario (PUT) and  *)
(* then triggers it.  A per-speaker promise chain, held in the memory of a *)
(* pod, keeps other requests from writing between the two.                 *)
(*                                                                         *)
(* Senders are the calls of sendTts and sendCommand, cleaners the requests *)
(* to disconnect Quasar or delete the account.  A step is one awaited call *)
(* to Yandex or to storage.  The words of sender r, and the scenario it    *)
(* creates, are named r.                                                   *)
(***************************************************************************)
EXTENDS Integers

CONSTANTS
  Senders, Cleaners, Pods, Devices,
  Old,       \* proxy scenarios that were there before
  Foreign,   \* scenarios the user made
  Device,    \* the speaker of a sender or of an old proxy
  Pod,       \* the pod that serves a sender
  Erases,    \* cleaners that delete the account; the others disconnect
  Faults,    \* whether calls fail and pods die
  Late,      \* whether a call given up may still take effect later
  None

Ids == Senders \cup Old \cup Foreign

(* name: the one the server generates for its proxies, or any other.  text: *)
(* whose words it speaks; None is the text a proxy is created with.         *)
Names    == {"proxy", "other"}
Scenario == [device: Devices, name: Names, text: Senders \cup {None}]
Write    == [op: {"create", "put", "trigger"}, id: Ids, by: Senders]
              \cup [op: {"delete"}, id: Ids, by: Cleaners]

ASSUME QuasarAssumption ==
  /\ Device \in [Senders \cup Old \cup Foreign -> Devices]
  /\ Pod \in [Senders -> Pods]
  /\ Erases \subseteq Cleaners
  /\ Faults \in BOOLEAN /\ Late \in BOOLEAN
  /\ Senders \cap Cleaners = {} /\ Senders \cap Old = {}
  /\ Foreign \cap (Senders \cup Old) = {}
  /\ None \notin Ids \cup Scenario \cup Cleaners

VARIABLES
  scen,     \* the scenarios in the user's Yandex account
  owned,    \* table quasar_proxy_scenarios: the scenario recorded for a speaker
  linked,   \* whether user_credentials holds the Quasar cookie
  tail,     \* sharedLocks: the last sender in line for a speaker in a pod
  prev,     \* the sender whose chain a sender awaits
  pc,
  seen,     \* what the scenario list showed a sender: ids and names
  todo,     \* what a cleaner found recorded, then what it has to delete
  sid,      \* the scenario a sender works with
  said,     \* the words spoken by the triggers of a sender
  limbo,    \* writes given up by the server that may still arrive
  bad,      \* whether a cleaner has failed to delete something
  left,     \* history: proxies that a cleaner found and nobody wrote to since
  ticket,   \* history: the order in which senders joined their lines
  tickets

upstream == <<scen, said, limbo, left>>
lines    == <<tail, prev, ticket, tickets>>
work     == <<seen, sid, todo, bad>>
vars     == <<upstream, owned, linked, lines, pc, work>>

InLock  == {"list", "adopt", "create", "record", "put", "trigger"}
Active  == InLock \cup {"waiting"}
Ended   == {"done", "failed", "dead"}
Chores  == {"count", "recorded", "listAll", "delete", "forget", "unlink", "forgetAgain"}

Nothing == [d \in Devices |-> None]

Key(r) == <<Pod[r], Device[r]>>
Proxies == {s \in Ids : scen[s] # None /\ scen[s].name = "proxy"}

TypeOK ==
  /\ scen \in [Ids -> Scenario \cup {None}]
  /\ owned \in [Devices -> Ids \cup {None}]
  /\ linked \in BOOLEAN
  /\ tail \in [Pods \X Devices -> Senders \cup {None}]
  /\ prev \in [Senders -> Senders \cup {None}]
  /\ pc \in [Senders \cup Cleaners -> Active \cup Chores \cup Ended \cup {"idle"}]
  /\ seen \in [Senders -> SUBSET (Ids \X Names)]
  /\ todo \in [Cleaners -> SUBSET Ids]
  /\ sid \in [Senders -> Ids \cup {None}]
  /\ said \in [Senders -> SUBSET (Senders \cup {None})]
  /\ limbo \subseteq Write
  /\ bad \in [Cleaners -> BOOLEAN]
  /\ left \in [Cleaners -> SUBSET Ids]
  /\ ticket \in [Senders -> Nat] /\ tickets \in Nat
  /\ \A r \in Senders : pc[r] \in {"record", "put", "trigger"} => sid[r] # None

(* A proxy may be there already, recorded or (from before ownership was    *)
(* recorded) not, and the user may have renamed it.  Without a cookie, what   *)
(* is there was recorded and left by a disconnect that could not delete it. *)
Init ==
  /\ owned \in [Devices -> Old \cup {None}]
  /\ \A d \in Devices : owned[d] # None => Device[owned[d]] = d
  /\ \E renamed \in SUBSET {s \in Old : owned[Device[s]] = s} :
       scen = [s \in Ids |->
                 IF s \in Senders THEN None
                 ELSE [device |-> Device[s], text |-> None,
                       name |-> IF s \in Foreign \cup renamed THEN "other" ELSE "proxy"]]
  /\ linked \in BOOLEAN
  /\ linked \/ \A s \in Old : owned[Device[s]] = s
  /\ tail = [k \in Pods \X Devices |-> None]
  /\ prev = [r \in Senders |-> None]
  /\ pc = [p \in Senders \cup Cleaners |-> "idle"]
  /\ seen = [r \in Senders |-> {}]
  /\ todo = [c \in Cleaners |-> {}]
  /\ sid = [r \in Senders |-> None]
  /\ said = [r \in Senders |-> {}]
  /\ limbo = {}
  /\ bad = [c \in Cleaners |-> FALSE]
  /\ left = [c \in Cleaners |-> {}]
  /\ ticket = [r \in Senders |-> 0] /\ tickets = 0

Goto(p, label) == pc' = [pc EXCEPT ![p] = label]

------------------------------------------------------------------------------
(* runWithLock.                                                            *)

(* checkBearer finds the cookie, and the call joins the line.              *)
Enqueue(r) ==
  /\ pc[r] = "idle" /\ linked
  /\ prev' = [prev EXCEPT ![r] = tail[Key(r)]]
  /\ tail' = [tail EXCEPT ![Key(r)] = r]
  /\ tickets' = tickets + 1
  /\ ticket' = [ticket EXCEPT ![r] = tickets + 1]
  /\ Goto(r, "waiting")
  /\ UNCHANGED <<upstream, owned, linked, work>>

ReleasedEarly(p)  == pc[p] \in Ended \cup {"trigger"}   \* faulty: the trigger is pulled outside
ReleasedIfDone(p) == pc[p] = "done"     \* faulty: a task that throws keeps the line
Released(p)       == pc[p] \in Ended

(* The chain a sender awaits resolves when the one before has released.    *)
Acquire(r) ==
  /\ pc[r] = "waiting"
  /\ prev[r] # None => Released(prev[r])
  /\ Goto(r, "list")
  /\ UNCHANGED <<upstream, owned, linked, lines, work>>

TailForgotten(r) == None            \* faulty: forgets the line although others joined it
TailAfter(r) == IF tail[Key(r)] = r THEN None ELSE tail[Key(r)]

(* The finally block: release, and forget the line if nobody joined it.    *)
Release(r, label) ==
  /\ Goto(r, label)
  /\ tail' = [tail EXCEPT ![Key(r)] = TailAfter(r)]
  /\ UNCHANGED <<prev, ticket, tickets>>

------------------------------------------------------------------------------
(* The calls to Quasar.  A write takes effect and is answered; or the      *)
(* answer is lost; or it never arrives, or arrives later.                  *)

Accepted(w) == w.op = "create" \/ scen[w.id] # None

Apply(w) ==
  /\ Accepted(w)
  /\ scen' = CASE w.op = "create"  -> [scen EXCEPT ![w.id] =
                                         [device |-> Device[w.by], name |-> "proxy", text |-> None]]
               [] w.op = "put"     -> [scen EXCEPT ![w.id].name = "proxy", ![w.id].text = w.by]
               [] w.op = "trigger" -> scen
               [] w.op = "delete"  -> [scen EXCEPT ![w.id] = None]
  /\ said' = IF w.op = "trigger" THEN [said EXCEPT ![w.by] = @ \cup {scen[w.id].text}] ELSE said
  /\ left' = IF w.op = "put" THEN [c \in Cleaners |-> left[c] \ {w.id}] ELSE left

Answered(w) == Apply(w) /\ UNCHANGED limbo
Refused(w)  == ~Accepted(w) /\ UNCHANGED upstream
Lost(w)     == /\ Faults
               /\ \/ Apply(w) /\ UNCHANGED limbo
                  \/ UNCHANGED upstream
                  \/ Late /\ limbo' = limbo \cup {w} /\ UNCHANGED <<scen, said, left>>

Land(w) ==
  /\ w \in limbo
  /\ limbo' = limbo \ {w}
  /\ Apply(w) \/ (~Accepted(w) /\ UNCHANGED <<scen, said, left>>)
  /\ UNCHANGED <<owned, linked, lines, pc, work>>

(* One write of sender r inside the lock.                                  *)
Call(r, from, op, id, next) ==
  LET w == [op |-> op, id |-> id, by |-> r]
  IN /\ pc[r] = from
     /\ \/ Answered(w) /\ IF next = "done" THEN Release(r, "done")
                                           ELSE Goto(r, next) /\ UNCHANGED lines
        \/ (Refused(w) \/ Lost(w)) /\ Release(r, "failed")
     /\ UNCHANGED <<owned, linked, seen, todo, bad>>

------------------------------------------------------------------------------
(* getOrCreateSpeakerScenario, then PUT and trigger.                       *)

List(r) ==
  /\ pc[r] = "list"
  /\ seen' = [seen EXCEPT ![r] = {<<s, scen[s].name>> : s \in {i \in Ids : scen[i] # None}}]
  /\ Goto(r, "adopt")
  /\ UNCHANGED <<upstream, owned, linked, lines, sid, todo, bad>>

(* A read that fails, a body that is not a list, or a refused write to     *)
(* storage ends the request.                                               *)
NotRead(r) ==
  /\ Faults
  /\ pc[r] \in {"list", "adopt", "record"}
  /\ Release(r, "failed")
  /\ UNCHANGED <<upstream, owned, linked, work>>

OnSpeaker(r) == {s \in Ids : Device[s] = Device[r] /\ \E n \in Names : <<s, n>> \in seen[r]}
                                    \* faulty: adopts whatever acts on the speaker
Named(r)     == {s \in Ids : Device[s] = Device[r] /\ <<s, "proxy">> \in seen[r]}

(* The recorded scenario if it was listed, else one that had the exact     *)
(* generated name, else a new one.                                         *)
Adopt(r) ==
  LET recorded == owned[Device[r]]
      choices == IF \E n \in Names : <<recorded, n>> \in seen[r] THEN {recorded} ELSE Named(r)
  IN /\ pc[r] = "adopt"
     /\ \/ \E s \in choices : sid' = [sid EXCEPT ![r] = s] /\ Goto(r, "record")
        \/ choices = {} /\ UNCHANGED sid /\ Goto(r, "create")
     /\ UNCHANGED <<upstream, owned, linked, lines, seen, todo, bad>>

CreateOnly(r) == Call(r, "create", "create", r, "record") /\ UNCHANGED sid
                                    \* faulty: the id of the answer is not kept
Create(r) == Call(r, "create", "create", r, "record") /\ sid' = [sid EXCEPT ![r] = r]

Record(r) ==
  /\ pc[r] = "record"
  /\ owned' = [owned EXCEPT ![Device[r]] = sid[r]]
  /\ Goto(r, "put")
  /\ UNCHANGED <<upstream, linked, lines, work>>

Put(r)     == Call(r, "put", "put", sid[r], "trigger") /\ UNCHANGED sid
Trigger(r) == Call(r, "trigger", "trigger", sid[r], "done") /\ UNCHANGED sid

------------------------------------------------------------------------------
(* removeProxyScenarios, disconnect-quasar and account/delete.             *)

StartClean(c) ==
  /\ pc[c] = "idle"
  /\ left' = IF linked THEN [left EXCEPT ![c] = Proxies] ELSE left
  /\ Goto(c, IF linked THEN "recorded" ELSE "count")
  /\ UNCHANGED <<scen, said, limbo, owned, linked, lines, work>>

(* Without a cookie nothing can be called: are there recorded scenarios?   *)
Count(c) ==
  /\ pc[c] = "count"
  /\ bad' = [bad EXCEPT ![c] = owned # Nothing]
  /\ left' = [left EXCEPT ![c] = Proxies \cap {owned[d] : d \in Devices}]
  /\ Goto(c, "unlink")
  /\ UNCHANGED <<scen, said, limbo, owned, linked, lines, seen, sid, todo>>

ListRecorded(c) ==
  /\ pc[c] = "recorded"
  /\ todo' = [todo EXCEPT ![c] = {owned[d] : d \in Devices} \ {None}]
  /\ Goto(c, "listAll")
  /\ UNCHANGED <<upstream, owned, linked, lines, seen, sid, bad>>

AllListed(c) == {s \in Ids : scen[s] # None}   \* faulty: no filter
Ours(c)      == {s \in Ids : scen[s] # None} \cap (todo[c] \cup Proxies)

ListAll(c) ==
  /\ pc[c] = "listAll"
  /\ todo' = [todo EXCEPT ![c] = Ours(c)]
  /\ Goto(c, "delete")
  /\ UNCHANGED <<upstream, owned, linked, lines, seen, sid, bad>>

FailureIgnored(c) == bad[c]         \* faulty: a DELETE that failed is not counted
FailureCounted(c) == TRUE

Delete(c) ==
  /\ pc[c] = "delete"
  /\ \E s \in todo[c] :
       LET w == [op |-> "delete", id |-> s, by |-> c]
       IN /\ todo' = [todo EXCEPT ![c] = @ \ {s}]
          /\ \/ Answered(w) /\ UNCHANGED bad
             \/ (Refused(w) \/ Lost(w)) /\ bad' = [bad EXCEPT ![c] = FailureCounted(c)]
  /\ UNCHANGED <<owned, linked, lines, pc, seen, sid>>

Swept(c) ==
  /\ pc[c] = "delete" /\ todo[c] = {}
  /\ Goto(c, IF bad[c] THEN "unlink" ELSE "forget")
  /\ UNCHANGED <<upstream, owned, linked, lines, work>>

(* The list cannot be read or the deadline passes; a failure of storage     *)
(* ends the whole request.                                                 *)
GiveUp(c) ==
  /\ Faults
  /\ \/ /\ pc[c] \in {"listAll", "delete"}
        /\ bad' = [bad EXCEPT ![c] = TRUE]
        /\ Goto(c, "unlink")
     \/ /\ pc[c] \in Chores \ {"listAll", "delete"}
        /\ Goto(c, "failed") /\ UNCHANGED bad
  /\ UNCHANGED <<upstream, owned, linked, lines, seen, sid, todo>>

Forget(c) ==
  /\ pc[c] = "forget"
  /\ owned' = Nothing
  /\ Goto(c, "unlink")
  /\ UNCHANGED <<upstream, linked, lines, work>>

(* deleteUser clears the records too; disconnecting clears the cookie and, *)
(* unless scenarios were left, the records once more.                      *)
Unlink(c) ==
  /\ pc[c] = "unlink"
  /\ linked' = FALSE
  /\ IF c \in Erases THEN owned' = Nothing /\ Goto(c, "done")
                     ELSE UNCHANGED owned /\ Goto(c, "forgetAgain")
  /\ UNCHANGED <<upstream, lines, work>>

ForgetAgain(c) ==
  /\ pc[c] = "forgetAgain"
  /\ owned' = IF bad[c] THEN owned ELSE Nothing
  /\ Goto(c, "done")
  /\ UNCHANGED <<upstream, linked, lines, work>>

------------------------------------------------------------------------------
(* The environment.                                                        *)

(* The user renames a proxy in the Yandex app.                             *)
Rename(s) ==
  /\ scen[s] # None /\ scen[s].name = "proxy"
  /\ scen' = [scen EXCEPT ![s].name = "other"]
  /\ UNCHANGED <<said, limbo, left, owned, linked, lines, pc, work>>

(* A pod dies, and with it its requests and its lines.                     *)
Crash(p) ==
  /\ Faults
  /\ \E r \in Senders : Pod[r] = p /\ pc[r] \in Active
  /\ pc' = [q \in Senders \cup Cleaners |->
              IF q \in Senders /\ Pod[q] = p /\ pc[q] \in Active THEN "dead" ELSE pc[q]]
  /\ tail' = [k \in Pods \X Devices |-> IF k[1] = p THEN None ELSE tail[k]]
  /\ UNCHANGED <<upstream, owned, linked, prev, ticket, tickets, work>>

Send(r) ==
  \/ Acquire(r) \/ List(r) \/ NotRead(r) \/ Adopt(r) \/ Create(r) \/ Record(r) \/ Put(r) \/ Trigger(r)

Clean(c) ==
  \/ Count(c) \/ ListRecorded(c) \/ ListAll(c) \/ Delete(c) \/ Swept(c) \/ GiveUp(c)
  \/ Forget(c) \/ Unlink(c) \/ ForgetAgain(c)

Next ==
  \/ \E r \in Senders : Enqueue(r) \/ Send(r)
  \/ \E c \in Cleaners : StartClean(c) \/ Clean(c)
  \/ \E w \in limbo : Land(w)
  \/ \E s \in Ids : Rename(s)
  \/ \E p \in Pods : Crash(p)

Spec == Init /\ [][Next]_vars

(* Every call to Yandex has a deadline, and the event loop goes on with    *)
(* whoever was answered.                                                   *)
FairSpec ==
  /\ Spec
  /\ \A r \in Senders : WF_vars(Send(r))
  /\ \A c \in Cleaners : WF_vars(Clean(c))

------------------------------------------------------------------------------
(* Properties.                                                             *)

(* One sender at a time between list and trigger, per pod and speaker.     *)
Exclusive ==
  \A r, q \in Senders : pc[r] \in InLock /\ pc[q] \in InLock /\ Key(r) = Key(q) => r = q

(* Senders to one speaker are served in the order they came: none enters   *)
(* while an earlier one is still in line.                                  *)
InTurn ==
  \A r, q \in Senders :
    /\ Key(r) = Key(q) /\ pc[r] \in Active /\ pc[q] \in Active
    /\ ticket[r] < ticket[q]
    => pc[q] = "waiting"

(* A trigger speaks the words of the request that pulled it, and no other. *)
OwnWords == \A r \in Senders : said[r] \subseteq {r}

(* The user's own scenarios are never written to and never deleted.        *)
ForeignKept == [][\A s \in Foreign : scen'[s] = scen[s]]_vars

(* A cleaner that reports success has removed every proxy it found, but    *)
(* those a request wrote to meanwhile.  With the cookie it finds those that *)
(* are recorded or bear the generated name, without it those recorded.     *)
CleanupComplete ==
  \A c \in Cleaners : pc[c] = "done" /\ ~bad[c] => left[c] \cap Proxies = {}

(* Every sender gets its turn and ends.                                    *)
EveryTurnComes == \A r \in Senders : pc[r] = "waiting" ~> pc[r] \in Ended

(* "Disconnecting removes the cookie and the mctl-* scenarios" (README).   *)
NothingLeftBehind ==
  (\A p \in Senders \cup Cleaners : pc[p] \in Ended \cup {"idle"})
    => \A c \in Cleaners : pc[c] = "done" /\ ~bad[c] => Proxies = {}
==============================================================================
