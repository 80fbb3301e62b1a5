------------------------------ MODULE Commands ------------------------------
(***************************************************************************)
(* The tools of the MCP server: a call names a thing of the user's home,   *)
(* finds it in a list that is cached for thirty seconds, and has Yandex    *)
(* act on it, through Quasar when the account is connected there and       *)
(* otherwise, or when that fails, through the Smart Home API.              *)
(*                                                                         *)
(* Several calls share one StationService: a JSON-RPC batch, or everything *)
(* in the local mode.  Yandex is external: a request may be carried out    *)
(* after its caller has given up on it.  The clock counts fifteen-second   *)
(* ticks, the deadline of a Smart Home call.                               *)
(***************************************************************************)
EXTENDS Naturals, Sequences, FiniteSets

CONSTANTS
  Calls, Things, Scenarios,
  Speakers, Stations,    \* things that Alice speaks from, and those that are nothing else
  Rooms, Names,
  Able, TypeOf,  \* [Devices -> what it can do] and [Devices -> its type]
  Within,        \* [Words -> the names and rooms that have it as a part]
  Homes,         \* what the home may look like: [Things -> [name, room]]
  Plans,         \* which call asks what: [Calls -> Asking or None]
  CACHE_TTL, BUDGET,
  MaxClock, MaxChanges,   \* bounds
  None

Telling  == {"listDevices", "getHomeSummary", "getDeviceHistory"}   \* ask Yandex for the list only
Reading  == Telling \cup {"getDeviceState"}
Speaking == {"sendCommand", "sayPhrase"}
Twice    == {"setVolume", "mediaControl"}
ToSpeaker == Speaking \cup Twice
InARoom  == {"controlDevice", "setLight", "getDeviceState", "getDeviceHistory"}
OfAny    == ToSpeaker \cup {"listDevices", "getHomeSummary", "controlRoom"}
Tools    == InARoom \cup OfAny \cup {"triggerScenario"}
Devices == Things \ Scenarios
Words   == Things \cup Names \cup Rooms

(* What a tool may want of a device; the types of devices, and the words   *)
(* for several types: "climate" is looked for by parts of their names, of  *)
(* which "ac" is also one of a vacuum cleaner's and a washing machine's.   *)
Wants == [controlDevice |-> {"on_off", "temperature", "mode"},
          setLight      |-> {"on_off", "brightness", "color_setting"}]
Abilities == Wants.controlDevice \cup Wants.setLight
OfType == [light   |-> {"light", "light.lamp"},
           socket  |-> {"socket", "switch"},
           climate |-> {"thermostat", "thermostat.ac", "humidifier", "ventilation.fan",
                        "vacuum_cleaner", "washing_machine"}]
Types == UNION {OfType[f] : f \in DOMAIN OfType} \cup {"media_device.tv", "smart_speaker", "other"}

(* The input of a tool: what it is to act on, which OfAny may leave out    *)
(* (controlRoom with "all"), the room that is in, what is to be done to it,*)
(* which devices of a room are meant, and the scope of the caller's token. *)
Asking ==
  {a \in [tool : Tools, query : Words \cup {None}, room : Words \cup {None},
          want : SUBSET Abilities, type : {"all"} \cup DOMAIN OfType,
          scope : SUBSET {"iot:view", "iot:control", "quasar"}] :
     /\ a.query = None => a.tool \in OfAny
     /\ a.room # None  => a.tool \in InARoom
     /\ a.want # {}    => a.tool \in DOMAIN Wants /\ a.want \subseteq Wants[a.tool]
     /\ a.type # "all" => a.tool = "controlRoom"}

ASSUME CommandsAssumption ==
  /\ Scenarios \subseteq Things /\ Speakers \subseteq Devices /\ Stations \subseteq Speakers
  /\ None \notin Calls \cup Words \cup {"ok", "refused", "error"}
  /\ IsFiniteSet(Things \cup Rooms)
  /\ Able \in [Devices -> SUBSET Abilities] /\ TypeOf \in [Devices -> Types]
  /\ Within \in [Words -> SUBSET (Names \cup Rooms)]
  /\ \A w \in Names \cup Rooms : w \in Within[w]
  /\ Homes \subseteq [Things -> [name : Names, room : Rooms]]
  /\ \A plan \in Plans : plan \in [Calls -> Asking \cup {None}]
  /\ {CACHE_TTL, BUDGET, MaxClock, MaxChanges} \subseteq Nat
  /\ 1 < CACHE_TTL /\ BUDGET < CACHE_TTL

VARIABLES
  clock,
  home, changes,      \* external: the home, and how often it has changed
  cachedUserInfo, cacheTimestamp,
  hosted, hasToken, hasCookie,   \* the mode and what the account is connected to
  ask, pc, began,     \* of each call: what, where it is, when its list was asked for
  since, retried,     \* when the request for it was sent; whether with a renewed token
  got,                \* the list Yandex has put together for it
  used,               \* the lists it went by, and how old those were
  aim,                \* the things it found in the first of them
  flight,             \* requests that Yandex may still act on
  waiting,            \* requests that a call is waiting for
  served,             \* those among them that Yandex has acted on
  hits,               \* how often Yandex carried out a call's wish for a thing
  heard,              \* things a call got a success for
  out,                \* how a call was reported
  unheard,            \* history: things a call gave up a request for
  fell                \* history: calls that left Quasar for the Smart Home API

world   == <<home, changes, hosted, hasToken, hasCookie>>
cache   == <<cachedUserInfo, cacheTimestamp>>
looking == <<ask, began, since, retried, got, used, aim>>
acting  == <<flight, waiting, served, hits, heard, unheard, fell>>
vars == <<clock, world, cache, looking, pc, acting, out>>

Seen    == {[t \in D |-> h[t]] : D \in {Things, Devices}, h \in Homes}
Lead    == IF Speakers = {} THEN {None} ELSE Speakers     \* the first speaker of a list
List    == [home : Seen, lead : Lead, read : Nat]
Use     == [home : Seen, lead : Lead, age : Nat]
Request == [call : Calls, way : {"quasar", "iot"}, on : SUBSET Things, again : BOOLEAN]

TypeOK ==
  /\ clock \in 0..MaxClock /\ home \in Homes /\ changes \in 0..MaxChanges
  /\ cachedUserInfo \in List \cup {None} /\ cacheTimestamp \in 0..MaxClock
  /\ ask \in Plans
  /\ pc \in [Calls -> {"idle", "look", "iotList", "quasarList", "act", "done"}]
  /\ began \in [Calls -> 0..MaxClock] /\ since \in [Calls -> 0..MaxClock]
  /\ got \in [Calls -> List \cup {None}] /\ used \in [Calls -> SUBSET Use]
  /\ aim \in [Calls -> SUBSET Things]
  /\ flight \subseteq Request /\ unheard \in [Calls -> SUBSET Things]
  /\ waiting \subseteq Request /\ served \subseteq waiting
  /\ flight \cap waiting = waiting \ served
  /\ \A q \in waiting : pc[q.call] = "act"
  /\ hits \in [Calls -> [Things -> 0..4]] /\ heard \in [Calls -> SUBSET Things]
  /\ out \in [Calls -> {"ok", "refused", "error", None}]
  /\ fell \subseteq Calls /\ retried \subseteq Calls

Init ==
  /\ clock = 0 /\ home \in Homes /\ changes = 0
  /\ cachedUserInfo = None /\ cacheTimestamp = 0
  /\ hosted \in BOOLEAN /\ hasToken \in BOOLEAN /\ hasCookie \in BOOLEAN
  /\ hasToken \/ hasCookie
  /\ ask \in Plans
  /\ pc = [c \in Calls |-> "idle"]
  /\ began = [c \in Calls |-> 0] /\ since = began
  /\ got = [c \in Calls |-> None] /\ out = got
  /\ flight = {} /\ served = {} /\ waiting = {}
  /\ hits = [c \in Calls |-> [t \in Things |-> 0]] /\ heard = [c \in Calls |-> {}]
  /\ used = heard /\ aim = heard /\ unheard = heard
  /\ retried = {} /\ fell = {}

------------------------------------------------------------------------------
(* Finding what is meant.                                                  *)

(* uniqueMatch: the first tier with a match, and none if it has several.   *)
FirstTier(tiers) ==
  UNION {tiers[i] : i \in {j \in DOMAIN tiers : \A k \in 1 .. j - 1 : tiers[k] = {}}}

AnyMatch(tiers) ==   \* faulty: the first match of the tier
  IF FirstTier(tiers) = {} THEN {} ELSE {CHOOSE t \in FirstTier(tiers) : TRUE}
uniqueMatch(tiers) == IF Cardinality(FirstTier(tiers)) = 1 THEN FirstTier(tiers) ELSE {}

(* By id, by name, by a part of the name.                                  *)
ByName(list, among, query) ==
  << among \cap {query},
     {t \in among : list[t].name = query},
     {t \in among : list[t].name \in Within[query]} >>

(* resolveRoom, of the rooms of the list.                                  *)
resolveRoom(list, query) ==
  LET rooms == {list[t].room : t \in DOMAIN list} IN
    uniqueMatch(<<rooms \cap {query}, rooms \cap Within[query]>>)

InRoom(list, among, rooms) == {t \in among : list[t].room \in rooms}

(* Without a query the first speaker of the list will do.                  *)
resolveSpeaker(list, lead, query) ==
  IF query = None THEN Speakers \cap {lead}
  ELSE uniqueMatch(ByName(list, Speakers, query)
                   \o <<InRoom(list, Stations, Within[query]), InRoom(list, Speakers, Within[query])>>)

resolveDevice(list, query, room) ==
  LET rooms == IF room = None THEN Rooms ELSE resolveRoom(list, room) IN
    uniqueMatch(ByName(list, InRoom(list, DOMAIN list \cap Devices, rooms), query))

------------------------------------------------------------------------------
(* The methods of StationService.  For each, the things it chooses to act  *)
(* on, or to ask about, by the list it sees; the empty set stands for an   *)
(* error: nothing or too much was found, or what was found cannot do that. *)
sendCommand(see, a)    == resolveSpeaker(see.home, see.lead, a.query)
sayPhrase(see, a)      == resolveSpeaker(see.home, see.lead, a.query)
setVolume(see, a)      == resolveSpeaker(see.home, see.lead, a.query)
mediaControl(see, a)   == resolveSpeaker(see.home, see.lead, a.query)
getDeviceState(see, a) == resolveDevice(see.home, a.query, a.room)
triggerScenario(see, a) ==
  uniqueMatch(ByName(see.home, DOMAIN see.home \cap Scenarios, a.query))

(* Of what is wanted, a device is asked for what it can do.                *)
CanDo(a, t) == Able[t] \cap a.want # {}
controlDevice(see, a) == {t \in resolveDevice(see.home, a.query, a.room) : CanDo(a, t)}
setLight(see, a)      == {t \in resolveDevice(see.home, a.query, a.room) : CanDo(a, t)}

(* Speakers are left out when a room, or the whole home, is switched.      *)
Controllable(a, t) ==
  t \notin Speakers /\ "on_off" \in Able[t] /\ (a.type # "all" => TypeOf[t] \in OfType[a.type])
controlRoom(see, a) ==
  LET rooms == IF a.query = None THEN Rooms ELSE resolveRoom(see.home, a.query) IN
    {t \in InRoom(see.home, Devices, rooms) : Controllable(a, t)}

(* These act on nothing: whether what they are to tell about is found.     *)
listDevices(see, a)      == TRUE
getHomeSummary(see, a)   == a.query = None \/ resolveRoom(see.home, a.query) # {}
getDeviceHistory(see, a) == resolveDevice(see.home, a.query, a.room) # {}

Found(see, a) ==
  CASE a.tool = "listDevices"      -> listDevices(see, a)
    [] a.tool = "getHomeSummary"   -> getHomeSummary(see, a)
    [] a.tool = "getDeviceHistory" -> getDeviceHistory(see, a)

(* handleToolCall: the others.                                             *)
Targets(see, a) ==
  CASE a.tool = "sendCommand"     -> sendCommand(see, a)
    [] a.tool = "sayPhrase"       -> sayPhrase(see, a)
    [] a.tool = "setVolume"       -> setVolume(see, a)
    [] a.tool = "mediaControl"    -> mediaControl(see, a)
    [] a.tool = "getDeviceState"  -> getDeviceState(see, a)
    [] a.tool = "controlDevice"   -> controlDevice(see, a)
    [] a.tool = "setLight"        -> setLight(see, a)
    [] a.tool = "controlRoom"     -> controlRoom(see, a)
    [] a.tool = "triggerScenario" -> triggerScenario(see, a)

(* checkScope                                                              *)
Permitted(a) ==
  CASE a.tool \in Speaking -> "quasar" \in a.scope
    [] a.tool \in Reading  -> a.scope \cap {"iot:view", "iot:control"} # {}
    [] OTHER -> "iot:control" \in a.scope

(* What is sent to Quasar is sent for each thing by itself.                *)
Requests(c, way, things, again) ==
  IF way = "quasar"
  THEN {[call |-> c, way |-> way, on |-> {t}, again |-> again] : t \in things}
  ELSE {[call |-> c, way |-> way, on |-> things, again |-> again]}

------------------------------------------------------------------------------
(* A call and the list.                                                    *)

Quasar(c) == hasCookie /\ (hosted => "quasar" \in ask[c].scope)

End(c, how) == pc' = [pc EXCEPT ![c] = "done"] /\ out' = [out EXCEPT ![c] = how]

(* Without Quasar the hosted server says nothing, and it keeps no history. *)
Start(c) ==
  /\ pc[c] = "idle" /\ ask[c] # None
  /\ IF \/ ~Permitted(ask[c])
        \/ hosted /\ ask[c].tool \in Speaking /\ ~hasCookie
        \/ hosted /\ ask[c].tool = "getDeviceHistory"
     THEN End(c, "refused")
     ELSE pc' = [pc EXCEPT ![c] = "look"] /\ out' = out
  /\ UNCHANGED <<clock, world, cache, looking, acting>>

(* With a list in hand the call goes on in the same turn of the event loop.*)
(* The history may be asked for a time that is none, or fail to be read.   *)
Tell(c, list) ==
  /\ ask[c].tool \in Telling
  /\ \/ Found(list, ask[c]) /\ End(c, "ok")
     \/ (Found(list, ask[c]) => ask[c].tool = "getDeviceHistory") /\ End(c, "error")
  /\ UNCHANGED <<aim, flight, waiting, fell>>

Send(c, way, things) ==
  LET qs == Requests(c, way, things, FALSE) IN
    /\ flight' = flight \cup qs /\ waiting' = waiting \cup qs
    /\ pc' = [pc EXCEPT ![c] = "act"] /\ out' = out

(* setVolume and mediaControl have sendCommand find the speaker once more, *)
(* by a list of its own if the first one came too late for the cache.      *)
Choose(c, list) ==
  LET things == Targets(list, ask[c]) IN
  /\ ask[c].tool \notin Telling /\ aim[c] = {}
  /\ IF things = {} \/ (~Quasar(c) /\ ~hasToken)
     THEN End(c, "error") /\ UNCHANGED <<aim, flight, waiting>>
     ELSE /\ aim' = [aim EXCEPT ![c] = things]
          /\ IF Quasar(c) /\ ask[c].tool \in Twice
             THEN pc' = [pc EXCEPT ![c] = "look"] /\ UNCHANGED <<flight, waiting, out>>
             ELSE Send(c, IF Quasar(c) THEN "quasar" ELSE "iot", things)
  /\ fell' = fell

(* When that fails, what was found first is told by the other way.         *)
Instead(c) ==
  IF hasToken THEN Send(c, "iot", aim[c]) /\ fell' = fell \cup {c}
  ELSE End(c, "error") /\ UNCHANGED <<flight, waiting, fell>>

ChooseAgain(c, list) ==
  LET things == Targets(list, ask[c]) IN
  /\ aim[c] # {} /\ aim' = aim
  /\ IF things = {} THEN Instead(c) ELSE Send(c, "quasar", things) /\ fell' = fell

GoBy(c, list) ==
  /\ used' = [used EXCEPT ![c] =
                @ \cup {[home |-> list.home, lead |-> list.lead, age |-> clock - list.read]}]
  /\ Tell(c, list) \/ Choose(c, list) \/ ChooseAgain(c, list)

IsFresh == cachedUserInfo # None /\ clock - cacheTimestamp < CACHE_TTL

FromCache(c) ==
  /\ pc[c] = "look" /\ IsFresh
  /\ GoBy(c, cachedUserInfo)
  /\ UNCHANGED <<clock, world, cache, ask, began, since, retried, got, served, hits, heard, unheard>>

AskForList(c) ==
  /\ pc[c] = "look" /\ ~IsFresh
  /\ began' = [began EXCEPT ![c] = clock] /\ since' = [since EXCEPT ![c] = clock]
  /\ IF ~hasToken /\ ~Quasar(c) THEN End(c, "error")
     ELSE pc' = [pc EXCEPT ![c] = IF hasToken THEN "iotList" ELSE "quasarList"] /\ out' = out
  /\ UNCHANGED <<clock, world, cache, ask, retried, got, used, aim, acting>>

(* What a call kept while it waited for its list.                          *)
Forget(c) ==
  /\ got' = [got EXCEPT ![c] = None] /\ retried' = retried \ {c}
  /\ began' = [began EXCEPT ![c] = 0] /\ since' = [since EXCEPT ![c] = 0]

(* Yandex answers with the home as it is now, in any order.  When Quasar's *)
(* second call fails, the list is one without scenarios.                   *)
PutTogether(c) ==
  /\ pc[c] \in {"iotList", "quasarList"} /\ got[c] = None
  /\ \E D \in {Things} \cup (IF pc[c] = "quasarList" THEN {Devices} ELSE {}), lead \in Lead :
       got' = [got EXCEPT ![c] = [home |-> [t \in D |-> home[t]], lead |-> lead, read |-> clock]]
  /\ UNCHANGED <<clock, world, cache, ask, began, since, retried, used, aim, pc, acting, out>>

(* A 401 has the token renewed and the list asked for again, once.         *)
RetryList(c) ==
  /\ pc[c] = "iotList" /\ got[c] = None /\ c \notin retried
  /\ retried' = retried \cup {c} /\ since' = [since EXCEPT ![c] = clock]
  /\ UNCHANGED <<clock, world, cache, ask, began, got, used, aim, pc, acting, out>>

(* The list counts from when it was asked for.                             *)
Stamped(c) == began[c]

ListCame(c) ==
  /\ pc[c] \in {"iotList", "quasarList"} /\ got[c] # None
  /\ cachedUserInfo' = got[c] /\ cacheTimestamp' = Stamped(c)
  /\ Forget(c)
  /\ GoBy(c, got[c])
  /\ UNCHANGED <<clock, world, ask, served, hits, heard, unheard>>

(* The two ways share one budget.                                          *)
ListFailed(c) ==
  /\ pc[c] \in {"iotList", "quasarList"}
  /\ IF pc[c] = "iotList" /\ Quasar(c) /\ clock - began[c] < BUDGET
     THEN /\ pc' = [pc EXCEPT ![c] = "quasarList"] /\ got' = [got EXCEPT ![c] = None]
          /\ UNCHANGED <<began, since, retried, flight, waiting, fell, out>>
     ELSE /\ Forget(c)
          /\ IF aim[c] = {} THEN End(c, "error") /\ UNCHANGED <<flight, waiting, fell>>
             ELSE Instead(c)
  /\ UNCHANGED <<clock, world, cache, ask, used, aim, served, hits, heard, unheard>>

------------------------------------------------------------------------------
(* Requests that act (or, for getDeviceState, read one device).                   *)

Mine(c) == {q \in waiting : q.call = c}

(* A call that is over waits for nothing more.                             *)
OneReleased(q) == waiting \ {q}    \* faulty: the others are still waited for
Released(q) == waiting \ Mine(q.call)

(* Yandex carries a request out, whether or not anyone waits for it.       *)
Serve(q) ==
  /\ q \in flight
  /\ flight' = flight \ {q}
  /\ served' = IF q \in waiting THEN served \cup {q} ELSE served
  /\ hits' = [hits EXCEPT ![q.call] = [t \in Things |-> @[t] + IF t \in q.on THEN 1 ELSE 0]]
  /\ UNCHANGED <<clock, world, cache, looking, pc, waiting, heard, unheard, fell, out>>

(* Or never: the connection was closed in time.                            *)
Lost(q) ==
  /\ q \in flight \ waiting
  /\ flight' = flight \ {q}
  /\ UNCHANGED <<clock, world, cache, looking, pc, waiting, served, hits, heard, unheard, fell,
                 out>>

(* Promise.all: the call is over when all of its requests are.             *)
FirstOver(rest) == TRUE     \* faulty: Promise.race
AllOver(rest) == rest = {}

Answered(q) ==
  /\ q \in served
  /\ heard' = [heard EXCEPT ![q.call] = @ \cup q.on]
  /\ IF AllOver(Mine(q.call) \ {q})
     THEN End(q.call, "ok") /\ waiting' = Released(q)
     ELSE UNCHANGED <<pc, out>> /\ waiting' = waiting \ {q}
  /\ served' = served \cap waiting'
  /\ UNCHANGED <<clock, world, cache, looking, flight, hits, unheard, fell>>

(* Everything but sendCommand and sayPhrase falls back on the Smart Home   *)
(* API, with all of the things it found first; the requests beside the     *)
(* failed one are not stopped.                                             *)
EvenSaying(q) == q.way = "quasar" /\ hasToken    \* faulty: those two as well
FallsBack(q) == q.way = "quasar" /\ ask[q.call].tool \notin Speaking /\ hasToken

Failed(q, left) ==
  LET c == q.call  next == Requests(c, "iot", aim[c], FALSE) IN
    /\ served' = served \cap Released(q)
    /\ IF FallsBack(q)
       THEN /\ flight' = left \cup next /\ waiting' = Released(q) \cup next
            /\ fell' = fell \cup {c}
            /\ UNCHANGED <<pc, out>>
       ELSE /\ flight' = left /\ waiting' = Released(q) /\ fell' = fell
            /\ End(c, "error")

(* Refused, or not even sent because Quasar's CSRF token did not come.     *)
Refused(q) ==
  /\ q \in waiting \ served
  /\ Failed(q, flight \ {q})
  /\ UNCHANGED <<clock, world, cache, looking, hits, heard, unheard>>

(* A 401 of the Smart Home API has the token renewed, a 403 of Quasar the  *)
(* CSRF token; then the request is sent again, once.                       *)
Once(q) == ~q.again

Resent(q) ==
  /\ q \in waiting \ served /\ Once(q)
  /\ LET again == [q EXCEPT !.again = TRUE] IN
       /\ flight' = (flight \ {q}) \cup {again}
       /\ waiting' = (waiting \ {q}) \cup {again}
  /\ UNCHANGED <<clock, world, cache, looking, pc, served, hits, heard, unheard, fell, out>>

(* The deadline, or a connection that broke before the answer.             *)
GivenUp(q) ==
  /\ q \in waiting
  /\ unheard' = [unheard EXCEPT ![q.call] = @ \cup q.on]
  /\ Failed(q, flight)
  /\ UNCHANGED <<clock, world, cache, looking, hits, heard>>

------------------------------------------------------------------------------
(* The home and the time; both matter only to calls that still need a list.*)
Looking == \E c \in Calls : ask[c] # None /\ pc[c] \notin {"act", "done"}

Change ==
  /\ changes < MaxChanges /\ Looking
  /\ home' \in Homes \ {home} /\ changes' = changes + 1
  /\ UNCHANGED <<clock, hosted, hasToken, hasCookie, cache, looking, pc, acting, out>>

(* No request for the list is under way for longer than its deadline, and  *)
(* Quasar's for no longer than the budget.                                 *)
Tick ==
  /\ clock < MaxClock /\ Looking
  /\ \A c \in Calls : /\ pc[c] = "iotList" => since[c] = clock
                      /\ pc[c] = "quasarList" => clock - began[c] < BUDGET
  /\ clock' = clock + 1
  /\ UNCHANGED <<world, cache, looking, pc, acting, out>>

Step(c) == Start(c) \/ FromCache(c) \/ AskForList(c) \/ PutTogether(c) \/ RetryList(c)
           \/ ListCame(c) \/ ListFailed(c)

Next ==
  \/ \E c \in Calls : Step(c)
  \/ \E q \in flight : Serve(q) \/ Lost(q)
  \/ \E q \in waiting : Answered(q) \/ Refused(q) \/ Resent(q) \/ GivenUp(q)
  \/ Change \/ Tick

Spec == Init /\ [][Next]_vars

------------------------------------------------------------------------------
(* What a call promises.                                                   *)

(* The ways a thing may fit a query, the closest first; of two things the  *)
(* one fits more closely that fits in a way in which, and in the ways      *)
(* before which, the other does not.                                       *)
Fits(list, a, t, way) ==
  \/ way = 1 /\ t = a.query
  \/ way = 2 /\ list[t].name = a.query
  \/ way = 3 /\ list[t].name \in Within[a.query]
  \/ way = 4 /\ t \in Stations /\ list[t].room \in Within[a.query]
  \/ way = 5 /\ t \in Speakers /\ list[t].room \in Within[a.query]

Closer(list, a, t, u) ==
  \E way \in 1 .. 5 : Fits(list, a, t, way) /\ \A w \in 1 .. way : ~Fits(list, a, u, w)

Rivals(list, a, t) ==
  {u \in (IF t \in Scenarios THEN Scenarios
          ELSE IF a.tool \in ToSpeaker THEN Speakers ELSE Devices) \ {t} :
     a.room = None \/ t \in Scenarios \/ list[u].room = list[t].room}

InTheRoom(list, t, query) ==
  /\ list[t].room \in Within[query]
  /\ list[t].room # query =>
       \A u \in Devices : list[u].room \in Within[query] => list[u].room = list[t].room

(* What the description of the tool promises to switch for a word; for     *)
(* "climate" the code also switches two that nobody would mean by it.      *)
Promised == [light   |-> {"light", "light.lamp"},
             socket  |-> {"socket", "switch"},
             climate |-> {"thermostat", "thermostat.ac", "humidifier", "ventilation.fan"}]
OfThatType(a, t) ==
  a.type # "all" => \/ TypeOf[t] \in Promised[a.type]
                    \/ a.type = "climate" /\ TypeOf[t] \in {"vacuum_cleaner", "washing_machine"}

Meant(list, a, t) ==
  IF a.tool = "controlRoom"
  THEN /\ a.query = None \/ InTheRoom(list, t, a.query)
       /\ t \notin Speakers /\ "on_off" \in Able[t] /\ OfThatType(a, t)
  ELSE /\ a.room = None \/ InTheRoom(list, t, a.room)
       /\ a.query # None => \A u \in Rivals(list, a, t) : Closer(list, a, t, u)
       /\ a.tool \in DOMAIN Wants => \E ability \in a.want : ability \in Able[t]

(* Whatever Yandex is asked to act on is what the user named, and nothing  *)
(* else fitted as well, in a list that was read less than thirty seconds   *)
(* before it was used - however slowly the list came, whichever way it     *)
(* came and whichever call had asked for it.  It can do some of what is    *)
(* asked for, and a whole room is switched without its speakers and        *)
(* without the devices of other types than the one that is asked for.      *)
ActsOnTheNamed ==
  \A c \in Calls : \A t \in Things :
    hits[c][t] > 0 \/ (\E q \in flight : q.call = c /\ t \in q.on) =>
      \E see \in used[c] : see.age < CACHE_TTL /\ Meant(see.home, ask[c], t)

(* A wish is carried out twice only when the caller could not know that it *)
(* had been carried out: some request for it went unanswered (a room is    *)
(* switched again also when one of its devices failed).  Never three       *)
(* times, and what is to be said is never said twice.                      *)
RepeatedOnlyUnheard ==
  \A c \in Calls : \A t \in Things :
    /\ hits[c][t] <= 2
    /\ hits[c][t] = 2 =>
         /\ ask[c].tool \notin Speaking
         /\ ask[c].tool = "controlRoom" \/ t \in unheard[c]

(* A call that reports success has a success for everything it was to act  *)
(* on, by one and the same list, and unless it fell back on the Smart Home *)
(* API no request of it is under way any more, to undo what is asked for   *)
(* next.  What it reports is what it found first, so only setVolume and    *)
(* mediaControl, and only when they were given two different lists, may    *)
(* report another speaker than the one that obeyed.                        *)
SuccessMeansOver ==
  \A c \in Calls : out[c] = "ok" /\ ask[c].tool \notin Telling =>
    /\ \E see \in used[c] : heard[c] = Targets(see, ask[c])
    /\ heard[c] = aim[c] \/ \E see, other \in used[c] :
                             <<see.home, see.lead>> # <<other.home, other.lead>>
    /\ \A q \in flight : q.call = c => c \in fell /\ q.way = "quasar"
==============================================================================
