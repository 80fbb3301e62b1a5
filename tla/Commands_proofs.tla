--------------------------- MODULE Commands_proofs ---------------------------
(***************************************************************************)
(* What TLAPS proves of Commands, for any home, any number of calls of any *)
(* tool and whatever is late, refused, lost or answered: matching finds    *)
(* what the user named, a wish is not carried out more often than it must, *)
(* and a success is the success of every part.                             *)
(***************************************************************************)
EXTENDS Commands, FiniteSetTheorems, TLAPS

USE CommandsAssumption

------------------------------------------------------------------------------
(* Matching.                                                               *)

(* The first tier with a match is the one of them after nothing but empty  *)
(* ones.                                                                   *)
LEMMA FirstTierIs ==
  ASSUME NEW n \in Nat, NEW tiers, DOMAIN tiers = 1 .. n, NEW x \in FirstTier(tiers)
  PROVE  \E i \in 1 .. n : FirstTier(tiers) = tiers[i] /\ \A k \in 1 .. i - 1 : tiers[k] = {}
<1> DEFINE first == {j \in DOMAIN tiers : \A k \in 1 .. j - 1 : tiers[k] = {}}
<1>1. FirstTier(tiers) = UNION {tiers[i] : i \in first}
  BY DEF FirstTier
<1>2. PICK i \in first : x \in tiers[i]
  BY <1>1
<1>3. i \in 1 .. n /\ \A k \in 1 .. i - 1 : tiers[k] = {}
  BY <1>2
<1>4. \A j \in first : tiers[j] \subseteq tiers[i]
  <2> SUFFICES ASSUME NEW j \in first, tiers[j] # {} PROVE j = i
    OBVIOUS
  <2>1. j \in 1 .. n /\ \A k \in 1 .. j - 1 : tiers[k] = {}
    OBVIOUS
  <2>2. ~(j < i) /\ ~(i < j)
    BY <1>2, <1>3, <2>1
  <2> QED  BY <1>3, <2>1, <2>2
<1>5. FirstTier(tiers) = tiers[i]
  BY <1>1, <1>2, <1>4
<1> QED  BY <1>3, <1>5

(* What is matched is alone in its tier, and those before it are empty.    *)
LEMMA Unique ==
  ASSUME NEW n \in Nat, NEW tiers, DOMAIN tiers = 1 .. n,
         \A i \in 1 .. n : tiers[i] \subseteq Things \cup Rooms,
         NEW x \in uniqueMatch(tiers)
  PROVE  /\ uniqueMatch(tiers) = {x}
         /\ \E i \in 1 .. n : tiers[i] = {x} /\ \A k \in 1 .. i - 1 : tiers[k] = {}
<1>1. Cardinality(FirstTier(tiers)) = 1 /\ uniqueMatch(tiers) = FirstTier(tiers)
  BY DEF uniqueMatch
<1>2. x \in FirstTier(tiers)
  BY <1>1
<1>3. PICK i \in 1 .. n : FirstTier(tiers) = tiers[i] /\ \A k \in 1 .. i - 1 : tiers[k] = {}
  BY <1>2, FirstTierIs
<1>4. IsFiniteSet(FirstTier(tiers))
  BY <1>3, FS_Subset
<1>5. PICK y : FirstTier(tiers) = {y}
  BY <1>1, <1>4, FS_Singleton
<1> QED  BY <1>1, <1>2, <1>3, <1>5

(* By id, by name, by a part of the name: nothing else among them fits as  *)
(* closely.                                                                *)
LEMMA Named ==
  ASSUME NEW list, NEW among \in SUBSET Things, NEW query,
         NEW t \in uniqueMatch(ByName(list, among, query))
  PROVE  /\ t \in among /\ uniqueMatch(ByName(list, among, query)) = {t}
         /\ \/ t = query
            \/ query \notin among /\ list[t].name = query
                 /\ \A u \in among : list[u].name = query => u = t
            \/ query \notin among /\ list[t].name \in Within[query]
                 /\ (\A u \in among : list[u].name # query)
                 /\ \A u \in among : list[u].name \in Within[query] => u = t
<1> DEFINE tiers == ByName(list, among, query)
<1>1. /\ DOMAIN tiers = 1 .. 3
      /\ tiers[1] = among \cap {query}
      /\ tiers[2] = {u \in among : list[u].name = query}
      /\ tiers[3] = {u \in among : list[u].name \in Within[query]}
  BY DEF ByName
<1> HIDE DEF tiers
<1>2. \A i \in 1 .. 3 : tiers[i] \subseteq Things \cup Rooms
  BY <1>1
<1>3. t \in uniqueMatch(tiers)
  BY DEF tiers
<1>4. /\ uniqueMatch(tiers) = {t}
      /\ \E i \in 1 .. 3 : tiers[i] = {t} /\ \A k \in 1 .. i - 1 : tiers[k] = {}
  <2>1. 3 \in Nat /\ DOMAIN tiers = 1 .. 3
    BY <1>1
  <2> QED  BY ONLY <1>2, <1>3, <2>1, Unique
<1>5. PICK i \in 1 .. 3 : tiers[i] = {t} /\ \A k \in 1 .. i - 1 : tiers[k] = {}
  BY <1>4
<1>6. CASE i = 1
  BY <1>1, <1>4, <1>5, <1>6 DEF tiers
<1>7. CASE i = 2
  <2>1. tiers[1] = {} /\ tiers[2] = {t}
    BY <1>5, <1>7
  <2> QED  BY <1>1, <1>4, <2>1 DEF tiers
<1>8. CASE i = 3
  <2>1. tiers[1] = {} /\ tiers[2] = {} /\ tiers[3] = {t}
    BY <1>5, <1>8
  <2> QED  BY <1>1, <1>4, <2>1 DEF tiers
<1> QED  BY <1>5, <1>6, <1>7, <1>8

(* A room, by its name or a part of it.                                    *)
LEMMA RoomNamed ==
  ASSUME NEW list \in Seen, NEW query \in Words, NEW x \in resolveRoom(list, query)
  PROVE  /\ x \in Rooms /\ resolveRoom(list, query) = {x}
         /\ x \in Within[query]
         /\ x = query \/ \A u \in Devices : list[u].room \in Within[query] => list[u].room = x
<1> DEFINE rooms == {list[t].room : t \in DOMAIN list}
           tiers == <<rooms \cap {query}, rooms \cap Within[query]>>
<1>1. /\ rooms \subseteq Rooms /\ Devices \subseteq DOMAIN list
      /\ \A u \in Devices : list[u].room \in rooms
  <2>1. PICK D \in {Things, Devices}, h \in Homes : list = [t \in D |-> h[t]]
    BY DEF Seen
  <2> QED  BY <2>1 DEF Devices
<1> HIDE DEF rooms
<1>2. /\ DOMAIN tiers = 1 .. 2 /\ tiers[1] = rooms \cap {query} /\ tiers[2] = rooms \cap Within[query]
  OBVIOUS
<1>3. resolveRoom(list, query) = uniqueMatch(tiers)
  BY DEF resolveRoom, rooms
<1> HIDE DEF tiers
<1>4. \A i \in 1 .. 2 : tiers[i] \subseteq Things \cup Rooms
  BY <1>1, <1>2
<1>5. /\ uniqueMatch(tiers) = {x}
      /\ \E i \in 1 .. 2 : tiers[i] = {x} /\ \A k \in 1 .. i - 1 : tiers[k] = {}
  <2>1. 2 \in Nat /\ DOMAIN tiers = 1 .. 2 /\ x \in uniqueMatch(tiers)
    BY <1>2, <1>3
  <2> QED  BY ONLY <1>4, <2>1, Unique
<1>6. PICK i \in 1 .. 2 : tiers[i] = {x}
  BY <1>5
<1>7. CASE i = 1
  BY <1>1, <1>2, <1>3, <1>5, <1>6, <1>7
<1>8. CASE i = 2
  BY <1>1, <1>2, <1>3, <1>5, <1>6, <1>8
<1> QED  BY <1>6, <1>7, <1>8

(* What is named in one of these ways fits more closely than the others.   *)
LEMMA NamedIsCloser ==
  ASSUME NEW list, NEW a, NEW among \in SUBSET Things,
         NEW t \in uniqueMatch(ByName(list, among, a.query)), NEW u \in among \ {t}
  PROVE  Closer(list, a, t, u)
<1>1. \/ t = a.query
      \/ a.query \notin among /\ list[t].name = a.query
           /\ \A v \in among : list[v].name = a.query => v = t
      \/ a.query \notin among /\ list[t].name \in Within[a.query]
           /\ (\A v \in among : list[v].name # a.query)
           /\ \A v \in among : list[v].name \in Within[a.query] => v = t
  BY Named
<1>2. \E way \in 1 .. 3 : Fits(list, a, t, way) /\ \A w \in 1 .. way : ~Fits(list, a, u, w)
  <2>1. CASE t = a.query
    <3>1. Fits(list, a, t, 1) /\ \A w \in 1 .. 1 : ~Fits(list, a, u, w)
      BY <2>1 DEF Fits
    <3> QED  BY <3>1
  <2>2. CASE a.query \notin among /\ list[t].name = a.query
             /\ \A v \in among : list[v].name = a.query => v = t
    <3>1. Fits(list, a, t, 2) /\ \A w \in 1 .. 2 : ~Fits(list, a, u, w)
      BY <2>2 DEF Fits
    <3> QED  BY <3>1
  <2>3. CASE a.query \notin among /\ list[t].name \in Within[a.query]
             /\ (\A v \in among : list[v].name # a.query)
             /\ \A v \in among : list[v].name \in Within[a.query] => v = t
    <3>1. Fits(list, a, t, 3) /\ \A w \in 1 .. 3 : ~Fits(list, a, u, w)
      BY <2>3 DEF Fits
    <3> QED  BY <3>1
  <2> QED  BY <1>1, <2>1, <2>2, <2>3
<1> QED  BY <1>2 DEF Closer

(* A speaker may be named by its room as well, a station before a TV.      *)
LEMMA SpeakerIsCloser ==
  ASSUME NEW list, NEW lead, NEW a, a.query # None, NEW t \in resolveSpeaker(list, lead, a.query)
  PROVE  /\ t \in Speakers /\ resolveSpeaker(list, lead, a.query) = {t}
         /\ \A u \in Speakers \ {t} : Closer(list, a, t, u)
<1> DEFINE stations == InRoom(list, Stations, Within[a.query])
           speakers == InRoom(list, Speakers, Within[a.query])
           three == ByName(list, Speakers, a.query)
           tiers == three \o <<stations, speakers>>
<1>1. resolveSpeaker(list, lead, a.query) = uniqueMatch(tiers)
  BY DEF resolveSpeaker
<1>2. /\ DOMAIN tiers = 1 .. 5
      /\ tiers[1] = Speakers \cap {a.query}
      /\ tiers[2] = {u \in Speakers : list[u].name = a.query}
      /\ tiers[3] = {u \in Speakers : list[u].name \in Within[a.query]}
      /\ tiers[4] = {u \in Stations : list[u].room \in Within[a.query]}
      /\ tiers[5] = {u \in Speakers : list[u].room \in Within[a.query]}
  BY DEF ByName, InRoom
<1> HIDE DEF tiers
<1>3. \A i \in 1 .. 5 : tiers[i] \subseteq Speakers
  BY <1>2
<1>4. Speakers \subseteq Things
  BY DEF Devices
<1>5. /\ uniqueMatch(tiers) = {t}
      /\ \E i \in 1 .. 5 : tiers[i] = {t} /\ \A k \in 1 .. i - 1 : tiers[k] = {}
  <2>1. 5 \in Nat /\ DOMAIN tiers = 1 .. 5 /\ t \in uniqueMatch(tiers)
    BY <1>1, <1>2
  <2>2. \A i \in 1 .. 5 : tiers[i] \subseteq Things \cup Rooms
    BY <1>3, <1>4
  <2> QED  BY ONLY <2>1, <2>2, Unique
<1>6. PICK i \in 1 .. 5 : tiers[i] = {t} /\ \A k \in 1 .. i - 1 : tiers[k] = {}
  BY <1>5
<1>7. t \in Speakers
  BY <1>3, <1>6
<1>8. ASSUME NEW u \in Speakers \ {t} PROVE Closer(list, a, t, u)
  <2>1. Fits(list, a, t, i)
    BY <1>2, <1>6, <1>7 DEF Fits
  <2>2. ASSUME NEW w \in 1 .. i PROVE ~Fits(list, a, u, w)
    <3>1. u \notin tiers[w] /\ w \in 1 .. 5
      BY <1>6
    <3>2. Fits(list, a, u, w) => u \in tiers[w]
      BY <1>2 DEF Fits
    <3> QED  BY <3>1, <3>2
  <2> QED  BY <2>1, <2>2 DEF Closer
<1> QED  BY <1>1, <1>5, <1>7, <1>8

(* Every list has every device, each in some room.                         *)
LEMMA Listed ==
  ASSUME NEW list \in Seen
  PROVE  /\ DOMAIN list \in {Things, Devices} /\ Devices \subseteq DOMAIN list
         /\ \A t \in DOMAIN list : list[t].room \in Rooms
<1>1. PICK D \in {Things, Devices}, h \in Homes : list = [t \in D |-> h[t]]
  BY DEF Seen
<1> QED  BY <1>1 DEF Devices

LEMMA DeviceMeant ==
  ASSUME NEW list \in Seen, NEW a \in Asking,
         a.tool \in {"controlDevice", "setLight", "getDeviceState"},
         NEW t \in resolveDevice(list, a.query, a.room),
         a.tool \in DOMAIN Wants => CanDo(a, t)
  PROVE  t \in Things /\ Meant(list, a, t) /\ resolveDevice(list, a.query, a.room) = {t}
<1> DEFINE rooms == IF a.room = None THEN Rooms ELSE resolveRoom(list, a.room)
           among == InRoom(list, DOMAIN list \cap Devices, rooms)
<1>1. resolveDevice(list, a.query, a.room) = uniqueMatch(ByName(list, among, a.query))
  BY DEF resolveDevice
<1>2. among = {u \in Devices : list[u].room \in rooms} /\ among \in SUBSET Things
  BY Listed DEF InRoom, Devices
<1> HIDE DEF among
<1>3. t \in among /\ uniqueMatch(ByName(list, among, a.query)) = {t}
  <2>1. t \in uniqueMatch(ByName(list, among, a.query)) /\ among \in SUBSET Things
    BY <1>1, <1>2
  <2> QED  BY ONLY <2>1, Named
<1>4. \A u \in among \ {t} : Closer(list, a, t, u)
  <2>1. t \in uniqueMatch(ByName(list, among, a.query)) /\ among \in SUBSET Things
    BY <1>1, <1>2
  <2> QED  BY ONLY <2>1, NamedIsCloser
<1>5. a.tool # "controlRoom" /\ a.tool \notin ToSpeaker /\ t \notin Scenarios
  BY <1>2, <1>3 DEF ToSpeaker, Speaking, Twice, Devices
<1>6. a.room # None => InTheRoom(list, t, a.room)
  <2> SUFFICES ASSUME a.room # None PROVE InTheRoom(list, t, a.room)
    OBVIOUS
  <2>1. a.room \in Words /\ list[t].room \in resolveRoom(list, a.room)
    BY <1>2, <1>3 DEF Asking
  <2> QED  BY <2>1, RoomNamed DEF InTheRoom
<1>7. Rivals(list, a, t) \subseteq among \ {t}
  BY <1>2, <1>3, <1>5, Listed DEF Rivals
<1>8. a.tool \in DOMAIN Wants => \E ability \in a.want : ability \in Able[t]
  BY DEF CanDo
<1> QED  BY <1>1, <1>2, <1>3, <1>4, <1>5, <1>6, <1>7, <1>8 DEF Meant

LEMMA SpeakerMeant ==
  ASSUME NEW list \in Seen, NEW lead, NEW a \in Asking, a.tool \in ToSpeaker,
         NEW t \in resolveSpeaker(list, lead, a.query)
  PROVE  t \in Things /\ Meant(list, a, t) /\ resolveSpeaker(list, lead, a.query) = {t}
<1>1. a.room = None /\ a.tool # "controlRoom" /\ a.tool \notin DOMAIN Wants
  BY DEF Asking, ToSpeaker, Speaking, Twice, InARoom, Wants
<1>2. Speakers \subseteq Devices /\ Speakers \subseteq Things
  BY DEF Devices
<1>3. CASE a.query = None
  BY <1>1, <1>2, <1>3 DEF resolveSpeaker, Meant
<1>4. CASE a.query # None
  <2>1. /\ t \in Speakers /\ resolveSpeaker(list, lead, a.query) = {t}
        /\ \A u \in Speakers \ {t} : Closer(list, a, t, u)
    BY <1>4, SpeakerIsCloser
  <2>2. Rivals(list, a, t) \subseteq Speakers \ {t}
    BY <1>2, <2>1 DEF Rivals, Devices
  <2> QED  BY <1>1, <1>2, <2>1, <2>2 DEF Meant
<1> QED  BY <1>3, <1>4

(* A room is switched without its speakers and without other types.        *)
LEMMA RoomMeant ==
  ASSUME NEW see, see.home \in Seen, NEW a \in Asking, a.tool = "controlRoom",
         NEW t \in controlRoom(see, a)
  PROVE  t \in Things /\ Meant(see.home, a, t)
<1>1. /\ t \in InRoom(see.home, Devices, IF a.query = None THEN Rooms ELSE resolveRoom(see.home, a.query))
      /\ Controllable(a, t)
  BY DEF controlRoom
<1>2. t \in Things
  BY <1>1 DEF InRoom, Devices
<1>3. a.query # None => a.query \in Words /\ see.home[t].room \in resolveRoom(see.home, a.query)
  BY <1>1 DEF InRoom, Asking
<1>4. a.query # None => InTheRoom(see.home, t, a.query)
  BY <1>3, RoomNamed DEF InTheRoom
<1>5. a.type # "all" => a.type \in DOMAIN OfType /\ TypeOf[t] \in OfType[a.type]
  BY <1>1 DEF Controllable, Asking
<1>6. OfThatType(a, t)
  BY <1>5 DEF OfThatType, OfType, Promised
<1>7. t \notin Speakers /\ "on_off" \in Able[t]
  BY <1>1 DEF Controllable
<1> QED  BY <1>2, <1>4, <1>6, <1>7 DEF Meant

(* Whatever a tool chooses to act on is meant; all but controlRoom act on  *)
(* one thing.                                                              *)
LEMMA TargetsMeant ==
  ASSUME NEW see, see.home \in Seen, NEW a \in Asking, a.tool \notin Telling,
         NEW t \in Targets(see, a)
  PROVE  t \in Things /\ Meant(see.home, a, t) /\ (a.tool # "controlRoom" => Targets(see, a) = {t})
<1> DEFINE list == see.home
<1>1. CASE a.tool \in ToSpeaker
  <2>1. Targets(see, a) = resolveSpeaker(see.home, see.lead, a.query)
    BY <1>1 DEF Targets, ToSpeaker, Speaking, Twice, sendCommand, sayPhrase, setVolume, mediaControl
  <2> QED  BY <1>1, <2>1, SpeakerMeant
<1>2. CASE a.tool \in {"controlDevice", "setLight", "getDeviceState"}
  <2>1. /\ Targets(see, a) \subseteq resolveDevice(list, a.query, a.room)
        /\ a.tool \in DOMAIN Wants => CanDo(a, t)
    BY <1>2 DEF Targets, controlDevice, setLight, getDeviceState, Wants
  <2>2. t \in Things /\ Meant(list, a, t) /\ resolveDevice(list, a.query, a.room) = {t}
    BY <1>2, <2>1, DeviceMeant
  <2> QED  BY <2>1, <2>2
<1>3. CASE a.tool = "triggerScenario"
  <2> DEFINE among == DOMAIN list \cap Scenarios
  <2>1. Targets(see, a) = uniqueMatch(ByName(list, among, a.query))
    BY <1>3 DEF Targets, triggerScenario
  <2>2. among \in SUBSET Things
    OBVIOUS
  <2>3. t \in among /\ Targets(see, a) = {t} /\ \A u \in among \ {t} : Closer(list, a, t, u)
    BY <2>1, <2>2, Named, NamedIsCloser
  <2>4. among = Scenarios /\ a.room = None /\ a.tool \notin DOMAIN Wants
    BY <1>3, <2>3, Listed DEF Devices, Asking, InARoom, Wants
  <2>5. Rivals(list, a, t) \subseteq among \ {t}
    BY <2>3, <2>4 DEF Rivals
  <2> QED  BY <1>3, <2>2, <2>3, <2>4, <2>5 DEF Meant
<1>4. CASE a.tool = "controlRoom"
  BY <1>4, RoomMeant DEF Targets
<1> QED
  <2>1. a.tool \in ToSpeaker \cup {"controlDevice", "setLight", "getDeviceState"}
                   \cup {"triggerScenario", "controlRoom"}
    BY DEF Asking, Tools, InARoom, OfAny, Telling, ToSpeaker, Speaking, Twice
  <2> QED  BY <2>1, <1>1, <1>2, <1>3, <1>4

------------------------------------------------------------------------------
(* The steps.                                                              *)

(* When each list was asked for and put together.                          *)
Timely ==
  /\ cachedUserInfo # None => cacheTimestamp <= cachedUserInfo.read /\ cachedUserInfo.read <= clock
  /\ \A c \in Calls :
       /\ began[c] <= since[c] /\ since[c] <= clock
       /\ pc[c] = "iotList" => clock <= since[c] + 1
       /\ pc[c] = "quasarList" => clock <= began[c] + BUDGET
       /\ got[c] # None => /\ pc[c] \in {"iotList", "quasarList"}
                           /\ began[c] <= got[c].read /\ got[c].read <= clock
                           /\ pc[c] = "iotList" => since[c] <= got[c].read

(* The requests of a call, and how often a thing may come to be told.      *)
Asked(c) == {q \in flight \cup waiting : q.call = c}
Chance(those, c, t, way) == IF \E q \in those : q.call = c /\ q.way = way /\ t \in q.on THEN 1 ELSE 0
Tries(c, t) == hits[c][t] + Chance(flight, c, t, "quasar") + Chance(flight, c, t, "iot")

Wished(c) == heard[c] \cup UNION {q.on : q \in Mine(c)}

(* What the lists that a call went by name, and whether they differ.       *)
GoalsOf(uses, a) == {Targets(see, a) : see \in uses}
Goals(c) == GoalsOf(used[c], ask[c])
Differ(uses) == \E see, other \in uses : <<see.home, see.lead>> # <<other.home, other.lead>>

(* The things T that a call first asks Yandex to act on, and those it asks *)
(* for in the end: they are what it found first unless it looked twice.    *)
Goal(c, T) == IF c \in fell THEN aim[c] ELSE T

Told(c, T) ==
  /\ T \in Goals(c) /\ (ask[c].tool \notin Twice => T = aim[c]) /\ (T = aim[c] \/ Differ(used[c]))
  /\ \A q \in Asked(c) : q.on # {} /\ q.on \subseteq (IF q.way = "quasar" THEN T ELSE Goal(c, T))
  /\ heard[c] \subseteq Goal(c, T)
  /\ \A t \in Things : hits[c][t] > 0 => t \in T \/ t \in Goal(c, T)
  /\ pc[c] = "act" => /\ Wished(c) = Goal(c, T)
                      /\ ask[c].tool # "controlRoom" => heard[c] = {}
  /\ out[c] = "ok" => heard[c] = Goal(c, T)

(* A call that has found something in a list it went by.                   *)
Aims(c) == aim[c] \in Goals(c) /\ ask[c] # None /\ ask[c].tool \notin Telling

(* A call that acts has chosen what to act on, and keeps to it.            *)
Aimed(c) == aim[c] # {} /\ \E T \in SUBSET Things : Told(c, T)

(* A call that has asked for nothing yet, or never does.                   *)
Unasked(c) ==
  /\ Asked(c) = {} /\ heard[c] = {} /\ c \notin fell
  /\ \A t \in Things : hits[c][t] = 0
  /\ pc[c] = "done" /\ out[c] = "ok" => ask[c].tool \in Telling

OnCourse(c) ==
  /\ pc[c] # "done" => out[c] = None
  /\ pc[c] \in {"idle", "look", "iotList", "quasarList"} =>
       Unasked(c) /\ (aim[c] # {} => ask[c].tool \in Twice)
  /\ pc[c] # "idle" => ask[c] # None
  /\ \A see \in used[c] : see.age < CACHE_TTL
  /\ aim[c] # {} => Aims(c)
  /\ (Unasked(c) /\ pc[c] # "act") \/ Aimed(c)

Course == \A c \in Calls : OnCourse(c)

(* No two requests of a call ask for one thing in one way; the two ways    *)
(* are taken one after the other, and what is said is said in one.         *)
Apart ==
  /\ \A p, q \in flight \cup waiting :
       p.call = q.call /\ p.way = q.way /\ p.on \cap q.on # {} => p = q
  /\ \A p, q \in flight \cup waiting : p.call = q.call /\ p.call \notin fell => p.way = q.way
  /\ \A q \in waiting : q.call \in fell => q.way = "iot"
  /\ \A c \in fell : ask[c].tool \notin Speaking
  /\ \A q \in flight : pc[q.call] = "act" \/ out[q.call] = "ok" =>
       q \in waiting \/ (q.call \in fell /\ q.way = "quasar")

(* A second try of a thing has a reason.                                   *)
Excused ==
  \A c \in Calls : \A t \in Things :
    /\ Tries(c, t) <= 2 /\ (c \notin fell => Tries(c, t) <= 1)
    /\ Tries(c, t) = 2 => ask[c].tool = "controlRoom" \/ t \in unheard[c]

Inv == TypeOK /\ Timely /\ Course /\ Apart /\ Excused

LEMMA InvInit == Init => Inv
<1> SUFFICES ASSUME Init PROVE Inv
  OBVIOUS
<1> USE DEF Init
<1>1. TypeOK
  BY DEF TypeOK, Request
<1>2. Timely
  BY DEF Timely
<1>3. Course
  BY DEF Course, OnCourse, Unasked, Asked
<1>4. Apart
  BY DEF Apart
<1>5. Excused
  BY DEF Excused, Tries, Chance
<1> QED  BY <1>1, <1>2, <1>3, <1>4, <1>5 DEF Inv

(* What a call asks, and the list it goes by, are typed.                   *)
LEMMA AskingIs ==
  ASSUME TypeOK, NEW c \in Calls, ask[c] # None
  PROVE  ask[c] \in Asking
<1>1. ask \in [Calls -> Asking \cup {None}]
  BY DEF TypeOK
<1> QED  BY <1>1

(* The requests that are sent.                                             *)
LEMMA RequestsAre ==
  ASSUME NEW c \in Calls, NEW way \in {"quasar", "iot"}, NEW things \in SUBSET Things, things # {}
  PROVE  /\ Requests(c, way, things, FALSE) \subseteq Request
         /\ \A q \in Requests(c, way, things, FALSE) :
              q.call = c /\ q.way = way /\ q.on # {} /\ q.on \subseteq things /\ q.again = FALSE
         /\ \A p, q \in Requests(c, way, things, FALSE) : p.on \cap q.on # {} => p = q
<1> DEFINE R == Requests(c, way, things, FALSE)
           Ask(on) == [call |-> c, way |-> way, on |-> on, again |-> FALSE]
<1>1. \A on : Ask(on).call = c /\ Ask(on).way = way /\ Ask(on).on = on /\ Ask(on).again = FALSE
  OBVIOUS
<1>2. \A on \in SUBSET Things : Ask(on) \in Request
  BY DEF Request
<1>3. R = IF way = "quasar" THEN {Ask({t}) : t \in things} ELSE {Ask(things)}
  BY DEF Requests
<1> HIDE DEF Ask, R
<1>4. CASE way = "quasar"
  <2>1. \A q \in R : \E t \in things : q = Ask({t})
    BY <1>3, <1>4
  <2>2. R \subseteq Request
    <3>1. \A t \in things : {t} \in SUBSET Things
      OBVIOUS
    <3> QED  BY ONLY <1>2, <2>1, <3>1
  <2>3. \A q \in R : q.call = c /\ q.way = way /\ q.on # {} /\ q.on \subseteq things /\ q.again = FALSE
    <3> SUFFICES ASSUME NEW q \in R
                 PROVE  q.call = c /\ q.way = way /\ q.on # {} /\ q.on \subseteq things
                        /\ q.again = FALSE
      OBVIOUS
    <3>1. PICK t \in things : q = Ask({t})
      BY <2>1
    <3>2. q.call = c /\ q.way = way /\ q.on = {t} /\ q.again = FALSE
      BY ONLY <1>1, <3>1
    <3> QED  BY <3>2
  <2>4. \A p, q \in R : p.on \cap q.on # {} => p = q
    <3> SUFFICES ASSUME NEW p \in R, NEW q \in R, p.on \cap q.on # {} PROVE p = q
      OBVIOUS
    <3>1. PICK t \in things : p = Ask({t})
      BY <2>1
    <3>2. PICK u \in things : q = Ask({u})
      BY <2>1
    <3>3. p.on = {t} /\ q.on = {u}
      BY ONLY <1>1, <3>1, <3>2
    <3> QED  BY <3>1, <3>2, <3>3
  <2> QED  BY <2>2, <2>3, <2>4 DEF R
<1>5. CASE way # "quasar"
  <2>1. R = {Ask(things)}
    BY <1>3, <1>5
  <2>2. R \subseteq Request
    BY <1>2, <2>1
  <2>3. \A q \in R : q.call = c /\ q.way = way /\ q.on = things /\ q.again = FALSE
    BY <1>1, <2>1
  <2>4. \A p, q \in R : p = q
    BY <2>1
  <2> QED  BY <2>2, <2>3, <2>4 DEF R
<1> QED  BY <1>4, <1>5

LEMMA RequestsCover ==
  ASSUME NEW c, NEW way, NEW things, NEW t \in things
  PROVE  \E q \in Requests(c, way, things, FALSE) : t \in q.on
<1> DEFINE Ask(on) == [call |-> c, way |-> way, on |-> on, again |-> FALSE]
<1>1. Ask({t}).on = {t} /\ Ask(things).on = things
  OBVIOUS
<1>2. Ask({t}) \in Requests(c, way, things, FALSE) \/ Ask(things) \in Requests(c, way, things, FALSE)
  BY DEF Requests
<1> HIDE DEF Ask
<1> QED  BY <1>1, <1>2

LEMMA RequestIs ==
  ASSUME NEW q \in Request
  PROVE  /\ q.call \in Calls /\ q.way \in {"quasar", "iot"} /\ q.on \in SUBSET Things
         /\ q.again \in BOOLEAN
         /\ q = [call |-> q.call, way |-> q.way, on |-> q.on, again |-> q.again]
BY DEF Request

(* A call nobody waits for changes.                                        *)
LEMMA WaitersAct ==
  ASSUME TypeOK, NEW c \in Calls, pc[c] # "act", NEW how, pc' = [pc EXCEPT ![c] = how],
         waiting' = waiting
  PROVE  \A q \in waiting' : pc'[q.call] = "act"
BY RequestIs DEF TypeOK

(* What a call finds depends on what it sees only.                         *)
LEMMA SameSight ==
  ASSUME NEW see, NEW other, see.home = other.home, see.lead = other.lead, NEW a
  PROVE  Targets(see, a) = Targets(other, a)
BY DEF Targets, sendCommand, sayPhrase, setVolume, mediaControl, getDeviceState,
       controlDevice, setLight, controlRoom, triggerScenario

LEMMA GoalsLater ==
  ASSUME NEW c, NEW uses, used'[c] = uses, ask' = ask
  PROVE  Goals(c)' = GoalsOf(uses, ask[c])
BY DEF Goals, GoalsOf, Targets, sendCommand, sayPhrase, setVolume, mediaControl, getDeviceState,
       controlDevice, setLight, controlRoom, triggerScenario, resolveDevice, resolveSpeaker,
       resolveRoom, uniqueMatch, FirstTier, ByName, InRoom, CanDo, Controllable

LEMMA GoalsAre ==
  ASSUME NEW uses \in SUBSET Use, NEW a \in Asking, a.tool \notin Telling, NEW T \in GoalsOf(uses, a)
  PROVE  /\ T \in SUBSET Things
         /\ \A t \in T : /\ \E see \in uses : Meant(see.home, a, t)
                         /\ a.tool # "controlRoom" => T = {t}
<1>1. PICK see \in uses : T = Targets(see, a)
  BY DEF GoalsOf
<1>2. see.home \in Seen
  BY DEF Use
<1>3. \A t \in T : t \in Things /\ Meant(see.home, a, t) /\ (a.tool # "controlRoom" => T = {t})
  <2> HIDE DEF Targets
  <2> SUFFICES ASSUME NEW t \in Targets(see, a)
               PROVE  t \in Things /\ Meant(see.home, a, t)
                      /\ (a.tool # "controlRoom" => Targets(see, a) = {t})
    BY <1>1
  <2> QED  BY <1>2, TargetsMeant
<1> QED  BY <1>3

(* A list that did not come, and nothing to be told by another way.        *)
ListLost(c) ==
  /\ pc[c] \in {"iotList", "quasarList"}
  /\ \/ /\ pc' = [pc EXCEPT ![c] = "quasarList"] /\ got' = [got EXCEPT ![c] = None]
        /\ clock - began[c] < BUDGET /\ UNCHANGED <<began, since, retried, out>>
     \/ End(c, "error") /\ Forget(c)
  /\ UNCHANGED <<clock, world, cache, ask, used, aim, acting>>

LEMMA TypeOfLooking ==
  ASSUME Inv, (\E c \in Calls : Start(c) \/ AskForList(c) \/ PutTogether(c) \/ RetryList(c)
                                \/ ListLost(c)) \/ Change \/ Tick
  PROVE  TypeOK'
<1> USE DEF Inv, TypeOK, cache, world, looking, acting, End, Forget
<1>1. ASSUME NEW c \in Calls, Start(c) PROVE TypeOK'
  <2>1. pc[c] # "act" /\ waiting' = waiting /\ \E how : pc' = [pc EXCEPT ![c] = how]
    BY <1>1 DEF Start
  <2>2. \A q \in waiting' : pc'[q.call] = "act"
    BY <2>1, WaitersAct
  <2>3. /\ pc' \in [Calls -> {"idle", "look", "iotList", "quasarList", "act", "done"}]
        /\ out' \in [Calls -> {"ok", "refused", "error", None}]
    BY <1>1 DEF Start
  <2>4. /\ began' \in [Calls -> 0..MaxClock] /\ since' \in [Calls -> 0..MaxClock]
        /\ got' \in [Calls -> List \cup {None}] /\ retried' \subseteq Calls
    BY <1>1 DEF Start
  <2>5. UNCHANGED <<clock, world, cache, ask, used, aim, acting>>
    BY <1>1 DEF Start
  <2> QED  BY <2>2, <2>3, <2>4, <2>5
<1>2. ASSUME NEW c \in Calls, AskForList(c) PROVE TypeOK'
  <2>1. pc[c] # "act" /\ waiting' = waiting /\ \E how : pc' = [pc EXCEPT ![c] = how]
    BY <1>2 DEF AskForList
  <2>2. \A q \in waiting' : pc'[q.call] = "act"
    BY <2>1, WaitersAct
  <2>3. /\ pc' \in [Calls -> {"idle", "look", "iotList", "quasarList", "act", "done"}]
        /\ out' \in [Calls -> {"ok", "refused", "error", None}]
    BY <1>2 DEF AskForList
  <2>4. /\ began' \in [Calls -> 0..MaxClock] /\ since' \in [Calls -> 0..MaxClock]
        /\ got' \in [Calls -> List \cup {None}] /\ retried' \subseteq Calls
    BY <1>2 DEF AskForList
  <2>5. UNCHANGED <<clock, world, cache, ask, used, aim, acting>>
    BY <1>2 DEF AskForList
  <2> QED  BY <2>2, <2>3, <2>4, <2>5
<1>3. ASSUME NEW c \in Calls, PutTogether(c) PROVE TypeOK'
  <2>1. PICK D \in {Things, Devices}, lead \in Lead :
          got' = [got EXCEPT ![c] = [home |-> [t \in D |-> home[t]], lead |-> lead, read |-> clock]]
    BY <1>3 DEF PutTogether
  <2>2. [home |-> [t \in D |-> home[t]], lead |-> lead, read |-> clock] \in List
    BY DEF List, Seen
  <2> QED  BY <1>3, <2>1, <2>2 DEF PutTogether
<1>4. ASSUME NEW c \in Calls, RetryList(c) PROVE TypeOK'
  BY <1>4 DEF RetryList
<1>5. ASSUME NEW c \in Calls, ListLost(c) PROVE TypeOK'
  <2>1. pc[c] # "act" /\ waiting' = waiting /\ \E how : pc' = [pc EXCEPT ![c] = how]
    BY <1>5 DEF ListLost
  <2>2. \A q \in waiting' : pc'[q.call] = "act"
    BY <2>1, WaitersAct
  <2>3. /\ pc' \in [Calls -> {"idle", "look", "iotList", "quasarList", "act", "done"}]
        /\ out' \in [Calls -> {"ok", "refused", "error", None}]
    BY <1>5 DEF ListLost
  <2>4. /\ began' \in [Calls -> 0..MaxClock] /\ since' \in [Calls -> 0..MaxClock]
        /\ got' \in [Calls -> List \cup {None}] /\ retried' \subseteq Calls
    <3>1. 0 \in 0..MaxClock /\ None \in List \cup {None}
      OBVIOUS
    <3>2. \/ got' = [got EXCEPT ![c] = None] /\ UNCHANGED <<began, since, retried>>
          \/ Forget(c)
      BY <1>5 DEF ListLost
    <3>3. /\ began \in [Calls -> 0..MaxClock] /\ since \in [Calls -> 0..MaxClock]
          /\ got \in [Calls -> List \cup {None}] /\ retried \subseteq Calls
      BY DEF Inv, TypeOK
    <3>4. c \in Calls
      BY <1>5
    <3> QED  BY ONLY <3>1, <3>2, <3>3, <3>4 DEF Forget
  <2>5. UNCHANGED <<clock, world, cache, ask, used, aim, acting>>
    BY <1>5 DEF ListLost
  <2> QED  BY <2>2, <2>3, <2>4, <2>5
<1>6. CASE Change
  BY <1>6 DEF Change
<1>7. CASE Tick
  BY <1>7 DEF Tick
<1> QED  BY <1>1, <1>2, <1>3, <1>4, <1>5, <1>6, <1>7

(* What a call does by the lists it has seen: it ends, it looks again with *)
(* its aim in mind, or it asks for T, A being what it found first.         *)
Ends(c) ==
  /\ UNCHANGED <<aim, flight, waiting, fell>>
  /\ \E how \in {"ok", "error"} : End(c, how) /\ (how = "ok" => ask[c].tool \in Telling)

LooksAgain(c, uses) ==
  /\ \E A \in SUBSET Things : /\ A \in GoalsOf(uses, ask[c]) /\ A # {}
                              /\ aim' = [aim EXCEPT ![c] = A]
  /\ ask[c].tool \in Twice
  /\ pc' = [pc EXCEPT ![c] = "look"] /\ UNCHANGED <<flight, waiting, fell, out>>

Asks(c, uses, A, T, way) ==
  /\ A \in GoalsOf(uses, ask[c]) /\ A # {} /\ aim' = [aim EXCEPT ![c] = A]
  /\ T \in GoalsOf(uses, ask[c]) /\ T # {}
  /\ ask[c].tool \notin Twice => T = A
  /\ T = A \/ Differ(uses)
  /\ flight' = flight \cup Requests(c, way, T, FALSE)
  /\ waiting' = waiting \cup Requests(c, way, T, FALSE)
  /\ pc' = [pc EXCEPT ![c] = "act"] /\ out' = out
  /\ fell' = fell \/ (fell' = fell \cup {c} /\ way = "iot" /\ T = A /\ ask[c].tool \notin Speaking)

Outcome(c, uses) ==
  \/ Ends(c)
  \/ /\ ask[c].tool \notin Telling
     /\ \/ LooksAgain(c, uses)
        \/ \E A \in SUBSET Things, T \in SUBSET Things, way \in {"quasar", "iot"} :
             Asks(c, uses, A, T, way)

Goes(c, uses) ==
  /\ pc[c] \in {"look", "iotList", "quasarList"}
  /\ ask[c] \in Asking /\ Unasked(c)
  /\ used' = [used EXCEPT ![c] = uses] /\ used[c] \subseteq uses
  /\ \A see \in uses : see.age < CACHE_TTL
  /\ cachedUserInfo' \in List \cup {None} /\ cacheTimestamp' \in 0..MaxClock
  /\ cachedUserInfo' # None => /\ cacheTimestamp' <= cachedUserInfo'.read
                               /\ cachedUserInfo'.read <= clock
  /\ (UNCHANGED <<began, since, got, retried>> /\ pc[c] = "look") \/ Forget(c)
  /\ UNCHANGED <<clock, world, ask, served, hits, heard, unheard>>
  /\ Outcome(c, uses)

(* A call that looks for its thing has its aim, if it has one, from a list *)
(* it went by.                                                             *)
LEMMA Looker ==
  ASSUME Inv, NEW c \in Calls, pc[c] \in {"look", "iotList", "quasarList"}
  PROVE  /\ ask[c] \in Asking /\ Unasked(c) /\ used[c] \in SUBSET Use
         /\ aim[c] \in SUBSET Things /\ \A see \in used[c] : see.age < CACHE_TTL
         /\ aim[c] # {} => /\ ask[c].tool \in Twice /\ ask[c].tool \notin Telling
                           /\ aim[c] \in GoalsOf(used[c], ask[c])
<1>1. OnCourse(c) /\ TypeOK
  BY DEF Inv, Course
<1>2. ask[c] # None
  BY <1>1 DEF OnCourse
<1>3. ask[c] \in Asking
  BY <1>1, <1>2, AskingIs
<1>4. used[c] \in SUBSET Use /\ aim[c] \in SUBSET Things
  BY <1>1 DEF TypeOK
<1> QED  BY <1>1, <1>3, <1>4 DEF OnCourse, Aims, Goals

(* What GoBy comes to, by the list and those before it.                    *)
LEMMA GoByIs ==
  ASSUME Inv, NEW c \in Calls, pc[c] \in {"look", "iotList", "quasarList"},
         NEW list \in List, list.read <= clock, clock - list.read < CACHE_TTL, GoBy(c, list)
  PROVE  \E uses \in SUBSET Use :
           /\ used' = [used EXCEPT ![c] = uses] /\ used[c] \subseteq uses
           /\ \A see \in uses : see.age < CACHE_TTL
           /\ Outcome(c, uses)
<1> DEFINE now  == [home |-> list.home, lead |-> list.lead, age |-> clock - list.read]
           uses == used[c] \cup {now}
           things == Targets(list, ask[c])
<1>1. /\ ask[c] \in Asking /\ used[c] \in SUBSET Use /\ aim[c] \in SUBSET Things
      /\ \A see \in used[c] : see.age < CACHE_TTL
      /\ aim[c] # {} => /\ ask[c].tool \in Twice /\ ask[c].tool \notin Telling
                        /\ aim[c] \in GoalsOf(used[c], ask[c])
  BY Looker
<1>2. now \in Use /\ now.home = list.home /\ now.lead = list.lead /\ now.age < CACHE_TTL
  <2>1. clock \in Nat /\ list.read \in Nat /\ list.home \in Seen /\ list.lead \in Lead
    BY DEF Inv, TypeOK, List
  <2>2. clock - list.read \in Nat
    BY <2>1
  <2> QED  BY <2>1, <2>2 DEF Use
<1>3. used' = [used EXCEPT ![c] = uses]
  BY DEF GoBy
<1>4. things = Targets(now, ask[c])
  BY <1>2, SameSight
<1> HIDE DEF now, things
<1>5. uses \in SUBSET Use /\ used[c] \subseteq uses /\ \A see \in uses : see.age < CACHE_TTL
  BY <1>1, <1>2
<1>6. things \in GoalsOf(uses, ask[c])
  BY <1>4 DEF GoalsOf
<1>7. aim[c] # {} => aim[c] \in GoalsOf(uses, ask[c])
  BY <1>1 DEF GoalsOf
<1>8. ask[c].tool \notin Telling => things \in SUBSET Things
  BY <1>1, <1>5, <1>6, GoalsAre
<1> HIDE DEF uses
<1> SUFFICES Outcome(c, uses)
  BY <1>3, <1>5 DEF uses
<1>9. CASE Tell(c, list)
  <2>1. Ends(c)
    BY <1>9 DEF Tell, Ends
  <2> QED  BY ONLY <2>1 DEF Outcome
<1>10. CASE Choose(c, list)
  <2>1. ask[c].tool \notin Telling /\ fell' = fell
    BY <1>10 DEF Choose
  <2>2. CASE End(c, "error") /\ UNCHANGED <<aim, flight, waiting>>
    <3>1. Ends(c)
      BY <2>1, <2>2 DEF Ends
    <3> QED  BY ONLY <3>1 DEF Outcome
  <2>3. CASE /\ things # {} /\ aim' = [aim EXCEPT ![c] = things]
             /\ Quasar(c) /\ ask[c].tool \in Twice
             /\ pc' = [pc EXCEPT ![c] = "look"] /\ UNCHANGED <<flight, waiting, out>>
    <3>1. LooksAgain(c, uses)
      BY <1>6, <1>8, <2>1, <2>3 DEF LooksAgain
    <3> QED  BY ONLY <2>1, <3>1 DEF Outcome
  <2>4. ASSUME NEW way \in {"quasar", "iot"}, things # {}, aim' = [aim EXCEPT ![c] = things],
               Send(c, way, things)
        PROVE  Outcome(c, uses)
    <3>1. Asks(c, uses, things, things, way)
      BY <1>6, <2>1, <2>4 DEF Asks, Send
    <3>2. things \in SUBSET Things /\ way \in {"quasar", "iot"}
      BY <1>8, <2>1, <2>4
    <3> QED  BY ONLY <2>1, <3>1, <3>2 DEF Outcome
  <2>5. Choose(c, list) => \/ End(c, "error") /\ UNCHANGED <<aim, flight, waiting>>
                           \/ /\ things # {} /\ aim' = [aim EXCEPT ![c] = things]
                              /\ Quasar(c) /\ ask[c].tool \in Twice
                              /\ pc' = [pc EXCEPT ![c] = "look"] /\ UNCHANGED <<flight, waiting, out>>
                           \/ /\ things # {} /\ aim' = [aim EXCEPT ![c] = things]
                              /\ \E way \in {"quasar", "iot"} : Send(c, way, things)
    BY DEF Choose, things
  <2> QED  BY <1>10, <2>2, <2>3, <2>4, <2>5
<1>11. CASE ChooseAgain(c, list)
  <2>1. /\ aim[c] # {} /\ aim' = [aim EXCEPT ![c] = aim[c]]
        /\ aim[c] \in GoalsOf(uses, ask[c]) /\ ask[c].tool \in Twice /\ ask[c].tool \notin Telling
        /\ aim' = aim
    <3>1. aim \in [Calls -> SUBSET Things]
      BY DEF Inv, TypeOK
    <3> QED  BY <1>1, <1>7, <1>11, <3>1 DEF ChooseAgain
  <2>2. CASE things = {} /\ Instead(c)
    <3>1. CASE End(c, "error") /\ UNCHANGED <<flight, waiting, fell>>
      <4>1. Ends(c)
        BY <2>1, <3>1 DEF Ends
      <4> QED  BY ONLY <4>1 DEF Outcome
    <3>2. CASE Send(c, "iot", aim[c]) /\ fell' = fell \cup {c}
      <4>1. Asks(c, uses, aim[c], aim[c], "iot")
        BY <2>1, <3>2 DEF Asks, Send, Twice, Speaking
      <4>2. aim[c] \in SUBSET Things
        BY <1>1
      <4> QED  BY ONLY <2>1, <4>1, <4>2 DEF Outcome
    <3> QED  BY <2>2, <3>1, <3>2 DEF Instead
  <2>3. CASE things # {} /\ Send(c, "quasar", things) /\ fell' = fell
    <3>1. things = aim[c] \/ Differ(uses)
      <4>1. PICK see \in used[c] : aim[c] = Targets(see, ask[c])
        BY <1>1, <2>1 DEF GoalsOf
      <4>2. things # aim[c] => <<now.home, now.lead>> # <<see.home, see.lead>>
        BY <1>4, <4>1, SameSight
      <4> QED  BY <4>2 DEF Differ, uses
    <3>2. Asks(c, uses, aim[c], things, "quasar")
      BY <1>6, <2>1, <2>3, <3>1 DEF Asks, Send
    <3>3. aim[c] \in SUBSET Things /\ things \in SUBSET Things
      BY <1>1, <1>8, <2>1
    <3> QED  BY ONLY <2>1, <3>2, <3>3 DEF Outcome
  <2> QED  BY <1>11, <2>2, <2>3 DEF ChooseAgain, things
<1> QED  BY <1>9, <1>10, <1>11 DEF GoBy

(* From the cache or fresh from Yandex, a list is younger than the cache   *)
(* allows.                                                                 *)
LEMMA GoesFresh ==
  ASSUME Inv, NEW c \in Calls, FromCache(c) \/ ListCame(c)
  PROVE  \E uses \in SUBSET Use : Goes(c, uses)
<1> DEFINE Side ==
      /\ cachedUserInfo' \in List \cup {None} /\ cacheTimestamp' \in 0..MaxClock
      /\ cachedUserInfo' # None => /\ cacheTimestamp' <= cachedUserInfo'.read
                                   /\ cachedUserInfo'.read <= clock
      /\ (UNCHANGED <<began, since, got, retried>> /\ pc[c] = "look") \/ Forget(c)
      /\ UNCHANGED <<clock, world, ask, served, hits, heard, unheard>>
<1>1. ASSUME NEW list \in List, list.read <= clock, clock - list.read < CACHE_TTL, GoBy(c, list),
             pc[c] \in {"look", "iotList", "quasarList"}, Side
      PROVE  \E uses \in SUBSET Use : Goes(c, uses)
  <2>1. PICK uses \in SUBSET Use :
           /\ used' = [used EXCEPT ![c] = uses] /\ used[c] \subseteq uses
           /\ \A see \in uses : see.age < CACHE_TTL
           /\ Outcome(c, uses)
    BY <1>1, GoByIs
  <2>2. ask[c] \in Asking /\ Unasked(c)
    BY <1>1, Looker
  <2>3. Goes(c, uses)
    BY ONLY <1>1, <2>1, <2>2 DEF Goes
  <2> QED  BY ONLY <2>1, <2>3
<1>2. CASE FromCache(c)
  <2>1. cachedUserInfo \in List /\ clock \in Nat /\ cachedUserInfo.read \in Nat
        /\ cacheTimestamp \in Nat /\ CACHE_TTL \in Nat /\ cacheTimestamp \in 0..MaxClock
    BY <1>2 DEF Inv, TypeOK, FromCache, IsFresh, List
  <2>2. cachedUserInfo.read <= clock /\ cacheTimestamp <= cachedUserInfo.read
    BY <1>2 DEF Inv, Timely, FromCache, IsFresh
  <2>3. clock - cachedUserInfo.read < CACHE_TTL
    BY <1>2, <2>1, <2>2 DEF FromCache, IsFresh
  <2>4. pc[c] = "look" /\ GoBy(c, cachedUserInfo) /\ Side
    BY <1>2, <2>1, <2>2 DEF FromCache, cache
  <2> QED  BY <1>1, <2>1, <2>2, <2>3, <2>4
<1>3. CASE ListCame(c)
  <2>1. /\ got[c] \in List /\ clock \in Nat /\ got[c].read \in Nat
        /\ began[c] \in Nat /\ began[c] \in 0..MaxClock /\ since[c] \in Nat
        /\ CACHE_TTL \in Nat /\ BUDGET \in Nat
    BY <1>3 DEF Inv, TypeOK, ListCame, List
  <2>2. /\ began[c] <= got[c].read /\ got[c].read <= clock
        /\ pc[c] = "iotList" => since[c] <= got[c].read /\ clock <= since[c] + 1
        /\ pc[c] = "quasarList" => clock <= began[c] + BUDGET
    BY <1>3 DEF Inv, Timely, ListCame
  <2>3. pc[c] \in {"iotList", "quasarList"}
    BY <1>3 DEF ListCame
  <2>4. clock - got[c].read < CACHE_TTL
    BY <2>1, <2>2, <2>3
  <2>5. GoBy(c, got[c]) /\ Side
    BY <1>3, <2>1, <2>2 DEF ListCame, Stamped
  <2> QED  BY <1>1, <2>1, <2>2, <2>3, <2>4, <2>5
<1> QED  BY <1>2, <1>3

(* A list that fails on the second look leaves what the first one found.   *)
LEMMA ListFails ==
  ASSUME Inv, NEW c \in Calls, ListFailed(c)
  PROVE  ListLost(c) \/ \E uses \in SUBSET Use : Goes(c, uses)
<1>1. /\ pc[c] \in {"iotList", "quasarList"}
      /\ UNCHANGED <<clock, world, cache, ask, used, aim, served, hits, heard, unheard>>
  BY DEF ListFailed
<1>2. /\ ask[c] \in Asking /\ Unasked(c) /\ used[c] \in SUBSET Use /\ aim[c] \in SUBSET Things
      /\ \A see \in used[c] : see.age < CACHE_TTL
      /\ aim[c] # {} => /\ ask[c].tool \in Twice /\ ask[c].tool \notin Telling
                        /\ aim[c] \in GoalsOf(used[c], ask[c])
  BY <1>1, Looker
<1>3. CASE /\ pc' = [pc EXCEPT ![c] = "quasarList"] /\ got' = [got EXCEPT ![c] = None]
           /\ clock - began[c] < BUDGET
           /\ UNCHANGED <<began, since, retried, flight, waiting, fell, out>>
  BY <1>1, <1>3 DEF ListLost, acting
<1>4. CASE Forget(c) /\ End(c, "error") /\ UNCHANGED <<flight, waiting, fell>>
  BY <1>1, <1>4 DEF ListLost, acting
<1>5. CASE Forget(c) /\ aim[c] # {} /\ Send(c, "iot", aim[c]) /\ fell' = fell \cup {c}
  <2>1. aim' = [aim EXCEPT ![c] = aim[c]] /\ used' = [used EXCEPT ![c] = used[c]]
    <3>1. aim \in [Calls -> SUBSET Things] /\ used \in [Calls -> SUBSET Use]
      BY DEF Inv, TypeOK
    <3> QED  BY <1>1, <3>1
  <2>2. Asks(c, used[c], aim[c], aim[c], "iot")
    BY <1>2, <1>5, <2>1 DEF Asks, Send, Twice, Speaking
  <2>3. Outcome(c, used[c])
    BY ONLY <1>2, <1>5, <2>2 DEF Outcome
  <2>4. /\ cachedUserInfo' \in List \cup {None} /\ cacheTimestamp' \in 0..MaxClock
        /\ cachedUserInfo' # None => /\ cacheTimestamp' <= cachedUserInfo'.read
                                     /\ cachedUserInfo'.read <= clock
    BY <1>1 DEF cache, Inv, TypeOK, Timely
  <2>5. Goes(c, used[c])
    BY ONLY <1>1, <1>2, <1>5, <2>1, <2>3, <2>4 DEF Goes
  <2> QED  BY ONLY <1>2, <2>5
<1>6. \/ /\ pc' = [pc EXCEPT ![c] = "quasarList"] /\ got' = [got EXCEPT ![c] = None]
         /\ clock - began[c] < BUDGET
         /\ UNCHANGED <<began, since, retried, flight, waiting, fell, out>>
      \/ Forget(c) /\ End(c, "error") /\ UNCHANGED <<flight, waiting, fell>>
      \/ Forget(c) /\ aim[c] # {} /\ Send(c, "iot", aim[c]) /\ fell' = fell \cup {c}
  BY DEF ListFailed, Instead
<1> QED  BY <1>3, <1>4, <1>5, <1>6

LEMMA GoesOn ==
  ASSUME Inv, NEW c \in Calls, NEW uses \in SUBSET Use, Goes(c, uses)
  PROVE  /\ \E A \in SUBSET Things : aim' = [aim EXCEPT ![c] = A]
         /\ \E how \in {"act", "done", "look"} : pc' = [pc EXCEPT ![c] = how]
         /\ out' = out \/ \E o \in {"ok", "error"} : out' = [out EXCEPT ![c] = o]
         /\ \/ UNCHANGED <<flight, waiting, fell>> /\ (Ends(c) \/ LooksAgain(c, uses))
            \/ /\ ask[c].tool \notin Telling
               /\ \E A \in SUBSET Things, T \in SUBSET Things, way \in {"quasar", "iot"} :
                    Asks(c, uses, A, T, way)
<1>1. aim = [aim EXCEPT ![c] = aim[c]] /\ aim[c] \in SUBSET Things
  BY DEF Inv, TypeOK
<1>2. Outcome(c, uses)
  BY DEF Goes
<1>3. CASE Ends(c)
  BY <1>1, <1>3 DEF Ends, End
<1>4. CASE LooksAgain(c, uses)
  BY <1>4 DEF LooksAgain
<1>5. CASE ask[c].tool \notin Telling
           /\ \E A \in SUBSET Things, T \in SUBSET Things, way \in {"quasar", "iot"} :
                Asks(c, uses, A, T, way)
  BY ONLY <1>5 DEF Asks
<1> QED  BY ONLY <1>2, <1>3, <1>4, <1>5 DEF Outcome

(* The requests of a call that asks are its own.                           *)
LEMMA AskedAre ==
  ASSUME NEW c \in Calls, NEW T \in SUBSET Things, T # {}, NEW way \in {"quasar", "iot"}
  PROVE  /\ Requests(c, way, T, FALSE) \subseteq Request
         /\ \A q \in Requests(c, way, T, FALSE) :
              q.call = c /\ q.way = way /\ q.on # {} /\ q.on \subseteq T
         /\ \A p, q \in Requests(c, way, T, FALSE) : p.on \cap q.on # {} => p = q
         /\ \A t \in T : \E q \in Requests(c, way, T, FALSE) : t \in q.on
<1>1. \A t \in T : \E q \in Requests(c, way, T, FALSE) : t \in q.on
  BY RequestsCover
<1>2. c \in Calls /\ T \in SUBSET Things /\ T # {} /\ way \in {"quasar", "iot"}
  OBVIOUS
<1>3. /\ Requests(c, way, T, FALSE) \subseteq Request
      /\ \A q \in Requests(c, way, T, FALSE) :
           q.call = c /\ q.way = way /\ q.on # {} /\ q.on \subseteq T /\ q.again = FALSE
      /\ \A p, q \in Requests(c, way, T, FALSE) : p.on \cap q.on # {} => p = q
  BY ONLY <1>2, RequestsAre
<1> QED  BY ONLY <1>1, <1>3

LEMMA TypeOfGoing ==
  ASSUME Inv, NEW c \in Calls, NEW uses \in SUBSET Use, Goes(c, uses)
  PROVE  TypeOK'
<1>1. /\ began' \in [Calls -> 0..MaxClock] /\ since' \in [Calls -> 0..MaxClock]
      /\ got' \in [Calls -> List \cup {None}] /\ retried' \subseteq Calls
  <2>1. 0 \in 0..MaxClock /\ None \in List \cup {None}
    OBVIOUS
  <2>2. \/ UNCHANGED <<began, since, got, retried>>
        \/ Forget(c)
    BY DEF Goes
  <2>3. /\ began \in [Calls -> 0..MaxClock] /\ since \in [Calls -> 0..MaxClock]
        /\ got \in [Calls -> List \cup {None}] /\ retried \subseteq Calls
    BY DEF Inv, TypeOK
  <2>4. c \in Calls
    OBVIOUS
  <2> QED  BY ONLY <2>1, <2>2, <2>3, <2>4 DEF Forget
<1>2. /\ used' \in [Calls -> SUBSET Use] /\ aim' \in [Calls -> SUBSET Things]
      /\ cachedUserInfo' \in List \cup {None} /\ cacheTimestamp' \in 0..MaxClock
  <2>1. /\ used' = [used EXCEPT ![c] = uses]
        /\ cachedUserInfo' \in List \cup {None} /\ cacheTimestamp' \in 0..MaxClock
    BY DEF Goes
  <2>2. PICK A \in SUBSET Things : aim' = [aim EXCEPT ![c] = A]
    BY GoesOn
  <2>3. used \in [Calls -> SUBSET Use] /\ aim \in [Calls -> SUBSET Things] /\ uses \in SUBSET Use
    BY DEF Inv, TypeOK
  <2> QED  BY ONLY <2>1, <2>2, <2>3
<1>3. /\ clock' \in 0..MaxClock /\ home' \in Homes /\ changes' \in 0..MaxChanges
      /\ ask' \in Plans /\ unheard' \in [Calls -> SUBSET Things]
      /\ hits' \in [Calls -> [Things -> 0..4]] /\ heard' \in [Calls -> SUBSET Things]
  BY DEF Goes, Inv, TypeOK, world
<1>4. /\ pc' \in [Calls -> {"idle", "look", "iotList", "quasarList", "act", "done"}]
      /\ out' \in [Calls -> {"ok", "refused", "error", None}]
  <2>1. /\ \E how \in {"act", "done", "look"} : pc' = [pc EXCEPT ![c] = how]
        /\ out' = out \/ \E o \in {"ok", "error"} : out' = [out EXCEPT ![c] = o]
    BY GoesOn
  <2>2. /\ pc \in [Calls -> {"idle", "look", "iotList", "quasarList", "act", "done"}]
        /\ out \in [Calls -> {"ok", "refused", "error", None}] /\ c \in Calls
    BY DEF Inv, TypeOK
  <2> QED  BY ONLY <2>1, <2>2
<1>5. pc[c] # "act" /\ served' = served
  BY DEF Goes
<1>6. /\ flight' \subseteq Request /\ waiting' \subseteq Request /\ served' \subseteq waiting'
      /\ flight' \cap waiting' = waiting' \ served'
      /\ \A q \in waiting' : pc'[q.call] = "act"
      /\ fell' \subseteq Calls
  <2>1. CASE UNCHANGED <<flight, waiting, fell>>
    <3>1. \E how : pc' = [pc EXCEPT ![c] = how]
      BY GoesOn
    <3>2. \A q \in waiting' : pc'[q.call] = "act"
      BY <1>5, <2>1, <3>1, WaitersAct DEF Inv
    <3> QED  BY <1>5, <2>1, <3>2 DEF Inv, TypeOK
  <2>2. ASSUME NEW A \in SUBSET Things, NEW T \in SUBSET Things, NEW way \in {"quasar", "iot"},
               Asks(c, uses, A, T, way)
        PROVE  /\ flight' \subseteq Request /\ waiting' \subseteq Request /\ served' \subseteq waiting'
               /\ flight' \cap waiting' = waiting' \ served'
               /\ \A q \in waiting' : pc'[q.call] = "act"
               /\ fell' \subseteq Calls
    <3> DEFINE qs == Requests(c, way, T, FALSE)
    <3>1. T # {}
      BY <2>2 DEF Asks
    <3>2. qs \subseteq Request /\ \A q \in qs : q.call = c
      <4>1. c \in Calls /\ T \in SUBSET Things /\ way \in {"quasar", "iot"}
        OBVIOUS
      <4> QED  BY ONLY <3>1, <4>1, AskedAre
    <3>3. /\ flight' = flight \cup qs /\ waiting' = waiting \cup qs
          /\ pc' = [pc EXCEPT ![c] = "act"] /\ fell' \in {fell, fell \cup {c}}
      BY <2>2 DEF Asks
    <3> HIDE DEF qs
    <3>4. qs \cap served = {}
      BY <1>5, <3>2 DEF Inv, TypeOK
    <3>5. \A q \in waiting' : pc'[q.call] = "act"
      BY <3>2, <3>3, RequestIs DEF Inv, TypeOK
    <3> QED  BY <1>5, <3>2, <3>3, <3>4, <3>5 DEF Inv, TypeOK
  <2>3. \/ UNCHANGED <<flight, waiting, fell>>
        \/ \E A \in SUBSET Things, T \in SUBSET Things, way \in {"quasar", "iot"} :
             Asks(c, uses, A, T, way)
    BY GoesOn
  <2> QED  BY ONLY <2>1, <2>2, <2>3
<1> QED  BY <1>1, <1>2, <1>3, <1>4, <1>6 DEF TypeOK

(* The chances that a thing comes to be told.                              *)
LEMMA ChanceIs ==
  ASSUME NEW those, NEW c, NEW t, NEW way
  PROVE  /\ Chance(those, c, t, way) \in {0, 1}
         /\ Chance(those, c, t, way) = 1
              <=> \E q \in those : q.call = c /\ q.way = way /\ t \in q.on
BY DEF Chance

(* One request is all that asks for a thing in its way.                    *)
LEMMA ChanceOver ==
  ASSUME Apart, NEW q \in flight, NEW c, NEW t, NEW way
  PROVE  /\ Chance(flight \ {q}, c, t, way)
              = IF c = q.call /\ way = q.way /\ t \in q.on THEN 0 ELSE Chance(flight, c, t, way)
         /\ c = q.call /\ way = q.way /\ t \in q.on => Chance(flight, c, t, way) = 1
<1>1. \A p \in flight : p.call = q.call /\ p.way = q.way /\ p.on \cap q.on # {} => p = q
  BY DEF Apart
<1>2. CASE c = q.call /\ way = q.way /\ t \in q.on
  BY <1>1, <1>2 DEF Chance
<1>3. CASE ~(c = q.call /\ way = q.way /\ t \in q.on)
  BY <1>3 DEF Chance
<1> QED  BY <1>2, <1>3

LEMMA TypeOfServing ==
  ASSUME Inv, NEW q \in flight, Serve(q) \/ Lost(q)
  PROVE  TypeOK'
<1>1. q \in Request
  BY DEF Inv, TypeOK
<1>2. /\ flight' = flight \ {q} /\ served' \in {served, served \cup {q}}
      /\ q \in waiting => served' = served \cup {q}
      /\ q \notin waiting => served' = served
      /\ UNCHANGED <<clock, world, cache, looking, pc, waiting, heard, unheard, fell, out>>
  BY DEF Serve, Lost
<1>3. hits' \in [Calls -> [Things -> 0..4]]
  <2>1. CASE Lost(q)
    BY <2>1 DEF Lost, Inv, TypeOK
  <2>2. CASE Serve(q)
    <3>1. \A t \in q.on : hits[q.call][t] + 1 \in 0..4
      <4> SUFFICES ASSUME NEW t \in q.on PROVE hits[q.call][t] + 1 \in 0..4
        OBVIOUS
      <4>1. t \in Things /\ q.call \in Calls /\ q.way \in {"quasar", "iot"}
        BY <1>1, RequestIs
      <4>2. Tries(q.call, t) <= 2
        BY <4>1 DEF Inv, Excused
      <4>3. Chance(flight, q.call, t, q.way) = 1
        BY ChanceOver DEF Inv
      <4>4. hits[q.call][t] \in 0..4
        BY <4>1 DEF Inv, TypeOK
      <4> QED  BY <4>1, <4>2, <4>3, <4>4, ChanceIs DEF Tries
    <3>2. q.call \in Calls /\ q.on \subseteq Things
      BY <1>1, RequestIs
    <3>3. hits' = [hits EXCEPT ![q.call] = [t \in Things |-> @[t] + IF t \in q.on THEN 1 ELSE 0]]
      BY <2>2 DEF Serve
    <3>4. hits \in [Calls -> [Things -> 0..4]]
      BY DEF Inv, TypeOK
    <3>5. [t \in Things |-> hits[q.call][t] + IF t \in q.on THEN 1 ELSE 0] \in [Things -> 0..4]
      BY <3>1, <3>2, <3>4
    <3> QED  BY <3>2, <3>3, <3>4, <3>5
  <2> QED  BY <2>1, <2>2
<1> QED  BY <1>1, <1>2, <1>3 DEF Inv, TypeOK, world, cache, looking

LEMMA TypeOfAnswer ==
  ASSUME Inv, NEW q \in waiting, Answered(q)
  PROVE  TypeOK'
<1>1. q \in Request /\ q.call \in Calls /\ q.on \in SUBSET Things
  BY RequestIs DEF Inv, TypeOK
<1>2. /\ waiting' \subseteq waiting /\ served' = served \cap waiting'
      /\ UNCHANGED <<clock, world, cache, looking, flight, hits, unheard, fell>>
      /\ heard' = [heard EXCEPT ![q.call] = @ \cup q.on]
  BY DEF Answered, Released
<1>3. \A p \in waiting' : pc'[p.call] = "act"
  <2>1. CASE UNCHANGED pc
    BY <1>2, <2>1 DEF Inv, TypeOK
  <2>2. CASE pc' = [pc EXCEPT ![q.call] = "done"] /\ waiting' = Released(q)
    <3>1. \A p \in waiting' : p \in waiting /\ p.call # q.call
      BY <2>2 DEF Released, Mine
    <3> QED  BY <2>2, <3>1, RequestIs DEF Inv, TypeOK
  <2> QED  BY <2>1, <2>2 DEF Answered, End
<1>4. /\ pc' \in [Calls -> {"idle", "look", "iotList", "quasarList", "act", "done"}]
      /\ out' \in [Calls -> {"ok", "refused", "error", None}]
  BY <1>1 DEF Answered, End, Inv, TypeOK
<1>5. heard' \in [Calls -> SUBSET Things]
  BY <1>1, <1>2 DEF Inv, TypeOK
<1> QED  BY <1>2, <1>3, <1>4, <1>5 DEF Inv, TypeOK, world, cache, looking

(* Who asks for something knows what to act on.                            *)
LEMMA Asker ==
  ASSUME Inv, NEW q \in flight \cup waiting
  PROVE  /\ q \in Request /\ q.call \in Calls /\ q.way \in {"quasar", "iot"}
         /\ q.on \in SUBSET Things /\ q.on # {} /\ Aimed(q.call)
         /\ q \in waiting => pc[q.call] = "act"
<1>1. q \in Request
  BY DEF Inv, TypeOK
<1>2. q.call \in Calls /\ q.way \in {"quasar", "iot"} /\ q.on \in SUBSET Things
  BY <1>1, RequestIs
<1>3. q \in Asked(q.call)
  BY DEF Asked
<1>4. Aimed(q.call)
  BY <1>2, <1>3 DEF Inv, Course, OnCourse, Unasked
<1>5. q.on # {}
  <2>1. PICK T \in SUBSET Things : Told(q.call, T)
    BY <1>4 DEF Aimed
  <2> QED  BY <1>3, <2>1 DEF Told
<1> QED  BY <1>1, <1>2, <1>4, <1>5 DEF Inv, TypeOK

(* A call that has found something has found things that are there, and    *)
(* only controlRoom more than one of them.                                 *)
LEMMA Aimer ==
  ASSUME Inv, NEW c \in Calls, aim[c] # {}
  PROVE  /\ ask[c] \in Asking /\ ask[c] # None /\ ask[c].tool \notin Telling
         /\ aim[c] \in Goals(c) /\ aim[c] \in SUBSET Things
         /\ \A T \in Goals(c) :
              /\ T \in SUBSET Things
              /\ \A t \in T : /\ \E see \in used[c] : see.age < CACHE_TTL /\ Meant(see.home, ask[c], t)
                              /\ ask[c].tool # "controlRoom" => T = {t}
<1>1. Aims(c) /\ TypeOK /\ \A see \in used[c] : see.age < CACHE_TTL
  BY DEF Inv, Course, OnCourse
<1>2. /\ ask[c] # None /\ ask[c].tool \notin Telling /\ aim[c] \in Goals(c)
      /\ used[c] \in SUBSET Use /\ aim[c] \in SUBSET Things
  BY <1>1 DEF Aims, TypeOK
<1>3. ask[c] \in Asking
  BY <1>1, <1>2, AskingIs
<1>4. ASSUME NEW T \in Goals(c)
      PROVE  /\ T \in SUBSET Things
             /\ \A t \in T : /\ \E see \in used[c] : Meant(see.home, ask[c], t)
                             /\ ask[c].tool # "controlRoom" => T = {t}
  <2>1. T \in GoalsOf(used[c], ask[c])
    BY DEF Goals
  <2> QED  BY ONLY <1>2, <1>3, <2>1, GoalsAre
<1> QED  BY ONLY <1>1, <1>2, <1>3, <1>4

(* What a call that waits has chosen to act on is what its requests ask    *)
(* for; one that acts on a single thing waits for a single request.        *)
LEMMA WishedIs ==
  ASSUME Inv, NEW q \in waiting
  PROVE  \E T \in SUBSET Things :
           /\ Told(q.call, T) /\ Wished(q.call) = Goal(q.call, T)
           /\ Goal(q.call, T) \in SUBSET Things /\ q.on \subseteq Goal(q.call, T)
           /\ q.way = "quasar" => q.call \notin fell
           /\ ask[q.call].tool # "controlRoom" =>
                 Goal(q.call, T) = q.on /\ Mine(q.call) = {q} /\ heard[q.call] = {}
<1> DEFINE c == q.call
<1>1. c \in Calls /\ Aimed(c) /\ pc[c] = "act" /\ q.on # {} /\ q.way \in {"quasar", "iot"}
  BY Asker
<1>2. PICK T \in SUBSET Things : Told(c, T)
  BY <1>1 DEF Aimed
<1>3. aim[c] # {}
  BY <1>1 DEF Aimed
<1> HIDE DEF c
<1>4. /\ aim[c] \in Goals(c) /\ aim[c] \in SUBSET Things
      /\ \A G \in Goals(c) : \A t \in G : ask[c].tool # "controlRoom" => G = {t}
  BY <1>1, <1>3, Aimer
<1>5. Goal(c, T) \in SUBSET Things /\ Goal(c, T) \in Goals(c)
  BY <1>2, <1>4 DEF Goal, Told
<1>6. \A p \in Mine(c) : p \in waiting /\ p.call = c /\ p \in Asked(c)
  BY DEF Mine, Asked
<1>7. \A p \in waiting : p.call \in fell => p.way = "iot"
  BY DEF Inv, Apart
<1>8. \A p \in Mine(c) : p.on # {} /\ p.on \subseteq Goal(c, T)
  BY <1>2, <1>6, <1>7 DEF Told, Goal
<1>9. q \in Mine(c)
  BY DEF Mine, c
<1>10. Wished(c) = Goal(c, T) /\ (ask[c].tool # "controlRoom" => heard[c] = {})
  BY <1>1, <1>2 DEF Told
<1>11. ASSUME ask[c].tool # "controlRoom" PROVE Goal(c, T) = q.on /\ Mine(c) = {q}
  <2>1. \A p \in Mine(c) : p.on = Goal(c, T)
    <3> SUFFICES ASSUME NEW p \in Mine(c) PROVE p.on = Goal(c, T)
      OBVIOUS
    <3>1. PICK x \in p.on : x \in Goal(c, T)
      BY <1>8
    <3>2. Goal(c, T) = {x}
      BY <1>4, <1>5, <1>11, <3>1
    <3> QED  BY <1>8, <3>1, <3>2
  <2>2. ASSUME NEW p \in Mine(c) PROVE p = q
    <3>1. p \in waiting /\ q \in waiting /\ p.call = q.call /\ p.on = q.on /\ q.on # {}
      BY <1>1, <1>6, <1>9, <2>1, <2>2 DEF c
    <3>2. p.way = q.way
      BY <3>1 DEF Inv, Apart
    <3> QED  BY <3>1, <3>2 DEF Inv, Apart
  <2> QED  BY <1>9, <2>1, <2>2
<1>12. q.way = "quasar" => c \notin fell
  BY <1>7 DEF c
<1> QED  BY <1>2, <1>5, <1>8, <1>9, <1>10, <1>11, <1>12 DEF c

(* A request that failed is the end of its call, or one of the Smart Home  *)
(* API takes the place of all.                                             *)
FallenBack(q, left, n) ==
  LET c == q.call IN
    /\ n \in Request /\ n.call = c /\ n.way = "iot" /\ n.on = aim[c] /\ n.again = FALSE
    /\ q.way = "quasar" /\ c \notin fell /\ ask[c].tool \notin Speaking
    /\ fell' = fell \cup {c}
    /\ flight' = left \cup {n} /\ waiting' = Released(q) \cup {n}
    /\ UNCHANGED <<pc, out>>

LEMMA FailedDoes ==
  ASSUME Inv, NEW q \in waiting, NEW left, Failed(q, left)
  PROVE  /\ served' = served \cap Released(q)
         /\ \/ \E n : FallenBack(q, left, n)
            \/ /\ flight' = left /\ waiting' = Released(q) /\ fell' = fell
               /\ End(q.call, "error")
<1>1. q.call \in Calls /\ aim[q.call] \in SUBSET Things
  BY Asker DEF Inv, TypeOK
<1> DEFINE n == [call |-> q.call, way |-> "iot", on |-> aim[q.call], again |-> FALSE]
<1>2. Requests(q.call, "iot", aim[q.call], FALSE) = {n}
  BY DEF Requests
<1>3. /\ n \in Request /\ n.call = q.call /\ n.way = "iot" /\ n.on = aim[q.call]
      /\ n.again = FALSE
  BY <1>1 DEF Request
<1> HIDE DEF n
<1>4. CASE FallsBack(q)
  <2>1. q.way = "quasar" /\ ask[q.call].tool \notin Speaking
    BY <1>4 DEF FallsBack
  <2>2. q.call \notin fell
    BY <2>1 DEF Inv, Apart
  <2>3. FallenBack(q, left, n)
    BY <1>2, <1>3, <1>4, <2>1, <2>2 DEF Failed, FallenBack
  <2> QED  BY <2>3 DEF Failed
<1>5. CASE ~FallsBack(q)
  BY <1>5 DEF Failed
<1> QED  BY <1>4, <1>5

LEMMA TypeOfFailure ==
  ASSUME Inv, NEW q \in waiting, Refused(q) \/ GivenUp(q)
  PROVE  TypeOK'
<1>1. /\ q \in Request /\ q.call \in Calls /\ q.on \in SUBSET Things
  BY Asker
<1>2. PICK left \in {flight, flight \ {q}} : Failed(q, left)
  BY DEF Refused, GivenUp
<1>3. /\ UNCHANGED <<clock, world, cache, looking, hits, heard>>
      /\ unheard' \in [Calls -> SUBSET Things]
  <2>1. /\ UNCHANGED <<clock, world, cache, looking, hits, heard>>
        /\ unheard' = unheard \/ unheard' = [unheard EXCEPT ![q.call] = @ \cup q.on]
    BY DEF Refused, GivenUp
  <2>2. unheard \in [Calls -> SUBSET Things]
    BY DEF Inv, TypeOK
  <2> QED  BY ONLY <1>1, <2>1, <2>2
<1>4. Released(q) = {p \in waiting : p.call # q.call}
  BY DEF Released, Mine
<1>5. served' = served \cap Released(q)
  BY <1>2, FailedDoes
<1>6. CASE \E n : FallenBack(q, left, n)
  <2>1. PICK n : FallenBack(q, left, n)
    BY <1>6
  <2>2. /\ n \in Request /\ n.call = q.call /\ flight' = left \cup {n}
        /\ waiting' = Released(q) \cup {n} /\ fell' = fell \cup {q.call} /\ UNCHANGED <<pc, out>>
    BY <2>1 DEF FallenBack
  <2>3. pc[q.call] = "act"
    BY Asker
  <2> HIDE DEF FallenBack
  <2> QED  BY <1>1, <1>2, <1>3, <1>4, <1>5, <2>2, <2>3 DEF Inv, TypeOK, world, cache, looking
<1>7. CASE flight' = left /\ waiting' = Released(q) /\ fell' = fell /\ End(q.call, "error")
  <2>1. \A p \in waiting' : pc'[p.call] = "act"
    BY <1>1, <1>4, <1>7, RequestIs DEF End, Inv, TypeOK
  <2>2. /\ pc' \in [Calls -> {"idle", "look", "iotList", "quasarList", "act", "done"}]
        /\ out' \in [Calls -> {"ok", "refused", "error", None}]
    BY <1>1, <1>7 DEF End, Inv, TypeOK
  <2> QED  BY <1>2, <1>3, <1>4, <1>5, <1>7, <2>1, <2>2 DEF Inv, TypeOK, world, cache, looking
<1> QED  BY <1>2, <1>6, <1>7, FailedDoes

(* A request that is sent again is a new one in the place of the old.      *)
LEMMA ResentIs ==
  ASSUME Inv, NEW q \in waiting, Resent(q)
  PROVE  \E again \in Request :
           /\ again.call = q.call /\ again.way = q.way /\ again.on = q.on
           /\ again \notin waiting /\ q \in flight
           /\ flight' = (flight \ {q}) \cup {again} /\ waiting' = (waiting \ {q}) \cup {again}
           /\ UNCHANGED <<clock, world, cache, looking, pc, served, hits, heard, unheard, fell, out>>
<1> DEFINE again == [q EXCEPT !.again = TRUE]
<1>1. q \in Request /\ q.on # {}
  BY Asker
<1>2. again \in Request /\ again.call = q.call /\ again.way = q.way /\ again.on = q.on
      /\ again.again = TRUE
  BY <1>1 DEF Request
<1>3. q.again = FALSE
  BY <1>1, RequestIs DEF Resent, Once
<1>4. again \notin waiting
  BY <1>1, <1>2, <1>3 DEF Inv, Apart
<1>5. q \in flight
  BY DEF Resent, Inv, TypeOK
<1> QED  BY <1>2, <1>4, <1>5 DEF Resent

LEMMA TypeOfResending ==
  ASSUME Inv, NEW q \in waiting, Resent(q)
  PROVE  TypeOK'
<1>1. PICK again \in Request :
           /\ again.call = q.call /\ again.way = q.way /\ again.on = q.on
           /\ again \notin waiting /\ q \in flight
           /\ flight' = (flight \ {q}) \cup {again} /\ waiting' = (waiting \ {q}) \cup {again}
           /\ UNCHANGED <<clock, world, cache, looking, pc, served, hits, heard, unheard, fell, out>>
  BY ResentIs
<1>2. pc[q.call] = "act" /\ q \notin served
  BY Asker DEF Resent
<1> QED  BY <1>1, <1>2 DEF Inv, TypeOK, world, cache, looking

(* Time.                                                                   *)
LEMMA NumbersAre ==
  ASSUME TypeOK
  PROVE  /\ clock \in Nat /\ cacheTimestamp \in Nat /\ CACHE_TTL \in Nat /\ BUDGET \in Nat
         /\ cachedUserInfo # None => cachedUserInfo.read \in Nat
         /\ \A c \in Calls : began[c] \in Nat /\ since[c] \in Nat
                             /\ (got[c] # None => got[c].read \in Nat)
BY DEF TypeOK, List

LEMMA TimelyIsKept ==
  ASSUME Inv, UNCHANGED <<clock, cache, looking>>,
         \A c \in Calls : pc'[c] \in {pc[c], "look", "done"} /\ (pc'[c] # pc[c] => got[c] = None)
  PROVE  Timely'
BY DEF Inv, Timely, cache, looking

LEMMA TimelyOfLooking ==
  ASSUME Inv, NEW c \in Calls,
         Start(c) \/ AskForList(c) \/ PutTogether(c) \/ RetryList(c) \/ ListLost(c)
  PROVE  Timely'
<1> DEFINE Timed(d) ==
             /\ began[d] <= since[d] /\ since[d] <= clock
             /\ pc[d] = "iotList" => clock <= since[d] + 1
             /\ pc[d] = "quasarList" => clock <= began[d] + BUDGET
             /\ got[d] # None => /\ pc[d] \in {"iotList", "quasarList"}
                                 /\ began[d] <= got[d].read /\ got[d].read <= clock
                                 /\ pc[d] = "iotList" => since[d] <= got[d].read
<1>1. UNCHANGED <<clock, cache>>
  BY DEF Start, AskForList, PutTogether, RetryList, ListLost, looking
<1>2. Timed(c) /\ \A d \in Calls : Timed(d)
  BY DEF Inv, Timely
<1>3. /\ clock \in Nat /\ began[c] \in Nat /\ since[c] \in Nat /\ BUDGET \in Nat
      /\ got[c] # None => got[c].read \in Nat
  BY NumbersAre DEF Inv
<1>4. /\ pc \in [Calls -> {"idle", "look", "iotList", "quasarList", "act", "done"}]
      /\ began \in [Calls -> 0..MaxClock] /\ since \in [Calls -> 0..MaxClock]
      /\ got \in [Calls -> List \cup {None}]
  BY DEF Inv, TypeOK
<1>5. ASSUME NEW d \in Calls \ {c} PROVE Timed(d)'
  <2>1. pc'[d] = pc[d] /\ began'[d] = began[d] /\ since'[d] = since[d] /\ got'[d] = got[d]
    BY <1>4 DEF Start, AskForList, PutTogether, RetryList, ListLost, looking, End, Forget
  <2>2. Timed(d)
    BY <1>2
  <2> QED  BY <1>1, <2>1, <2>2
<1>6. Timed(c)'
  <2>1. CASE Start(c)
    BY <1>1, <1>2, <1>3, <1>4, <2>1 DEF Start, End, looking
  <2>2. CASE AskForList(c)
    <3>1. began'[c] = clock /\ since'[c] = clock /\ got' = got
          /\ pc'[c] \in {"iotList", "quasarList", "done"} /\ got[c] = None
      BY <1>2, <1>4, <2>2 DEF AskForList, End
    <3> QED  BY <1>1, <1>2, <1>3, <3>1
  <2>3. CASE PutTogether(c)
    <3>1. got'[c].read = clock /\ UNCHANGED <<pc, began, since>>
      BY <1>4, <2>3 DEF PutTogether
    <3>2. pc[c] \in {"iotList", "quasarList"}
      BY <2>3 DEF PutTogether
    <3> QED  BY <1>1, <1>2, <1>3, <3>1, <3>2
  <2>4. CASE RetryList(c)
    <3>1. since'[c] = clock /\ UNCHANGED <<pc, began, got>> /\ got[c] = None
      BY <1>4, <2>4 DEF RetryList
    <3> QED  BY <1>1, <1>2, <1>3, <3>1
  <2>5. CASE ListLost(c)
    <3>1. \/ /\ pc'[c] = "quasarList" /\ got'[c] = None /\ UNCHANGED <<began, since>>
             /\ clock - began[c] < BUDGET
          \/ pc'[c] = "done" /\ got'[c] = None /\ began'[c] = 0 /\ since'[c] = 0
      BY <1>4, <2>5 DEF ListLost, End, Forget
    <3> QED  BY <1>1, <1>2, <1>3, <3>1
  <2> QED  BY <2>1, <2>2, <2>3, <2>4, <2>5
<1>7. cachedUserInfo' # None => cacheTimestamp' <= cachedUserInfo'.read
                                /\ cachedUserInfo'.read <= clock'
  BY <1>1 DEF cache, Inv, Timely
<1> HIDE DEF Timed
<1>8. \A d \in Calls : Timed(d)'
  BY <1>5, <1>6
<1> QED  BY <1>7, <1>8 DEF Timed, Timely

LEMMA TimelyOfGoing ==
  ASSUME Inv, NEW c \in Calls, NEW uses \in SUBSET Use, Goes(c, uses)
  PROVE  Timely'
<1>1. /\ clock' = clock /\ clock \in Nat
      /\ cachedUserInfo' # None => cacheTimestamp' <= cachedUserInfo'.read /\ cachedUserInfo'.read <= clock
      /\ \/ UNCHANGED <<began, since, got>> /\ pc[c] = "look"
         \/ got' = [got EXCEPT ![c] = None] /\ began' = [began EXCEPT ![c] = 0]
            /\ since' = [since EXCEPT ![c] = 0]
  BY NumbersAre DEF Goes, Forget, Inv
<1>2. \E how \in {"act", "done", "look"} : pc' = [pc EXCEPT ![c] = how]
  BY GoesOn
<1>3. /\ pc \in [Calls -> {"idle", "look", "iotList", "quasarList", "act", "done"}]
      /\ began \in [Calls -> 0..MaxClock] /\ since \in [Calls -> 0..MaxClock]
      /\ got \in [Calls -> List \cup {None}] /\ c \in Calls
  BY DEF Inv, TypeOK
<1>4. Timely
  BY DEF Inv
<1> QED  BY ONLY <1>1, <1>2, <1>3, <1>4 DEF Timely

LEMMA TimelyOfTime ==
  ASSUME Inv, Change \/ Tick
  PROVE  Timely'
<1>1. CASE Change
  BY <1>1, TimelyIsKept DEF Change, cache
<1>2. CASE Tick
  <2>1. /\ clock' = clock + 1 /\ UNCHANGED <<cache, looking, pc>>
        /\ \A c \in Calls : /\ pc[c] = "iotList" => since[c] = clock
                            /\ pc[c] = "quasarList" => clock - began[c] < BUDGET
    BY <1>2 DEF Tick
  <2> QED  BY <2>1, NumbersAre DEF Inv, Timely, cache, looking
<1> QED  BY <1>1, <1>2

(* Requests stay apart.                                                    *)
LEMMA ApartIsKept ==
  ASSUME Inv, NEW c \in Calls, pc[c] \in {"idle", "look", "iotList", "quasarList"},
         UNCHANGED <<acting, ask>>,
         \/ UNCHANGED <<pc, out>>
         \/ \E how : pc' = [pc EXCEPT ![c] = how] /\ (out' = out \/ \E o : out' = [out EXCEPT ![c] = o])
  PROVE  Apart'
<1>1. \A q \in flight \cup waiting : q.call # c
  BY DEF Inv, Course, OnCourse, Unasked, Asked
<1>2. \A q \in flight \cup waiting : pc'[q.call] = pc[q.call] /\ out'[q.call] = out[q.call]
  BY <1>1, Asker DEF Inv, TypeOK
<1> QED  BY <1>2 DEF Apart, acting, Inv

LEMMA ApartOfLooking ==
  ASSUME Inv, NEW c \in Calls,
         Start(c) \/ AskForList(c) \/ PutTogether(c) \/ RetryList(c) \/ ListLost(c)
  PROVE  Apart'
<1>1. pc[c] \in {"idle", "look", "iotList", "quasarList"} /\ UNCHANGED <<acting, ask>>
  BY DEF Start, AskForList, PutTogether, RetryList, ListLost, looking
<1>2. \/ UNCHANGED <<pc, out>>
      \/ \E how : pc' = [pc EXCEPT ![c] = how] /\ (out' = out \/ \E o : out' = [out EXCEPT ![c] = o])
  BY DEF Start, AskForList, PutTogether, RetryList, ListLost, End
<1> QED  BY <1>1, <1>2, ApartIsKept

LEMMA ApartOfGoing ==
  ASSUME Inv, NEW c \in Calls, NEW uses \in SUBSET Use, Goes(c, uses)
  PROVE  Apart'
<1>1. /\ \A q \in flight \cup waiting : q.call # c
      /\ c \notin fell
  BY DEF Goes, Unasked, Asked
<1>2. ask' = ask /\ Apart
  BY DEF Goes, Inv
<1>3. \A q \in flight \cup waiting : pc'[q.call] = pc[q.call] /\ out'[q.call] = out[q.call]
  <2>1. /\ \E how \in {"act", "done", "look"} : pc' = [pc EXCEPT ![c] = how]
        /\ out' = out \/ \E o \in {"ok", "error"} : out' = [out EXCEPT ![c] = o]
    BY GoesOn
  <2>2. \A q \in flight \cup waiting : q.call \in Calls
    BY Asker
  <2>3. /\ pc \in [Calls -> {"idle", "look", "iotList", "quasarList", "act", "done"}]
        /\ out \in [Calls -> {"ok", "refused", "error", None}]
    BY DEF Inv, TypeOK
  <2> QED  BY ONLY <1>1, <2>1, <2>2, <2>3
<1>4. CASE UNCHANGED <<flight, waiting, fell>>
  BY <1>2, <1>3, <1>4 DEF Apart
<1>5. ASSUME NEW A \in SUBSET Things, NEW T \in SUBSET Things, NEW way \in {"quasar", "iot"},
             Asks(c, uses, A, T, way)
      PROVE  Apart'
  <2> DEFINE qs == Requests(c, way, T, FALSE)
  <2>1. /\ \A q \in qs : q.call = c /\ q.way = way
        /\ \A p, q \in qs : p.on \cap q.on # {} => p = q
    <3>1. c \in Calls /\ T \in SUBSET Things /\ T # {} /\ way \in {"quasar", "iot"}
      BY <1>5 DEF Asks
    <3> QED  BY ONLY <3>1, AskedAre
  <2> HIDE DEF qs
  <2>2. /\ flight' = flight \cup qs /\ waiting' = waiting \cup qs
        /\ fell' = fell \/ (fell' = fell \cup {c} /\ way = "iot" /\ ask[c].tool \notin Speaking)
    BY <1>5 DEF Asks, qs
  <2> QED  BY <1>1, <1>2, <1>3, <2>1, <2>2 DEF Apart
<1>6. \/ UNCHANGED <<flight, waiting, fell>>
      \/ \E A \in SUBSET Things, T \in SUBSET Things, way \in {"quasar", "iot"} :
           Asks(c, uses, A, T, way)
  BY GoesOn
<1> QED  BY <1>4, <1>5, <1>6

LEMMA ApartOfServing ==
  ASSUME Inv, NEW q \in flight, Serve(q) \/ Lost(q)
  PROVE  Apart'
<1>1. flight' = flight \ {q} /\ UNCHANGED <<waiting, fell, ask, pc, out>>
  BY DEF Serve, Lost, looking
<1> QED  BY <1>1 DEF Inv, Apart

LEMMA ApartOfAnswer ==
  ASSUME Inv, NEW q \in waiting, Answered(q)
  PROVE  Apart'
<1>1. UNCHANGED <<flight, fell, ask>> /\ waiting' \subseteq waiting /\ q \notin flight
  BY DEF Answered, Released, looking, Inv, TypeOK
<1>2. Apart
  BY DEF Inv
<1>3. CASE UNCHANGED <<pc, out>> /\ waiting' = waiting \ {q}
  BY <1>1, <1>2, <1>3 DEF Apart
<1>4. CASE AllOver(Mine(q.call) \ {q}) /\ End(q.call, "ok") /\ waiting' = Released(q)
  <2>1. \A p \in waiting : p.call = q.call => p = q
    BY <1>4 DEF AllOver, Mine
  <2>2. \A p \in waiting : p # q => p \in waiting'
    BY <1>4, <2>1 DEF Released, Mine
  <2>3. \A p \in flight : p.call # q.call => pc'[p.call] = pc[p.call] /\ out'[p.call] = out[p.call]
    BY <1>4, Asker DEF End, Inv, TypeOK
  <2>4. \A p \in flight : p.call = q.call => p.call \in fell /\ p.way = "quasar"
    BY <1>1, <1>2, <2>1, Asker DEF Apart
  <2>5. \A p \in flight : pc'[p.call] = "act" \/ out'[p.call] = "ok" =>
          p \in waiting' \/ (p.call \in fell /\ p.way = "quasar")
    BY <1>1, <1>2, <2>2, <2>3, <2>4 DEF Apart
  <2> QED  BY <1>1, <1>2, <2>5 DEF Apart
<1> QED  BY <1>3, <1>4 DEF Answered

LEMMA ApartOfFailure ==
  ASSUME Inv, NEW q \in waiting, Refused(q) \/ GivenUp(q)
  PROVE  Apart'
<1>1. PICK left \in {flight, flight \ {q}} : Failed(q, left)
  BY DEF Refused, GivenUp
<1>2. ask' = ask /\ Apart /\ Released(q) = {p \in waiting : p.call # q.call}
  BY DEF Refused, GivenUp, looking, Inv, Released, Mine
<1>3. CASE \E n : FallenBack(q, left, n)
  <2>1. PICK n : FallenBack(q, left, n)
    BY <1>3
  <2>2. /\ n.call = q.call /\ n.way = "iot" /\ q.way = "quasar" /\ q.call \notin fell
        /\ ask[q.call].tool \notin Speaking
        /\ flight' = left \cup {n} /\ waiting' = Released(q) \cup {n}
        /\ fell' = fell \cup {q.call} /\ UNCHANGED <<pc, out>>
    BY <2>1 DEF FallenBack
  <2>3. \A p \in flight \cup waiting : p.call = q.call => p.way = "quasar"
    BY <1>2, <2>2 DEF Apart
  <2> QED  BY <1>1, <1>2, <2>2, <2>3 DEF Apart
<1>4. CASE flight' = left /\ waiting' = Released(q) /\ fell' = fell /\ End(q.call, "error")
  <2>1. /\ q.call \in Calls /\ pc'[q.call] = "done" /\ out'[q.call] = "error"
        /\ \A p \in flight : p.call # q.call => pc'[p.call] = pc[p.call] /\ out'[p.call] = out[p.call]
    BY <1>4, Asker DEF End, Inv, TypeOK
  <2> QED  BY <1>1, <1>2, <1>4, <2>1 DEF Apart
<1> QED  BY <1>1, <1>3, <1>4, FailedDoes

LEMMA ApartOfResending ==
  ASSUME Inv, NEW q \in waiting, Resent(q)
  PROVE  Apart'
<1>1. PICK again \in Request :
           /\ again.call = q.call /\ again.way = q.way /\ again.on = q.on
           /\ again \notin waiting /\ q \in flight
           /\ flight' = (flight \ {q}) \cup {again} /\ waiting' = (waiting \ {q}) \cup {again}
           /\ UNCHANGED <<clock, world, cache, looking, pc, served, hits, heard, unheard, fell, out>>
  BY ResentIs
<1>2. Apart /\ UNCHANGED <<ask, pc, out, fell>>
  BY <1>1 DEF Inv, looking
<1>3. q.on # {}
  BY Asker
<1> HIDE DEF Inv
<1> QED  BY <1>1, <1>2, <1>3 DEF Apart

(* No thing is tried more often than it may be.                            *)
LEMMA TriesAre ==
  ASSUME TypeOK, NEW c \in Calls, NEW t \in Things
  PROVE  /\ hits[c][t] \in Nat /\ Tries(c, t) \in Nat
         /\ hits[c][t] <= Tries(c, t)
<1>1. hits[c][t] \in Nat
  <2>1. hits \in [Calls -> [Things -> 0..4]]
    BY DEF TypeOK
  <2>2. hits[c][t] \in 0..4
    BY <2>1
  <2> QED  BY <2>2
<1> QED  BY <1>1, ChanceIs DEF Tries

LEMMA ExcusedIsKept ==
  ASSUME Inv, UNCHANGED <<flight, hits, ask, fell, unheard>>
  PROVE  Excused'
<1>1. \A c \in Calls : \A t \in Things : Tries(c, t)' = Tries(c, t)
  BY DEF Tries
<1> QED  BY <1>1 DEF Inv, Excused

LEMMA ExcusedOfGoing ==
  ASSUME Inv, NEW c \in Calls, NEW uses \in SUBSET Use, Goes(c, uses)
  PROVE  Excused'
<1>1. /\ \A q \in flight : q.call # c
      /\ \A t \in Things : hits[c][t] = 0
  BY DEF Goes, Unasked, Asked
<1>2. UNCHANGED <<hits, ask, unheard>>
  BY DEF Goes
<1>3. CASE UNCHANGED <<flight, waiting, fell>>
  BY <1>2, <1>3, ExcusedIsKept
<1>4. ASSUME NEW A \in SUBSET Things, NEW T \in SUBSET Things, NEW way \in {"quasar", "iot"},
             Asks(c, uses, A, T, way)
      PROVE  Excused'
  <2> DEFINE qs == Requests(c, way, T, FALSE)
  <2>1. \A q \in qs : q.call = c /\ q.way = way
    <3>1. c \in Calls /\ T \in SUBSET Things /\ T # {} /\ way \in {"quasar", "iot"}
      BY <1>4 DEF Asks
    <3> QED  BY ONLY <3>1, AskedAre
  <2> HIDE DEF qs
  <2>2. flight' = flight \cup qs /\ (fell' = fell \/ fell' = fell \cup {c})
    BY <1>4 DEF Asks, qs
  <2>3. ASSUME NEW d \in Calls \ {c}, NEW t \in Things PROVE Tries(d, t)' = Tries(d, t)
    <3>1. \A w : Chance(flight', d, t, w) = Chance(flight, d, t, w)
      BY <2>1, <2>2 DEF Chance
    <3> QED  BY <1>2, <3>1 DEF Tries
  <2>4. ASSUME NEW t \in Things PROVE Tries(c, t)' <= 1 /\ Tries(c, t)' \in Nat
    <3>1. Chance(flight', c, t, "quasar") = 0 \/ Chance(flight', c, t, "iot") = 0
      BY <1>1, <2>1, <2>2 DEF Chance
    <3>2. Chance(flight', c, t, "quasar") \in {0, 1} /\ Chance(flight', c, t, "iot") \in {0, 1}
      BY ChanceIs
    <3>3. hits'[c][t] = 0
      BY <1>1, <1>2
    <3> QED  BY <3>1, <3>2, <3>3 DEF Tries
  <2>5. \A d \in Calls \ {c} : d \notin fell' => d \notin fell
    BY <2>2
  <2> QED  BY <1>2, <2>3, <2>4, <2>5 DEF Inv, Excused
<1>5. \/ UNCHANGED <<flight, waiting, fell>>
      \/ \E A \in SUBSET Things, T \in SUBSET Things, way \in {"quasar", "iot"} :
           Asks(c, uses, A, T, way)
  BY GoesOn
<1> QED  BY <1>3, <1>4, <1>5

LEMMA ExcusedOfServing ==
  ASSUME Inv, NEW q \in flight, Serve(q) \/ Lost(q)
  PROVE  Excused'
<1>1. UNCHANGED <<ask, fell, unheard>> /\ flight' = flight \ {q}
  BY DEF Serve, Lost, looking
<1>2. q.call \in Calls /\ q.way \in {"quasar", "iot"} /\ q.on \in SUBSET Things
  BY Asker
<1>3. \A c \in Calls, t \in Things, way \in {"quasar", "iot"} :
        /\ Chance(flight', c, t, way)
             = IF c = q.call /\ way = q.way /\ t \in q.on THEN 0 ELSE Chance(flight, c, t, way)
        /\ c = q.call /\ way = q.way /\ t \in q.on => Chance(flight, c, t, way) = 1
        /\ Chance(flight, c, t, way) \in {0, 1}
  <2> SUFFICES ASSUME NEW c, NEW t, NEW way
               PROVE  /\ Chance(flight', c, t, way)
                           = IF c = q.call /\ way = q.way /\ t \in q.on
                             THEN 0 ELSE Chance(flight, c, t, way)
                      /\ c = q.call /\ way = q.way /\ t \in q.on => Chance(flight, c, t, way) = 1
                      /\ Chance(flight, c, t, way) \in {0, 1}
    OBVIOUS
  <2>1. Apart /\ q \in flight
    BY DEF Inv
  <2> QED  BY ONLY <1>1, <2>1, ChanceOver, ChanceIs
<1>4. ASSUME NEW c \in Calls, NEW t \in Things
      PROVE  Tries(c, t)' \in Nat /\ Tries(c, t)' <= Tries(c, t)
  <2>1. hits[c][t] \in Nat
    BY TriesAre DEF Inv
  <2>2. hits'[c][t] = hits[c][t] + (IF c = q.call /\ t \in q.on THEN 1 ELSE 0)
        \/ hits'[c][t] = hits[c][t]
    BY <1>2 DEF Serve, Lost, Inv, TypeOK
  <2>3. ~(c = q.call /\ t \in q.on) => hits'[c][t] = hits[c][t]
    BY <1>2, <2>1 DEF Serve, Lost, Inv, TypeOK
  <2>4. CASE c = q.call /\ t \in q.on
    <3>1. hits'[c][t] \in {hits[c][t], hits[c][t] + 1}
      BY <2>2, <2>4
    <3>2. CASE q.way = "quasar"
      BY <1>3, <2>1, <2>4, <3>1, <3>2 DEF Tries
    <3>3. CASE q.way = "iot"
      BY <1>3, <2>1, <2>4, <3>1, <3>3 DEF Tries
    <3> QED  BY <1>2, <3>2, <3>3
  <2>5. CASE ~(c = q.call /\ t \in q.on)
    BY <1>3, <2>1, <2>3, <2>5 DEF Tries
  <2> QED  BY <2>4, <2>5
<1>5. ASSUME NEW c \in Calls, NEW t \in Things
      PROVE  /\ Tries(c, t)' <= 2 /\ (c \notin fell' => Tries(c, t)' <= 1)
             /\ Tries(c, t)' = 2 => ask'[c].tool = "controlRoom" \/ t \in unheard'[c]
  <2>1. /\ Tries(c, t) <= 2 /\ (c \notin fell => Tries(c, t) <= 1)
        /\ Tries(c, t) = 2 => ask[c].tool = "controlRoom" \/ t \in unheard[c]
    BY DEF Inv, Excused
  <2>2. Tries(c, t) \in Nat /\ Tries(c, t)' \in Nat /\ Tries(c, t)' <= Tries(c, t)
    BY <1>4, TriesAre DEF Inv
  <2> QED  BY <1>1, <2>1, <2>2
<1> QED  BY <1>5 DEF Excused

LEMMA ExcusedOfFailure ==
  ASSUME Inv, NEW q \in waiting, Refused(q) \/ GivenUp(q)
  PROVE  Excused'
<1>1. PICK left \in {flight, flight \ {q}} :
        /\ Failed(q, left)
        /\ \/ left = flight \ {q} /\ q \in flight
           \/ unheard'[q.call] = unheard[q.call] \cup q.on
  <2>1. CASE Refused(q)
    BY <2>1 DEF Refused, Inv, TypeOK
  <2>2. CASE GivenUp(q)
    BY <2>2, Asker DEF GivenUp, Inv, TypeOK
  <2> QED  BY <2>1, <2>2
<1>2. /\ UNCHANGED <<ask, hits>>
      /\ \A c \in Calls : unheard[c] \subseteq unheard'[c]
  <2>1. q.call \in Calls
    BY Asker
  <2>2. unheard' = unheard \/ unheard' = [unheard EXCEPT ![q.call] = @ \cup q.on]
    BY DEF Refused, GivenUp
  <2>3. unheard \in [Calls -> SUBSET Things]
    BY DEF Inv, TypeOK
  <2>4. \A c \in Calls : unheard[c] \subseteq unheard'[c]
    BY <2>1, <2>2, <2>3
  <2> QED  BY <2>4 DEF Refused, GivenUp, looking
<1>3. left \subseteq flight
  BY <1>1
<1>4. \A c, t, way : Chance(left, c, t, way) <= Chance(flight, c, t, way)
  BY <1>3 DEF Chance
<1>5. CASE flight' = left /\ fell' = fell
  <2>1. ASSUME NEW c \in Calls, NEW t \in Things
        PROVE  Tries(c, t)' \in Nat /\ Tries(c, t)' <= Tries(c, t)
    <3>1. hits[c][t] \in Nat /\ hits'[c][t] = hits[c][t]
      BY <1>2, TriesAre DEF Inv
    <3>2. \A way : /\ Chance(flight', c, t, way) \in {0, 1} /\ Chance(flight, c, t, way) \in {0, 1}
                   /\ Chance(flight', c, t, way) <= Chance(flight, c, t, way)
      BY <1>4, <1>5, ChanceIs
    <3> QED  BY <3>1, <3>2 DEF Tries
  <2>2. ASSUME NEW c \in Calls, NEW t \in Things
        PROVE  /\ Tries(c, t)' <= 2 /\ (c \notin fell' => Tries(c, t)' <= 1)
               /\ Tries(c, t)' = 2 => ask'[c].tool = "controlRoom" \/ t \in unheard'[c]
    <3>1. /\ Tries(c, t) <= 2 /\ (c \notin fell => Tries(c, t) <= 1)
          /\ Tries(c, t) = 2 => ask[c].tool = "controlRoom" \/ t \in unheard[c]
      BY DEF Inv, Excused
    <3>2. Tries(c, t) \in Nat /\ Tries(c, t)' \in Nat /\ Tries(c, t)' <= Tries(c, t)
      BY <2>1, TriesAre DEF Inv
    <3> QED  BY <1>2, <1>5, <3>1, <3>2
  <2> QED  BY <2>2 DEF Excused
<1>6. CASE \E n : FallenBack(q, left, n)
  <2>1. PICK n : FallenBack(q, left, n)
    BY <1>6
  <2>2. /\ n.call = q.call /\ n.way = "iot" /\ n.on = aim[q.call]
        /\ q.way = "quasar" /\ q.call \notin fell
        /\ flight' = left \cup {n} /\ fell' = fell \cup {q.call}
    BY <2>1 DEF FallenBack
  <2>3. q.call \in Calls
    BY Asker
  <2>4. ASSUME NEW c \in Calls, NEW t \in Things, c # q.call
        PROVE  Tries(c, t)' = Tries(c, t)
    <3>1. \A way : Chance(flight', c, t, way) = Chance(flight, c, t, way)
      BY <1>1, <2>2, <2>4 DEF Chance
    <3> QED  BY <1>2, <3>1 DEF Tries
  <2>5. ASSUME NEW t \in Things
        PROVE  /\ Tries(q.call, t)' <= 2
               /\ Tries(q.call, t)' = 2 => ask'[q.call].tool = "controlRoom" \/ t \in unheard'[q.call]
    <3> DEFINE c == q.call
    <3>1. /\ Chance(flight', c, t, "quasar") = Chance(left, c, t, "quasar")
          /\ Chance(flight', c, t, "iot") <= 1
          /\ t \notin aim[c] => Chance(flight', c, t, "iot") = Chance(left, c, t, "iot")
      BY <2>2 DEF Chance
    <3>2. Chance(flight, c, t, "iot") = 0
      BY <2>2 DEF Chance, Inv, Apart
    <3>3. Tries(c, t) <= 1 /\ Tries(c, t) \in Nat /\ hits[c][t] \in Nat /\ hits'[c][t] = hits[c][t]
      BY <1>2, <2>2, <2>3, TriesAre DEF Inv, Excused
    <3>4. \A way : /\ Chance(left, c, t, way) \in {0, 1} /\ Chance(flight, c, t, way) \in {0, 1}
                   /\ Chance(left, c, t, way) <= Chance(flight, c, t, way)
                   /\ Chance(flight', c, t, way) \in {0, 1}
      BY <1>4, ChanceIs
    <3>5. Tries(c, t)' <= 2
      BY <3>1, <3>2, <3>3, <3>4 DEF Tries
    <3>6. ASSUME ask[c].tool # "controlRoom", t \notin unheard'[c] PROVE Tries(c, t)' # 2
      <4>1. PICK T \in SUBSET Things :
              Told(q.call, T) /\ Goal(q.call, T) = q.on
        BY <3>6, WishedIs
      <4>4. T = q.on /\ Told(c, T)
        BY <2>2, <4>1 DEF Goal
      <4>2. CASE t \in q.on
        <5>1. left = flight \ {q} /\ q \in flight
          BY <1>1, <3>6, <4>2
        <5>2. Chance(left, c, t, "quasar") = 0 /\ Chance(flight, c, t, "quasar") = 1
          BY <2>2, <4>2, <5>1, ChanceOver DEF Inv
        <5>3. hits[c][t] = 0
          BY <3>2, <3>3, <5>2 DEF Tries
        <5> QED  BY <3>1, <3>3, <3>4, <5>2, <5>3 DEF Tries
      <4>3. CASE t \notin q.on
        <5>1. \A p \in flight : p.call = c => p.on \subseteq T
          <6>1. \A p \in flight : p.call = c => p.way = "quasar" /\ p \in Asked(c)
            BY <2>2 DEF Inv, Apart, Asked
          <6> QED  BY <4>4, <6>1 DEF Told
        <5>2. Chance(flight, c, t, "quasar") = 0
          BY <4>3, <4>4, <5>1 DEF Chance
        <5>3. ~(hits[c][t] > 0)
          BY <2>2, <4>3, <4>4 DEF Told, Goal
        <5> QED  BY <3>1, <3>2, <3>3, <3>4, <5>2, <5>3 DEF Tries
      <4> QED  BY <4>2, <4>3
    <3> QED  BY <1>2, <3>5, <3>6
  <2>6. ASSUME NEW c \in Calls, NEW t \in Things
        PROVE  /\ Tries(c, t)' <= 2 /\ (c \notin fell' => Tries(c, t)' <= 1)
               /\ Tries(c, t)' = 2 => ask'[c].tool = "controlRoom" \/ t \in unheard'[c]
    <3>1. CASE c = q.call
      BY <2>2, <2>5, <3>1
    <3>2. CASE c # q.call
      BY <1>2, <2>2, <2>4, <3>2 DEF Inv, Excused
    <3> QED  BY <3>1, <3>2
  <2> QED  BY <2>6 DEF Excused
<1> QED  BY <1>1, <1>5, <1>6, FailedDoes

LEMMA ExcusedOfResending ==
  ASSUME Inv, NEW q \in waiting, Resent(q)
  PROVE  Excused'
<1>1. PICK again \in Request :
           /\ again.call = q.call /\ again.way = q.way /\ again.on = q.on
           /\ again \notin waiting /\ q \in flight
           /\ flight' = (flight \ {q}) \cup {again} /\ waiting' = (waiting \ {q}) \cup {again}
           /\ UNCHANGED <<clock, world, cache, looking, pc, served, hits, heard, unheard, fell, out>>
  BY ResentIs
<1>2. \A c, t, way : Chance(flight', c, t, way) = Chance(flight, c, t, way)
  BY <1>1 DEF Chance
<1>3. UNCHANGED <<hits, ask, fell, unheard>>
  BY <1>1 DEF looking
<1>4. \A c \in Calls : \A t \in Things : Tries(c, t)' = Tries(c, t)
  BY <1>2, <1>3 DEF Tries
<1> QED  BY <1>3, <1>4 DEF Inv, Excused

(* Each call on its way.                                                   *)
LEMMA ToldIsKept ==
  ASSUME NEW c, NEW T, Told(c, T), ask' = ask, used'[c] = used[c], aim'[c] = aim[c],
         \A q \in Asked(c)' : q.on # {} /\ q.on \subseteq (IF q.way = "quasar" THEN T ELSE Goal(c, T)'),
         heard'[c] \subseteq Goal(c, T)',
         \A t \in Things : hits'[c][t] > 0 => t \in T \/ t \in Goal(c, T)',
         pc'[c] = "act" => /\ Wished(c)' = Goal(c, T)'
                           /\ ask[c].tool # "controlRoom" => heard'[c] = {},
         out'[c] = "ok" => heard'[c] = Goal(c, T)'
  PROVE  Told(c, T)'
<1>1. Goals(c)' = Goals(c)
  <2>1. PICK uses : uses = used[c]
    OBVIOUS
  <2>2. Goals(c)' = GoalsOf(uses, ask[c])
    BY <2>1, GoalsLater
  <2> QED  BY <2>1, <2>2 DEF Goals
<1> QED  BY <1>1 DEF Told, Differ

LEMMA CourseIsKept ==
  ASSUME Inv, NEW c \in Calls, Asked(c)' = Asked(c), Mine(c)' = Mine(c),
         hits'[c] = hits[c], heard'[c] = heard[c], used'[c] = used[c], ask' = ask,
         aim'[c] = aim[c], pc'[c] = pc[c], out'[c] = out[c], c \in fell' <=> c \in fell
  PROVE  OnCourse(c)'
<1>1. Wished(c)' = Wished(c) /\ \A T : Goal(c, T)' = Goal(c, T)
  BY DEF Wished, Goal
<1>2. Unasked(c)' <=> Unasked(c)
  BY DEF Unasked
<1>3. Goals(c)' = Goals(c)
  <2>1. PICK uses : uses = used[c]
    OBVIOUS
  <2>2. Goals(c)' = GoalsOf(uses, ask[c])
    BY <2>1, GoalsLater
  <2> QED  BY <2>1, <2>2 DEF Goals
<1>4. \A T \in SUBSET Things : Told(c, T) => Told(c, T)'
  BY <1>1, <1>3 DEF Told, Differ
<1>5. Aims(c)' <=> Aims(c)
  BY <1>3 DEF Aims
<1>6. OnCourse(c)
  BY DEF Inv, Course
<1> QED  BY <1>2, <1>4, <1>5, <1>6 DEF OnCourse, Aimed

(* A step of one call leaves the others where they are.                    *)
LEMMA OthersAreKept ==
  ASSUME Inv, NEW c \in Calls, ask' = ask,
         \A q : q.call # c => /\ q \in flight' <=> q \in flight
                              /\ q \in waiting' <=> q \in waiting,
         \A d \in Calls \ {c} :
           /\ hits'[d] = hits[d] /\ heard'[d] = heard[d] /\ used'[d] = used[d] /\ aim'[d] = aim[d]
           /\ pc'[d] = pc[d] /\ out'[d] = out[d] /\ (d \in fell' <=> d \in fell),
         OnCourse(c)'
  PROVE  Course'
<1> SUFFICES ASSUME NEW d \in Calls \ {c} PROVE OnCourse(d)'
  BY DEF Course
<1>1. Asked(d)' = Asked(d) /\ Mine(d)' = Mine(d)
  BY DEF Asked, Mine
<1> QED  BY <1>1, CourseIsKept

LEMMA CourseOfTime == Inv /\ (Change \/ Tick) => Course'
<1> SUFFICES ASSUME Inv, Change \/ Tick, NEW c \in Calls PROVE OnCourse(c)'
  BY DEF Course
<1>1. UNCHANGED <<looking, pc, acting, out>>
  BY DEF Change, Tick
<1> QED  BY <1>1, CourseIsKept DEF looking, acting, Asked, Mine

LEMMA CourseOfLooking ==
  ASSUME Inv, NEW c \in Calls,
         Start(c) \/ AskForList(c) \/ PutTogether(c) \/ RetryList(c) \/ ListLost(c)
  PROVE  Course'
<1>1. /\ pc[c] \in {"idle", "look", "iotList", "quasarList"}
      /\ UNCHANGED <<acting, ask, used, aim>>
  BY DEF Start, AskForList, PutTogether, RetryList, ListLost, looking
<1>2. \/ pc' \in {pc, [pc EXCEPT ![c] = "look"], [pc EXCEPT ![c] = "iotList"],
                  [pc EXCEPT ![c] = "quasarList"]} /\ out' = out
      \/ \E how \in {"refused", "error"} : End(c, how)
  BY DEF Start, AskForList, PutTogether, RetryList, ListLost
<1>3. /\ pc \in [Calls -> {"idle", "look", "iotList", "quasarList", "act", "done"}]
      /\ out \in [Calls -> {"ok", "refused", "error", None}]
  BY DEF Inv, TypeOK
<1>4. Unasked(c) /\ OnCourse(c)
  BY <1>1 DEF Inv, Course, OnCourse
<1>5. pc'[c] # "idle" => ask'[c] # None
  BY <1>1, <1>2, <1>3, <1>4 DEF Start, AskForList, PutTogether, RetryList, ListLost, OnCourse
<1>6. /\ pc'[c] # "act" /\ (pc'[c] = "done" => out'[c] # "ok")
      /\ pc'[c] # "done" => out'[c] = None
  BY <1>1, <1>2, <1>3, <1>4 DEF End, OnCourse
<1>7. Asked(c)' = {} /\ heard'[c] = {} /\ c \notin fell' /\ \A t \in Things : hits'[c][t] = 0
  BY <1>1, <1>4 DEF Unasked, Asked, acting
<1>8. Unasked(c)'
  BY <1>6, <1>7 DEF Unasked
<1>9. OnCourse(c)'
  <2>1. aim[c] # {} => Aims(c)'
    <3>1. PICK uses : uses = used[c]
      OBVIOUS
    <3>2. Goals(c)' = GoalsOf(uses, ask[c])
      BY <1>1, <3>1, GoalsLater
    <3> QED  BY <1>1, <1>4, <3>1, <3>2 DEF Goals, Aims, OnCourse
  <2>2. aim[c] # {} => ask[c].tool \in Twice
    BY <1>1, <1>4 DEF OnCourse
  <2> QED  BY <1>1, <1>4, <1>5, <1>6, <1>8, <2>1, <2>2 DEF OnCourse
<1>10. \A d \in Calls \ {c} : pc'[d] = pc[d] /\ out'[d] = out[d]
  BY <1>2, <1>3 DEF End
<1> QED  BY <1>1, <1>9, <1>10, OthersAreKept DEF acting

LEMMA CourseOfGoing ==
  ASSUME Inv, NEW c \in Calls, NEW uses \in SUBSET Use, Goes(c, uses)
  PROVE  Course'
<1>1. /\ pc[c] \in {"look", "iotList", "quasarList"}
      /\ UNCHANGED <<ask, hits, heard>>
      /\ used' = [used EXCEPT ![c] = uses] /\ used[c] \subseteq uses
      /\ \A see \in uses : see.age < CACHE_TTL
  BY DEF Goes
<1>2. Unasked(c) /\ OnCourse(c)
  BY DEF Goes, Inv, Course
<1>3. /\ Asked(c) = {} /\ heard[c] = {} /\ c \notin fell /\ \A t \in Things : hits[c][t] = 0
      /\ out[c] = None /\ ask[c] # None
      /\ aim[c] # {} => Aims(c)
  BY <1>1, <1>2 DEF Unasked, OnCourse
<1>4. /\ pc \in [Calls -> {"idle", "look", "iotList", "quasarList", "act", "done"}]
      /\ out \in [Calls -> {"ok", "refused", "error", None}]
      /\ used \in [Calls -> SUBSET Use] /\ aim \in [Calls -> SUBSET Things]
  BY DEF Inv, TypeOK
<1>5. used'[c] = uses /\ \A d \in Calls \ {c} : used'[d] = used[d]
  BY <1>1, <1>4
<1>6. Goals(c)' = GoalsOf(uses, ask[c])
  BY <1>1, <1>5, GoalsLater
<1>7. Goals(c) \subseteq GoalsOf(uses, ask[c])
  BY <1>1 DEF Goals, GoalsOf
<1>8. CASE Ends(c)
  <2>1. PICK how \in {"ok", "error"} : End(c, how) /\ (how = "ok" => ask[c].tool \in Telling)
    BY <1>8 DEF Ends
  <2>2. pc'[c] = "done" /\ out'[c] = how /\ \A d \in Calls \ {c} : pc'[d] = pc[d] /\ out'[d] = out[d]
    BY <1>4, <2>1 DEF End
  <2>3. UNCHANGED <<aim, flight, waiting, fell>>
    BY <1>8 DEF Ends
  <2>4. Unasked(c)'
    BY <1>1, <1>3, <2>1, <2>2, <2>3 DEF Unasked, Asked
  <2>5. aim'[c] # {} => Aims(c)'
    BY <1>1, <1>3, <1>6, <1>7, <2>3 DEF Aims
  <2>6. OnCourse(c)'
    BY <1>1, <1>3, <1>5, <2>2, <2>4, <2>5 DEF OnCourse
  <2> QED  BY <1>1, <1>5, <2>2, <2>3, <2>6, OthersAreKept
<1>9. CASE LooksAgain(c, uses) /\ ask[c].tool \notin Telling
  <2>1. PICK A \in SUBSET Things : /\ A \in GoalsOf(uses, ask[c]) /\ A # {}
                                   /\ aim' = [aim EXCEPT ![c] = A]
    BY <1>9 DEF LooksAgain
  <2>2. /\ pc'[c] = "look" /\ out' = out /\ aim'[c] = A
        /\ \A d \in Calls \ {c} : pc'[d] = pc[d] /\ aim'[d] = aim[d]
    BY <1>4, <1>9, <2>1 DEF LooksAgain
  <2>3. UNCHANGED <<flight, waiting, fell>> /\ ask[c].tool \in Twice
    BY <1>9 DEF LooksAgain
  <2>4. Unasked(c)'
    BY <1>1, <1>3, <2>2, <2>3 DEF Unasked, Asked
  <2>5. Aims(c)'
    BY <1>1, <1>3, <1>6, <1>9, <2>1, <2>2 DEF Aims
  <2>6. OnCourse(c)'
    BY <1>1, <1>3, <1>5, <2>2, <2>3, <2>4, <2>5 DEF OnCourse
  <2> QED  BY <1>1, <1>5, <2>2, <2>3, <2>6, OthersAreKept
<1>10. ASSUME NEW A \in SUBSET Things, NEW T \in SUBSET Things, NEW way \in {"quasar", "iot"},
              Asks(c, uses, A, T, way), ask[c].tool \notin Telling
       PROVE  Course'
  <2> DEFINE qs == Requests(c, way, T, FALSE)
  <2>1. /\ \A q \in qs : q.call = c /\ q.on # {} /\ q.on \subseteq T
        /\ \A t \in T : \E q \in qs : t \in q.on
    <3>1. c \in Calls /\ T \in SUBSET Things /\ T # {} /\ way \in {"quasar", "iot"}
      BY <1>10 DEF Asks
    <3>2. \A q \in Requests(c, way, T, FALSE) : q.call = c /\ q.on # {} /\ q.on \subseteq T
      BY ONLY <3>1, AskedAre
    <3>3. \A t \in T : \E q \in Requests(c, way, T, FALSE) : t \in q.on
      BY RequestsCover
    <3> QED  BY ONLY <3>2, <3>3
  <2>2. flight' = flight \cup qs /\ waiting' = waiting \cup qs
    BY <1>10 DEF Asks
  <2> HIDE DEF qs
  <2>3. /\ pc' = [pc EXCEPT ![c] = "act"] /\ out' = out /\ aim' = [aim EXCEPT ![c] = A]
        /\ A \in GoalsOf(uses, ask[c]) /\ A # {} /\ T \in GoalsOf(uses, ask[c])
        /\ (ask[c].tool \notin Twice => T = A) /\ (T = A \/ Differ(uses))
        /\ fell' = fell \/ (fell' = fell \cup {c} /\ T = A)
    BY <1>10 DEF Asks
  <2>4. /\ pc'[c] = "act" /\ aim'[c] = A
        /\ \A d \in Calls \ {c} : pc'[d] = pc[d] /\ aim'[d] = aim[d] /\ (d \in fell' <=> d \in fell)
    BY <1>4, <2>3
  <2>5. Asked(c)' = qs /\ Mine(c)' = qs
    BY <1>3, <2>1, <2>2 DEF Asked, Mine
  <2>6. Wished(c)' = T
    BY <1>1, <1>3, <2>1, <2>5 DEF Wished
  <2>7. Goal(c, T)' = T
    BY <1>3, <2>3, <2>4 DEF Goal
  <2>8. Told(c, T)'
    <3>1. /\ T \in Goals(c)' /\ (ask'[c].tool \notin Twice => T = aim'[c])
          /\ T = aim'[c] \/ Differ(used[c])'
      BY <1>1, <1>5, <1>6, <2>3, <2>4 DEF Differ
    <3>2. \A q \in Asked(c)' : q.on # {} /\ q.on \subseteq T
      BY <2>1, <2>5
    <3>3. heard'[c] = {} /\ out'[c] # "ok" /\ \A t \in Things : hits'[c][t] = 0
      BY <1>1, <1>3, <2>3
    <3> QED  BY <2>6, <2>7, <3>1, <3>2, <3>3 DEF Told
  <2>9. Aimed(c)'
    BY <2>3, <2>4, <2>8 DEF Aimed
  <2>10. Aims(c)'
    BY <1>1, <1>3, <1>6, <1>10, <2>3, <2>4 DEF Aims
  <2>11. OnCourse(c)'
    BY <1>1, <1>3, <1>5, <2>3, <2>4, <2>9, <2>10 DEF OnCourse
  <2>12. \A q : q.call # c => (q \in flight' <=> q \in flight) /\ (q \in waiting' <=> q \in waiting)
    BY <2>1, <2>2
  <2> QED  BY <1>1, <1>5, <2>3, <2>4, <2>11, <2>12, OthersAreKept
<1>11. Ends(c) \/ (LooksAgain(c, uses) /\ ask[c].tool \notin Telling)
       \/ /\ ask[c].tool \notin Telling
          /\ \E A \in SUBSET Things, T \in SUBSET Things, way \in {"quasar", "iot"} :
               Asks(c, uses, A, T, way)
  BY ONLY Goes(c, uses) DEF Goes, Outcome
<1> QED  BY <1>8, <1>9, <1>10, <1>11

(* A call that acts keeps to what it has chosen.                           *)
LEMMA CourseIsHeld ==
  ASSUME Inv, NEW c \in Calls, Aimed(c), UNCHANGED looking, \E T \in SUBSET Things : Told(c, T)',
         pc[c] \in {"act", "done"}, pc'[c] \in {pc[c], "done"}, pc'[c] # "done" => out'[c] = None
  PROVE  OnCourse(c)'
<1>1. Goals(c)' = Goals(c)
  <2>1. PICK uses : uses = used[c]
    OBVIOUS
  <2>2. Goals(c)' = GoalsOf(uses, ask[c])
    BY <2>1, GoalsLater DEF looking
  <2> QED  BY <2>1, <2>2 DEF Goals
<1>2. OnCourse(c) /\ aim[c] # {} /\ aim[c] \in SUBSET Things
  BY DEF Inv, Course, Aimed, TypeOK
<1>3. Aims(c)'
  BY <1>1, <1>2 DEF Aims, OnCourse, looking
<1>4. Aimed(c)'
  BY <1>2 DEF Aimed, looking
<1>5. ask[c] # None /\ \A see \in used[c] : see.age < CACHE_TTL
  BY <1>2 DEF OnCourse
<1> QED  BY <1>3, <1>4, <1>5 DEF OnCourse, looking

LEMMA CourseOfServing ==
  ASSUME Inv, NEW q \in flight, Serve(q) \/ Lost(q)
  PROVE  Course'
<1> DEFINE c == q.call
<1>1. c \in Calls /\ Aimed(c) /\ q.on \in SUBSET Things
  BY Asker
<1>2. /\ UNCHANGED <<looking, pc, waiting, heard, fell, out>> /\ flight' = flight \ {q}
  BY DEF Serve, Lost
<1>3. /\ \A d \in Calls \ {c} : hits'[d] = hits[d]
      /\ \A t \in Things : hits'[c][t] > 0 => hits[c][t] > 0 \/ t \in q.on
  <2>1. hits \in [Calls -> [Things -> 0..4]]
    BY DEF Inv, TypeOK
  <2>2. CASE Lost(q)
    BY <2>2 DEF Lost
  <2>3. CASE Serve(q)
    <3>1. hits' = [hits EXCEPT ![c] = [t \in Things |-> @[t] + IF t \in q.on THEN 1 ELSE 0]]
      BY <2>3 DEF Serve
    <3>2. \A t \in Things : t \notin q.on => hits'[c][t] = hits[c][t] + 0
      BY <1>1, <2>1, <3>1
    <3>3. \A t \in Things : hits[c][t] + 0 = hits[c][t]
      BY <1>1, <2>1
    <3> QED  BY <1>1, <2>1, <3>1, <3>2, <3>3
  <2> QED  BY <2>2, <2>3
<1>4. PICK T \in SUBSET Things : Told(c, T)
  BY <1>1 DEF Aimed
<1>5. q \in Asked(c) /\ Asked(c)' \subseteq Asked(c)
  BY <1>2 DEF Asked
<1>6. Wished(c)' = Wished(c) /\ Goal(c, T)' = Goal(c, T)
  BY <1>2 DEF Wished, Mine, Goal, looking
<1>7. q.on \subseteq T \/ q.on \subseteq Goal(c, T)
  BY <1>4, <1>5 DEF Told
<1> HIDE DEF c
<1>8. Told(c, T)'
  <2>1. /\ \A p \in Asked(c)' : p.on # {} /\ p.on \subseteq (IF p.way = "quasar" THEN T ELSE Goal(c, T)')
        /\ heard'[c] \subseteq Goal(c, T)'
        /\ \A t \in Things : hits'[c][t] > 0 => t \in T \/ t \in Goal(c, T)'
    BY <1>2, <1>3, <1>4, <1>5, <1>6, <1>7 DEF Told
  <2>2. /\ pc'[c] = "act" => /\ Wished(c)' = Goal(c, T)'
                             /\ ask[c].tool # "controlRoom" => heard'[c] = {}
        /\ out'[c] = "ok" => heard'[c] = Goal(c, T)'
    BY <1>2, <1>4, <1>6 DEF Told
  <2> QED  BY <1>2, <1>4, <2>1, <2>2, ToldIsKept DEF looking
<1>9. OnCourse(c)
  BY <1>1 DEF Inv, Course
<1>10. pc[c] \in {"act", "done"}
  <2>1. pc[c] \notin {"idle", "look", "iotList", "quasarList"}
    BY <1>5, <1>9 DEF OnCourse, Unasked
  <2> QED  BY <1>1, <2>1 DEF Inv, TypeOK
<1>11. OnCourse(c)'
  BY <1>1, <1>2, <1>8, <1>9, <1>10, CourseIsHeld DEF OnCourse
<1>12. \A p : p.call # c => (p \in flight' <=> p \in flight)
  BY <1>2 DEF c
<1> QED  BY <1>1, <1>2, <1>3, <1>11, <1>12, OthersAreKept DEF looking

(* What holds of a call that waits for an answer.                          *)
LEMMA Waiter ==
  ASSUME Inv, NEW q \in waiting
  PROVE  /\ q.call \in Calls /\ Aimed(q.call) /\ pc[q.call] = "act" /\ out[q.call] = None
         /\ ask[q.call] # None
BY Asker DEF Inv, Course, OnCourse

LEMMA CourseOfAnswer ==
  ASSUME Inv, NEW q \in waiting, Answered(q)
  PROVE  Course'
<1> DEFINE c == q.call
<1>1. /\ c \in Calls /\ Aimed(c) /\ pc[c] = "act" /\ out[c] = None /\ ask[c] # None
  BY Waiter
<1>2. PICK T \in SUBSET Things :
        /\ Told(c, T) /\ Wished(c) = Goal(c, T) /\ q.on \subseteq Goal(c, T)
        /\ ask[c].tool # "controlRoom" => Mine(c) = {q}
  BY WishedIs
<1>3. UNCHANGED <<looking, flight, hits, fell>>
      /\ heard' = [heard EXCEPT ![c] = @ \cup q.on]
  BY DEF Answered
<1>4. /\ heard'[c] = heard[c] \cup q.on
      /\ \A d \in Calls \ {c} : heard'[d] = heard[d]
  BY <1>1, <1>3 DEF Inv, TypeOK
<1>5. q \in Mine(c) /\ \A p \in Mine(c) : p \in waiting /\ p.call = c
  BY DEF Mine
<1>6. Goal(c, T)' = Goal(c, T) /\ heard[c] \subseteq Goal(c, T)
  BY <1>2, <1>3 DEF Goal, Told, looking
<1>7. \/ /\ Mine(c) # {q} /\ UNCHANGED <<pc, out>> /\ waiting' = waiting \ {q}
      \/ Mine(c) = {q} /\ End(c, "ok") /\ waiting' = waiting \ Mine(c)
  BY <1>5 DEF Answered, AllOver, Released
<1>8. /\ Asked(c)' \subseteq Asked(c)
      /\ \A p : p.call # c => (p \in waiting' <=> p \in waiting)
  BY <1>3, <1>5, <1>7 DEF Asked
<1> HIDE DEF c
<1>9. /\ \A p \in Asked(c)' : p.on # {} /\ p.on \subseteq (IF p.way = "quasar" THEN T ELSE Goal(c, T)')
      /\ heard'[c] \subseteq Goal(c, T)'
      /\ \A t \in Things : hits'[c][t] > 0 => t \in T \/ t \in Goal(c, T)'
  BY <1>2, <1>3, <1>4, <1>6, <1>8 DEF Told
<1>10. CASE Mine(c) # {q} /\ UNCHANGED <<pc, out>> /\ waiting' = waiting \ {q}
  <2>1. Wished(c)' = Wished(c)
    <3>1. Mine(c)' = Mine(c) \ {q}
      BY <1>10 DEF Mine
    <3> QED  BY <1>4, <1>5, <3>1 DEF Wished
  <2>2. out'[c] # "ok" /\ ask[c].tool = "controlRoom"
    BY <1>1, <1>2, <1>10
  <2>3. Told(c, T)'
    BY <1>2, <1>3, <1>6, <1>9, <2>1, <2>2, ToldIsKept DEF looking
  <2>4. OnCourse(c)'
    BY <1>1, <1>3, <1>10, <2>3, CourseIsHeld
  <2> QED  BY <1>1, <1>3, <1>4, <1>8, <1>10, <2>4, OthersAreKept DEF looking
<1>11. CASE Mine(c) = {q} /\ End(c, "ok") /\ waiting' = waiting \ Mine(c)
  <2>1. heard'[c] = Goal(c, T)'
    BY <1>2, <1>4, <1>6, <1>11 DEF Wished
  <2>2. /\ pc'[c] = "done" /\ out'[c] = "ok"
        /\ \A d \in Calls \ {c} : pc'[d] = pc[d] /\ out'[d] = out[d]
    BY <1>1, <1>11 DEF End, Inv, TypeOK
  <2>3. Told(c, T)'
    BY <1>2, <1>3, <1>9, <2>1, <2>2, ToldIsKept DEF looking
  <2>4. OnCourse(c)'
    BY <1>1, <1>3, <2>2, <2>3, CourseIsHeld
  <2> QED  BY <1>1, <1>3, <1>4, <1>8, <2>2, <2>4, OthersAreKept DEF looking
<1> QED  BY <1>7, <1>10, <1>11

LEMMA CourseOfResending ==
  ASSUME Inv, NEW q \in waiting, Resent(q)
  PROVE  Course'
<1> DEFINE c == q.call
<1>1. PICK again \in Request :
           /\ again.call = q.call /\ again.way = q.way /\ again.on = q.on
           /\ again \notin waiting /\ q \in flight
           /\ flight' = (flight \ {q}) \cup {again} /\ waiting' = (waiting \ {q}) \cup {again}
           /\ UNCHANGED <<clock, world, cache, looking, pc, served, hits, heard, unheard, fell, out>>
  BY ResentIs
<1>2. /\ c \in Calls /\ Aimed(c) /\ pc[c] = "act" /\ out[c] = None /\ ask[c] # None
  BY Waiter
<1>3. PICK T \in SUBSET Things : Told(c, T)
  BY <1>2 DEF Aimed
<1>4. Goal(c, T)' = Goal(c, T)
  BY <1>1 DEF Goal, looking
<1>5. q \in Asked(c) /\ \A p \in Asked(c)' : p = again \/ p \in Asked(c)
  BY <1>1 DEF Asked
<1>6. Wished(c)' = Wished(c)
  <2>1. Mine(c)' = (Mine(c) \ {q}) \cup {again} /\ q \in Mine(c)
    BY <1>1 DEF Mine
  <2> QED  BY <1>1, <2>1 DEF Wished
<1> HIDE DEF c
<1>7. \A p \in Asked(c)' : p.on # {} /\ p.on \subseteq (IF p.way = "quasar" THEN T ELSE Goal(c, T)')
  BY <1>1, <1>3, <1>4, <1>5 DEF Told
<1>8. Told(c, T)'
  <2>1. /\ heard'[c] \subseteq Goal(c, T)'
        /\ \A t \in Things : hits'[c][t] > 0 => t \in T \/ t \in Goal(c, T)'
        /\ pc'[c] = "act" => /\ Wished(c)' = Goal(c, T)'
                             /\ ask[c].tool # "controlRoom" => heard'[c] = {}
        /\ out'[c] # "ok"
    BY <1>1, <1>2, <1>3, <1>4, <1>6 DEF Told
  <2> QED  BY <1>1, <1>3, <1>7, <2>1, ToldIsKept DEF looking
<1>9. OnCourse(c)'
  BY <1>1, <1>2, <1>8, CourseIsHeld
<1>10. \A p : p.call # c => (p \in waiting' <=> p \in waiting) /\ (p \in flight' <=> p \in flight)
  BY <1>1 DEF c
<1> QED  BY <1>1, <1>2, <1>9, <1>10, OthersAreKept DEF looking

(* When a call leaves Quasar, all that it had asked for there is in T.     *)
LEMMA CourseOfFailure ==
  ASSUME Inv, NEW q \in waiting, Refused(q) \/ GivenUp(q)
  PROVE  Course'
<1> DEFINE c == q.call
<1>1. /\ c \in Calls /\ Aimed(c) /\ pc[c] = "act" /\ out[c] = None /\ ask[c] # None
  BY Waiter
<1>2. PICK T \in SUBSET Things :
        /\ Told(c, T) /\ Wished(c) = Goal(c, T) /\ q.on \subseteq Goal(c, T)
        /\ ask[c].tool # "controlRoom" => heard[c] = {}
  BY WishedIs
<1>3. UNCHANGED <<looking, hits, heard>>
  BY DEF Refused, GivenUp
<1>4. PICK left \in {flight, flight \ {q}} : Failed(q, left)
  BY DEF Refused, GivenUp
<1>5. Released(q) = {p \in waiting : p.call # c}
  BY DEF Released, Mine
<1>6. CASE \E n : FallenBack(q, left, n)
  <2>1. PICK n : FallenBack(q, left, n)
    BY <1>6
  <2>2. /\ n.call = c /\ n.way = "iot" /\ n.on = aim[c] /\ q.way = "quasar" /\ c \notin fell
        /\ flight' = left \cup {n} /\ waiting' = Released(q) \cup {n}
        /\ fell' = fell \cup {c} /\ UNCHANGED <<pc, out>>
    BY <2>1 DEF FallenBack
  <2>3. \A p \in Asked(c) : p.way = "quasar"
    BY <2>2 DEF Asked, Inv, Apart
  <2>4. Mine(c)' = {n} /\ Wished(c)' = heard[c] \cup aim[c]
    <3>1. Mine(c)' = {n}
      BY <1>5, <2>2 DEF Mine
    <3> QED  BY <1>3, <2>2, <3>1 DEF Wished
  <2>5. Goal(c, T) = T /\ Goal(c, T)' = aim[c] /\ aim[c] # {}
    BY <1>1, <1>3, <2>2 DEF Goal, Aimed, looking
  <2>6. heard[c] \subseteq aim[c]
    BY <1>2, <2>5 DEF Told, Twice
  <2>7. Told(c, T)'
    <3>1. \A p \in Asked(c)' : p = n \/ p \in Asked(c)
      BY <1>4, <1>5, <2>2 DEF Asked
    <3>2. \A p \in Asked(c)' : p.on # {} /\ p.on \subseteq (IF p.way = "quasar" THEN T ELSE Goal(c, T)')
      BY <1>2, <2>2, <2>3, <2>5, <3>1 DEF Told
    <3>3. /\ heard'[c] \subseteq Goal(c, T)'
          /\ \A t \in Things : hits'[c][t] > 0 => t \in T \/ t \in Goal(c, T)'
      BY <1>2, <1>3, <2>5, <2>6 DEF Told
    <3>4. /\ pc'[c] = "act" => /\ Wished(c)' = Goal(c, T)'
                               /\ ask[c].tool # "controlRoom" => heard'[c] = {}
          /\ out'[c] # "ok"
      BY <1>1, <1>2, <1>3, <2>2, <2>4, <2>5, <2>6
    <3> QED  BY <1>2, <1>3, <3>2, <3>3, <3>4, ToldIsKept DEF looking
  <2> HIDE DEF c
  <2>8. OnCourse(c)'
    BY <1>1, <1>3, <2>2, <2>7, CourseIsHeld
  <2>9. \A p : p.call # c => (p \in waiting' <=> p \in waiting) /\ (p \in flight' <=> p \in flight)
    BY <1>4, <1>5, <2>2 DEF c
  <2>10. \A d \in Calls \ {c} : d \in fell' <=> d \in fell
    BY <2>2
  <2> QED  BY <1>1, <1>3, <2>2, <2>8, <2>9, <2>10, OthersAreKept DEF looking
<1>7. CASE flight' = left /\ waiting' = Released(q) /\ fell' = fell /\ End(c, "error")
  <2>1. /\ pc'[c] = "done" /\ out'[c] = "error"
        /\ \A d \in Calls \ {c} : pc'[d] = pc[d] /\ out'[d] = out[d]
    BY <1>1, <1>7 DEF End, Inv, TypeOK
  <2>2. \A p \in Asked(c)' : p \in Asked(c)
    BY <1>4, <1>5, <1>7 DEF Asked
  <2>3. Goal(c, T)' = Goal(c, T)
    BY <1>3, <1>7 DEF Goal, looking
  <2> HIDE DEF c
  <2>4. Told(c, T)'
    <3>1. /\ \A p \in Asked(c)' : p.on # {} /\ p.on \subseteq (IF p.way = "quasar" THEN T ELSE Goal(c, T)')
          /\ heard'[c] \subseteq Goal(c, T)'
          /\ \A t \in Things : hits'[c][t] > 0 => t \in T \/ t \in Goal(c, T)'
      BY <1>2, <1>3, <2>2, <2>3 DEF Told
    <3> QED  BY <1>2, <1>3, <2>1, <3>1, ToldIsKept DEF looking
  <2>5. OnCourse(c)'
    BY <1>1, <1>3, <2>1, <2>4, CourseIsHeld
  <2>6. \A p : p.call # c => (p \in waiting' <=> p \in waiting) /\ (p \in flight' <=> p \in flight)
    BY <1>4, <1>5, <1>7 DEF c
  <2> QED  BY <1>1, <1>3, <1>7, <2>1, <2>5, <2>6, OthersAreKept DEF looking
<1> QED  BY <1>4, <1>6, <1>7, FailedDoes

------------------------------------------------------------------------------
(* The theorems.                                                           *)

LEMMA ApartOfTime == Inv /\ (Change \/ Tick) => Apart'
<1> SUFFICES ASSUME Inv, Change \/ Tick PROVE Apart'
  OBVIOUS
<1>1. UNCHANGED <<looking, pc, acting, out>>
  BY DEF Change, Tick
<1> QED  BY <1>1 DEF Apart, Inv, looking, acting

LEMMA InvNext == Inv /\ [Next]_vars => Inv'
<1> SUFFICES ASSUME Inv, [Next]_vars PROVE Inv'
  OBVIOUS
<1>1. ASSUME NEW c \in Calls,
             Start(c) \/ AskForList(c) \/ PutTogether(c) \/ RetryList(c) \/ ListLost(c)
      PROVE  Inv'
  <2>1. UNCHANGED <<flight, hits, ask, fell, unheard>>
    BY <1>1 DEF Start, AskForList, PutTogether, RetryList, ListLost, acting, looking
  <2> QED  BY <1>1, <2>1, TypeOfLooking, TimelyOfLooking, CourseOfLooking, ApartOfLooking,
              ExcusedIsKept DEF Inv
<1>2. ASSUME NEW c \in Calls, NEW uses \in SUBSET Use, Goes(c, uses) PROVE Inv'
  BY <1>2, TypeOfGoing, TimelyOfGoing, CourseOfGoing, ApartOfGoing, ExcusedOfGoing DEF Inv
<1>3. ASSUME NEW q \in flight, Serve(q) \/ Lost(q) PROVE Inv'
  <2>1. UNCHANGED <<clock, cache, looking, pc>>
    BY <1>3 DEF Serve, Lost
  <2>2. Timely'
    BY <2>1, TimelyIsKept
  <2> QED  BY <1>3, <2>2, TypeOfServing, CourseOfServing, ApartOfServing, ExcusedOfServing DEF Inv
<1>4. ASSUME NEW q \in waiting, Answered(q) PROVE Inv'
  <2>1. UNCHANGED <<flight, hits, ask, fell, unheard>>
    BY <1>4 DEF Answered, looking
  <2>2. Timely'
    <3>1. UNCHANGED <<clock, cache, looking>> /\ pc' \in {pc, [pc EXCEPT ![q.call] = "done"]}
      BY <1>4 DEF Answered, End
    <3>2. \A c \in Calls : pc'[c] \in {pc[c], "done"} /\ (pc'[c] # pc[c] => c = q.call)
      BY <3>1 DEF Inv, TypeOK
    <3>3. got[q.call] = None
      BY Waiter DEF Inv, Timely
    <3> QED  BY <3>1, <3>2, <3>3, TimelyIsKept
  <2> QED  BY <1>4, <2>1, <2>2, TypeOfAnswer, CourseOfAnswer, ApartOfAnswer, ExcusedIsKept DEF Inv
<1>5. ASSUME NEW q \in waiting, Refused(q) \/ GivenUp(q) PROVE Inv'
  <2>1. Timely'
    <3>1. UNCHANGED <<clock, cache, looking>> /\ pc' \in {pc, [pc EXCEPT ![q.call] = "done"]}
      BY <1>5 DEF Refused, GivenUp, Failed, End
    <3>2. \A c \in Calls : pc'[c] \in {pc[c], "done"} /\ (pc'[c] # pc[c] => c = q.call)
      BY <3>1 DEF Inv, TypeOK
    <3>3. got[q.call] = None
      BY Waiter DEF Inv, Timely
    <3> QED  BY <3>1, <3>2, <3>3, TimelyIsKept
  <2> QED  BY <1>5, <2>1, TypeOfFailure, CourseOfFailure, ApartOfFailure, ExcusedOfFailure DEF Inv
<1>6. ASSUME NEW q \in waiting, Resent(q) PROVE Inv'
  <2>1. UNCHANGED <<clock, cache, looking, pc>>
    BY <1>6 DEF Resent
  <2>2. Timely'
    BY <2>1, TimelyIsKept
  <2> QED  BY <1>6, <2>2, TypeOfResending, CourseOfResending, ApartOfResending, ExcusedOfResending
           DEF Inv
<1>7. CASE Change \/ Tick
  <2>1. UNCHANGED <<flight, hits, ask, fell, unheard>>
    BY <1>7 DEF Change, Tick, acting, looking
  <2> QED  BY <1>7, <2>1, TypeOfLooking, TimelyOfTime, CourseOfTime, ApartOfTime, ExcusedIsKept DEF Inv
<1>8. CASE UNCHANGED vars
  <2>1. TypeOK'
    BY <1>8 DEF Inv, TypeOK, vars, cache, world, looking, acting
  <2>2. Timely' /\ Excused'
    BY <1>8, TimelyIsKept, ExcusedIsKept DEF vars, looking, acting
  <2>3. Course'
    <3> SUFFICES ASSUME NEW c \in Calls PROVE OnCourse(c)'
      BY DEF Course
    <3> QED  BY <1>8, CourseIsKept DEF vars, looking, acting, Asked, Mine
  <2>4. Apart'
    BY <1>8 DEF Inv, Apart, vars, looking, acting
  <2> QED  BY <2>1, <2>2, <2>3, <2>4 DEF Inv
<1>9. ASSUME NEW c \in Calls, Step(c) PROVE Inv'
  <2>1. CASE FromCache(c) \/ ListCame(c)
    BY <1>2, <2>1, GoesFresh
  <2>2. CASE ListFailed(c)
    BY <1>1, <1>2, <2>2, ListFails
  <2> QED  BY <1>1, <1>9, <2>1, <2>2 DEF Step
<1> QED  BY <1>3, <1>4, <1>5, <1>6, <1>7, <1>8, <1>9 DEF Next

LEMMA AlwaysInv == Spec => []Inv
BY InvInit, InvNext, PTL DEF Spec

(* Every variable keeps its type, what is waited for is under way or done, *)
(* and no wish is carried out without bound.                               *)
THEOREM TypeCorrect == Spec => []TypeOK
<1>1. Inv => TypeOK
  BY DEF Inv
<1> QED  BY <1>1, AlwaysInv, PTL

(* ActsOnTheNamed, for every home, every query and any number of calls.    *)
THEOREM NamedAreMeant == Spec => []ActsOnTheNamed
<1>1. Inv => ActsOnTheNamed
  <2> SUFFICES ASSUME Inv, NEW c \in Calls, NEW t \in Things,
                      hits[c][t] > 0 \/ \E q \in flight : q.call = c /\ t \in q.on
               PROVE  \E see \in used[c] : see.age < CACHE_TTL /\ Meant(see.home, ask[c], t)
    BY DEF ActsOnTheNamed
  <2>1. ~Unasked(c)
    <3>1. hits[c][t] \in Nat
      BY TriesAre DEF Inv
    <3> QED  BY <3>1 DEF Unasked, Asked
  <2>2. Aimed(c)
    BY <2>1 DEF Inv, Course, OnCourse
  <2>3. PICK T \in SUBSET Things : Told(c, T)
    BY <2>2 DEF Aimed
  <2>4. t \in T \/ t \in aim[c]
    BY <2>3 DEF Told, Goal, Asked
  <2>5. T \in Goals(c) /\ aim[c] # {}
    BY <2>2, <2>3 DEF Told, Aimed
  <2>6. /\ aim[c] \in Goals(c)
        /\ \A G \in Goals(c) : \A u \in G :
             \E see \in used[c] : see.age < CACHE_TTL /\ Meant(see.home, ask[c], u)
    BY <2>5, Aimer
  <2> QED  BY ONLY <2>4, <2>5, <2>6
<1> QED  BY <1>1, AlwaysInv, PTL

(* RepeatedOnlyUnheard, whatever is refused, lost, late or sent again.     *)
THEOREM RepeatsAreExcused == Spec => []RepeatedOnlyUnheard
<1>1. Inv => RepeatedOnlyUnheard
  <2> SUFFICES ASSUME Inv, NEW c \in Calls, NEW t \in Things
               PROVE  /\ hits[c][t] <= 2
                      /\ hits[c][t] = 2 => /\ ask[c].tool \notin Speaking
                                           /\ ask[c].tool = "controlRoom" \/ t \in unheard[c]
    BY DEF RepeatedOnlyUnheard
  <2>1. /\ hits[c][t] \in Nat /\ Tries(c, t) \in Nat /\ hits[c][t] <= Tries(c, t)
        /\ Tries(c, t) <= 2 /\ (c \notin fell => Tries(c, t) <= 1)
        /\ Tries(c, t) = 2 => ask[c].tool = "controlRoom" \/ t \in unheard[c]
    BY TriesAre DEF Inv, Excused
  <2>2. c \in fell => ask[c].tool \notin Speaking
    BY DEF Inv, Apart
  <2> QED  BY <2>1, <2>2
<1> QED  BY <1>1, AlwaysInv, PTL

(* SuccessMeansOver, for any number of things and of calls beside it.      *)
THEOREM SuccessIsOver == Spec => []SuccessMeansOver
<1>1. Inv => SuccessMeansOver
  <2> SUFFICES ASSUME Inv, NEW c \in Calls, out[c] = "ok", ask[c].tool \notin Telling
               PROVE  /\ \E see \in used[c] : heard[c] = Targets(see, ask[c])
                      /\ heard[c] = aim[c] \/ Differ(used[c])
                      /\ \A q \in flight : q.call = c => c \in fell /\ q.way = "quasar"
    BY DEF SuccessMeansOver, Differ
  <2>1. OnCourse(c)
    BY DEF Inv, Course
  <2>2. pc[c] = "done"
    BY <2>1 DEF OnCourse
  <2>3. Aimed(c)
    BY <2>1, <2>2 DEF OnCourse, Unasked
  <2>4. PICK T \in SUBSET Things : Told(c, T)
    BY <2>3 DEF Aimed
  <2>5. aim[c] \in Goals(c)
    BY <2>1, <2>3 DEF OnCourse, Aimed, Aims
  <2>6. heard[c] = Goal(c, T) /\ T \in Goals(c) /\ (T = aim[c] \/ Differ(used[c]))
    BY <2>4 DEF Told
  <2>7. heard[c] \in Goals(c) /\ (heard[c] = aim[c] \/ Differ(used[c]))
    BY <2>5, <2>6 DEF Goal
  <2>8. \A q \in flight : q.call = c => c \in fell /\ q.way = "quasar"
    BY <2>2 DEF Inv, Apart, TypeOK
  <2> QED  BY <2>7, <2>8 DEF Goals, GoalsOf
<1> QED  BY <1>1, AlwaysInv, PTL
=============================================================================
