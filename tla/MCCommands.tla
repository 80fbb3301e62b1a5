----------------------------- MODULE MCCommands -----------------------------
(* An instance of Commands for TLC: a speaker, a TV with Alice that can be  *)
(* switched, a lamp, a vacuum cleaner and a scenario.                       *)
EXTENDS Commands, TLC

CONSTANTS c1, c2, speaker, tv, l1, l2, scene, lamp, deskLamp, box, hall, hallway

Parts == (lamp :> {lamp, deskLamp}) @@ (deskLamp :> {deskLamp}) @@
         (box :> {box}) @@ (hall :> {hall, hallway}) @@ (hallway :> {hallway}) @@
         [t \in {speaker, tv, l1, l2, scene} |-> {}]

Can == (speaker :> {}) @@ (tv :> {"on_off"}) @@ (l1 :> {"on_off", "brightness"}) @@ (l2 :> {"on_off"})
Sorts == (speaker :> "smart_speaker") @@ (tv :> "media_device.tv") @@
         (l1 :> "light") @@ (l2 :> "vacuum_cleaner")

At(name, room) == [name |-> name, room |-> room]

(* In the second home "lamp" names both l1 and l2, and "hall" both rooms.   *)
Layouts ==
  {(speaker :> At(deskLamp, hallway)) @@ (tv :> At(box, hallway)) @@ (l1 :> At(lamp, hall)) @@ (l2 :> l) @@
   (scene :> At(lamp, hall)) : l \in {At(deskLamp, hall), At(lamp, hallway)}}

Full == {"iot:control", "quasar"}
Ask(tool, query, room, scope) ==
  [tool |-> tool, query |-> query, room |-> room, want |-> {}, type |-> "all", scope |-> scope]
Do(tool, query, room, want, scope) == [Ask(tool, query, room, scope) EXCEPT !.want = want]
Switch(query, type) == [Ask("controlRoom", query, None, Full) EXCEPT !.type = type]
Both(a, b) == (c1 :> a) @@ (c2 :> b)

AList == Ask("listDevices", None, None, {"iot:view"})

Mixes ==
  {Both(Do("controlDevice", deskLamp, hall, {"on_off"}, Full), AList),
   Both(Do("controlDevice", tv, None, {"on_off", "mode"}, Full), None),
   Both(Ask("triggerScenario", lamp, None, Full), AList),
   Both(Do("setLight", lamp, None, {"on_off"}, {"iot:view"}), Ask("sayPhrase", hall, None, Full)),
   Both(Ask("getDeviceState", l2, hall, {"iot:control"}), None),
   Both(Ask("getDeviceHistory", lamp, hall, Full), None),
   Both(Ask("setVolume", None, None, Full), None),
   Both(Ask("mediaControl", speaker, None, {"iot:control"}), None),
   Both(Do("setLight", lamp, None, {"brightness"}, Full), Ask("getHomeSummary", hall, None, {"iot:view"})),
   Both(Ask("sendCommand", deskLamp, None, Full), None),
   Both(Switch(hall, "climate"), None),
   Both(Switch(hall, "light"), None),
   Both(Switch(hall, "all"), None)}
==============================================================================
