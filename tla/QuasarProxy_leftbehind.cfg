SPECIFICATION Spec
CONSTANTS
  r1 = r1  r2 = r2  r3 = r3  c1 = c1  c2 = c2
  p1 = p1  p2 = p2  d1 = d1  o1 = o1  f1 = f1
  None = None
  Senders = {r1}
  Cleaners = {c1}
  Pods = {p1}
  Devices = {d1}
  Old = {}
  Foreign = {}
  Device <- OneSpeaker
  Pod <- OnePod
  Erases = {}
  Faults = FALSE
  Late = FALSE
INVARIANTS NothingLeftBehind
CHECK_DEADLOCK FALSE
