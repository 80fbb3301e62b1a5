SPECIFICATION Spec
CONSTANTS
  None = None
  c1 = c1  c2 = c2
  Calls = {c1, c2}
  speaker = speaker  tv = tv  l1 = l1  l2 = l2  scene = scene
  lamp = lamp  deskLamp = deskLamp  box = box  hall = hall  hallway = hallway
  Things = {speaker, tv, l1, l2, scene}
  Speakers = {speaker, tv}
  Stations = {speaker}
  Scenarios = {scene}
  Rooms = {hall, hallway}
  Names = {lamp, deskLamp, box}
  Able <- Can
  TypeOf <- Sorts
  Within <- Parts
  Homes <- Layouts
  Plans <- Mixes
  CACHE_TTL = 2
  BUDGET = 1
  MaxClock = 2
  MaxChanges = 1
INVARIANTS TypeOK ActsOnTheNamed RepeatedOnlyUnheard SuccessMeansOver
CHECK_DEADLOCK FALSE
