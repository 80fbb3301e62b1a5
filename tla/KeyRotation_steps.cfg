SPECIFICATION FairSpec
CONSTANTS
  p1 = p1  p2 = p2  w1 = w1  w2 = w2
  Old = Old  New = New  Lost = Lost  None = None
  Rows = {1, 2}
  Columns = {1}
  Pods = {p1, p2}
  Writers = {w1}
  Pod <- OnFirst
  PageSize = 1
  Named = TRUE
  MaxSpare = 1
INVARIANTS TypeOK TextKept Readable NothingStaleLeft
PROPERTIES EveryPassEnds
CHECK_DEADLOCK FALSE
