CONSTANTS
  t1 = t1
  t2 = t2
  Threads = {t1, t2}
  Hits = {t1}
  None = None
  MaxChanges = 1
  MaxKeys = 2
  MaxLooks = 2
  MaxCalls = 3
  Queued = {t1}
  Day = 2
  Four = 1
  Gap = 1
  Week = 4
  Waits = {2}
  First = 12
  MaxClock = 17
  MaxBack = 1
  MaxMoves = 2
  MaxGone = 1
SPECIFICATION AllSpec
INVARIANTS Agrees
PROPERTIES NothingComesBack OpenIsAsked NothingDropped
CHECK_DEADLOCK FALSE
