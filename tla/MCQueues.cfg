CONSTANTS
  t1 = t1
  t2 = t2
  Threads = {t1}
  Day = 2
  Four = 1
  Gap = 1
  Week = 4
  Waits = {2}
  First = 12
  MaxClock = 17
  MaxBack = 1
  MaxMoves = 2
  MaxGone = 1
SPECIFICATION FairSpec
PROPERTIES ComesBack
CHECK_DEADLOCK FALSE
