CONSTANTS
  f1 = f1
  e1 = e1
  m1 = m1
  c1 = c1
  c2 = c2
  Fixes = {f1}
  Edits = {e1}
  Mails = {m1}
  Models = 2
  Concurrency = 1
  MaxDeaths = 1
  Classifies = {c1}
  MaxStops = 1
  MaxStarts = 3
  Size = 3
  Declared = TRUE
  MaxVersion = 2
  MaxFails = 1
SPECIFICATION AllSpec
INVARIANTS Gate ChildrenHold KeptHolds Arranged
PROPERTIES Served Answered
CHECK_DEADLOCK FALSE
