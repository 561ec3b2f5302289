CONSTANTS
  t1 = t1
  Threads = {t1}
  Panel = Panel
  None = None
  Slips = {"refused"}
  MaxSlips = 1
  MaxLetters = 2
  MaxVersions = 2
  MaxCalls = 2
  MaxWaiting = 2
  MaxSends = 2
  MaxRows = 2
  MaxGmail = 1
SPECIFICATION Spec
INVARIANTS TextKept LetterIsOne
PROPERTIES RowsStayTheirs
CHECK_DEADLOCK FALSE
