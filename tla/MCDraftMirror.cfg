CONSTANTS
  MaxDrafts = 2
  MaxGmail = 2
  MaxTexts = 3
  MaxRows = 3
  MaxSends = 1
  MaxLists = 1
  MaxRemote = 1
  MaxFaults = 1
  Faults = {"error", "refused", "auth", "crash", "attachment"}
SPECIFICATION Spec
CONSTRAINT ErrorsWithOneDraft
INVARIANTS  StateIsTrue
PROPERTIES ImportBringsNews
CHECK_DEADLOCK FALSE
