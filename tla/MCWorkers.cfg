CONSTANTS
  t1 = t1
  t2 = t2
  Threads <- MCThreads
  Ruled <- MCRuled
  Batch = 1
  MaxMsgs = 2
  MaxFilings = 1
  MaxCreates = 1
  MaxAway = 2
  Scored <- MCScored
  Senders <- MCSenders
  Mails <- MCMails
  Types = {"none", "calendar"}
  Spans = {4}
  MaxMails = 2
  MaxSpans = 1
  MaxActs = 1
  MaxStarts = 1
  Pieces = {p1, p2}
  NoPart = NoPart
  MaxNames = 4
  PerSweep = 1
  MaxFetches = 2
  MaxLosses = 1
  MaxDeaths = 1
  MaxRefusals = 1
  MaxRemovals = 1
  Requests = {r1}
  Groups = {b1}
  Size = 2
  Cost = 2
  Capacity = 3
  Rate = 2
  MaxAttempts = 2
  MaxBackoff = 1
  MaxClock = 4
  e1 = e1
  e2 = e2
  NoToken = NoToken
  m1 = m1
  other = other
  MaxDrafts = 1
  MaxGmail = 4
  MaxTexts = 2
  MaxRows = 4
  MaxSends = 1
  MaxLists = 1
  MaxRemote = 1
  MaxFaults = 1
  Faults = {"error", "refused", "crash"}
SPECIFICATION AllSpec
INVARIANTS Told RightBytes Paced
PROPERTIES FiledStays Sorted CatchesUp Reaped Collected SavedInTheEnd
CHECK_DEADLOCK FALSE
