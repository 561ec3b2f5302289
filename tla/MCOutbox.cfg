CONSTANTS
  a1 = a1
  d1 = d1
  Accounts = {a1}
  NoAccount = NoAccount
  Drafts = {d1}
  NoDraft = NoDraft
  HomeOf <- MCHomeOf
  MaxRows = 4
  MaxBatch = 2
  MaxCrashes = 1
  s1 = s1
  s2 = s2
  Sends = {s1, s2}
  NoSend = NoSend
  Armed = {s1}
  MaxTries = 2
  MaxDeaths = 2
SPECIFICATION AllSpec
INVARIANTS DuplicateOnlyAfterLostAnswer TextInOnePlace
PROPERTIES ImplementsOrderedDelivery SettledInTheEnd LeavesTheQueue
