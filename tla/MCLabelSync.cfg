CONSTANTS
  t1 = t1
  t2 = t2
  m1 = m1
  m2 = m2
  inbox = inbox
  unread = unread
  Labels = {inbox, unread}
  Threads <- MCOneThread
  Messages <- MCTwoMessages
  ThreadOf <- MCThreadOfTwo
  Old = {m1}
  Changes <- MCChanges
  FetchAttempts = 3
  MaxChanges = 2
  MaxRemote = 2
  MaxFaults = 1
  Faults = {"part", "poll", "expired", "call", "refused", "auth", "reread", "crash"}
SPECIFICATION FairSpec
INVARIANTS LocalWins SidesMatch
PROPERTIES Converges
