CONSTANTS
  Hosts = {"notes", "web", "shell"}
  Web = {"web"}
  Shells = {"shell"}
  MaxTexts = 1
  MaxFlows = 2
  MaxMoves = 2
SPECIFICATION AllSpec
INVARIANTS ClipboardIsTheUsers EscapeWorks MailIsRight
PROPERTIES PastesOver
CHECK_DEADLOCK FALSE
