CONSTANTS
  Pages = 2
  MaxTokens = 3
  MaxChanges = 2
  MaxFaults = 2
SPECIFICATION FairSpec
PROPERTIES Delivered
