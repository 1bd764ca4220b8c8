\* More repositories than the channel has room for.
SPECIFICATION BudgetFairSpec
CONSTANTS
  NumRepos = 3
  MaxVersion = 1
  ChannelCap = 2
  PageSize = 3
  MaxChanges = 0
  MaxFailures = 0
  Removals = FALSE
PROPERTY
  ScanEnds
CHECK_DEADLOCK FALSE
