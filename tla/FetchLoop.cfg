\* Two repositories that come, go and change while pages of one are read.
\* The channel has room for every request that can be outstanding.
SPECIFICATION BudgetFairSpec
CONSTANTS
  NumRepos = 2
  MaxVersion = 2
  ChannelCap = 4
  PageSize = 1
  MaxChanges = 1
  MaxFailures = 1
  Removals = TRUE
INVARIANTS
  TypeOK
  PagingMissesNothing
  NoRequestLost
PROPERTIES
  ScanEnds
  EventuallyStored
