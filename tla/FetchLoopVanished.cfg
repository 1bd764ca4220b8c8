\* A repository is removed after it was stored.
SPECIFICATION BudgetFairSpec
CONSTANTS
  NumRepos = 1
  MaxVersion = 1
  ChannelCap = 4
  PageSize = 1
  MaxChanges = 1
  MaxFailures = 0
  Removals = TRUE
PROPERTY
  VanishedForgotten
