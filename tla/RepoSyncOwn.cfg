\* No digest is in two repositories.
SPECIFICATION BudgetFairSpec
CONSTANTS
  r1 = r1  r2 = r2
  i1 = i1  i2 = i2  i3 = i3
  l1 = l1  l2 = l2
  o1 = o1
  None = None
  Repos = {r1, r2}
  Tags = {t1, t2}
  Images = {i1, i2, i3}
  Lists = {l1, l2}
  Others = {o1}
  Contents <- OwnContents
  Available <- OwnAvailable
  MaxChanges = 2
  MaxFailures = 1
INVARIANTS
  TypeOK
  QuietMeansSynced
PROPERTY
  EventuallySynced
