\* One image that is tagged in both repositories.
SPECIFICATION BudgetSpec
CONSTANTS
  r1 = r1  r2 = r2
  i1 = i1  i2 = i2  i3 = i3
  l1 = l1  l2 = l2
  o1 = o1
  None = None
  Repos = {r1, r2}
  Tags = {t1, t2}
  Images = {i1}
  Lists = {}
  Others = {}
  Contents <- NoContents
  Available <- LeakAvailable
  MaxChanges = 3
  MaxFailures = 0
INVARIANT
  QuietMeansSynced
