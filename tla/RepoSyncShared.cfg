\* Both repositories store the same lists and images, in different orders.
SPECIFICATION FetchFairSpec
CONSTANTS
  r1 = r1  r2 = r2
  i1 = i1  i2 = i2  i3 = i3
  l1 = l1  l2 = l2
  o1 = o1
  None = None
  Repos = {r1, r2}
  Tags = {t1}
  Images = {i1, i2}
  Lists = {l1, l2}
  Others = {}
  Contents <- SharedContents
  Available <- SharedAvailable
  MaxChanges = 3
  MaxFailures = 0
INVARIANTS
  ForeignKeys
  ListsComplete
  OpenTransactionsSound
  NothingStale
PROPERTIES
  FetchesEnd
  CollectionIsInvisible
