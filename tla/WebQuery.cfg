\* Every kind of request, with a commit before or between the statements.
SPECIFICATION WebSpec
CONSTANTS
  i1 = i1  i2 = i2
  l1 = l1  l2 = l2
  Images = {i1, i2}
  Lists = {l1, l2}
  Repos <- MCRepos
  Tags <- MCTags
  Contents <- MCContents
  RepoOrder <- MCRepoOrder
  Attributes <- MCAttributes
  Databases <- MCDatabases
  Conditions <- MCConditions
  Headers <- MCHeaders
  Forms <- MCForms
  Queries <- MCQueries
  Assertions <- MCAssertions
  CurrentETag <- MCETag
  MaxVersions = 2
INVARIANTS
  TypeOK
  StableShown
  ShownWasThere
  OneEntryPerRepository
  FetcherSeesTables
  AssertionsTruthful
PROPERTIES
  RefinesDoQuery
  ConditionalExact
