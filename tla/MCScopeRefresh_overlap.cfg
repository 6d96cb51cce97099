\* Two overlapping refreshes with room for every repository.
SPECIFICATION FairSpec
CONSTANTS
  a = a  b = b  c1 = c1  c2 = c2  page = page  other = other
  None = None
  Repo = {a, b}
  Name <- MCName
  InitialName <- MCInitialName
  GithubId <- MCGithubId
  Catalogs <- MCCatalogs
  Usual <- MCUsual
  Malformed <- MCMalformed
  Call = {c1, c2}
  Limit = 2
  Interval = 1
  MaxCallAge = 1
  MaxEvents = 1
INVARIANTS TypeOK ScopeIsForItsName AgeIsTruthful
PROPERTY ScopesConverge
