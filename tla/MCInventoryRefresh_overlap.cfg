\* Two overlapping refreshes, one repository on a page, two changes
\* on GitHub, or a change and a failure.
SPECIFICATION FairSpec
CONSTANTS
  a = a  b = b  c = c  m = m  n = n  o = o  r1 = r1  r2 = r2
  Repo = {a, b, c}
  Name = {m, n, o}
  Unborn = Unborn
  Deleted = Deleted
  Position <- MCPosition
  InitialName <- MCInitialName
  Public = {a}
  Change <- MCChange
  Call = {r1, r2}
  PageSize = 1
  MaxHead = 2
  MaxEvents = 2
  MaxTime = 2
INVARIANTS TypeOK MirrorsTheNewestRefresh
PROPERTY EventuallyMirrored
