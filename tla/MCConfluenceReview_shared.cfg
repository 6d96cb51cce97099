\* A page shared by two jobs, one of which calls several tools at once.
SPECIFICATION Spec
CONSTANTS
  p1 = p1  p2 = p2  j1 = j1  j2 = j2  x = x  y = y  f = f  c1 = c1  c2 = c2
  None = None
  Job = {j1, j2}
  Page = {p1}
  Position <- MCPosition
  Body = {x, y}
  InitialBody = x
  Fragment = {f}
  OccursOnce <- MCOccursOnce
  Call = {c1, c2}
  Parallel = {j2}
  ExactLimit = 1
  MaxVersion = 2
  MaxClaims = 2
  MaxProposals = 1
  MaxEvents = 2
SYMMETRY Symmetry
INVARIANTS TypeOK BaselinesAreStored ProposalsAreSupported
 
CHECK_DEADLOCK FALSE
