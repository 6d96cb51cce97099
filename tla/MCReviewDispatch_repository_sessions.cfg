\* Two ranges of one repository in one batch.
SPECIFICATION DispatchSpec
CONSTANTS
  Repo = {r1}
  Commit = {1, 2}
  MaxJob = 2
  ClaimId = {c1, c2}
  WorkerId = {c1, c2}
  ClaimLimit = 2
  ConcurrencyLimit = 2
  LeaseFor = 1
  RetryDelay = 1
  MaxTime = 1
  Classification = {"consistent"}
  Outcome = {"NO_CHANGE"}
  Eligibility = {TRUE}
  Scopes = {"fresh"}
  HeadMayMoveBack = FALSE
  ClaimAttempts = 2
  Locks = {{}}
SYMMETRY DispatchSymmetry
INVARIANT OneSessionPerRepository
\* Finitely many invocations: the instance stops when all of them ended.
CHECK_DEADLOCK FALSE
