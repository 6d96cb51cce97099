\* Two overlapping invocations and a lease that expires under the first.
SPECIFICATION DispatchSpec
CONSTANTS
  Repo = {r1}
  Commit = {1}
  MaxJob = 1
  ClaimId = {c1, c2}
  WorkerId = {c1, c2}
  ClaimLimit = 1
  ConcurrencyLimit = 1
  LeaseFor = 1
  RetryDelay = 1
  MaxTime = 3
  Classification = {"consistent"}
  Outcome = {"NO_CHANGE"}
  Eligibility = {TRUE}
  Scopes = {"fresh"}
  HeadMayMoveBack = FALSE
  ClaimAttempts = 2
  Locks = {{}}
SYMMETRY DispatchSymmetry
INVARIANTS DispatchTypeOK LeasesHaveOneHolder NoLeaseUnclaimed OnlyHolderFails ReportedCompletionIsFinal
PROPERTY DispatchUsesQueue
\* Finitely many invocations: the instance stops when all of them ended.
CHECK_DEADLOCK FALSE
