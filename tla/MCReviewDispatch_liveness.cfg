\* One invocation, two jobs, one concurrency slot.
SPECIFICATION FairDispatchSpec
CONSTANTS
  Repo = {r1, r2}
  Commit = {1}
  MaxJob = 2
  ClaimId = {c1}
  WorkerId = {c1}
  ClaimLimit = 2
  ConcurrencyLimit = 1
  LeaseFor = 1
  RetryDelay = 1
  MaxTime = 1
  Classification = {"consistent"}
  Outcome = {"NO_CHANGE"}
  Eligibility = {TRUE}
  Scopes = {"fresh"}
  HeadMayMoveBack = FALSE
  ClaimAttempts = 2
  Locks = {{}}
PROPERTY InvocationsEnd
\* Finitely many invocations: the instance stops when all of them ended.
CHECK_DEADLOCK FALSE
