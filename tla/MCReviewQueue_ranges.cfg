\* Ranges, attempts and cursors: a head that is pushed while reviews are under way,
\* in a repository whose Roadie scope goes stale and is refreshed.
SPECIFICATION Spec
CONSTANTS
  Repo = {r1}
  Commit = {1, 2}
  MaxJob = 3
  ClaimId = {c1, c2}
  WorkerId = {w1}
  ClaimLimit = 2
  LeaseFor = 1
  RetryDelay = 1
  MaxTime = 1
  Classification = {"consistent"}
  Outcome = {"NO_CHANGE", "INCOMPLETE"}
  Eligibility = {TRUE}
  Scopes = {"stale", "fresh"}
  HeadMayMoveBack = FALSE
SYMMETRY QueueSymmetry
INVARIANTS OneOpenAttempt CursorReviewed ReviewedRangeIsNotDue
PROPERTY CursorNeverMovesBack
