\* Leases and the evidence gate: expiry, retries, late reports, repeated claims, late evidence,
\* and a registry that pauses and resumes reviews.  All of it as the contract of the queue says.
SPECIFICATION Spec
CONSTANTS
  Repo = {r1}
  Commit = {1, 2}
  MaxJob = 2
  ClaimId = {c1, c2}
  WorkerId = {w1}
  ClaimLimit = 1
  LeaseFor = 1
  RetryDelay = 1
  MaxTime = 3
  Classification = {"consistent", "contradictory"}
  Outcome = {"NO_CHANGE", "PROPOSAL_CREATED"}
  Eligibility = {TRUE, FALSE}
  Scopes = {"fresh"}
  HeadMayMoveBack = FALSE
SYMMETRY QueueSymmetry
INVARIANTS RowsAccepted LeaseLedger OutcomeJustified
PROPERTIES ReplayNeverLeases FinishedJobsAreFrozen QueueFulfilsContract
