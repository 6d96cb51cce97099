\* One call repeated after failures and one that changes nothing, while reviewers push to, close, merge and delete what was made.
SPECIFICATION Spec
CONSTANTS
  s1 = s1  s2 = s2  p1 = p1  p2 = p2  p3 = p3  k1 = k1  k2 = k2
  c1 = c1  c2 = c2  c3 = c3  c4 = c4
  Call = {c1, c4}
  Proposal = {p1, p3}
  Change = {k1, k2}
  Sha = {s1, s2}
  Missing = Missing
  ProposalOf <- MCProposalOf
  ChangeOf <- MCChangeOf
  BaseOf <- MCBaseOf
  NoOp = {k2}
  ReviewerMay = {"push", "close", "merge", "delete"}
  EligibilityMayChange = TRUE
  MaxCommits = 3
  MaxFailures = 2
INVARIANTS TypeOK RecordedArtifactIsTheChange
PROPERTIES CreationFulfilsContract ConflictsAreForeign
