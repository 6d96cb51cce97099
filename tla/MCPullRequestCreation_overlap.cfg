\* Two calls of one proposal and one of another with the same change, all at once, with failures and redelivery.
SPECIFICATION FairSpec
CONSTANTS
  s1 = s1  s2 = s2  p1 = p1  p2 = p2  p3 = p3  k1 = k1  k2 = k2
  c1 = c1  c2 = c2  c3 = c3  c4 = c4
  Call = {c1, c2, c3}
  Proposal = {p1, p2}
  Change = {k1}
  Sha = {s1, s2}
  Missing = Missing
  ProposalOf <- MCProposalOf
  ChangeOf <- MCChangeOf
  BaseOf <- MCBaseOf
  NoOp = {}
  ReviewerMay = {}
  EligibilityMayChange = FALSE
  MaxCommits = 2
  MaxFailures = 1
INVARIANT OneCommitPerBranch
PROPERTIES OwnRecordNeverConflicts ApprovedChangesAreRecorded
