\* A call that dies between the update and its record, and is delivered again.
SPECIFICATION FairSpec
CONSTANTS
  p1 = p1  p2 = p2  p3 = p3  c1 = c1  c2 = c2  c3 = c3  c4 = c4
  Call = {c1}
  Proposal = {p1}
  ProposalOf <- MCProposalOf
  BaselineOf <- MCBaselineOf
  Ambiguous = {}
  People = People
  Nobody = Nobody
  DraftVersion = {1}
  ScopeMayChange = FALSE
  MaxVersion = 2
  MaxFaults = 1
PROPERTY PublishedVersionsAreRecorded
