\* Two competing proposals of one version, two faults (dead calls, expired locks), drafts and edits;
\* the page may leave the scope.
SPECIFICATION FairSpec
CONSTANTS
  p1 = p1  p2 = p2  p3 = p3  c1 = c1  c2 = c2  c3 = c3  c4 = c4
  Call = {c1, c3}
  Proposal = {p1, p2}
  ProposalOf <- MCProposalOf
  BaselineOf <- MCBaselineOf
  Ambiguous = {}
  People = People
  Nobody = Nobody
  DraftVersion = {1}
  ScopeMayChange = TRUE
  MaxVersion = 3
  MaxFaults = 2
INVARIANTS ProposalsFollowTheirBaseline UnrecordedOnlyAfterFailure
PROPERTIES PublicationFulfilsContract LiveCallsDoNotOvertake CallsEnd
