---------------------- MODULE MCPullRequestCreation ----------------------
(* Small instances of PullRequestCreation for TLC.  Call c3 is about the  *)
(* same change as c1 and c2, by another proposal.                         *)
EXTENDS PullRequestCreation

CONSTANTS s1, s2, p1, p2, p3, k1, k2, c1, c2, c3, c4

MCProposalOf == [c \in Call |-> CASE c \in {c1, c2} -> p1 [] c = c3 -> p2 [] c = c4 -> p3]
MCChangeOf == [p \in Proposal |-> IF p = p3 THEN k2 ELSE k1]
MCBaseOf == [ch \in Change |-> s1]
==========================================================================
