------------------------ MODULE MCPagePublication ------------------------
(* Small instances of PagePublication for TLC.  Calls c1 and c2 are about *)
(* proposal p1, c3 about p2 of the same baseline, c4 about p3, which was  *)
(* made from the second version.                                          *)
EXTENDS PagePublication

CONSTANTS p1, p2, p3, c1, c2, c3, c4

MCProposalOf == [c \in Call |-> CASE c \in {c1, c2} -> p1 [] c = c3 -> p2 [] c = c4 -> p3]
MCBaselineOf == [p \in Proposal |-> IF p = p3 THEN 2 ELSE 1]
==========================================================================
