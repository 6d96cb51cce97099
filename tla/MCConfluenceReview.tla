------------------------- MODULE MCConfluenceReview -------------------------
(* Small instances of ConfluenceReview for TLC.  Only body x has a         *)
(* fragment that can be replaced.                                          *)
EXTENDS ConfluenceReview, TLC

CONSTANTS p1, p2, j1, j2, x, y, f, c1, c2

MCPosition == [p \in Page |-> IF p = p1 THEN 1 ELSE 2]
MCOccursOnce == [b \in Body |-> IF b = x THEN {f} ELSE {}]
Symmetry == Permutations(Call)
=============================================================================
