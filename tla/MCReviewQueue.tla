-------------------------- MODULE MCReviewQueue --------------------------
(* Small instances of ReviewQueue for TLC. *)
EXTENDS ReviewQueue, TLC

QueueSymmetry == Permutations(Repo) \cup Permutations(ClaimId)
==========================================================================
