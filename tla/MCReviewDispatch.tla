-------------------------- MODULE MCReviewDispatch --------------------------
(* Small instances of ReviewDispatch for TLC. *)
EXTENDS ReviewDispatch, TLC

DispatchSymmetry == Permutations(Repo) \cup Permutations(Dispatcher)
=============================================================================
