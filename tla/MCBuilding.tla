------------------------------ MODULE MCBuilding ------------------------------
(* A small building for TLC: one owner, one tenant, one post.              *)
EXTENDS Board, TLC

Symmetry == Permutations(Requests)
=============================================================================
