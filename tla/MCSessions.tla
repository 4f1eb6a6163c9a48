----------------------------- MODULE MCSessions -----------------------------
(***************************************************************************)
(* Two users, two sessions, a few tokens and two requests at a time.       *)
(***************************************************************************)
EXTENDS Sessions, TLC

Symmetry ==
    Permutations(Users) \cup Permutations(Families)
        \cup Permutations(Tokens) \cup Permutations(Requests)
=============================================================================
