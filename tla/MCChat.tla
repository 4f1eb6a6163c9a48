--------------------------------- MODULE MCChat ---------------------------------
(* Rooms, messages and requests are told apart by nothing but their state: *)
(* what is checked of chat is safety, and TLC may take them as the same.   *)
EXTENDS Chat, TLC

Symmetry == Permutations(Rooms) \cup Permutations(Messages) \cup Permutations(Requests)
=============================================================================
