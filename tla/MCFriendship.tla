---------------------------- MODULE MCFriendship ----------------------------
(* Two users are a pair, and pairs do not influence each other; three calls  *)
(* are enough for a request and two acceptances, or two requests and an      *)
(* acceptance, to be under way at once.                                      *)
EXTENDS Friendship, TLC

Symmetry == Permutations(Users) \cup Permutations(Calls)
=============================================================================
