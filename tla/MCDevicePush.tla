---------------------------- MODULE MCDevicePush ----------------------------
(* Two tokens make a push with one token marked and one to go; two users and *)
(* two pushes make a token change hands under both.                          *)
EXTENDS DevicePush, TLC

Symmetry == Permutations(Users) \cup Permutations(Tokens) \cup Permutations(Pushes)
=============================================================================
