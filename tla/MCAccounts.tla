----------------------------- MODULE MCAccounts -----------------------------
(* Three calls on two handles and two keys: two registrations that both find *)
(* the handle free, or an account with two updates that overlap.           *)
EXTENDS Accounts, TLC

Symmetry == Permutations(Calls) \cup Permutations(Passwords)
=============================================================================
