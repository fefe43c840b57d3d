--------------------------- MODULE MCFeedReactions ---------------------------
(* Four calls on two contents: two calls replace one reaction while a third *)
(* one has been answered, and a fourth one takes it back.                  *)
EXTENDS FeedReactions, TLC

Symmetry == Permutations(Calls) \cup Permutations(Contents) \cup Permutations(Types)
=============================================================================
