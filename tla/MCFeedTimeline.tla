--------------------------- MODULE MCFeedTimeline ---------------------------
(* Two users are a viewer and an author, in both roles at once when they are *)
(* friends.                                                                  *)
EXTENDS FeedTimeline

Symmetry == Permutations(Users)
=============================================================================
