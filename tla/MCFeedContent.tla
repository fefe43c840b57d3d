--------------------------- MODULE MCFeedContent ---------------------------
(* A story with media and a note without.  One call and two rounds of the    *)
(* cleaner may delete the story at the same time, and two failures are the   *)
(* fewest with which one attempt fails halfway and the next one fails too.   *)
EXTENDS FeedContent, TLC
=============================================================================
