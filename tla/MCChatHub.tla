------------------------------ MODULE MCChatHub ------------------------------
(* Three streams, the fewest with which a broadcast passes over one that     *)
(* stays while another leaves; the third registration makes the array grow   *)
(* to four slots, so appending in place after a removal is included.  Two    *)
(* conversations and messages without one; two broadcasts, which may cross   *)
(* each other; two clients that go, so that one listener is passed over      *)
(* twice.                                                                    *)
EXTENDS ChatHub, TLC

Symmetry == Permutations(Streams) \cup Permutations(Conversations)
=============================================================================
