----------------------- MODULE MCNotificationSubject -----------------------
(* Small instances of the dispatcher.  Three calls against a channel of one  *)
(* slot and two workers are the fewest with which an event is dropped while *)
(* two others are on their way.                                             *)
EXTENDS NotificationSubject, TLC

Symmetry == Permutations(Events) \cup Permutations(Workers) \cup Permutations(Observers)
=============================================================================
