----------------------- MODULE MCNotificationService -----------------------
(* Two rows, one immediate send and a channel of one slot: a send and a row  *)
(* compete for the slot, and a round of the scheduler holds two rows while   *)
(* users, failures and the shutdown interfere.                               *)
EXTENDS NotificationService, TLC

Symmetry == Permutations(Notifications)
=============================================================================
