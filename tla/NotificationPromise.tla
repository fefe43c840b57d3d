------------------------ MODULE NotificationPromise ------------------------
(***************************************************************************)
(* What the notification dispatcher promises to those who use it, with     *)
(* neither channel nor workers in sight.  An event that is submitted is    *)
(* accepted or refused, once.  An accepted event is handed to observers by *)
(* one party, to each observer at most once, and is then done.  While the  *)
(* dispatcher is open it refuses an event only when Capacity accepted      *)
(* events already wait.  After it has stopped nothing moves, and it never  *)
(* stops in the middle of an event.                                        *)
(***************************************************************************)
EXTENDS Naturals, FiniteSets

CONSTANTS Events, Observers, Capacity

VARIABLES
    status,  \* how far each event has come
    got,     \* the observers each event has been handed to
    phase    \* "open", "closing", "stopped", or "crashed"

vars == <<status, got, phase>>

Waiting == {e \in Events : status[e] = "waiting"}
Alive   == phase \in {"open", "closing"}

Init ==
    /\ status = [e \in Events |-> "new"]
    /\ got = [e \in Events |-> {}]
    /\ phase = "open"

Move(e, from, to) ==
    /\ status[e] = from
    /\ status' = [status EXCEPT ![e] = to]

Accept(e) ==
    /\ Alive
    /\ Cardinality(Waiting) < Capacity
    /\ Move(e, "new", "waiting")
    /\ UNCHANGED <<got, phase>>

\* A refusal before shutdown means that the dispatcher is full.
Refuse(e) ==
    /\ phase = "open" => Cardinality(Waiting) = Capacity
    /\ Move(e, "new", "refused")
    /\ UNCHANGED <<got, phase>>

Start(e) ==
    /\ Alive
    /\ Move(e, "waiting", "notifying")
    /\ UNCHANGED <<got, phase>>

HandTo(e, o) ==
    /\ Alive
    /\ status[e] = "notifying"
    /\ o \notin got[e]
    /\ got' = [got EXCEPT ![e] = @ \cup {o}]
    /\ UNCHANGED <<status, phase>>

Finish(e) ==
    /\ Alive
    /\ Move(e, "notifying", "done")
    /\ UNCHANGED <<got, phase>>

Close ==
    /\ phase = "open"
    /\ phase' = "closing"
    /\ UNCHANGED <<status, got>>

Stop ==
    /\ phase = "closing"
    /\ \A e \in Events : status[e] # "notifying"
    /\ phase' = "stopped"
    /\ UNCHANGED <<status, got>>

\* A submission that comes after the closing brings the process down.
Crash ==
    /\ phase \in {"closing", "stopped"}
    /\ phase' = "crashed"
    /\ UNCHANGED <<status, got>>

Next ==
    \/ \E e \in Events :
          \/ Accept(e)
          \/ Refuse(e)
          \/ Start(e)
          \/ \E o \in Observers : HandTo(e, o)
          \/ Finish(e)
    \/ Close
    \/ Stop
    \/ Crash

Spec == Init /\ [][Next]_vars
=============================================================================
