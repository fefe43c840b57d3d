------------------------ MODULE NotificationSubject ------------------------
(***************************************************************************)
(* The asynchronous event dispatcher of internal/notif/service.go: a       *)
(* buffered Go channel between the callers of NotifyAsync and a pool of    *)
(* workers, each of which takes one event at a time and hands it to the    *)
(* observers subscribed at that moment.  Shutdown cancels the context,     *)
(* closes the channel and waits for the workers.                           *)
(*                                                                         *)
(* Go's select chooses at random among the ready cases and takes default   *)
(* only if none is ready.  Sending on a closed channel panics, and nothing *)
(* in the program recovers: the process is gone.  Receiving from a closed, *)
(* empty channel yields the zero event at once.                            *)
(***************************************************************************)
EXTENDS Naturals, Sequences

CONSTANTS
    Events,     \* the calls of NotifyAsync, one event each
    Observers,  \* the observers, known by Name()
    Workers,    \* the goroutines that run processEvents
    Capacity,   \* the size of the buffered channel
    ZeroEvent   \* the zero value of NotificationEvent

ASSUME SubjectAssumption ==
    /\ Capacity \in Nat \ {0}
    /\ Workers # {}
    /\ ZeroEvent \notin Events

VARIABLES
    eventChannel,  \* what the channel holds, oldest first
    cancelled,     \* ctx.Done() is closed
    closed,        \* eventChannel is closed
    observers,     \* the subscribed observers (ns.observers)
    pc,            \* where each worker stands in processEvents
    event,         \* the event each worker took last
    todo,          \* the rest of the worker's snapshot of the observers
    shutdown,      \* where Shutdown stands
    crashed,       \* a panic has ended the process
    \* The history of the calls, which no code reads:
    outcome,       \* what the call of NotifyAsync did with each event
    finished,      \* the events whose Notify has returned
    owed,          \* observers subscribed from the acceptance of an event on
    updates        \* how often each observer got each event

control == <<eventChannel, cancelled, closed, pc, event, todo, shutdown, crashed>>
history == <<outcome, finished, owed, updates>>
vars    == <<control, observers, history>>

TypeOK ==
    /\ eventChannel \in Seq(Events)
    /\ Len(eventChannel) <= Capacity
    /\ cancelled \in BOOLEAN
    /\ closed \in BOOLEAN
    /\ observers \in SUBSET Observers
    /\ pc \in [Workers -> {"select", "notify", "update", "exited"}]
    /\ event \in [Workers -> Events \cup {ZeroEvent}]
    /\ todo \in [Workers -> SUBSET Observers]
    /\ shutdown \in {"idle", "close", "wait", "returned"}
    /\ crashed \in BOOLEAN
    /\ outcome \in [Events -> {"uncalled", "accepted", "discarded", "dropped"}]
    /\ finished \in SUBSET Events
    /\ owed \in [Events -> SUBSET Observers]
    /\ updates \in [Events -> [Observers -> Nat]]

Init ==
    /\ eventChannel = <<>>
    /\ cancelled = FALSE
    /\ closed = FALSE
    /\ observers = {}
    /\ pc = [w \in Workers |-> "select"]
    /\ event = [w \in Workers |-> ZeroEvent]
    /\ todo = [w \in Workers |-> {}]
    /\ shutdown = "idle"
    /\ crashed = FALSE
    /\ outcome = [e \in Events |-> "uncalled"]
    /\ finished = {}
    /\ owed = [e \in Events |-> {}]
    /\ updates = [e \in Events |-> [o \in Observers |-> 0]]

-----------------------------------------------------------------------------
(* The observers' map, under the mutex. *)

Subscribe(o) ==
    /\ ~crashed
    /\ observers' = observers \cup {o}
    /\ UNCHANGED <<control, history>>

Unsubscribe(o) ==
    /\ ~crashed
    /\ observers' = observers \ {o}
    /\ owed' = [e \in Events |-> owed[e] \ {o}]
    /\ UNCHANGED <<control, outcome, finished, updates>>

-----------------------------------------------------------------------------
(* NotifyAsync: one select, hence one step. *)

Record(e, result) == outcome' = [outcome EXCEPT ![e] = result]

\* case ns.eventChannel <- event
Enqueue(e) ==
    /\ ~crashed
    /\ outcome[e] = "uncalled"
    /\ ~closed
    /\ Len(eventChannel) < Capacity
    /\ eventChannel' = Append(eventChannel, e)
    /\ Record(e, "accepted")
    /\ owed' = [owed EXCEPT ![e] = observers]
    /\ UNCHANGED <<cancelled, closed, observers, pc, event, todo, shutdown,
                   crashed, finished, updates>>

\* case <-ns.ctx.Done()
Discard(e) ==
    /\ ~crashed
    /\ outcome[e] = "uncalled"
    /\ cancelled
    /\ Record(e, "discarded")
    /\ UNCHANGED <<control, observers, finished, owed, updates>>

\* default: the channel is full
DropEager(e) ==
    /\ ~crashed
    /\ outcome[e] = "uncalled"
    /\ ~cancelled
    /\ ~closed
    /\ Record(e, "dropped")
    /\ UNCHANGED <<control, observers, finished, owed, updates>>

Drop(e) ==
    /\ ~crashed
    /\ outcome[e] = "uncalled"
    /\ ~cancelled
    /\ ~closed
    /\ Len(eventChannel) = Capacity
    /\ Record(e, "dropped")
    /\ UNCHANGED <<control, observers, finished, owed, updates>>

\* The send case, polled first, on a channel that is closed.
SendPanic(e) ==
    /\ ~crashed
    /\ outcome[e] = "uncalled"
    /\ closed
    /\ crashed' = TRUE
    /\ UNCHANGED <<eventChannel, cancelled, closed, observers, pc, event, todo,
                   shutdown, history>>

NotifyAsync(e) == Enqueue(e) \/ Discard(e) \/ Drop(e) \/ SendPanic(e)

-----------------------------------------------------------------------------
(* processEvents and Notify, run by worker w. *)

At(w, label) == ~crashed /\ pc[w] = label

Goto(w, label) == pc' = [pc EXCEPT ![w] = label]

Receive(w) ==
    /\ At(w, "select")
    /\ eventChannel # <<>>
    /\ event' = [event EXCEPT ![w] = Head(eventChannel)]
    /\ eventChannel' = Tail(eventChannel)
    /\ Goto(w, "notify")
    /\ UNCHANGED <<cancelled, closed, observers, todo, shutdown, crashed, history>>

\* The receive does not ask whether the channel is closed.
ReceiveZero(w) ==
    /\ At(w, "select")
    /\ eventChannel = <<>>
    /\ closed
    /\ event' = [event EXCEPT ![w] = ZeroEvent]
    /\ Goto(w, "notify")
    /\ UNCHANGED <<eventChannel, cancelled, closed, observers, todo, shutdown,
                   crashed, history>>

\* A Notify that waits for someone to notify.
SnapshotWaits(w) ==
    /\ At(w, "notify")
    /\ observers # {}
    /\ todo' = [todo EXCEPT ![w] = observers]
    /\ Goto(w, "update")
    /\ UNCHANGED <<eventChannel, cancelled, closed, observers, event, shutdown,
                   crashed, history>>

\* The copy of the observers that Notify takes under the read lock.
Snapshot(w) ==
    /\ At(w, "notify")
    /\ todo' = [todo EXCEPT ![w] = observers]
    /\ Goto(w, "update")
    /\ UNCHANGED <<eventChannel, cancelled, closed, observers, event, shutdown,
                   crashed, history>>

Count(e, o) ==
    updates' = IF e = ZeroEvent THEN updates
               ELSE [updates EXCEPT ![e][o] = @ + 1]

\* observer.Update(event), in the random order of a Go map.  An error of the
\* observer is logged and the loop goes on.
UpdateAgain(w, o) ==
    /\ At(w, "update")
    /\ o \in todo[w]
    /\ Count(event[w], o)
    /\ UNCHANGED <<control, observers, outcome, finished, owed>>

Update(w, o) ==
    /\ At(w, "update")
    /\ o \in todo[w]
    /\ todo' = [todo EXCEPT ![w] = @ \ {o}]
    /\ Count(event[w], o)
    /\ UNCHANGED <<eventChannel, cancelled, closed, observers, pc, event,
                   shutdown, crashed, outcome, finished, owed>>

\* Notify that gives up at the first error would return with observers to go.
ReturnEarly(w) ==
    /\ At(w, "update")
    /\ finished' = finished \cup ({event[w]} \ {ZeroEvent})
    /\ todo' = [todo EXCEPT ![w] = {}]
    /\ Goto(w, "select")
    /\ UNCHANGED <<eventChannel, cancelled, closed, observers, event, shutdown,
                   crashed, outcome, owed, updates>>

Return(w) ==
    /\ At(w, "update")
    /\ todo[w] = {}
    /\ finished' = finished \cup ({event[w]} \ {ZeroEvent})
    /\ Goto(w, "select")
    /\ UNCHANGED <<eventChannel, cancelled, closed, observers, event, todo,
                   shutdown, crashed, outcome, owed, updates>>

\* The worker that looks at the context between receiving and notifying.
ExitHolding(w) ==
    /\ ~crashed
    /\ pc[w] \in {"select", "notify"}
    /\ cancelled
    /\ Goto(w, "exited")
    /\ UNCHANGED <<eventChannel, cancelled, closed, observers, event, todo,
                   shutdown, crashed, history>>

\* The worker that never leaves while there is anything to receive.
ExitDrained(w) ==
    /\ At(w, "select")
    /\ cancelled
    /\ eventChannel = <<>>
    /\ ~closed
    /\ Goto(w, "exited")
    /\ UNCHANGED <<eventChannel, cancelled, closed, observers, event, todo,
                   shutdown, crashed, history>>

\* case <-ns.ctx.Done(), then the deferred wg.Done()
Exit(w) ==
    /\ At(w, "select")
    /\ cancelled
    /\ Goto(w, "exited")
    /\ UNCHANGED <<eventChannel, cancelled, closed, observers, event, todo,
                   shutdown, crashed, history>>

Work(w) ==
    \/ Receive(w)
    \/ ReceiveZero(w)
    \/ Snapshot(w)
    \/ \E o \in Observers : Update(w, o)
    \/ Return(w)
    \/ Exit(w)

-----------------------------------------------------------------------------
(* Shutdown, called once. *)

Cancel ==
    /\ ~crashed
    /\ shutdown = "idle"
    /\ cancelled' = TRUE
    /\ shutdown' = "close"
    /\ UNCHANGED <<eventChannel, closed, observers, pc, event, todo, crashed, history>>

Close ==
    /\ ~crashed
    /\ shutdown = "close"
    /\ closed' = TRUE
    /\ shutdown' = "wait"
    /\ UNCHANGED <<eventChannel, cancelled, observers, pc, event, todo, crashed, history>>

\* Shutdown without wg.Wait().
WaitNot ==
    /\ ~crashed
    /\ shutdown = "wait"
    /\ shutdown' = "returned"
    /\ UNCHANGED <<eventChannel, cancelled, closed, observers, pc, event, todo,
                   crashed, history>>

Wait ==
    /\ ~crashed
    /\ shutdown = "wait"
    /\ \A w \in Workers : pc[w] = "exited"
    /\ shutdown' = "returned"
    /\ UNCHANGED <<eventChannel, cancelled, closed, observers, pc, event, todo,
                   crashed, history>>

-----------------------------------------------------------------------------

Next ==
    \/ \E o \in Observers : Subscribe(o) \/ Unsubscribe(o)
    \/ \E e \in Events : NotifyAsync(e)
    \/ \E w \in Workers : Work(w)
    \/ Cancel
    \/ Close
    \/ Wait

Spec == Init /\ [][Next]_vars

(***************************************************************************)
(* A worker that can move does: goroutines are scheduled fairly, and an    *)
(* Update is taken to return.  A worker at its select again and again,     *)
(* with the context cancelled, takes the Done case at some point, because  *)
(* select draws among the ready cases with equal chances: strong fairness. *)
(* Shutdown, once called, goes on.  Nothing makes anyone call NotifyAsync, *)
(* Subscribe or Shutdown.                                                  *)
(***************************************************************************)
Fairness ==
    /\ \A w \in Workers : WF_vars(Work(w)) /\ SF_vars(Exit(w))
    /\ WF_vars(Close)
    /\ WF_vars(Wait)

FairSpec == Spec /\ Fairness

-----------------------------------------------------------------------------
(* Properties *)

InChannel(e)  == \E i \in 1..Len(eventChannel) : eventChannel[i] = e
Holds(w, e)   == pc[w] \in {"notify", "update"} /\ event[w] = e
Held(e)       == \E w \in Workers : Holds(w, e)

\* The accepted events are those in the channel, with a worker, or finished:
\* no select, no exit of a worker and no step of Shutdown makes one vanish,
\* and none turns up that NotifyAsync has not accepted.
NothingLost ==
    \A e \in Events :
        outcome[e] = "accepted" <=> InChannel(e) \/ Held(e) \/ e \in finished

\* An event is never in two of these places, nor twice in one.
OnePlace ==
    /\ \A i, j \in 1..Len(eventChannel) :
          eventChannel[i] = eventChannel[j] => i = j
    /\ \A e \in Events :
          /\ ~(InChannel(e) /\ Held(e))
          /\ e \in finished => ~InChannel(e) /\ ~Held(e)
          /\ \A v, w \in Workers : Holds(v, e) /\ Holds(w, e) => v = w

\* An accepted event is in exactly one place, whatever the interleaving of
\* the callers of NotifyAsync, the workers and Shutdown.
Conservation == NothingLost /\ OnePlace

\* No observer is handed an event a second time, by the same worker or by
\* another one, though it may come and go between the two.
AtMostOnce ==
    \A e \in Events, o \in Observers : updates[e][o] <= 1

\* Once Notify has returned, every observer that was subscribed from the
\* acceptance of the event on has been handed it: the copy taken under the
\* lock misses nobody, and an observer's error costs the others nothing.
FanoutComplete ==
    \A e \in finished, o \in Observers : o \in owed[e] => updates[e][o] = 1

\* After Shutdown has returned no observer is called any more: the workers
\* that Shutdown waited for have all left.
QuietAfterShutdown ==
    [][shutdown = "returned" => UNCHANGED <<updates, finished, eventChannel>>]_vars

\* What a user of the dispatcher can know of it: how far an event has come, who
\* has been handed it, and whether the dispatcher is open.
StatusOf(e) ==
    CASE outcome[e] = "uncalled" -> "new"
      [] outcome[e] \in {"discarded", "dropped"} -> "refused"
      [] outcome[e] = "accepted" ->
           IF e \in finished THEN "done"
           ELSE IF Held(e) THEN "notifying" ELSE "waiting"

HandedTo(e) == {o \in Observers : updates[e][o] > 0}

Phase ==
    IF crashed THEN "crashed"
    ELSE IF shutdown = "returned" THEN "stopped"
    ELSE IF shutdown = "idle" THEN "open" ELSE "closing"

Promise == INSTANCE NotificationPromise WITH
    status <- [e \in Events |-> StatusOf(e)],
    got <- [e \in Events |-> HandedTo(e)],
    phase <- Phase

\* The dispatcher is the one NotificationPromise describes.
KeepsPromise == Promise!Spec

\* An event that NotifyAsync accepts reaches the end of Notify, unless
\* Shutdown begins first.
AcceptedIsHandled ==
    \A e \in Events :
        outcome[e] = "accepted" ~> e \in finished \/ cancelled

\* Shutdown returns, though the closed channel keeps the receive case of
\* every worker ready for ever, unless a late NotifyAsync brings the process
\* down.
ShutdownReturns ==
    cancelled ~> shutdown = "returned" \/ crashed
=============================================================================
