------------------------ MODULE NotificationService ------------------------
(***************************************************************************)
(* The notification service of internal/notif: gRPC handlers that send at  *)
(* once or store a row for later, the user who marks rows as read, and the *)
(* goroutine processScheduledNotifications, which takes the due rows from  *)
(* MySQL, gives each to the dispatcher and then writes "sent" to its row.  *)
(* The process may be stopped, killed and started again; only the rows     *)
(* survive it.                                                             *)
(*                                                                         *)
(* The dispatcher is the one of NotificationPromise, which                 *)
(* NotificationSubject implements.                                         *)
(***************************************************************************)
EXTENDS Naturals, FiniteSets

CONSTANTS
    Notifications,  \* the rows that may be scheduled
    Sends,          \* the calls of SendNotification
    Observers,
    Capacity,
    MaxTime,        \* bound of the clock
    MaxFaults,      \* bound of failed updates, kills and shutdowns together
    None            \* no row

ASSUME ServiceAssumption ==
    /\ Capacity \in Nat \ {0}
    /\ MaxTime \in Nat
    /\ MaxFaults \in Nat
    /\ None \notin Notifications

\* The scheduler gives a row to the dispatcher anew each time: every try is an
\* event of its own.
Tries  == Notifications \X (1..MaxFaults + 1)
Events == Tries \cup Sends

VARIABLES
    status, got, phase,  \* the dispatcher; phase "down": no process
    now,                 \* the minutes that have passed
    row,                 \* the status column of each row
    scheduledAt,         \* the scheduled_at column
    batch,               \* the rows the scheduler read and has not come to
    current,             \* the row it has given to the dispatcher last
    tries,               \* how often each row was given to the dispatcher
    faults               \* failed updates, kills and shutdowns so far

dispatcher == <<status, got, phase>>
table      == <<row, scheduledAt>>
scheduler  == <<batch, current, tries>>
vars       == <<dispatcher, now, table, scheduler, faults>>

Dispatcher == INSTANCE NotificationPromise

TypeOK ==
    /\ status \in [Events -> {"new", "waiting", "notifying", "done", "refused", "lost"}]
    /\ got \in [Events -> SUBSET Observers]
    /\ phase \in {"open", "closing", "stopped", "crashed", "down"}
    /\ now \in 0..MaxTime
    /\ row \in [Notifications -> {"absent", "scheduled", "sent", "read"}]
    /\ scheduledAt \in [Notifications -> 0..MaxTime]
    /\ batch \in SUBSET Notifications
    /\ current \in Notifications \cup {None}
    /\ tries \in [Notifications -> 0..MaxFaults + 1]
    /\ faults \in 0..MaxFaults

Init ==
    /\ Dispatcher!Init
    /\ now = 0
    /\ row = [n \in Notifications |-> "absent"]
    /\ scheduledAt = [n \in Notifications |-> 0]
    /\ batch = {}
    /\ current = None
    /\ tries = [n \in Notifications |-> 0]
    /\ faults = 0

-----------------------------------------------------------------------------
(* The handlers.  The server has stopped gracefully, its handlers done, by   *)
(* the time Shutdown begins.                                                 *)

Serving == phase = "open"

NotifyAsync(e) == Dispatcher!Accept(e) \/ Dispatcher!Refuse(e)

SendNotification(s) ==
    /\ Serving
    /\ NotifyAsync(s)
    /\ UNCHANGED <<now, table, scheduler, faults>>

ScheduleNotification(n, time) ==
    /\ Serving
    /\ row[n] = "absent"
    /\ time >= now
    /\ row' = [row EXCEPT ![n] = "scheduled"]
    /\ scheduledAt' = [scheduledAt EXCEPT ![n] = time]
    /\ UNCHANGED <<dispatcher, now, scheduler, faults>>

\* Whatever the status was, also before the row is due.
MarkAsRead(n) ==
    /\ Serving
    /\ row[n] # "absent"
    /\ row' = [row EXCEPT ![n] = "read"]
    /\ UNCHANGED <<dispatcher, now, scheduledAt, scheduler, faults>>

-----------------------------------------------------------------------------
(* processScheduledNotifications.  Nothing ever stops this goroutine but the *)
(* end of the process, so it may still run while the dispatcher shuts down.  *)

Running == phase \in {"open", "closing", "stopped"}

\* A query that fails leaves everything as it is until the next tick.
ScheduledNotificationsEarly ==
    /\ Running
    /\ batch = {} /\ current = None
    /\ batch' = {n \in Notifications : row[n] = "scheduled"}
    /\ UNCHANGED <<dispatcher, now, table, current, tries, faults>>

ScheduledNotifications ==
    /\ Running
    /\ batch = {} /\ current = None
    /\ batch' = {n \in Notifications : row[n] = "scheduled" /\ scheduledAt[n] <= now}
    /\ UNCHANGED <<dispatcher, now, table, current, tries, faults>>

Earliest(n) == n \in batch /\ \A m \in batch : scheduledAt[n] <= scheduledAt[m]

\* A round that claims the row before it is sent, with a status that no query
\* looks for.
QueueDueClaims(n) ==
    /\ Running
    /\ current = None
    /\ Earliest(n)
    /\ NotifyAsync(<<n, tries[n] + 1>>) \/ Dispatcher!Crash
    /\ row' = [row EXCEPT ![n] = "sending"]
    /\ batch' = batch \ {n}
    /\ current' = n
    /\ tries' = [tries EXCEPT ![n] = @ + 1]
    /\ UNCHANGED <<now, scheduledAt, faults>>

\* The call of NotifyAsync for the next row, oldest first.  After the channel
\* is closed it may panic.
QueueDue(n) ==
    /\ Running
    /\ current = None
    /\ Earliest(n)
    /\ NotifyAsync(<<n, tries[n] + 1>>) \/ Dispatcher!Crash
    /\ batch' = batch \ {n}
    /\ current' = n
    /\ tries' = [tries EXCEPT ![n] = @ + 1]
    /\ UNCHANGED <<now, table, faults>>

\* A round that leaves its rows as they were.
UpdateStatusSkipped ==
    /\ Running
    /\ current # None
    /\ current' = None
    /\ UNCHANGED <<dispatcher, now, table, batch, tries, faults>>

\* One update for all the rows that are due, those to come included.
UpdateStatusOfAll ==
    /\ Running
    /\ current # None
    /\ row' = [n \in Notifications |->
                 IF n \in batch \cup {current} THEN "sent" ELSE row[n]]
    /\ current' = None
    /\ UNCHANGED <<dispatcher, now, scheduledAt, batch, tries, faults>>

\* The row becomes "sent", whatever has happened to it since the query.
UpdateStatus ==
    /\ Running
    /\ current # None
    /\ row' = [row EXCEPT ![current] = "sent"]
    /\ current' = None
    /\ UNCHANGED <<dispatcher, now, scheduledAt, batch, tries, faults>>

\* The update reports an error, which is logged; it may have been carried out.
UpdateStatusFails ==
    /\ Running
    /\ current # None
    /\ faults < MaxFaults
    /\ row' \in {row, [row EXCEPT ![current] = "sent"]}
    /\ current' = None
    /\ faults' = faults + 1
    /\ UNCHANGED <<dispatcher, now, scheduledAt, batch, tries>>

-----------------------------------------------------------------------------
(* The dispatcher's own steps, the clock, and the process. *)

Dispatch ==
    /\ \E e \in Events :
          \/ Dispatcher!Start(e)
          \/ \E o \in Observers : Dispatcher!HandTo(e, o)
          \/ Dispatcher!Finish(e)
    /\ UNCHANGED <<now, table, scheduler, faults>>

Tick ==
    /\ now < MaxTime
    /\ now' = now + 1
    /\ UNCHANGED <<dispatcher, table, scheduler, faults>>

Shutdown ==
    /\ \/ Dispatcher!Close /\ faults < MaxFaults /\ faults' = faults + 1
       \/ Dispatcher!Stop /\ UNCHANGED faults
    /\ UNCHANGED <<now, table, scheduler>>

\* What the process held in memory is gone; the rows are not.
Down ==
    /\ phase' = "down"
    /\ status' = [e \in Events |->
                    IF status[e] \in {"waiting", "notifying"} THEN "lost" ELSE status[e]]
    /\ batch' = {}
    /\ current' = None
    /\ UNCHANGED <<got, now, table, tries>>

\* main returns after Shutdown, or the panic has ended the process.
Exit ==
    /\ phase \in {"stopped", "crashed"}
    /\ Down
    /\ UNCHANGED faults

Kill ==
    /\ Running
    /\ faults < MaxFaults
    /\ faults' = faults + 1
    /\ Down

Restart ==
    /\ phase = "down"
    /\ phase' = "open"
    /\ UNCHANGED <<status, got, now, table, scheduler, faults>>

Next ==
    \/ \E s \in Sends : SendNotification(s)
    \/ \E n \in Notifications :
          \/ \E time \in 0..MaxTime : ScheduleNotification(n, time)
          \/ MarkAsRead(n)
          \/ QueueDue(n)
    \/ ScheduledNotifications
    \/ UpdateStatus
    \/ UpdateStatusFails
    \/ Dispatch
    \/ Tick
    \/ Shutdown
    \/ Exit
    \/ Kill
    \/ Restart

Spec == Init /\ [][Next]_vars

(***************************************************************************)
(* The ticker fires every minute as long as the process lives, the loop    *)
(* over the rows goes on by itself, the main goroutine goes on with its    *)
(* shutdown, and a process that is down is started again.  No fault is     *)
(* forced, and MaxFaults bounds them: the database does not fail for ever. *)
(***************************************************************************)
Fairness ==
    /\ WF_vars(ScheduledNotifications)
    /\ \A n \in Notifications : WF_vars(QueueDue(n))
    /\ WF_vars(UpdateStatus)
    /\ WF_vars(Dispatch)
    /\ WF_vars(Dispatcher!Stop /\ Shutdown)
    /\ WF_vars(Exit)
    /\ WF_vars(Restart)

FairSpec == Spec /\ Fairness

-----------------------------------------------------------------------------
(* Properties *)

\* No observer is given a scheduled notification before its time, though the
\* event that carries it has lost its ScheduledAt and the observer cannot tell.
NeverEarly ==
    \A n \in Notifications : tries[n] > 0 => scheduledAt[n] <= now

\* A row is given to the dispatcher once, and once more at most for every
\* failed update, kill or shutdown: marking it as read, in the middle of the
\* scheduler's round or after it, never sends it again.
TriedOncePerFault ==
    \A n \in Notifications : tries[n] <= 1 + faults

\* A row that says "sent" was given to the dispatcher, whatever crash or
\* failure came between.
SentWasTried ==
    \A n \in Notifications : row[n] = "sent" => tries[n] > 0

\* A due row does not stay scheduled for ever: it is sent, or its user has
\* read it, however the process and the updates fail.
DueIsSettled ==
    \A n \in Notifications :
        row[n] = "scheduled" /\ scheduledAt[n] <= now ~> row[n] \in {"sent", "read"}

=============================================================================
