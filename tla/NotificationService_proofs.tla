--------------------- MODULE NotificationService_proofs ---------------------
(***************************************************************************)
(* The safety properties of NotificationService hold for any number of     *)
(* rows, sends, observers and faults.                                      *)
(***************************************************************************)
EXTENDS NotificationService, TLAPS

Statuses == {"new", "waiting", "notifying", "done", "refused", "lost"}
Phases   == {"open", "closing", "stopped", "crashed", "down"}

\* A shutdown that is under way has been counted as a fault already, though it
\* has yet to take the rows from the scheduler.
Ending == IF phase \in {"closing", "stopped", "crashed"} THEN 1 ELSE 0

\* The tries and the faults of row n: one that the scheduler may give away
\* (again) has a fault for every try it had.
Accounted(n) ==
    /\ tries[n] <= 1 + faults
    /\ tries[n] > 0 => scheduledAt[n] <= now
    /\ row[n] = "absent" => tries[n] = 0 /\ n \notin batch /\ n # current
    /\ row[n] = "sent" => tries[n] > 0
    /\ n \in batch =>
          /\ scheduledAt[n] <= now
          /\ n # current
    /\ n = current => tries[n] > 0 /\ tries[n] + Ending <= 1 + faults
    /\ n \in batch \/ (row[n] = "scheduled" /\ n # current) => tries[n] + Ending <= faults

IInv ==
    /\ TypeOK
    /\ phase = "down" => batch = {} /\ current = None
    /\ \A n \in Notifications : Accounted(n)

-----------------------------------------------------------------------------

\* Nothing has been scheduled.
LEMMA InitIInv == Init => IInv
BY ServiceAssumption
   DEF Init, IInv, TypeOK, Accounted, Ending, Dispatcher!Init

\* The dispatcher keeps to its types, whichever event it handles.
LEMMA AsyncTypes ==
    ASSUME TypeOK, NEW e \in Events, NotifyAsync(e)
    PROVE  /\ status' \in [Events -> Statuses]
           /\ got' \in [Events -> SUBSET Observers]
           /\ phase' = phase
BY DEF TypeOK, Statuses, NotifyAsync, Dispatcher!Accept, Dispatcher!Refuse, Dispatcher!Move

\* Its own steps likewise.
LEMMA DispatchTypes ==
    ASSUME TypeOK, Dispatch
    PROVE  /\ status' \in [Events -> Statuses]
           /\ got' \in [Events -> SUBSET Observers]
           /\ phase' = phase
<1>1. PICK e \in Events : \/ Dispatcher!Start(e)
                          \/ \E o \in Observers : Dispatcher!HandTo(e, o)
                          \/ Dispatcher!Finish(e)
      BY DEF Dispatch
<1>2. CASE Dispatcher!Start(e) \/ Dispatcher!Finish(e)
      BY <1>2 DEF TypeOK, Statuses, Dispatcher!Start, Dispatcher!Finish, Dispatcher!Move
<1>3. CASE \E o \in Observers : Dispatcher!HandTo(e, o)
      BY <1>3 DEF TypeOK, Statuses, Dispatcher!HandTo
<1> QED
    BY <1>1, <1>2, <1>3

\* A step that leaves the clock, the rows, the scheduler, the faults and the
\* phase alone keeps the accounts.
LEMMA QuietKeeps ==
    ASSUME IInv,
           status' \in [Events -> Statuses], got' \in [Events -> SUBSET Observers],
           UNCHANGED <<phase, now, table, scheduler, faults>>
    PROVE  IInv'
BY DEF IInv, TypeOK, Statuses, Accounted, Ending, table, scheduler

-----------------------------------------------------------------------------
(* The handlers *)

\* An immediate send changes nothing but its own event.
LEMMA SendKeeps == ASSUME IInv, NEW s \in Sends, SendNotification(s) PROVE IInv'
<1>1. s \in Events
      BY DEF Events
<1> QED
    BY <1>1, AsyncTypes, QuietKeeps DEF SendNotification, IInv

\* A new row has no try to account for.
LEMMA ScheduleKeeps ==
    ASSUME IInv, NEW n \in Notifications, NEW time \in 0..MaxTime, ScheduleNotification(n, time)
    PROVE  IInv'
<1>1. TypeOK'
      BY DEF IInv, TypeOK, ScheduleNotification, dispatcher, scheduler
<1>2. ASSUME NEW m \in Notifications PROVE Accounted(m)'
  <2>1. Accounted(m) /\ Accounted(n)
        BY DEF IInv
  <2>2. faults \in Nat /\ tries[n] = 0 /\ n \notin batch /\ n # current
        BY <2>1, ServiceAssumption DEF IInv, TypeOK, ScheduleNotification, Accounted
  <2> QED
      BY <2>1, <2>2 DEF IInv, TypeOK, ScheduleNotification, Serving, Accounted, Ending,
                        dispatcher, scheduler
<1> QED
    BY <1>1, <1>2 DEF IInv, ScheduleNotification, dispatcher, scheduler

\* A row that is read owes no further try.
LEMMA ReadKeeps == ASSUME IInv, NEW n \in Notifications, MarkAsRead(n) PROVE IInv'
<1>1. TypeOK'
      BY DEF IInv, TypeOK, MarkAsRead, dispatcher, scheduler
<1>2. ASSUME NEW m \in Notifications PROVE Accounted(m)'
      BY DEF IInv, TypeOK, MarkAsRead, Accounted, Ending, dispatcher, scheduler
<1> QED
    BY <1>1, <1>2 DEF IInv, MarkAsRead, dispatcher, scheduler

-----------------------------------------------------------------------------
(* The scheduler *)

\* A row that the query returns is due and still scheduled.
LEMMA QueryKeeps == ASSUME IInv, ScheduledNotifications PROVE IInv'
<1>1. TypeOK'
      BY DEF IInv, TypeOK, ScheduledNotifications, dispatcher, table
<1>2. ASSUME NEW m \in Notifications PROVE Accounted(m)'
  <2>1. Accounted(m) /\ m # current
        BY ServiceAssumption DEF IInv, ScheduledNotifications
  <2>2. /\ UNCHANGED <<phase, now, row, scheduledAt, current, tries, faults>>
        /\ Ending' = Ending
        /\ m \in batch' <=> row[m] = "scheduled" /\ scheduledAt[m] <= now
        BY DEF ScheduledNotifications, dispatcher, table, Ending
  <2> QED
      BY <2>1, <2>2 DEF Accounted
<1> QED
    BY <1>1, <1>2 DEF IInv, ScheduledNotifications, Running, dispatcher

\* A row of the batch has room for one more try.
LEMMA QueueKeeps == ASSUME IInv, NEW n \in Notifications, QueueDue(n) PROVE IInv'
<1>1. /\ n \in batch /\ current = None
      /\ Accounted(n)
      /\ phase \in {"open", "closing", "stopped"}
      BY DEF QueueDue, Earliest, Running, IInv
<1>2. tries[n] \in Nat /\ tries[n] + Ending <= faults /\ faults \in 0..MaxFaults
      BY <1>1 DEF Accounted, IInv, TypeOK
<1>3. tries[n] + 1 \in 1..MaxFaults + 1
      BY <1>2, ServiceAssumption DEF Ending
<1>4. <<n, tries[n] + 1>> \in Events
      BY <1>3 DEF Events, Tries
<1>5. /\ status' \in [Events -> Statuses]
      /\ got' \in [Events -> SUBSET Observers]
      /\ phase' = phase \/ (phase \in {"closing", "stopped"} /\ phase' = "crashed")
  <2>1. CASE NotifyAsync(<<n, tries[n] + 1>>)
        BY <2>1, <1>4, AsyncTypes DEF IInv
  <2>2. CASE Dispatcher!Crash
        BY <2>2 DEF Dispatcher!Crash, IInv, TypeOK, Statuses
  <2> QED
      BY <2>1, <2>2 DEF QueueDue
<1>6. Ending' = Ending /\ phase' \in Phases /\ phase' # "down"
      BY <1>1, <1>5 DEF Ending, Phases
<1>7. TypeOK'
      BY <1>3, <1>5, <1>6 DEF IInv, TypeOK, QueueDue, table, Statuses, Phases
<1>8. ASSUME NEW m \in Notifications PROVE Accounted(m)'
  <2>1. Accounted(m)
        BY DEF IInv
  <2>2. /\ tries' = [tries EXCEPT ![n] = tries[n] + 1]
        /\ batch' = batch \ {n}
        /\ current' = n
        /\ UNCHANGED <<now, row, scheduledAt, faults>>
        BY DEF QueueDue, table
  <2>3. Ending \in {0, 1}
        BY DEF Ending
  <2>4. CASE m = n
        BY <1>1, <1>2, <1>6, <2>1, <2>2, <2>3, <2>4 DEF IInv, TypeOK, Accounted
  <2>5. CASE m # n
    <3>1. tries'[m] = tries[m] /\ tries[m] \in Nat
          BY <2>2, <2>5 DEF IInv, TypeOK
    <3>2. m # current /\ m # current' /\ (m \in batch' <=> m \in batch)
          BY <1>1, <2>2, <2>5, ServiceAssumption
    <3> QED
        BY <1>6, <2>1, <2>2, <3>1, <3>2 DEF Accounted
  <2> QED
      BY <2>4, <2>5
<1> QED
    BY <1>6, <1>7, <1>8 DEF IInv

\* The row that was given away is marked, or a fault pays for its next try.
LEMMA UpdateKeeps == ASSUME IInv, UpdateStatus PROVE IInv'
<1>1. current \in Notifications
      BY DEF UpdateStatus, IInv, TypeOK
<1>2. TypeOK'
      BY <1>1 DEF IInv, TypeOK, UpdateStatus, dispatcher
<1>3. ASSUME NEW m \in Notifications PROVE Accounted(m)'
      BY <1>1, ServiceAssumption
         DEF IInv, TypeOK, UpdateStatus, Accounted, Ending, dispatcher
<1> QED
    BY <1>2, <1>3 DEF IInv, UpdateStatus, Running, dispatcher

\* The failed update is the fault that pays for the next try.
LEMMA UpdateFailsKeeps == ASSUME IInv, UpdateStatusFails PROVE IInv'
<1>1. /\ current \in Notifications
      /\ row' = row \/ row' = [row EXCEPT ![current] = "sent"]
      BY DEF UpdateStatusFails, IInv, TypeOK
<1>2. TypeOK'
      BY <1>1, ServiceAssumption DEF IInv, TypeOK, UpdateStatusFails, dispatcher
<1>3. ASSUME NEW m \in Notifications PROVE Accounted(m)'
  <2>1. Accounted(m) /\ Accounted(current)
        BY <1>1 DEF IInv
  <2>2. /\ UNCHANGED <<phase, now, scheduledAt, batch, tries>>
        /\ current' = None /\ None \notin Notifications
        /\ faults' = faults + 1
        BY ServiceAssumption DEF UpdateStatusFails, dispatcher
  <2>3. Ending' = Ending /\ Ending \in {0, 1}
        BY <2>2 DEF Ending
  <2> QED
      BY <1>1, <2>1, <2>2, <2>3 DEF IInv, TypeOK, Accounted
<1> QED
    BY <1>2, <1>3 DEF IInv, UpdateStatusFails, Running, dispatcher

-----------------------------------------------------------------------------
(* The dispatcher, the clock and the process *)

\* The workers touch neither rows nor scheduler.
LEMMA DispatchKeeps == ASSUME IInv, Dispatch PROVE IInv'
<1>1. UNCHANGED <<now, table, scheduler, faults>>
      BY DEF Dispatch
<1> QED
    BY <1>1, DispatchTypes, QuietKeeps DEF IInv, TypeOK

\* A due row stays due as time passes.
LEMMA TickKeeps == ASSUME IInv, Tick PROVE IInv'
<1>1. TypeOK'
      BY ServiceAssumption DEF IInv, TypeOK, Tick, dispatcher, table, scheduler
<1>2. ASSUME NEW m \in Notifications PROVE Accounted(m)'
      BY ServiceAssumption
         DEF IInv, TypeOK, Tick, Accounted, Ending, dispatcher, table, scheduler
<1> QED
    BY <1>1, <1>2 DEF IInv, Tick, dispatcher, scheduler

\* The beginning of a shutdown is the fault that pays for the rows it will take
\* from the scheduler.
LEMMA ShutdownKeeps == ASSUME IInv, Shutdown PROVE IInv'
<1>1. /\ \/ /\ phase = "open" /\ phase' = "closing"
            /\ faults < MaxFaults /\ faults' = faults + 1
         \/ /\ phase = "closing" /\ phase' = "stopped"
            /\ faults' = faults
      /\ UNCHANGED <<status, got, now, table, scheduler>>
      BY DEF Shutdown, Dispatcher!Close, Dispatcher!Stop
<1>2. TypeOK'
      BY <1>1, ServiceAssumption DEF IInv, TypeOK, table, scheduler
<1>3. ASSUME NEW m \in Notifications PROVE Accounted(m)'
      BY <1>1, ServiceAssumption DEF IInv, TypeOK, Accounted, Ending, table, scheduler
<1> QED
    BY <1>1, <1>2, <1>3 DEF IInv

\* The end of the process takes the rows from the scheduler, which must be paid
\* for.
LEMMA DownKeeps ==
    ASSUME IInv, Down, phase # "down",
           faults' \in 0..MaxFaults, faults <= faults', faults + 1 <= faults' + Ending
    PROVE  IInv'
<1>1. TypeOK'
      BY DEF IInv, TypeOK, Down, table
<1>2. ASSUME NEW m \in Notifications PROVE Accounted(m)'
  <2>1. Accounted(m)
        BY DEF IInv
  <2>2. /\ UNCHANGED <<now, row, scheduledAt, tries>>
        /\ batch' = {} /\ current' = None /\ None \notin Notifications
        /\ Ending' = 0
        BY ServiceAssumption DEF Down, table, Ending
  <2>3. Ending \in {0, 1} /\ faults \in Nat /\ faults' \in Nat /\ tries[m] \in Nat
        BY DEF Ending, IInv, TypeOK
  <2>4. tries[m] <= 1 + faults'
        BY <2>1, <2>3 DEF Accounted
  <2> QED
    <3>1. m # current' /\ m \notin batch'
          BY <2>2
    <3>2. ASSUME row[m] = "scheduled" PROVE tries[m] <= faults'
      <4>1. CASE m = current
        <5>1. tries[m] + Ending <= 1 + faults
              BY <2>1, <4>1 DEF Accounted
        <5>2. \A t, f, g, e \in Nat : t + e <= 1 + f /\ f + 1 <= g + e => t <= g
              OBVIOUS
        <5>3. Ending \in Nat
              BY <2>3
        <5> QED
            BY <5>1, <5>2, <5>3, <2>3
      <4>2. CASE m # current
        <5>1. tries[m] + Ending <= faults
              BY <2>1, <3>2, <4>2 DEF Accounted
        <5> QED
            BY <5>1, <2>3
      <4> QED
          BY <4>1, <4>2
    <3> QED
        BY <2>1, <2>2, <2>3, <2>4, <3>1, <3>2 DEF Accounted
<1> QED
    BY <1>1, <1>2 DEF IInv, Down

\* Either end of the process takes the rows from the scheduler.
LEMMA EndKeeps == ASSUME IInv, Exit \/ Kill PROVE IInv'
<1>1. Down /\ phase # "down"
      BY DEF Exit, Kill, Running
<1>2. /\ faults' \in 0..MaxFaults
      /\ faults <= faults'
      /\ faults + 1 <= faults' + Ending
      BY ServiceAssumption DEF Exit, Kill, Ending, IInv, TypeOK
<1> QED
    BY <1>1, <1>2, DownKeeps

\* A new process begins with the rows and nothing else.
LEMMA RestartKeeps == ASSUME IInv, Restart PROVE IInv'
<1>1. /\ phase = "down" /\ phase' = "open" /\ Ending = 0 /\ Ending' = 0
      /\ UNCHANGED <<status, got, now, row, scheduledAt, batch, current, tries, faults>>
      BY DEF Restart, Ending, table, scheduler
<1>2. TypeOK'
      BY <1>1 DEF IInv, TypeOK
<1>3. ASSUME NEW m \in Notifications PROVE Accounted(m)'
      BY <1>1 DEF IInv, Accounted
<1> QED
    BY <1>1, <1>2, <1>3 DEF IInv

-----------------------------------------------------------------------------
(* The theorems *)

\* The invariant is inductive.
LEMMA NextIInv == IInv /\ [Next]_vars => IInv'
<1> SUFFICES ASSUME IInv, [Next]_vars PROVE IInv'
    OBVIOUS
<1>1. CASE UNCHANGED vars
      BY <1>1, QuietKeeps DEF vars, dispatcher, IInv, TypeOK, Statuses
<1>2. ASSUME NEW n \in Notifications,
             \/ \E time \in 0..MaxTime : ScheduleNotification(n, time)
             \/ MarkAsRead(n)
             \/ QueueDue(n)
      PROVE IInv'
      BY <1>2, ScheduleKeeps, ReadKeeps, QueueKeeps
<1>3. ASSUME NEW s \in Sends, SendNotification(s) PROVE IInv'
      BY <1>3, SendKeeps
<1> QED
    BY <1>1, <1>2, <1>3, QueryKeeps, UpdateKeeps, UpdateFailsKeeps, DispatchKeeps, TickKeeps,
       ShutdownKeeps, EndKeeps, RestartKeeps DEF Next

\* The rows, the scheduler and the dispatcher keep their types.
THEOREM TypeCorrect == Spec => []TypeOK
<1>1. IInv => TypeOK
      BY DEF IInv
<1> QED
    BY <1>1, InitIInv, NextIInv, PTL DEF Spec

\* However users, failures, crashes and shutdowns interfere, no row is given to
\* the dispatcher before its time.
THEOREM NotEarly == Spec => []NeverEarly
<1>1. IInv => NeverEarly
      BY DEF IInv, Accounted, NeverEarly
<1> QED
    BY <1>1, InitIInv, NextIInv, PTL DEF Spec

\* A row is tried again only where a failed update, a kill or a shutdown came
\* between a try and its mark.
THEOREM TriesPaidFor == Spec => []TriedOncePerFault
<1>1. IInv => TriedOncePerFault
      BY DEF IInv, Accounted, TriedOncePerFault
<1> QED
    BY <1>1, InitIInv, NextIInv, PTL DEF Spec

\* The mark "sent" is never put on a row that the dispatcher was not given.
THEOREM SentTried == Spec => []SentWasTried
<1>1. IInv => SentWasTried
      BY DEF IInv, Accounted, SentWasTried
<1> QED
    BY <1>1, InitIInv, NextIInv, PTL DEF Spec
=============================================================================
