---------------------- MODULE NotificationSubject_proofs ----------------------
(***************************************************************************)
(* What holds of the dispatcher for any number of events, observers and    *)
(* workers and any channel size, and that it implements the dispatcher of  *)
(* NotificationPromise.                                                    *)
(***************************************************************************)
EXTENDS NotificationSubject, SequenceTheorems, FiniteSetTheorems, TLAPS

-----------------------------------------------------------------------------
(* The places of a channel. *)

\* Sending puts the event in a new last place and moves no other.
LEMMA AppendPlaces ==
    ASSUME NEW S, NEW s \in Seq(S), NEW x \in S
    PROVE  /\ Append(s, x) \in Seq(S)
           /\ Len(Append(s, x)) = Len(s) + 1
           /\ \A i \in 1..Len(s) : Append(s, x)[i] = s[i]
           /\ Append(s, x)[Len(s) + 1] = x
BY AppendProperties

\* Receiving takes the first place and moves every other up by one.
LEMMA TailPlaces ==
    ASSUME NEW S, NEW s \in Seq(S), s # <<>>
    PROVE  /\ Head(s) \in S
           /\ Head(s) = s[1]
           /\ Tail(s) \in Seq(S)
           /\ Len(s) \in Nat \ {0}
           /\ Len(Tail(s)) = Len(s) - 1
           /\ \A i \in 1..Len(s) - 1 : Tail(s)[i] = s[i + 1]
BY HeadTailProperties, EmptySeq

-----------------------------------------------------------------------------
(* Type correctness *)

\* Every variable keeps its type, and the channel its bound: no send case of
\* a select fires on a full channel.
THEOREM TypeCorrect == Spec => []TypeOK
<1> USE SubjectAssumption DEF SubjectAssumption
<1>1. Init => TypeOK
  <2>1. Init => eventChannel \in Seq(Events) /\ Len(eventChannel) <= Capacity
    BY EmptySeq DEF Init
  <2>2. Init => updates \in [Events -> [Observers -> Nat]]
    BY DEF Init
  <2>3. Init => /\ pc \in [Workers -> {"select", "notify", "update", "exited"}]
                /\ event \in [Workers -> Events \cup {ZeroEvent}]
                /\ todo \in [Workers -> SUBSET Observers]
    BY DEF Init
  <2>4. QED
    BY <2>1, <2>2, <2>3 DEF Init, TypeOK
<1>2. TypeOK /\ [Next]_vars => TypeOK'
  <2> SUFFICES ASSUME TypeOK, [Next]_vars PROVE TypeOK'
    OBVIOUS
  <2> USE DEF TypeOK, control, history
  <2>1. ASSUME NEW o \in Observers, Subscribe(o) PROVE TypeOK'
    BY <2>1 DEF Subscribe
  <2>2. ASSUME NEW o \in Observers, Unsubscribe(o) PROVE TypeOK'
    BY <2>2 DEF Unsubscribe
  <2>3. ASSUME NEW e \in Events, Enqueue(e) PROVE TypeOK'
    BY <2>3, AppendPlaces DEF Enqueue, Record
  <2>4. ASSUME NEW e \in Events, Discard(e) PROVE TypeOK'
    BY <2>4 DEF Discard, Record
  <2>5. ASSUME NEW e \in Events, Drop(e) PROVE TypeOK'
    BY <2>5 DEF Drop, Record
  <2>6. ASSUME NEW e \in Events, SendPanic(e) PROVE TypeOK'
    BY <2>6 DEF SendPanic
  <2>7. ASSUME NEW w \in Workers, Receive(w) PROVE TypeOK'
    BY <2>7, TailPlaces DEF Receive, At, Goto
  <2>8. ASSUME NEW w \in Workers, ReceiveZero(w) PROVE TypeOK'
    BY <2>8 DEF ReceiveZero, At, Goto
  <2>9. ASSUME NEW w \in Workers, Snapshot(w) PROVE TypeOK'
    BY <2>9 DEF Snapshot, At, Goto
  <2>10. ASSUME NEW w \in Workers, NEW o \in Observers, Update(w, o) PROVE TypeOK'
    BY <2>10 DEF Update, At, Count
  <2>11. ASSUME NEW w \in Workers, Return(w) PROVE TypeOK'
    BY <2>11 DEF Return, At, Goto
  <2>12. ASSUME NEW w \in Workers, Exit(w) PROVE TypeOK'
    BY <2>12 DEF Exit, At, Goto
  <2>13. CASE Cancel
    BY <2>13 DEF Cancel
  <2>14. CASE Close
    BY <2>14 DEF Close
  <2>15. CASE Wait
    BY <2>15 DEF Wait
  <2>16. CASE UNCHANGED vars
    BY <2>16 DEF vars
  <2>17. QED
    BY <2>1, <2>2, <2>3, <2>4, <2>5, <2>6, <2>7, <2>8, <2>9, <2>10, <2>11,
       <2>12, <2>13, <2>14, <2>15, <2>16
    DEF Next, NotifyAsync, Work
<1>3. QED
  BY <1>1, <1>2, PTL DEF Spec

-----------------------------------------------------------------------------
(* Conservation *)

Places == <<eventChannel, pc, event, outcome, finished>>

\* A step that touches neither the channel nor a worker's event nor the
\* history of the events moves no event.
LEMMA PlacesKept ==
    ASSUME Conservation, UNCHANGED Places
    PROVE  Conservation'
<1> USE DEF Places, InChannel, Held, Holds
<1>1. NothingLost'
  BY DEF Conservation, NothingLost
<1>2. OnePlace'
  BY DEF Conservation, OnePlace
<1>3. QED
  BY <1>1, <1>2 DEF Conservation

\* A call of NotifyAsync that the channel accepts was nowhere before.
LEMMA EnqueueConserves ==
    ASSUME TypeOK, Conservation, NEW e \in Events, Enqueue(e)
    PROVE  Conservation'
<1> DEFINE n == Len(eventChannel)
<1>1. /\ eventChannel \in Seq(Events)
      /\ n \in Nat
      /\ outcome \in [Events -> {"uncalled", "accepted", "discarded", "dropped"}]
  BY LenProperties DEF TypeOK
<1>2. /\ Len(eventChannel') = n + 1
      /\ \A i \in 1..n : eventChannel'[i] = eventChannel[i]
      /\ eventChannel'[n + 1] = e
  BY <1>1, AppendPlaces DEF Enqueue
<1>3. /\ outcome[e] = "uncalled"
      /\ outcome' = [outcome EXCEPT ![e] = "accepted"]
      /\ UNCHANGED <<pc, event, finished>>
  BY DEF Enqueue, Record
<1>4. ~InChannel(e) /\ ~Held(e) /\ e \notin finished
  BY <1>3 DEF Conservation, NothingLost
<1>5. \A f \in Events : InChannel(f)' <=> InChannel(f) \/ f = e
  <2> SUFFICES ASSUME NEW f \in Events PROVE InChannel(f)' <=> InChannel(f) \/ f = e
    OBVIOUS
  <2>1. InChannel(f)' => InChannel(f) \/ f = e
    <3> SUFFICES ASSUME NEW i \in 1..n + 1, eventChannel'[i] = f
                 PROVE  InChannel(f) \/ f = e
      BY <1>2 DEF InChannel
    <3>1. i \in 1..n \/ i = n + 1
      BY <1>1
    <3>2. QED
      BY <3>1, <1>2 DEF InChannel
  <2>2. InChannel(f) => InChannel(f)'
    BY <1>1, <1>2 DEF InChannel
  <2>3. InChannel(e)'
    BY <1>1, <1>2 DEF InChannel
  <2>4. QED
    BY <2>1, <2>2, <2>3
<1>6. \A f \in Events : Held(f)' <=> Held(f)
  BY <1>3 DEF Held, Holds
<1>7. NothingLost'
  BY <1>1, <1>3, <1>5, <1>6 DEF Conservation, NothingLost
<1>8. OnePlace'
  <2>1. ASSUME NEW i \in 1..n + 1, NEW j \in 1..n + 1,
               eventChannel'[i] = eventChannel'[j]
        PROVE  i = j
    <3>1. CASE i \in 1..n /\ j \in 1..n
      BY <2>1, <3>1, <1>2 DEF Conservation, OnePlace
    <3>2. CASE i = n + 1 /\ j \in 1..n
      BY <2>1, <3>2, <1>2, <1>4 DEF InChannel
    <3>3. CASE i \in 1..n /\ j = n + 1
      BY <2>1, <3>3, <1>2, <1>4 DEF InChannel
    <3>4. CASE i = n + 1 /\ j = n + 1
      BY <3>4
    <3>5. QED
      BY <1>1, <3>1, <3>2, <3>3, <3>4
  <2>2. ASSUME NEW f \in Events
        PROVE  /\ ~(InChannel(f)' /\ Held(f)')
               /\ f \in finished' => ~InChannel(f)' /\ ~Held(f)'
               /\ \A v, w \in Workers : Holds(v, f)' /\ Holds(w, f)' => v = w
    <3>1. \A w \in Workers : Holds(w, f)' <=> Holds(w, f)
      BY <1>3 DEF Holds
    <3>2. QED
      BY <1>3, <1>4, <1>5, <1>6, <3>1 DEF Conservation, OnePlace
  <2>3. QED
    BY <1>2, <2>1, <2>2 DEF OnePlace
<1>9. QED
  BY <1>7, <1>8 DEF Conservation

\* The worker that receives takes the event out of the channel.
LEMMA ReceiveConserves ==
    ASSUME TypeOK, Conservation, NEW w \in Workers, Receive(w)
    PROVE  Conservation'
<1> DEFINE n == Len(eventChannel)
           e == Head(eventChannel)
<1>1. /\ eventChannel \in Seq(Events) /\ eventChannel # <<>>
      /\ pc \in [Workers -> {"select", "notify", "update", "exited"}]
      /\ event \in [Workers -> Events \cup {ZeroEvent}]
  BY DEF TypeOK, Receive
<1>2. /\ e \in Events
      /\ e = eventChannel[1]
      /\ n \in Nat \ {0}
      /\ Len(eventChannel') = n - 1
      /\ \A i \in 1..n - 1 : eventChannel'[i] = eventChannel[i + 1]
  BY <1>1, TailPlaces DEF Receive
<1>3. /\ pc[w] = "select"
      /\ pc' = [pc EXCEPT ![w] = "notify"]
      /\ event' = [event EXCEPT ![w] = e]
      /\ UNCHANGED <<outcome, finished>>
  BY DEF Receive, At, Goto, history
<1>4. \A i, j \in 1..n : eventChannel[i] = eventChannel[j] => i = j
  BY DEF Conservation, OnePlace
<1>5. InChannel(e)
  BY <1>2 DEF InChannel
<1>6. \A f \in Events : InChannel(f)' <=> InChannel(f) /\ f # e
  <2> SUFFICES ASSUME NEW f \in Events PROVE InChannel(f)' <=> InChannel(f) /\ f # e
    OBVIOUS
  <2>1. ASSUME NEW i \in 1..n - 1, eventChannel'[i] = f
        PROVE  InChannel(f) /\ f # e
    <3>1. i + 1 \in 1..n /\ eventChannel[i + 1] = f /\ i + 1 # 1 /\ 1 \in 1..n
      BY <1>2, <2>1
    <3>2. QED
      BY <3>1, <1>2, <1>4 DEF InChannel
  <2>2. ASSUME NEW i \in 1..n, eventChannel[i] = f, f # e
        PROVE  InChannel(f)'
    <3>1. i # 1
      BY <1>2, <2>2
    <3>2. i - 1 \in 1..n - 1 /\ eventChannel'[i - 1] = eventChannel[(i - 1) + 1] /\ (i - 1) + 1 = i
      BY <1>2, <3>1
    <3>3. QED
      BY <1>2, <2>2, <3>2 DEF InChannel
  <2>3. QED
    BY <1>2, <2>1, <2>2 DEF InChannel
<1>7. \A f \in Events, v \in Workers :
         Holds(v, f)' <=> Holds(v, f) \/ (v = w /\ f = e)
  BY <1>1, <1>3 DEF Holds
<1>8. \A f \in Events : Held(f)' <=> Held(f) \/ f = e
  BY <1>7 DEF Held
<1>9. NothingLost'
  BY <1>3, <1>5, <1>6, <1>8 DEF Conservation, NothingLost
<1>10. OnePlace'
  <2>1. ASSUME NEW i \in 1..n - 1, NEW j \in 1..n - 1,
               eventChannel'[i] = eventChannel'[j]
        PROVE  i = j
    <3>1. i + 1 \in 1..n /\ j + 1 \in 1..n /\ eventChannel[i + 1] = eventChannel[j + 1]
      BY <1>2, <2>1
    <3>2. i + 1 = j + 1
      BY <3>1, <1>4
    <3>3. QED
      BY <3>2
  <2>2. ASSUME NEW f \in Events
        PROVE  /\ ~(InChannel(f)' /\ Held(f)')
               /\ f \in finished' => ~InChannel(f)' /\ ~Held(f)'
               /\ \A u, v \in Workers : Holds(u, f)' /\ Holds(v, f)' => u = v
    <3>1. ~Held(e) /\ e \notin finished
      BY <1>2, <1>5 DEF Conservation, OnePlace
    <3>2. \A v \in Workers : ~Holds(v, e)
      BY <3>1 DEF Held
    <3>3. QED
      BY <1>3, <1>6, <1>7, <1>8, <3>1, <3>2 DEF Conservation, OnePlace
  <2>3. QED
    BY <1>2, <2>1, <2>2 DEF OnePlace
<1>11. QED
  BY <1>9, <1>10 DEF Conservation

\* The worker whose Notify returns hands its event over to the finished ones.
LEMMA ReturnConserves ==
    ASSUME TypeOK, Conservation, NEW w \in Workers, Return(w)
    PROVE  Conservation'
<1> DEFINE e == event[w]
<1>1. /\ pc \in [Workers -> {"select", "notify", "update", "exited"}]
      /\ event \in [Workers -> Events \cup {ZeroEvent}]
      /\ pc[w] = "update"
      /\ pc' = [pc EXCEPT ![w] = "select"]
      /\ finished' = finished \cup ({e} \ {ZeroEvent})
      /\ UNCHANGED <<eventChannel, event, outcome>>
  BY DEF TypeOK, Return, At, Goto
<1>2. \A f \in Events : f # ZeroEvent
  BY SubjectAssumption DEF SubjectAssumption
<1>3. \A f \in Events : f \in finished' <=> f \in finished \/ f = e
  BY <1>1, <1>2
<1>4. \A f \in Events : InChannel(f)' <=> InChannel(f)
  BY <1>1 DEF InChannel
<1>5. \A f \in Events, v \in Workers : Holds(v, f)' <=> Holds(v, f) /\ v # w
  BY <1>1 DEF Holds
<1>6. Holds(w, e)
  BY <1>1 DEF Holds
<1>7. \A f \in Events : Held(f)' <=> Held(f) /\ f # e
  <2>1. ASSUME NEW f \in Events, Held(f)' PROVE Held(f) /\ f # e
    BY <2>1, <1>5, <1>6 DEF Held, Conservation, OnePlace
  <2>2. ASSUME NEW f \in Events, Held(f), f # e PROVE Held(f)'
    <3>1. PICK v \in Workers : Holds(v, f)
      BY <2>2 DEF Held
    <3>2. v # w
      BY <2>2, <3>1 DEF Holds
    <3>3. QED
      BY <3>1, <3>2, <1>5 DEF Held
  <2>3. QED
    BY <2>1, <2>2
<1>8. NothingLost'
  <2>1. \A f \in Events : f = e => Held(f)
    BY <1>6 DEF Held
  <2>2. QED
    BY <1>1, <1>3, <1>4, <1>7, <2>1 DEF Conservation, NothingLost
<1>9. OnePlace'
  <2>1. \A f \in Events : f = e => Held(f)
    BY <1>6 DEF Held
  <2>2. \A f \in Events :
           /\ ~(InChannel(f)' /\ Held(f)')
           /\ f \in finished' => ~InChannel(f)' /\ ~Held(f)'
           /\ \A u, v \in Workers : Holds(u, f)' /\ Holds(v, f)' => u = v
    BY <1>3, <1>4, <1>5, <1>7, <2>1 DEF Conservation, OnePlace
  <2>3. QED
    BY <1>1, <2>2 DEF Conservation, OnePlace
<1>10. QED
  BY <1>8, <1>9 DEF Conservation

\* An accepted event is in exactly one place: in the channel, with one
\* worker, or finished.
THEOREM EventsConserved == Spec => []Conservation
<1>1. Init => Conservation
  <2> SUFFICES ASSUME Init PROVE Conservation
    OBVIOUS
  <2>1. Len(eventChannel) = 0 /\ finished = {} /\ \A f \in Events : outcome[f] = "uncalled"
    BY EmptySeq DEF Init
  <2>2. \A f \in Events : ~InChannel(f) /\ ~Held(f) /\ \A w \in Workers : ~Holds(w, f)
    BY <2>1 DEF Init, InChannel, Held, Holds
  <2>3. QED
    BY <2>1, <2>2 DEF Conservation, NothingLost, OnePlace
<1>2. TypeOK /\ Conservation /\ [Next]_vars => Conservation'
  <2> SUFFICES ASSUME TypeOK, Conservation, [Next]_vars PROVE Conservation'
    OBVIOUS
  <2>1. ASSUME NEW o \in Observers, Subscribe(o) \/ Unsubscribe(o) PROVE Conservation'
    BY <2>1, PlacesKept DEF Subscribe, Unsubscribe, control, history, Places
  <2>2. ASSUME NEW e \in Events, Enqueue(e) PROVE Conservation'
    BY <2>2, EnqueueConserves
  <2>3. ASSUME NEW e \in Events, Discard(e) \/ Drop(e) PROVE Conservation'
    <3>1. /\ outcome[e] = "uncalled"
          /\ \A f \in Events : outcome'[f] = "accepted" <=> outcome[f] = "accepted"
          /\ UNCHANGED <<eventChannel, pc, event, finished>>
      BY <2>3 DEF Discard, Drop, Record, control, TypeOK
    <3>2. NothingLost'
      BY <3>1 DEF Conservation, NothingLost, InChannel, Held, Holds
    <3>3. OnePlace'
      BY <3>1 DEF Conservation, OnePlace, InChannel, Held, Holds
    <3>4. QED
      BY <3>2, <3>3 DEF Conservation
  <2>4. ASSUME NEW e \in Events, SendPanic(e) PROVE Conservation'
    BY <2>4, PlacesKept DEF SendPanic, history, Places
  <2>5. ASSUME NEW w \in Workers, Receive(w) PROVE Conservation'
    BY <2>5, ReceiveConserves
  <2>6. ASSUME NEW w \in Workers, ReceiveZero(w) \/ Snapshot(w) \/ Exit(w)
        PROVE  Conservation'
    <3>1. /\ \A f \in Events, v \in Workers : Holds(v, f)' <=> Holds(v, f)
          /\ UNCHANGED <<eventChannel, outcome, finished>>
      BY <2>6, SubjectAssumption
      DEF ReceiveZero, Snapshot, Exit, At, Goto, Holds, TypeOK, history, SubjectAssumption
    <3>2. \A f \in Events : (Held(f)' <=> Held(f)) /\ (InChannel(f)' <=> InChannel(f))
      BY <3>1 DEF Held, InChannel
    <3>3. NothingLost'
      BY <3>1, <3>2 DEF Conservation, NothingLost
    <3>4. OnePlace'
      BY <3>1, <3>2 DEF Conservation, OnePlace
    <3>5. QED
      BY <3>3, <3>4 DEF Conservation
  <2>7. ASSUME NEW w \in Workers, NEW o \in Observers, Update(w, o)
        PROVE  Conservation'
    BY <2>7, PlacesKept DEF Update, Places
  <2>8. ASSUME NEW w \in Workers, Return(w) PROVE Conservation'
    BY <2>8, ReturnConserves
  <2>9. CASE Cancel \/ Close \/ Wait
    BY <2>9, PlacesKept DEF Cancel, Close, Wait, history, Places
  <2>10. CASE UNCHANGED vars
    BY <2>10, PlacesKept DEF vars, control, history, Places
  <2>11. QED
    BY <2>1, <2>2, <2>3, <2>4, <2>5, <2>6, <2>7, <2>8, <2>9, <2>10
    DEF Next, NotifyAsync, Work
<1>3. QED
  BY <1>1, <1>2, TypeCorrect, PTL DEF Spec

-----------------------------------------------------------------------------
(* Delivery *)

Notifying(w, e) == pc[w] = "update" /\ event[w] = e

\* An observer has nothing of an event that no worker has begun to hand out.
Untouched ==
    \A e \in Events \ finished, o \in Observers :
        (\A w \in Workers : ~Notifying(w, e)) => updates[e][o] = 0

\* The observers a worker has still to call have nothing of its event; those
\* it owes the event to and need not call any more have it.
Halfway ==
    \A w \in Workers, e \in Events, o \in Observers :
        Notifying(w, e) =>
            /\ o \in todo[w] => updates[e][o] = 0
            /\ o \in owed[e] \ todo[w] => updates[e][o] = 1

OwedAreSubscribed == \A e \in Events : owed[e] \subseteq observers

Delivery ==
    /\ Untouched
    /\ Halfway
    /\ OwedAreSubscribed
    /\ AtMostOnce
    /\ FanoutComplete

\* A step that adds no update, starts and ends no Notify and makes no
\* observer owed anything keeps the account.
LEMMA DeliveryKept ==
    ASSUME TypeOK, Delivery,
           \A w \in Workers, e \in Events :
              Notifying(w, e)' <=> Notifying(w, e),
           \A e \in Events : owed'[e] \subseteq owed[e],
           \A e \in Events : owed'[e] \subseteq observers',
           UNCHANGED <<todo, finished, updates>>
    PROVE  Delivery'
<1>1. Untouched'
  BY DEF Delivery, Untouched
<1>2. Halfway'
  BY DEF Delivery, Halfway
<1>3. FanoutComplete'
  <2>1. finished \subseteq Events
    BY DEF TypeOK
  <2>2. QED
    BY <2>1 DEF Delivery, FanoutComplete
<1>4. QED
  BY <1>1, <1>2, <1>3 DEF Delivery, OwedAreSubscribed, AtMostOnce

\* Accepting an event keeps the record of deliveries: nobody has been handed it
\* yet, and those it is owed to are the observers of the moment.
LEMMA EnqueueDelivers ==
    ASSUME TypeOK, Conservation, Delivery, NEW e \in Events, Enqueue(e)
    PROVE  Delivery'
<1>1. /\ outcome[e] = "uncalled"
      /\ \A f \in Events : owed'[f] = IF f = e THEN observers ELSE owed[f]
      /\ UNCHANGED <<observers, pc, event, todo, finished, updates>>
  BY DEF Enqueue, TypeOK
<1>2. e \notin finished /\ \A w \in Workers : ~Notifying(w, e)
  BY <1>1 DEF Conservation, NothingLost, Held, Holds, Notifying
<1>3. \A w \in Workers, f \in Events : Notifying(w, f)' <=> Notifying(w, f)
  BY <1>1 DEF Notifying
<1>4. Halfway'
  BY <1>1, <1>2, <1>3 DEF Delivery, Halfway
<1>5. FanoutComplete'
  <2>1. finished \subseteq Events
    BY DEF TypeOK
  <2>2. QED
    BY <1>1, <1>2, <2>1 DEF Delivery, FanoutComplete
<1>6. QED
  BY <1>1, <1>3, <1>4, <1>5
  DEF Delivery, Untouched, OwedAreSubscribed, AtMostOnce

\* The copy of the observers holds all that are owed the event.
LEMMA SnapshotDelivers ==
    ASSUME TypeOK, Conservation, Delivery, NEW w \in Workers, Snapshot(w)
    PROVE  Delivery'
<1>1. /\ pc \in [Workers -> {"select", "notify", "update", "exited"}]
      /\ todo \in [Workers -> SUBSET Observers]
      /\ pc[w] = "notify"
      /\ pc' = [pc EXCEPT ![w] = "update"]
      /\ todo' = [todo EXCEPT ![w] = observers]
      /\ UNCHANGED <<observers, event, finished, owed, updates>>
  BY DEF Snapshot, At, Goto, TypeOK, history
<1>2. \A v \in Workers, e \in Events :
         Notifying(v, e)' <=> Notifying(v, e) \/ (v = w /\ e = event[w])
  BY <1>1 DEF Notifying
<1>3. Holds(w, event[w])
  BY <1>1 DEF Holds
<1>4. \A o \in Observers : event[w] \in Events => updates[event[w]][o] = 0
  <2>1. ASSUME event[w] \in Events
        PROVE  event[w] \notin finished /\ \A v \in Workers : ~Notifying(v, event[w])
    <3>1. event[w] \notin finished
      BY <2>1, <1>3 DEF Conservation, OnePlace, Held
    <3>2. ASSUME NEW v \in Workers, Notifying(v, event[w]) PROVE FALSE
      <4>1. Holds(v, event[w])
        BY <3>2 DEF Holds, Notifying
      <4>2. v = w
        BY <4>1, <1>3, <2>1 DEF Conservation, OnePlace
      <4>3. QED
        BY <4>2, <3>2, <1>1 DEF Notifying
    <3>3. QED
      BY <3>1, <3>2
  <2>2. QED
    BY <2>1 DEF Delivery, Untouched
<1>5. Halfway'
  <2> SUFFICES ASSUME NEW v \in Workers, NEW e \in Events, NEW o \in Observers,
                      Notifying(v, e)'
               PROVE  /\ o \in todo'[v] => updates[e][o] = 0
                      /\ o \in owed[e] \ todo'[v] => updates[e][o] = 1
    BY <1>1 DEF Halfway
  <2>1. CASE v = w
    <3>1. e = event[w] /\ todo'[v] = observers
      BY <2>1, <1>1 DEF Notifying
    <3>2. o \notin owed[e] \ todo'[v]
      BY <3>1 DEF Delivery, OwedAreSubscribed
    <3>3. QED
      BY <3>1, <3>2, <1>4
  <2>2. CASE v # w
    BY <2>2, <1>1, <1>2 DEF Delivery, Halfway
  <2>3. QED
    BY <2>1, <2>2
<1>6. Untouched'
  BY <1>1, <1>2 DEF Delivery, Untouched
<1>7. QED
  BY <1>1, <1>5, <1>6 DEF Delivery, OwedAreSubscribed, AtMostOnce, FanoutComplete

\* The observer called has had nothing of the event, and the worker that
\* calls is the only one with the event.
LEMMA UpdateDelivers ==
    ASSUME TypeOK, Conservation, Delivery,
           NEW w \in Workers, NEW o \in Observers, Update(w, o)
    PROVE  Delivery'
<1> DEFINE e == event[w]
<1>1. /\ todo \in [Workers -> SUBSET Observers]
      /\ updates \in [Events -> [Observers -> Nat]]
      /\ pc[w] = "update" /\ o \in todo[w]
      /\ todo' = [todo EXCEPT ![w] = @ \ {o}]
      /\ UNCHANGED <<observers, pc, event, finished, owed>>
  BY DEF Update, At, TypeOK
<1>2. \A v \in Workers, f \in Events : Notifying(v, f)' <=> Notifying(v, f)
  BY <1>1 DEF Notifying
<1>3. CASE e = ZeroEvent
  <2>1. updates' = updates
    BY <1>3 DEF Update, Count
  <2>2. \A v \in Workers, f \in Events : Notifying(v, f) => v # w
    BY <1>3, SubjectAssumption DEF Notifying, SubjectAssumption
  <2>3. Halfway'
    BY <1>1, <1>2, <2>1, <2>2 DEF Delivery, Halfway
  <2>4. QED
    BY <1>1, <1>2, <2>1, <2>3
    DEF Delivery, Untouched, OwedAreSubscribed, AtMostOnce, FanoutComplete
<1>4. CASE e # ZeroEvent
  <2>1. e \in Events /\ Notifying(w, e) /\ Holds(w, e)
    BY <1>1, <1>4 DEF TypeOK, Notifying, Holds
  <2>2. \A f \in Events, p \in Observers :
           updates'[f][p] = IF f = e /\ p = o THEN updates[f][p] + 1 ELSE updates[f][p]
    BY <1>1, <1>4, <2>1 DEF Update, Count
  <2>3. updates[e][o] = 0
    BY <1>1, <2>1 DEF Delivery, Halfway
  <2>4. e \notin finished /\ \A v \in Workers : Notifying(v, e) => v = w
    BY <2>1 DEF Conservation, OnePlace, Held, Holds, Notifying
  <2>5. Untouched'
    BY <1>1, <1>2, <2>1, <2>2 DEF Delivery, Untouched
  <2>6. Halfway'
    <3> SUFFICES ASSUME NEW v \in Workers, NEW f \in Events, NEW p \in Observers,
                        Notifying(v, f)
                 PROVE  /\ p \in todo'[v] => updates'[f][p] = 0
                        /\ p \in owed[f] \ todo'[v] => updates'[f][p] = 1
      BY <1>1, <1>2 DEF Halfway
    <3>1. /\ p \in todo[v] => updates[f][p] = 0
          /\ p \in owed[f] \ todo[v] => updates[f][p] = 1
      BY DEF Delivery, Halfway
    <3>2. CASE v = w
      <4>1. f = e /\ todo'[v] = todo[w] \ {o}
        BY <3>2, <1>1 DEF Notifying
      <4>2. QED
        BY <3>1, <3>2, <4>1, <2>2, <2>3
    <3>3. CASE v # w
      <4>1. f # e /\ todo'[v] = todo[v]
        BY <3>3, <1>1, <2>4
      <4>2. QED
        BY <3>1, <4>1, <2>2
    <3>4. QED
      BY <3>2, <3>3
  <2>7. AtMostOnce'
    BY <2>2, <2>3 DEF Delivery, AtMostOnce
  <2>8. FanoutComplete'
    <3>1. \A f \in finished : f \in Events /\ f # e
      BY <2>4 DEF TypeOK
    <3>2. \A f \in finished, p \in Observers : updates'[f][p] = updates[f][p]
      BY <2>2, <3>1
    <3>3. QED
      BY <1>1, <3>2 DEF Delivery, FanoutComplete
  <2>9. QED
    BY <1>1, <2>5, <2>6, <2>7, <2>8 DEF Delivery, OwedAreSubscribed
<1>5. QED
  BY <1>3, <1>4

\* When Notify returns nobody is left to call.
LEMMA ReturnDelivers ==
    ASSUME TypeOK, Conservation, Delivery, NEW w \in Workers, Return(w)
    PROVE  Delivery'
<1>1. /\ pc \in [Workers -> {"select", "notify", "update", "exited"}]
      /\ finished \subseteq Events
      /\ pc[w] = "update" /\ todo[w] = {}
      /\ pc' = [pc EXCEPT ![w] = "select"]
      /\ finished' = finished \cup ({event[w]} \ {ZeroEvent})
      /\ UNCHANGED <<observers, event, todo, owed, updates>>
  BY DEF Return, At, Goto, TypeOK
<1>2. \A v \in Workers, f \in Events :
         Notifying(v, f)' <=> Notifying(v, f) /\ v # w
  BY <1>1 DEF Notifying
<1>3. \A f \in Events : f \in finished' <=> f \in finished \/ f = event[w]
  BY <1>1, SubjectAssumption DEF SubjectAssumption
<1>4. \A o \in Observers : event[w] \in Events /\ o \in owed[event[w]]
                              => updates[event[w]][o] = 1
  BY <1>1 DEF Delivery, Halfway, Notifying
<1>5. FanoutComplete'
  BY <1>1, <1>4 DEF Delivery, FanoutComplete, TypeOK
<1>6. Untouched'
  <2> SUFFICES ASSUME NEW f \in Events, f \notin finished', NEW o \in Observers,
                      \A v \in Workers : ~Notifying(v, f)'
               PROVE  updates[f][o] = 0
    BY <1>1 DEF Untouched
  <2>1. f \notin finished /\ f # event[w]
    BY <1>3
  <2>2. \A v \in Workers : ~Notifying(v, f)
    BY <1>2, <2>1 DEF Notifying
  <2>3. QED
    BY <2>1, <2>2 DEF Delivery, Untouched
<1>7. Halfway'
  BY <1>1, <1>2 DEF Delivery, Halfway
<1>8. QED
  BY <1>1, <1>5, <1>6, <1>7 DEF Delivery, OwedAreSubscribed, AtMostOnce

\* The record of deliveries is right in every state.
LEMMA DeliveryInvariant == Spec => []Delivery
<1>1. Init => Delivery
  BY DEF Init, Delivery, Untouched, Halfway, OwedAreSubscribed, AtMostOnce,
         FanoutComplete, Notifying
<1>2. TypeOK /\ Conservation /\ Delivery /\ [Next]_vars => Delivery'
  <2> SUFFICES ASSUME TypeOK, Conservation, Delivery, [Next]_vars PROVE Delivery'
    OBVIOUS
  <2>0. \A e \in Events : owed[e] \subseteq observers
    BY DEF Delivery, OwedAreSubscribed
  <2>1. ASSUME NEW o \in Observers, Subscribe(o) PROVE Delivery'
    BY <2>0, <2>1, DeliveryKept DEF Subscribe, control, history, Notifying
  <2>2. ASSUME NEW o \in Observers, Unsubscribe(o) PROVE Delivery'
    <3>1. /\ \A e \in Events : owed'[e] = owed[e] \ {o}
          /\ observers' = observers \ {o}
          /\ UNCHANGED <<pc, event, todo, finished, updates>>
      BY <2>2 DEF Unsubscribe, control
    <3>2. QED
      BY <2>0, <3>1, DeliveryKept DEF Notifying
  <2>3. ASSUME NEW e \in Events, Enqueue(e) PROVE Delivery'
    BY <2>3, EnqueueDelivers
  <2>4. ASSUME NEW e \in Events, Discard(e) \/ Drop(e) \/ SendPanic(e) PROVE Delivery'
    BY <2>0, <2>4, DeliveryKept DEF Discard, Drop, SendPanic, control, history, Notifying
  <2>5. ASSUME NEW w \in Workers, Receive(w) \/ ReceiveZero(w) \/ Exit(w) PROVE Delivery'
    <3>1. /\ \A v \in Workers, e \in Events : Notifying(v, e)' <=> Notifying(v, e)
          /\ UNCHANGED <<observers, todo, finished, owed, updates>>
      BY <2>5 DEF Receive, ReceiveZero, Exit, At, Goto, Notifying, TypeOK, history
    <3>2. QED
      BY <2>0, <3>1, DeliveryKept
  <2>6. ASSUME NEW w \in Workers, Snapshot(w) PROVE Delivery'
    BY <2>6, SnapshotDelivers
  <2>7. ASSUME NEW w \in Workers, NEW o \in Observers, Update(w, o) PROVE Delivery'
    BY <2>7, UpdateDelivers
  <2>8. ASSUME NEW w \in Workers, Return(w) PROVE Delivery'
    BY <2>8, ReturnDelivers
  <2>9. CASE Cancel \/ Close \/ Wait
    BY <2>0, <2>9, DeliveryKept DEF Cancel, Close, Wait, history, Notifying
  <2>10. CASE UNCHANGED vars
    BY <2>0, <2>10, DeliveryKept DEF vars, control, history, Notifying
  <2>11. QED
    BY <2>1, <2>2, <2>3, <2>4, <2>5, <2>6, <2>7, <2>8, <2>9, <2>10
    DEF Next, NotifyAsync, Work
<1>3. QED
  BY <1>1, <1>2, TypeCorrect, EventsConserved, PTL DEF Spec

\* No observer is handed an event twice, however many workers there are and
\* however often observers come and go.
THEOREM DeliveredAtMostOnce == Spec => []AtMostOnce
<1>1. Delivery => AtMostOnce
  BY DEF Delivery
<1>2. QED
  BY <1>1, DeliveryInvariant, PTL

\* An event is finished only when every observer subscribed since its
\* acceptance has been handed it.
THEOREM FanoutIsComplete == Spec => []FanoutComplete
<1>1. Delivery => FanoutComplete
  BY DEF Delivery
<1>2. QED
  BY <1>1, DeliveryInvariant, PTL

-----------------------------------------------------------------------------
(* Shutdown *)

\* How far Shutdown has come, and what that says of the context, the channel
\* and the workers.
ShutdownStage ==
    /\ cancelled <=> shutdown # "idle"
    /\ closed <=> shutdown \in {"wait", "returned"}
    /\ shutdown = "returned" => \A w \in Workers : pc[w] = "exited"

\* It says so truly in every state.
LEMMA StageInvariant == Spec => []ShutdownStage
<1>1. Init => ShutdownStage
  BY DEF Init, ShutdownStage
<1>2. TypeOK /\ ShutdownStage /\ [Next]_vars => ShutdownStage'
  <2> SUFFICES ASSUME TypeOK, ShutdownStage, [Next]_vars PROVE ShutdownStage'
    OBVIOUS
  <2> USE DEF ShutdownStage, control, history
  <2>1. ASSUME NEW o \in Observers, Subscribe(o) \/ Unsubscribe(o) PROVE ShutdownStage'
    BY <2>1 DEF Subscribe, Unsubscribe
  <2>2. ASSUME NEW e \in Events, NotifyAsync(e) PROVE ShutdownStage'
    BY <2>2 DEF NotifyAsync, Enqueue, Discard, Drop, SendPanic
  <2>3. ASSUME NEW w \in Workers, Receive(w) \/ ReceiveZero(w) \/ Snapshot(w) \/ Return(w)
        PROVE  ShutdownStage'
    BY <2>3 DEF Receive, ReceiveZero, Snapshot, Return, At
  <2>4. ASSUME NEW w \in Workers, NEW o \in Observers, Update(w, o) PROVE ShutdownStage'
    BY <2>4 DEF Update
  <2>5. ASSUME NEW w \in Workers, Exit(w) PROVE ShutdownStage'
    BY <2>5 DEF Exit, At, Goto, TypeOK
  <2>6. CASE Cancel \/ Close \/ Wait
    BY <2>6 DEF Cancel, Close, Wait
  <2>7. CASE UNCHANGED vars
    BY <2>7 DEF vars
  <2>8. QED
    BY <2>1, <2>2, <2>3, <2>4, <2>5, <2>6, <2>7 DEF Next, Work
<1>3. QED
  BY <1>1, <1>2, TypeCorrect, PTL DEF Spec

\* After Shutdown has returned no observer is called and the channel does not
\* change any more.
THEOREM ShutdownQuiet == Spec => QuietAfterShutdown
<1>1. TypeOK /\ ShutdownStage /\ [Next]_vars
         => [shutdown = "returned" => UNCHANGED <<updates, finished, eventChannel>>]_vars
  <2> SUFFICES ASSUME TypeOK, ShutdownStage, Next, shutdown = "returned"
               PROVE  UNCHANGED <<updates, finished, eventChannel>>
    OBVIOUS
  <2>1. closed /\ \A w \in Workers : pc[w] = "exited"
    BY DEF ShutdownStage
  <2>2. \A w \in Workers : ~Work(w)
    BY <2>1 DEF Work, Receive, ReceiveZero, Snapshot, Update, Return, Exit, At
  <2>3. ASSUME NEW o \in Observers, Subscribe(o) \/ Unsubscribe(o)
        PROVE  UNCHANGED <<updates, finished, eventChannel>>
    BY <2>3 DEF Subscribe, Unsubscribe, control, history
  <2>4. ASSUME NEW e \in Events, NotifyAsync(e)
        PROVE  UNCHANGED <<updates, finished, eventChannel>>
    BY <2>1, <2>4 DEF NotifyAsync, Enqueue, Discard, Drop, SendPanic, control, history
  <2>5. QED
    BY <2>2, <2>3, <2>4 DEF Next, Cancel, Close, Wait, history
<1>2. QED
  BY <1>1, StageInvariant, TypeCorrect, PTL DEF Spec, QuietAfterShutdown

-----------------------------------------------------------------------------
(* The dispatcher implements NotificationPromise. *)

Good ==
    /\ TypeOK
    /\ Conservation
    /\ Delivery
    /\ ShutdownStage

\* The status of an event follows from the place it is in.
LEMMA StatusPlaces ==
    ASSUME Good, NEW e \in Events
    PROVE  /\ StatusOf(e) = "new" <=> outcome[e] = "uncalled"
           /\ StatusOf(e) = "waiting" <=> InChannel(e)
           /\ StatusOf(e) = "notifying" <=> Held(e)
           /\ StatusOf(e) = "done" <=> e \in finished
BY DEF Good, TypeOK, Conservation, NothingLost, OnePlace, StatusOf

\* The promise counts as the channel does.
LEMMA SameCardinality == \A S : Promise!Cardinality(S) = Cardinality(S)
BY DEF Promise!Cardinality, Cardinality

\* As many events wait as the channel holds: none is in it twice.
LEMMA WaitingIsChannel ==
    ASSUME Good
    PROVE  Promise!Cardinality(Promise!Waiting) = Len(eventChannel)
<1> DEFINE n == Len(eventChannel)
           place == [i \in 1..n |-> eventChannel[i]]
<1>1. eventChannel \in Seq(Events) /\ n \in Nat /\ \A i \in 1..n : eventChannel[i] \in Events
      BY LenProperties, ElementOfSeq DEF Good, TypeOK
<1>2. Promise!Waiting = {e \in Events : InChannel(e)}
      BY StatusPlaces DEF Promise!Waiting
<1>3. place \in Bijection(1..n, Promise!Waiting)
  <2>1. place \in Injection(1..n, Promise!Waiting)
        BY <1>1, <1>2 DEF Injection, IsInjective, Good, Conservation, OnePlace, InChannel
  <2>2. place \in Surjection(1..n, Promise!Waiting)
        BY <1>1, <1>2 DEF Surjection, InChannel
  <2> QED
      BY <2>1, <2>2 DEF Bijection
<1>4. IsFiniteSet(1..n) /\ Cardinality(1..n) = n
      BY <1>1, FS_Interval
<1> QED
    BY <1>3, <1>4, FS_Bijection, SameCardinality DEF ExistsBijection

-----------------------------------------------------------------------------
(* Initial states and stuttering *)

\* An open dispatcher to which nothing has been submitted.
LEMMA InitMaps == Init => Promise!Init
BY DEF Init, Promise!Init, StatusOf, HandedTo, Phase

\* What nobody outside can see.
LEMMA Hidden ==
    ASSUME \A e \in Events : StatusOf(e)' = StatusOf(e),
           \A e \in Events : HandedTo(e)' = HandedTo(e),
           Phase' = Phase
    PROVE  UNCHANGED Promise!vars
BY DEF Promise!vars

\* A step that moves no event and hands none to anybody.
LEMMA Stutters ==
    ASSUME UNCHANGED <<outcome, finished, updates, Phase>>,
           \A e \in Events : Held(e)' <=> Held(e)
    PROVE  UNCHANGED Promise!vars
<1>1. ASSUME NEW e \in Events PROVE StatusOf(e)' = StatusOf(e)
      BY DEF StatusOf
<1>2. ASSUME NEW e \in Events PROVE HandedTo(e)' = HandedTo(e)
      BY DEF HandedTo
<1> QED
    BY <1>1, <1>2, Hidden

-----------------------------------------------------------------------------
(* NotifyAsync *)

\* The outcome of a call is all that it changes for others.
LEMMA EnqueueMaps ==
    ASSUME Good, NEW e \in Events, Enqueue(e)
    PROVE  Promise!Accept(e)
<1>1. /\ ~crashed /\ ~closed /\ outcome[e] = "uncalled" /\ Len(eventChannel) < Capacity
      /\ outcome' = [outcome EXCEPT ![e] = "accepted"]
      /\ UNCHANGED <<pc, event, shutdown, crashed, finished, updates>>
      BY DEF Enqueue, Record
<1>2. outcome \in [Events -> {"uncalled", "accepted", "discarded", "dropped"}]
      BY DEF Good, TypeOK
<1>3. e \notin finished /\ ~Held(e) /\ \A f \in Events : Held(f)' <=> Held(f)
      BY <1>1 DEF Good, Conservation, NothingLost, Held, Holds
<1>4. StatusOf(e) = "new" /\ StatusOf(e)' = "waiting"
      BY <1>1, <1>2, <1>3 DEF StatusOf
<1>5. ASSUME NEW f \in Events, f # e PROVE StatusOf(f)' = StatusOf(f)
      BY <1>1, <1>2, <1>3, <1>5 DEF StatusOf
<1>6. Promise!Alive /\ Phase' = Phase
      BY <1>1 DEF Promise!Alive, Phase, Good, ShutdownStage, TypeOK
<1>7. \A f \in Events : HandedTo(f)' = HandedTo(f)
      BY <1>1 DEF HandedTo
<1>8. Promise!Cardinality(Promise!Waiting) < Capacity
      BY <1>1, WaitingIsChannel
<1> QED
    BY <1>4, <1>5, <1>6, <1>7, <1>8 DEF Promise!Accept, Promise!Move

LEMMA RefusalMaps ==
    ASSUME Good, NEW e \in Events, Discard(e) \/ Drop(e)
    PROVE  Promise!Refuse(e)
<1>1. /\ outcome[e] = "uncalled"
      /\ \/ outcome' = [outcome EXCEPT ![e] = "discarded"]
         \/ outcome' = [outcome EXCEPT ![e] = "dropped"]
      /\ UNCHANGED <<pc, event, shutdown, crashed, finished, updates>>
      /\ cancelled \/ Len(eventChannel) = Capacity
      BY DEF Discard, Drop, Record, control
<1>2. outcome \in [Events -> {"uncalled", "accepted", "discarded", "dropped"}]
      BY DEF Good, TypeOK
<1>3. \A f \in Events : Held(f)' <=> Held(f)
      BY <1>1 DEF Held, Holds
<1>4. StatusOf(e) = "new" /\ StatusOf(e)' = "refused"
      BY <1>1, <1>2 DEF StatusOf
<1>5. ASSUME NEW f \in Events, f # e PROVE StatusOf(f)' = StatusOf(f)
      BY <1>1, <1>2, <1>3, <1>5 DEF StatusOf
<1>6. Phase' = Phase /\ (Phase = "open" => ~cancelled)
      BY <1>1 DEF Phase, Good, ShutdownStage
<1>7. \A f \in Events : HandedTo(f)' = HandedTo(f)
      BY <1>1 DEF HandedTo
<1>8. Phase = "open" => Promise!Cardinality(Promise!Waiting) = Capacity
      BY <1>1, <1>6, WaitingIsChannel
<1> QED
    BY <1>4, <1>5, <1>6, <1>7, <1>8 DEF Promise!Refuse, Promise!Move

LEMMA PanicMaps ==
    ASSUME Good, NEW e \in Events, SendPanic(e)
    PROVE  Promise!Crash
<1>1. /\ ~crashed /\ closed /\ crashed'
      /\ UNCHANGED <<pc, event, outcome, finished, updates>>
      BY DEF SendPanic, history
<1>2. \A f \in Events : StatusOf(f)' = StatusOf(f) /\ HandedTo(f)' = HandedTo(f)
      BY <1>1 DEF StatusOf, HandedTo, Held, Holds
<1>3. Phase \in {"closing", "stopped"} /\ Phase' = "crashed"
      BY <1>1 DEF Phase, Good, ShutdownStage
<1> QED
    BY <1>2, <1>3 DEF Promise!Crash

-----------------------------------------------------------------------------
(* The workers *)

\* A worker that is not through with its loop has not been waited for.
LEMMA WorkersAlive ==
    ASSUME Good, NEW w \in Workers, ~crashed, pc[w] # "exited"
    PROVE  Promise!Alive
BY DEF Promise!Alive, Phase, Good, ShutdownStage, TypeOK

LEMMA ReceiveMaps ==
    ASSUME Good, NEW w \in Workers, Receive(w)
    PROVE  \E e \in Events : Promise!Start(e)
<1> DEFINE e == Head(eventChannel)
<1>1. /\ ~crashed /\ pc[w] = "select" /\ eventChannel # <<>>
      /\ event' = [event EXCEPT ![w] = e]
      /\ pc' = [pc EXCEPT ![w] = "notify"]
      /\ UNCHANGED <<shutdown, crashed, outcome, finished, updates>>
      BY DEF Receive, At, Goto, history
<1>2. e \in Events /\ e = eventChannel[1] /\ 1 \in 1..Len(eventChannel)
      BY <1>1, TailPlaces DEF Good, TypeOK
<1>3. InChannel(e)
      BY <1>2 DEF InChannel
<1>4. PICK f \in Events : f = e
      BY <1>2
<1>5. outcome[f] = "accepted" /\ f \notin finished /\ StatusOf(f) = "waiting"
      BY <1>3, <1>4, StatusPlaces DEF Good, Conservation, NothingLost, OnePlace
<1>6. \A g \in Events : Held(g)' <=> Held(g) \/ g = f
      BY <1>1, <1>4 DEF Held, Holds, Good, TypeOK
<1>7. StatusOf(f)' = "notifying"
      BY <1>1, <1>5, <1>6 DEF StatusOf
<1>8. ASSUME NEW g \in Events, g # f PROVE StatusOf(g)' = StatusOf(g)
      BY <1>1, <1>6, <1>8 DEF StatusOf
<1>9. \A g \in Events : HandedTo(g)' = HandedTo(g)
      BY <1>1 DEF HandedTo
<1>10. Promise!Alive /\ Phase' = Phase
      BY <1>1, WorkersAlive DEF Phase
<1> QED
    BY <1>5, <1>7, <1>8, <1>9, <1>10 DEF Promise!Start, Promise!Move

\* The observer has nothing of the event, because it is still to do.
LEMMA UpdateMaps ==
    ASSUME Good, NEW w \in Workers, NEW o \in Observers, Update(w, o)
    PROVE  (\E e \in Events : Promise!HandTo(e, o)) \/ UNCHANGED Promise!vars
<1>1. /\ ~crashed /\ pc[w] = "update" /\ o \in todo[w]
      /\ UNCHANGED <<pc, event, shutdown, crashed, outcome, finished>>
      /\ Count(event[w], o)
      /\ Phase' = Phase
      BY DEF Update, At, Phase
<1>2. \A g \in Events : StatusOf(g)' = StatusOf(g)
      BY <1>1 DEF StatusOf, Held, Holds
<1>3. CASE event[w] = ZeroEvent
  <2>1. \A g \in Events : HandedTo(g)' = HandedTo(g)
        BY <1>1, <1>3 DEF HandedTo, Count
  <2> QED
      BY <1>1, <1>2, <2>1, Hidden
<1>4. CASE event[w] # ZeroEvent
  <2>1. PICK e \in Events : e = event[w]
        BY <1>4 DEF Good, TypeOK
  <2>2. updates' = [updates EXCEPT ![e][o] = updates[e][o] + 1]
        BY <1>1, <1>4, <2>1 DEF Count
  <2>3. updates \in [Events -> [Observers -> Nat]] /\ updates[e][o] = 0
        BY <1>1, <2>1 DEF Good, TypeOK, Delivery, Halfway, Notifying
  <2>4. HandedTo(e)' = HandedTo(e) \cup {o} /\ o \notin HandedTo(e)
        BY <2>2, <2>3 DEF HandedTo
  <2>5. ASSUME NEW g \in Events, g # e PROVE HandedTo(g)' = HandedTo(g)
        BY <2>2, <2>3, <2>5 DEF HandedTo
  <2>6. StatusOf(e) = "notifying"
        BY <1>1, <2>1, StatusPlaces DEF Held, Holds
  <2>7. Promise!Alive
        BY <1>1, WorkersAlive
  <2>8. Promise!HandTo(e, o)
        BY <1>1, <1>2, <2>4, <2>5, <2>6, <2>7 DEF Promise!HandTo
  <2> QED
      BY <2>8
<1> QED
    BY <1>3, <1>4

LEMMA ReturnMaps ==
    ASSUME Good, NEW w \in Workers, Return(w)
    PROVE  (\E e \in Events : Promise!Finish(e)) \/ UNCHANGED Promise!vars
<1>1. /\ ~crashed /\ pc[w] = "update"
      /\ finished' = finished \cup ({event[w]} \ {ZeroEvent})
      /\ pc' = [pc EXCEPT ![w] = "select"]
      /\ UNCHANGED <<event, shutdown, crashed, outcome, updates>>
      /\ Phase' = Phase
      BY DEF Return, At, Goto, Phase
<1>2. \A g \in Events : HandedTo(g)' = HandedTo(g)
      BY <1>1 DEF HandedTo
<1>3. /\ pc \in [Workers -> {"select", "notify", "update", "exited"}]
      /\ ZeroEvent \notin Events
      BY SubjectAssumption DEF Good, TypeOK
<1>4. CASE event[w] = ZeroEvent
  <2>1. \A g \in Events : Held(g)' <=> Held(g)
        BY <1>1, <1>3, <1>4 DEF Held, Holds
  <2> QED
      BY <1>1, <1>4, <2>1, Stutters
<1>5. CASE event[w] # ZeroEvent
  <2>1. PICK e \in Events : e = event[w]
        BY <1>5 DEF Good, TypeOK
  <2>2. Holds(w, e) /\ Held(e)
        BY <1>1, <2>1 DEF Held, Holds
  <2>3. StatusOf(e) = "notifying" /\ outcome[e] = "accepted"
        BY <2>2, StatusPlaces DEF Good, Conservation, NothingLost
  <2>4. StatusOf(e)' = "done"
        BY <1>1, <1>5, <2>1, <2>3 DEF StatusOf
  <2>5. ASSUME NEW g \in Events, g # e PROVE StatusOf(g)' = StatusOf(g)
    <3>1. Held(g)' <=> Held(g)
          BY <1>1, <1>3, <2>1, <2>5 DEF Held, Holds
    <3>2. g \in finished' <=> g \in finished
          BY <1>1, <2>1, <2>5
    <3> QED
        BY <1>1, <3>1, <3>2 DEF StatusOf
  <2>6. Promise!Alive
        BY <1>1, WorkersAlive
  <2>7. Promise!Finish(e)
        BY <1>1, <1>2, <2>3, <2>4, <2>5, <2>6 DEF Promise!Finish, Promise!Move
  <2> QED
      BY <2>7
<1> QED
    BY <1>4, <1>5

\* The zero event, the snapshot and the way out are nobody's business.
LEMMA InsideMaps ==
    ASSUME Good, NEW w \in Workers, ReceiveZero(w) \/ Snapshot(w) \/ Exit(w)
    PROVE  UNCHANGED Promise!vars
<1>1. UNCHANGED <<outcome, finished, updates, shutdown, crashed>>
      BY DEF ReceiveZero, Snapshot, Exit, history
<1>2. \A e \in Events : Held(e)' <=> Held(e)
      BY SubjectAssumption
         DEF ReceiveZero, Snapshot, Exit, At, Goto, Held, Holds, Good, TypeOK
<1> QED
    BY <1>1, <1>2, Stutters DEF Phase

-----------------------------------------------------------------------------
(* Shutdown *)

\* It closes the dispatcher, goes on, and stops it when no worker holds an event.
LEMMA ShutdownMaps ==
    ASSUME Good, Cancel \/ Close \/ Wait
    PROVE  Promise!Close \/ Promise!Stop \/ UNCHANGED Promise!vars
<1>1. /\ ~crashed /\ UNCHANGED <<pc, event, crashed, outcome, finished, updates>>
      BY DEF Cancel, Close, Wait, history
<1>2. \A e \in Events : Held(e)' <=> Held(e)
      BY <1>1 DEF Held, Holds
<1>3. \A e \in Events : StatusOf(e)' = StatusOf(e) /\ HandedTo(e)' = HandedTo(e)
      BY <1>1, <1>2 DEF StatusOf, HandedTo
<1>4. CASE Cancel
  <2>1. Phase = "open" /\ Phase' = "closing"
        BY <1>1, <1>4 DEF Cancel, Phase
  <2> QED
      BY <1>3, <2>1 DEF Promise!Close
<1>5. CASE Close
  <2>1. Phase' = Phase
        BY <1>1, <1>5 DEF Close, Phase
  <2> QED
      BY <1>3, <2>1, Hidden
<1>6. CASE Wait
  <2>1. Phase = "closing" /\ Phase' = "stopped"
        BY <1>1, <1>6 DEF Wait, Phase
  <2>2. \A e \in Events : StatusOf(e) # "notifying"
        BY <1>6, StatusPlaces DEF Wait, Held, Holds
  <2> QED
      BY <1>3, <2>1, <2>2 DEF Promise!Stop
<1> QED
    BY <1>4, <1>5, <1>6

-----------------------------------------------------------------------------

\* Every step of the dispatcher is a step of the promise, or none that it knows.
LEMMA StepMaps == Good /\ [Next]_vars => [Promise!Next]_(Promise!vars)
<1> SUFFICES ASSUME Good, [Next]_vars
             PROVE  Promise!Next \/ UNCHANGED Promise!vars
    OBVIOUS
<1>1. ASSUME NEW o \in Observers, Subscribe(o) \/ Unsubscribe(o)
      PROVE  UNCHANGED Promise!vars
      BY <1>1, Stutters DEF Subscribe, Unsubscribe, control, history, Held, Holds, Phase
<1>2. ASSUME NEW e \in Events, NotifyAsync(e)
      PROVE  Promise!Accept(e) \/ Promise!Refuse(e) \/ Promise!Crash
      BY <1>2, EnqueueMaps, RefusalMaps, PanicMaps DEF NotifyAsync
<1>3. ASSUME NEW w \in Workers, Work(w)
      PROVE  \/ \E e \in Events : \/ Promise!Start(e)
                                  \/ \E o \in Observers : Promise!HandTo(e, o)
                                  \/ Promise!Finish(e)
             \/ UNCHANGED Promise!vars
  <2>1. CASE Receive(w)
        BY <2>1, ReceiveMaps
  <2>2. ASSUME NEW o \in Observers, Update(w, o)
        PROVE  (\E e \in Events : Promise!HandTo(e, o)) \/ UNCHANGED Promise!vars
        BY <2>2, UpdateMaps
  <2>3. CASE Return(w)
        BY <2>3, ReturnMaps
  <2>4. CASE ReceiveZero(w) \/ Snapshot(w) \/ Exit(w)
        BY <2>4, InsideMaps
  <2> QED
      BY <1>3, <2>1, <2>2, <2>3, <2>4 DEF Work
<1>4. CASE Cancel \/ Close \/ Wait
      BY <1>4, ShutdownMaps DEF Promise!Next
<1>5. CASE UNCHANGED vars
      BY <1>5, Stutters DEF vars, control, history, Held, Holds, Phase
<1>6. CASE Next
  <2>1. CASE \E o \in Observers : Subscribe(o) \/ Unsubscribe(o)
        BY <1>1, <2>1
  <2>2. CASE \E e \in Events : NotifyAsync(e)
        BY <1>2, <2>2 DEF Promise!Next
  <2>3. CASE \E w \in Workers : Work(w)
        BY <1>3, <2>3 DEF Promise!Next
  <2> QED
      BY <1>4, <1>6, <2>1, <2>2, <2>3 DEF Next
<1> QED
    BY <1>5, <1>6

\* Whoever uses the dispatcher may rely on NotificationPromise and forget the
\* channel, the workers and the races between them.
THEOREM PromiseKept == Spec => KeepsPromise
<1>1. TypeOK /\ Conservation /\ Delivery /\ ShutdownStage => Good
      BY DEF Good
<1> QED
    BY <1>1, InitMaps, StepMaps, TypeCorrect, EventsConserved, DeliveryInvariant,
       StageInvariant, PTL DEF Spec, KeepsPromise, Promise!Spec
=============================================================================
