------------------------------ MODULE ChatHub ------------------------------
(***************************************************************************)
(* The streams of internal/chat/handler/chat_handler.go.  Every stream of  *)
(* StreamMessages has a goroutine that receives messages, registers the    *)
(* stream under the conversation of its first message, saves each message  *)
(* and broadcasts it; SendMessages saves and broadcasts one message.  The  *)
(* stream's own handler waits for the end of its context, then reads the   *)
(* conversation that the goroutine has named, and removes the stream.      *)
(*                                                                         *)
(* The registry maps a conversation to a Go slice, and what goes wrong in  *)
(* it lies in how slices work: a slice is a length and a backing array,    *)
(* append writes into the array as long as its capacity lasts, and         *)
(* append(streams[:i], streams[i+1:]...) moves the rest of the streams     *)
(* down in the very array a broadcast may be walking through without the   *)
(* lock.  So arrays are modelled, and a broadcast holds a slice.           *)
(***************************************************************************)
EXTENDS Naturals, Sequences, FiniteSets

CONSTANTS
    Streams,        \* the calls of StreamMessages
    Calls,          \* the calls of SendMessages
    Conversations,  \* the conversation IDs other than ""
    NoID,           \* the empty conversation ID
    Inputs,         \* the conversation IDs that messages carry
    Nil,            \* an array slot that was never written, a value not read
    MaxMessages,    \* bound of the messages that are taken up
    MaxBroadcasts,  \* bound of the broadcasts that are begun
    MaxGone         \* bound of the streams whose client goes

IDs == Conversations \cup {NoID}

ASSUME HubAssumption ==
    /\ Streams \cap Calls = {}
    /\ NoID \notin Conversations
    /\ Inputs \subseteq IDs
    /\ Nil \notin Streams \cup IDs
    /\ MaxMessages \in Nat \ {0}
    /\ MaxBroadcasts \in Nat \ {0}
    /\ MaxGone \in Nat

Goroutines == Streams \cup Calls

VARIABLES
    arrays,          \* the backing arrays allocated for each conversation
    streams,         \* h.streams: the slice of each conversation
    live,            \* the streams whose context is not done
    returned,        \* the streams whose StreamMessages has returned
    conversationID,  \* the variable of that name, of each stream
    argument,        \* what StreamMessages has read of it for removeStream
    pc,              \* where each goroutine stands
    to,              \* the conversation of the message it handles
    stored,          \* that message is in the database
    taken,           \* how many messages have been taken up
    walk,            \* its broadcast: the slice, the next place, the stream
    begun,           \* how many broadcasts have begun
    \* The history, which no code reads:
    account,         \* what each broadcast owes and has done
    registrations,   \* how often each stream has set out to register
    late             \* the streams that registered when no removal was to come

registry == <<arrays, streams>>
clients  == <<live, returned, argument>>
message  == <<to, stored, taken, begun>>
history  == <<account, registrations, late>>
vars     == <<registry, clients, conversationID, pc, message, walk, history>>

Slice   == [array : Nat, len : Nat]
Empty   == [array |-> 0, len |-> 0]
NoWalk  == [slice |-> Empty, next |-> 1, target |-> Nil]

\* audience: the live streams registered when the broadcast began; reached:
\* how often it sent to each; removals: those from its conversation since.
NoAccount == [audience |-> {}, reached |-> [s \in Streams |-> 0], removals |-> 0]

TypeOK ==
    /\ \A c \in IDs : \A i \in DOMAIN arrays[c] :
          arrays[c][i] \in Seq(Streams \cup {Nil})
    /\ streams \in [IDs -> Slice]
    /\ \A c \in IDs :
          /\ streams[c].array \in 0..Len(arrays[c])
          /\ streams[c].array = 0 => streams[c].len = 0
          /\ streams[c].array > 0 => streams[c].len <= Len(arrays[c][streams[c].array])
    /\ live \in SUBSET Streams
    /\ returned \in SUBSET (Streams \ live)
    /\ conversationID \in [Streams -> IDs]
    /\ argument \in [Streams -> IDs \cup {Nil}]
    /\ pc \in [Goroutines -> {"recv", "register", "save", "send", "purge", "done"}]
    /\ to \in [Goroutines -> IDs]
    /\ stored \in [Goroutines -> BOOLEAN]
    /\ taken \in 0..MaxMessages
    /\ walk \in [Goroutines -> [slice : Slice, next : Nat, target : Streams \cup {Nil}]]
    /\ begun \in 0..MaxBroadcasts
    /\ account \in [Goroutines -> [audience : SUBSET Streams,
                                   reached : [Streams -> Nat],
                                   removals : Nat]]
    /\ registrations \in [Streams -> Nat]
    /\ late \in SUBSET Streams

Init ==
    /\ arrays = [c \in IDs |-> <<>>]
    /\ streams = [c \in IDs |-> Empty]
    /\ live = Streams
    /\ returned = {}
    /\ conversationID = [s \in Streams |-> NoID]
    /\ argument = [s \in Streams |-> Nil]
    /\ pc = [g \in Goroutines |-> "recv"]
    /\ to = [g \in Goroutines |-> NoID]
    /\ stored = [g \in Goroutines |-> FALSE]
    /\ taken = 0
    /\ walk = [g \in Goroutines |-> NoWalk]
    /\ begun = 0
    /\ account = [g \in Goroutines |-> NoAccount]
    /\ registrations = [s \in Streams |-> 0]
    /\ late = {}

-----------------------------------------------------------------------------
(* Slices *)

\* The i-th element of a slice of conversation c, as its array stands now.
Element(c, slice, i) == arrays[c][slice.array][i]

Registered(c) == {Element(c, streams[c], i) : i \in 1..streams[c].len}

Room(c) == IF streams[c].array = 0 THEN 0 ELSE Len(arrays[c][streams[c].array])

\* append(h.streams[c], s): in place while there is room, else in an array of
\* twice the size.
AppendStream(c, s) ==
    LET slice == streams[c]
        grown == [i \in 1..(IF slice.len = 0 THEN 1 ELSE 2 * slice.len) |->
                    IF i <= slice.len THEN Element(c, slice, i)
                    ELSE IF i = slice.len + 1 THEN s ELSE Nil]
    IN IF slice.len < Room(c)
       THEN /\ arrays' = [arrays EXCEPT ![c][slice.array][slice.len + 1] = s]
            /\ streams' = [streams EXCEPT ![c].len = @ + 1]
       ELSE /\ arrays' = [arrays EXCEPT ![c] = Append(@, grown)]
            /\ streams' = [streams EXCEPT ![c] =
                             [array |-> Len(arrays[c]) + 1, len |-> slice.len + 1]]

\* The history of the broadcasts to c after a removal.
CountRemoval(c) ==
    account' = [g \in Goroutines |->
                  IF pc[g] \in {"send", "purge"} /\ to[g] = c
                  THEN [account[g] EXCEPT !.removals = @ + 1] ELSE account[g]]

\* A removal that takes a place away even if the stream has none.
RemoveStreamBlindly(c, s) ==
    /\ streams' = [streams EXCEPT ![c].len = @ - 1]
    /\ CountRemoval(c)
    /\ UNCHANGED arrays

\* removeStream, which holds the lock: the first place of s is closed up in
\* the same array.  The copying of the elements is one step.
RemoveStream(c, s) ==
    LET slice  == streams[c]
        places == {i \in 1..slice.len : Element(c, slice, i) = s}
        first  == CHOOSE i \in places : \A j \in places : i <= j
        closed == [i \in 1..Room(c) |->
                     IF first <= i /\ i < slice.len THEN Element(c, slice, i + 1)
                     ELSE Element(c, slice, i)]
    IN IF places = {}
       THEN UNCHANGED <<arrays, streams, account>>
       ELSE /\ arrays' = [arrays EXCEPT ![c][slice.array] = closed]
            /\ streams' = [streams EXCEPT ![c].len = @ - 1]
            /\ CountRemoval(c)

-----------------------------------------------------------------------------
(* Taking up a message *)

Goto(g, label) == pc' = [pc EXCEPT ![g] = label]

Take(g, c) ==
    /\ pc[g] = "recv"
    /\ taken < MaxMessages
    /\ taken' = taken + 1
    /\ to' = [to EXCEPT ![g] = c]
    /\ UNCHANGED stored

\* A loop that takes every message's conversation for the stream's.
RecvAny(s, c) ==
    /\ Take(s, c)
    /\ conversationID' = [conversationID EXCEPT ![s] = c]
    /\ registrations' = [registrations EXCEPT ![s] = @ + 1]
    /\ Goto(s, "register")
    /\ UNCHANGED <<registry, clients, walk, begun, account, late>>

\* Recv returns a message; one sent before the client left may come after it.
\* The first one names the stream's conversation, but "" names none.  A Recv
\* that returns io.EOF or an error ends the goroutine: it stays at "recv".
Recv(s, c) ==
    /\ Take(s, c)
    /\ IF conversationID[s] = NoID
       THEN /\ conversationID' = [conversationID EXCEPT ![s] = c]
            /\ registrations' = [registrations EXCEPT ![s] = @ + 1]
            /\ Goto(s, "register")
       ELSE /\ UNCHANGED <<conversationID, registrations>>
            /\ Goto(s, "save")
    /\ UNCHANGED <<registry, clients, walk, begun, account, late>>

\* The client of s has gone, and StreamMessages has removed s already or is
\* about to remove it from another conversation.
TooLate(s) ==
    /\ s \notin live
    /\ s \in returned \/ argument[s] \notin {Nil, conversationID[s]}

Register(s) ==
    /\ pc[s] = "register"
    /\ AppendStream(conversationID[s], s)
    /\ late' = IF TooLate(s) THEN late \cup {s} ELSE late
    /\ Goto(s, "save")
    /\ UNCHANGED <<clients, conversationID, message, walk, account, registrations>>

SendMessages(call, c) ==
    /\ Take(call, c)
    /\ Goto(call, "save")
    /\ UNCHANGED <<registry, clients, conversationID, walk, begun, history>>

\* Back to Recv, or out of SendMessages: the message is behind it.
Resume(g) ==
    /\ Goto(g, IF g \in Streams THEN "recv" ELSE "done")
    /\ to' = [to EXCEPT ![g] = NoID]
    /\ stored' = [stored EXCEPT ![g] = FALSE]

\* What broadcastToStream does first: the slice is read under the lock, its
\* array is not copied.
BeginBroadcast(g) ==
    /\ begun < MaxBroadcasts
    /\ begun' = begun + 1
    /\ walk' = [walk EXCEPT ![g].slice = streams[to[g]]]
    /\ account' = [account EXCEPT ![g].audience = Registered(to[g]) \cap live]
    /\ Goto(g, "send")

\* chatService.SendMessage stores the message, and the broadcast begins.
Save(g) ==
    /\ pc[g] = "save"
    /\ to[g] # NoID
    /\ stored' = [stored EXCEPT ![g] = TRUE]
    /\ BeginBroadcast(g)
    /\ UNCHANGED <<registry, clients, conversationID, to, taken, registrations, late>>

\* The loop that only logs the failure.
SaveFailsOn(g) ==
    /\ pc[g] = "save"
    /\ BeginBroadcast(g)
    /\ UNCHANGED <<registry, clients, conversationID, to, stored, taken, registrations, late>>

\* A message without a conversation is not valid, and the database may fail.
SaveFails(g) ==
    /\ pc[g] = "save"
    /\ Resume(g)
    /\ UNCHANGED <<registry, clients, conversationID, taken, begun, walk, history>>

-----------------------------------------------------------------------------
(* broadcastToStream *)

\* One turn of the loop: Send succeeds as long as the stream's context lives.
Send(g) ==
    /\ pc[g] = "send"
    /\ walk[g].next <= walk[g].slice.len
    /\ LET s == Element(to[g], walk[g].slice, walk[g].next)
       IN  \/ /\ s \in live
              /\ account' = [account EXCEPT ![g].reached[s] = @ + 1]
              /\ walk' = [walk EXCEPT ![g].next = @ + 1]
              /\ UNCHANGED pc
           \/ /\ s \notin live
              /\ walk' = [walk EXCEPT ![g].target = s]
              /\ Goto(g, "purge")
              /\ UNCHANGED account
    /\ UNCHANGED <<registry, clients, conversationID, message, registrations, late>>

\* The broadcast that gives up at the first stream it cannot send to.
PurgeStops(g) ==
    /\ pc[g] = "purge"
    /\ RemoveStream(to[g], walk[g].target)
    /\ walk' = [walk EXCEPT ![g].next = walk[g].slice.len + 1, ![g].target = Nil]
    /\ Goto(g, "send")
    /\ UNCHANGED <<clients, conversationID, message, registrations, late>>

\* A stream that cannot be sent to is removed while the loop goes on.
Purge(g) ==
    /\ pc[g] = "purge"
    /\ RemoveStream(to[g], walk[g].target)
    /\ walk' = [walk EXCEPT ![g].next = @ + 1, ![g].target = Nil]
    /\ Goto(g, "send")
    /\ UNCHANGED <<clients, conversationID, message, registrations, late>>

BroadcastOver(g) == pc[g] = "send" /\ walk[g].next > walk[g].slice.len

BroadcastEnds(g) ==
    /\ BroadcastOver(g)
    /\ Resume(g)
    /\ walk' = [walk EXCEPT ![g] = NoWalk]
    /\ account' = [account EXCEPT ![g] = NoAccount]
    /\ UNCHANGED <<registry, clients, conversationID, taken, begun, registrations, late>>

-----------------------------------------------------------------------------
(* The end of a stream *)

\* The client is gone, or cancels.
ContextDone(s) ==
    /\ s \in live
    /\ Cardinality(Streams \ live) < MaxGone
    /\ live' = live \ {s}
    /\ UNCHANGED <<registry, returned, conversationID, argument, pc, message, walk, history>>

ReadConversation(s) ==
    /\ argument[s] = Nil
    /\ argument' = [argument EXCEPT ![s] = conversationID[s]]
    /\ UNCHANGED <<registry, live, returned, conversationID, pc, message, walk, history>>

\* StreamMessages that defers removeStream: what is deferred reads its arguments
\* at once.
StreamMessagesDefers(s) == ReadConversation(s)

\* The context is done, and StreamMessages reads conversationID, whatever its
\* other goroutine is doing: without synchronisation, and before removeStream
\* takes the lock.  (A string caught half written is empty, or the process ends.)
StreamMessagesWakes(s) ==
    /\ s \notin live
    /\ ReadConversation(s)

\* The stream is removed from the conversation read, which the goroutine may
\* have named anew since, and StreamMessages returns.
StreamMessagesReturns(s) ==
    /\ s \notin live \cup returned
    /\ argument[s] # Nil
    /\ RemoveStream(argument[s], s)
    /\ returned' = returned \cup {s}
    /\ UNCHANGED <<live, conversationID, argument, pc, message, walk, registrations, late>>

-----------------------------------------------------------------------------

Next ==
    \/ \E s \in Streams :
          \/ \E c \in Inputs : Recv(s, c)
          \/ Register(s)
          \/ ContextDone(s)
          \/ StreamMessagesWakes(s)
          \/ StreamMessagesReturns(s)
    \/ \E call \in Calls, c \in Inputs : SendMessages(call, c)
    \/ \E g \in Goroutines :
          \/ Save(g)
          \/ SaveFails(g)
          \/ Send(g)
          \/ Purge(g)
          \/ BroadcastEnds(g)

Spec == Init /\ [][Next]_vars

-----------------------------------------------------------------------------
(* Properties *)

\* The streams that a broadcast has still to send to.
Ahead(g) == IF pc[g] # "send" THEN {}
            ELSE {Element(to[g], walk[g].slice, i) : i \in walk[g].next..walk[g].slice.len}

\* A stream gets the messages of its own conversation and of no other, though
\* it may send to others, and slices share arrays.
ConversationsApart ==
    \A g \in Goroutines : \A s \in Ahead(g) : conversationID[s] = to[g]

\* What a client is sent can be found in the history of the conversation.
HeardIsSaved ==
    \A g \in Goroutines : Ahead(g) # {} => stored[g]

\* A broadcast misses no more of the listeners it started with than streams
\* were removed under way, and repeats itself to none more often than that;
\* with no removal it reaches everyone exactly once.
MissesBounded ==
    \A g \in Goroutines : BroadcastOver(g) =>
        LET done == account[g]
        IN  /\ Cardinality({s \in done.audience \cap live : done.reached[s] = 0}) <= done.removals
            /\ \A s \in Streams : done.reached[s] <= 1 + done.removals

\* A stream that has returned is registered nowhere, but for two reasons: its
\* goroutine registered it when its client had gone and no removal from that
\* conversation was to come; or its first message named no conversation, so it
\* stands under "" and set out to register again at the next message, while one
\* place only is taken away.
NoGhosts ==
    \A c \in IDs : \A s \in Registered(c) \cap returned :
        s \in late \/ (c = NoID /\ registrations[s] > 1)
=============================================================================
