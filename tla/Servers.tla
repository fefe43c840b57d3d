------------------------------- MODULE Servers -------------------------------
(***************************************************************************)
(* The four gRPC servers of GoSocial and its HTTP server of media files as *)
(* they are deployed: their life from the main.go of each and wire_gen.go, *)
(* the calls of their clients through the generated stubs of api/v1, the   *)
(* interceptor, and the handlers, each as the list of what it does in      *)
(* turn.  What a handler reads and writes is a set of tables; what the     *)
(* other modules say of one operation in detail is one step here, and what *)
(* is looked at is how calls, servers, shutdowns and deaths of processes   *)
(* go together.                                                            *)
(***************************************************************************)
EXTENDS Naturals, Sequences, FiniteSets, SequencesExt

CONSTANTS
    Clients,      \* the programs that call the servers
    Deployments,  \* which servers are run, and which clients call them
    None          \* no fault in the request, no reply yet

ServerNames == {"user", "feed", "chat", "notif", "media"}

Replies ==
    {"ok", "invalid", "unauthenticated", "missing", "precondition", "internal", "unknown",
     "unavailable", "cancelled"}

ASSUME DeploymentAssumption ==
    /\ Deployments \subseteq [servers : SUBSET ServerNames, clients : SUBSET Clients]
    /\ None \notin Replies

(***************************************************************************)
(* A handler is its server, the code of its reply to a failure, and its    *)
(* steps.  Check refuses the request itself, with InvalidArgument;         *)
(* Validate is a refusal of the service below, which the handler answers   *)
(* like any failure.  A step is skipped at times (Maybe).  Its failure is  *)
(* answered, ignored, kept for the end, or ends the work with success.     *)
(***************************************************************************)
Step(op, faults, tables) ==
    [op |-> op, faults |-> faults, tables |-> tables, maybe |-> FALSE, onError |-> "answer"]

Check(faults)    == Step("check", faults, {})
Validate(faults) == Step("validate", faults, {})
Read(tables)     == Step("read", {}, tables)
Write(tables)    == Step("write", {}, tables)
Notify           == Step("notify", {}, {})
Ask              == Step("ask", {}, {})
Text             == Step("text", {}, {})
Stream           == Step("stream", {}, {})
Maybe(step)      == [step EXCEPT !.maybe = TRUE]
Ignored(step)    == [step EXCEPT !.onError = "ignore"]
Kept(step)       == [step EXCEPT !.onError = "keep"]
Ending(step)     == [step EXCEPT !.onError = "end"]

Handler(code, steps) == [code |-> code, steps |-> steps]

-----------------------------------------------------------------------------
(* The handlers of the user server.                                        *)

Register ==
    Handler("invalid", <<Validate({"handle", "email", "password"}),
                         Read({"users"}), Write({"users"})>>)

Login == Handler("unauthenticated", <<Validate({"handle", "password"}), Read({"users"})>>)

GetProfile == Handler("missing", <<Read({"users"})>>)

UpdateProfile ==
    Handler("invalid", <<Read({"users"}), Validate({"email"}), Write({"users"})>>)

SendFriendRequest ==
    Handler("precondition", <<Validate({"self"}), Read({"friends"}), Write({"friends"})>>)

AcceptFriendRequest ==
    Handler("precondition", <<Read({"friends"}), Write({"friends"}),
                              Read({"friends"}), Maybe(Write({"friends"}))>>)

ListFriends == Handler("internal", <<Read({"friends", "users"})>>)

RegisterDevice ==
    Handler("invalid", <<Validate({"token", "platform"}), Write({"devices"})>>)

RemoveDevice == Handler("invalid", <<Write({"devices"})>>)

GetUserDevices == Handler("internal", <<Read({"devices"})>>)

UserService ==
    [Register |-> Register, Login |-> Login, GetProfile |-> GetProfile,
     UpdateProfile |-> UpdateProfile, SendFriendRequest |-> SendFriendRequest,
     AcceptFriendRequest |-> AcceptFriendRequest, ListFriends |-> ListFriends,
     RegisterDevice |-> RegisterDevice, RemoveDevice |-> RemoveDevice,
     GetUserDevices |-> GetUserDevices]

(* The interceptor lets these pass without a token. *)
publicMethods == {"Register", "Login"}

-----------------------------------------------------------------------------
(* The handlers of the feed server.  "files" is the store of GridFS, which *)
(* needs no migration.                                                     *)

Media == {"media_refs", "files"}

(* FeedService.CreateContent; the media is skipped when no data came. *)
CreateContent == <<Maybe(Write(Media)), Write({"contents"})>>

(* FeedService.GetContent; the URL is left empty when the media fails. *)
LoadContent == <<Read({"contents"}), Maybe(Ignored(Read(Media)))>>

(* The reply names the URL of what was created, or no URL. *)
ReadBack == <<Ending(Read({"contents"})), Maybe(Ignored(Read(Media)))>>

CreatePost ==
    Handler("internal", <<Check({"author", "body", "type", "privacy", "name"})>>
                          \o CreateContent \o ReadBack)

CreateReel ==
    Handler("internal", <<Check({"author", "body", "name", "duration", "privacy"})>>
                          \o CreateContent \o ReadBack)

CreateStory ==
    Handler("internal", <<Check({"author", "name", "duration", "type"})>>
                          \o CreateContent \o ReadBack)

(* The user is looked at after the service has done its work, and before   *)
(* the error it returned.                                                  *)
ReactToContent ==
    Handler("internal", <<Ignored(Write({"reactions"})), Kept(Write({"reactions"})),
                          Check({"user"})>>)

GetReactions == Handler("internal", <<Check({"content"}), Read({"reactions"})>>)

DeleteReactionUnchecked ==
    Handler("internal", <<Write({"reactions"}), Check({"user", "content"})>>)

DeleteReaction ==
    Handler("internal", <<Check({"user", "content"}), Write({"reactions"})>>)

GetMediaRef == Handler("internal", <<Check({"content"}), Read(Media)>>)

GetContent == Handler("internal", <<Check({"content"})>> \o LoadContent \o <<Text>>)

DeleteContent ==
    Handler("internal", <<Check({"content"}), Read({"contents"}),
                          Maybe(Ignored(Write(Media))), Write({"contents"})>>)

GetTimeline ==
    Handler("internal", <<Check({"user"}), Ask, Ignored(Read({"contents"})),
                          Maybe(Ignored(Read(Media)))>>)

(* Nobody's friends are asked for when users look at their own contents.   *)
GetUserContent ==
    Handler("internal", <<Check({"requester", "target"}), Read({"contents"}),
                          Maybe(Ask), Maybe(Ignored(Read(Media)))>>)

FeedService ==
    [CreatePost |-> CreatePost, CreateReel |-> CreateReel, CreateStory |-> CreateStory,
     ReactToContent |-> ReactToContent, GetReactions |-> GetReactions,
     DeleteReaction |-> DeleteReaction, GetTimeline |-> GetTimeline,
     GetUserContent |-> GetUserContent, GetMediaRef |-> GetMediaRef,
     GetContent |-> GetContent, DeleteContent |-> DeleteContent]

-----------------------------------------------------------------------------
(* The handlers of the chat server and of the notification server.         *)

SendMessages ==
    Handler("unknown", <<Validate({"conversation", "sender", "content"}),
                         Write({"messages"})>>)

GetChatHistory == Handler("unknown", <<Validate({"conversation"}), Read({"messages"})>>)

StreamMessages == Handler("unknown", <<Stream>>)

ChatService ==
    [SendMessages |-> SendMessages, GetChatHistory |-> GetChatHistory,
     StreamMessages |-> StreamMessages]

SendNotification ==
    Handler("internal", <<Check({"user", "title", "message"}), Validate({"zero"}), Notify>>)

ScheduleNotificationLax ==
    Handler("internal", <<Check({"user", "title", "message", "time", "past"}),
                          Validate({"zero"}), Ignored(Write({"notifications"}))>>)

ScheduleNotification ==
    Handler("internal", <<Check({"user", "title", "message", "time", "past"}),
                          Validate({"zero"}), Write({"notifications"})>>)

GetUserNotifications == Handler("internal", <<Check({"user"}), Read({"notifications"})>>)

MarkAsRead ==
    Handler("internal", <<Check({"notification", "user"}), Write({"notifications"})>>)

RegisterDeviceToken ==
    Handler("internal", <<Check({"user", "token", "platform"}), Read({"devices"}),
                          Write({"devices"})>>)

SendFriendRequestNotification ==
    Handler("internal", <<Check({"from", "to", "name"}), Validate({"zero"}), Notify>>)

HealthCheck == Handler("internal", <<>>)

NotificationService ==
    [SendNotification |-> SendNotification, ScheduleNotification |-> ScheduleNotification,
     GetUserNotifications |-> GetUserNotifications, MarkAsRead |-> MarkAsRead,
     RegisterDevice |-> RegisterDeviceToken,
     SendFriendRequest |-> SendFriendRequestNotification, HealthCheck |-> HealthCheck]

(* The handlers of the media server.  Whatever keeps DownloadFile from     *)
(* opening the file is answered as a file that is not there; once the      *)
(* headers are out, a copy that breaks off is only logged.                 *)
serveFile == Handler("missing", <<Read({"files"}), Ignored(Read({"files"}))>>)

health == Handler("internal", <<>>)

HTTPServer == [serveFile |-> serveFile, health |-> health]

Service ==
    [user |-> UserService, feed |-> FeedService, chat |-> ChatService,
     notif |-> NotificationService, media |-> HTTPServer]

-----------------------------------------------------------------------------
(* A client's call is <<c, "own">>; the call of the user server that the   *)
(* feed server makes for it is <<c, "nested">>.                            *)
Calls == Clients \X {"own", "nested"}

VARIABLES
    deployment,  \* which servers are run, and by whom they are called
    phase,       \* how far each server's main has come
    held,        \* what it has opened: the dispatcher, the connection
    tables,      \* the tables that were migrated, in the one database
    calls        \* the calls

vars == <<deployment, phase, held, tables, calls>>

Phases == {"down", "opened", "migrated", "serving", "watching", "draining", "drained"}

Idle ==
    [server |-> None, method |-> None, bad |-> None, token |-> FALSE, left |-> FALSE,
     stage |-> "idle", at |-> 0, wrote |-> {}, err |-> FALSE, reply |-> None]

Init ==
    /\ deployment \in Deployments
    /\ phase = [s \in ServerNames |-> "down"]
    /\ held = [s \in ServerNames |-> {}]
    /\ tables = {}
    /\ calls = [i \in Calls |-> Idle]

Methods(i) == Service[calls[i].server][calls[i].method]
Current(i) == Methods(i).steps[calls[i].at]
Finished(i) == calls[i].at > Len(Methods(i).steps)

(* One fault stands for all that the same step refuses. *)
Faults(s, m) ==
    {CHOOSE f \in step.faults : TRUE :
        step \in {step \in ToSet(Service[s][m].steps) : step.faults # {}}}

Open(i) == calls[i].stage \in {"running", "asking", "streaming"}
Accepting(s) == phase[s] \in {"serving", "watching"}

lifecycle == <<deployment, phase, held, tables>>

-----------------------------------------------------------------------------
(* The clients.  Every stub of api/v1 sends its request and waits.  A      *)
(* client calls once: nothing is left of an earlier call but the tables    *)
(* and the servers, and these change under a client that waits as well.    *)

Invoke(i, s, m, bad, token) ==
    calls' = [calls EXCEPT ![i] =
                 [Idle EXCEPT !.server = s, !.method = m, !.bad = bad, !.token = token,
                              !.stage = "sent"]]

Requests(c, s, tokens) ==
    /\ c \in deployment.clients
    /\ s \in deployment.servers
    /\ calls[<<c, "own">>].stage = "idle"
    /\ \E m \in DOMAIN Service[s], token \in tokens :
          \E bad \in Faults(s, m) \cup {None, "malformed"} :
             Invoke(<<c, "own">>, s, m, bad, token)
    /\ UNCHANGED lifecycle

UserServiceClient(c)         == Requests(c, "user", BOOLEAN)
FeedServiceClient(c)         == Requests(c, "feed", {FALSE})
ChatServiceClient(c)         == Requests(c, "chat", {FALSE})
NotificationServiceClient(c) == Requests(c, "notif", {FALSE})
HTTPClient(c)                == Requests(c, "media", {FALSE})

Answer(i, reply) ==
    calls' = [calls EXCEPT ![i].stage = "answered", ![i].reply = reply]

(* The stub returns the error of Invoke when nobody takes the request: no  *)
(* connection waits for the server to be there.                            *)
Unavailable(i) ==
    /\ calls[i].stage = "sent"
    /\ ~Accepting(calls[i].server)
    /\ Answer(i, "unavailable")
    /\ UNCHANGED lifecycle

ClientLeaves(c) ==
    /\ calls[<<c, "own">>].stage = "streaming"
    /\ calls' = [calls EXCEPT ![<<c, "own">>].left = TRUE]
    /\ UNCHANGED lifecycle

-----------------------------------------------------------------------------
(* The generated handlers: a request that cannot be decoded is answered    *)
(* before the interceptor sees it.                                         *)

Arrived(i, s) ==
    /\ calls[i].stage = "sent"
    /\ calls[i].server = s
    /\ Accepting(s)
    /\ UNCHANGED lifecycle

Dispatch(i) ==
    IF calls[i].bad = "malformed"
    THEN Answer(i, "internal")
    ELSE calls' = [calls EXCEPT ![i].stage = "running", ![i].at = 1]

DispatchPublic(i) ==
    /\ Arrived(i, "user")
    /\ calls[i].method \in publicMethods
    /\ Dispatch(i)

AuthInterceptor(i) ==
    IF calls[i].token THEN Dispatch(i) ELSE Answer(i, "unauthenticated")

DispatchProtected(i) ==
    /\ Arrived(i, "user")
    /\ calls[i].method \notin publicMethods
    /\ IF calls[i].bad = "malformed" THEN Dispatch(i) ELSE AuthInterceptor(i)

DispatchFeed(i)  == Arrived(i, "feed") /\ Dispatch(i)
DispatchChat(i)  == Arrived(i, "chat") /\ Dispatch(i)
DispatchNotif(i) == Arrived(i, "notif") /\ Dispatch(i)

(* The router has no route for another path or method. *)
ServeHTTP(i) ==
    /\ Arrived(i, "media")
    /\ IF calls[i].bad = "malformed" THEN Answer(i, "missing") ELSE Dispatch(i)

-----------------------------------------------------------------------------
(* The steps of the handlers.                                              *)

At(i, ops) ==
    /\ calls[i].stage = "running"
    /\ ~Finished(i)
    /\ Current(i).op \in ops
    /\ UNCHANGED lifecycle

Advance(i) == calls' = [calls EXCEPT ![i].at = @ + 1]

Accept(i) ==
    /\ At(i, {"check", "validate"})
    /\ calls[i].bad \notin Current(i).faults
    /\ Advance(i)

Refuse(i) ==
    /\ At(i, {"check", "validate"})
    /\ calls[i].bad \in Current(i).faults
    /\ Answer(i, IF Current(i).op = "check" THEN "invalid" ELSE Methods(i).code)

Skip(i) ==
    /\ At(i, {"read", "write", "ask"})
    /\ Current(i).maybe
    /\ Advance(i)

Wrote(i) == IF Current(i).op = "write" THEN Current(i).tables ELSE {}

Query(i) ==
    /\ At(i, {"read", "write"})
    /\ calls' = [calls EXCEPT ![i].at = @ + 1, ![i].wrote = @ \cup Wrote(i)]

(* A query that fails, finds nothing, or is done and its answer lost. *)
QueryFails(i) ==
    /\ At(i, {"read", "write"})
    /\ \E done \in {{}, Wrote(i)} :
          LET call == [calls[i] EXCEPT !.wrote = @ \cup done]
              Becomes(after) == calls' = [calls EXCEPT ![i] = after]
          IN  \/ /\ Current(i).onError = "answer"
                 /\ Becomes([call EXCEPT !.stage = "answered", !.reply = Methods(i).code])
              \/ /\ Current(i).onError = "ignore"
                 /\ Becomes([call EXCEPT !.at = @ + 1])
              \/ /\ Current(i).onError = "keep"
                 /\ Becomes([call EXCEPT !.at = @ + 1, !.err = TRUE])
              \/ /\ Current(i).onError = "end"
                 /\ Becomes([call EXCEPT !.at = Len(Methods(i).steps) + 1])

(* NotifyAsync returns at once, whether or not the channel had room. *)
NotifyAsync(i) ==
    /\ At(i, {"notify"})
    /\ Advance(i)

Nested(i) == <<i[1], "nested">>

(* The context of the caller is passed on, but none of its metadata is. *)
AskFriends(i) ==
    /\ At(i, {"ask"})
    /\ calls' = [calls EXCEPT
                    ![i].stage = "asking",
                    ![Nested(i)] = [Idle EXCEPT !.server = "user", !.method = "ListFriends",
                                                !.stage = "sent"]]

AskedAgain(i) ==
    /\ calls[i].stage = "asking"
    /\ calls[Nested(i)].stage = "answered"
    /\ calls' = CASE calls[Nested(i)].reply = "ok" ->
                          [calls EXCEPT ![i].stage = "running", ![i].at = @ + 1]
                   [] calls[Nested(i)].reply = "unavailable" ->
                          [calls EXCEPT ![Nested(i)].stage = "sent"]
                   [] OTHER ->
                          [calls EXCEPT ![i].stage = "answered", ![i].reply = Methods(i).code]
    /\ UNCHANGED lifecycle

Asked(i) ==
    /\ calls[i].stage = "asking"
    /\ calls[Nested(i)].stage = "answered"
    /\ calls' = IF calls[Nested(i)].reply = "ok"
                THEN [calls EXCEPT ![i].stage = "running", ![i].at = @ + 1]
                ELSE [calls EXCEPT ![i].stage = "answered", ![i].reply = Methods(i).code]
    /\ UNCHANGED lifecycle

ReadText(i) ==
    /\ At(i, {"text"})
    /\ Advance(i)

BeginStream(i) ==
    /\ At(i, {"stream"})
    /\ calls' = [calls EXCEPT ![i].stage = "streaming"]

StreamOverWithServer(i) ==
    /\ calls[i].stage = "streaming"
    /\ calls[i].left
    /\ Accepting("chat")
    /\ Answer(i, "cancelled")
    /\ UNCHANGED lifecycle

StreamOver(i) ==
    /\ calls[i].stage = "streaming"
    /\ calls[i].left
    /\ Answer(i, "cancelled")
    /\ UNCHANGED lifecycle

Return(i) ==
    /\ calls[i].stage = "running"
    /\ Finished(i)
    /\ Answer(i, IF calls[i].err THEN Methods(i).code ELSE "ok")
    /\ UNCHANGED lifecycle

-----------------------------------------------------------------------------
(* The life of a server.  When its process ends, the calls it was working  *)
(* on end as unavailable, and so do those it had made itself.              *)

Cut(s) ==
    [i \in Calls |->
        IF calls[i].server = s /\ Open(i)
        THEN [calls[i] EXCEPT !.stage = "answered", !.reply = "unavailable"]
        ELSE IF \E j \in Calls : i = Nested(j) /\ calls[j].server = s /\ calls[j].stage = "asking"
             THEN Idle
             ELSE calls[i]]

Ends(s) ==
    /\ phase' = [phase EXCEPT ![s] = "down"]
    /\ held' = [held EXCEPT ![s] = {}]
    /\ calls' = Cut(s)

(* log.Fatalf, an unhandled signal, or SIGKILL. *)
Killed(s) ==
    /\ phase[s] # "down"
    /\ Ends(s)
    /\ UNCHANGED <<deployment, tables>>

(* GetContent follows the pointer to the text of what may be a story, and  *)
(* nothing recovers from the panic.                                        *)
TextMissing(i) ==
    /\ calls[i].stage = "running"
    /\ ~Finished(i)
    /\ Current(i).op = "text"
    /\ Ends(calls[i].server)
    /\ UNCHANGED <<deployment, tables>>

Moves(s, from, to) ==
    /\ s \in deployment.servers
    /\ phase[s] = from
    /\ phase' = [phase EXCEPT ![s] = to]

(* NewMySQL migrates the messages, whichever server opens the database;    *)
(* what comes after it may still fail.                                     *)
NewMySQL(s, opened) ==
    /\ \/ Moves(s, "down", "opened") /\ held' = [held EXCEPT ![s] = opened]
       \/ Moves(s, "down", "down") /\ UNCHANGED held
    /\ tables' = tables \cup {"messages"}
    /\ UNCHANGED <<deployment, calls>>

InitializeUserHandler == NewMySQL("user", {})
InitializeChatService == NewMySQL("chat", {})
InitializeFeedService == NewMySQL("feed", {"connection"})
InitializeApplication == NewMySQL("notif", {"dispatcher"})

(* AutoMigrate may fail after some of its tables, and the process ends. *)
AutoMigrate(s, models) ==
    /\ \/ Moves(s, "opened", "migrated") /\ tables' = tables \cup models /\ UNCHANGED held
       \/ /\ Moves(s, "opened", "down")
          /\ held' = [held EXCEPT ![s] = {}]
          /\ \E T \in SUBSET models : tables' = tables \cup T
    /\ UNCHANGED <<deployment, calls>>

Serve(s) == Moves(s, "migrated", "serving") /\ UNCHANGED <<deployment, held, tables, calls>>

(* From signal.Notify on a signal is a message in a channel. *)
Watch(s)  == Moves(s, "serving", "watching") /\ UNCHANGED <<deployment, held, tables, calls>>
Signal(s) == Moves(s, "watching", "draining") /\ UNCHANGED <<deployment, held, tables, calls>>

GracefulStop(s) ==
    /\ \A i \in Calls : calls[i].server = s => ~Open(i)
    /\ Moves(s, "draining", "drained")
    /\ UNCHANGED <<deployment, held, tables, calls>>

(* The last statement of main, with what was deferred: the connection to   *)
(* the user server and the dispatcher of notifications are closed.         *)
Exit(s) ==
    /\ Moves(s, "drained", "down")
    /\ held' = [held EXCEPT ![s] = {}]
    /\ UNCHANGED <<deployment, tables, calls>>

Shutdown(s) == Signal(s) \/ GracefulStop(s) \/ Exit(s)

UserMain == AutoMigrate("user", {"devices", "users", "friends"}) \/ Serve("user")

ChatMain == AutoMigrate("chat", {"messages"}) \/ Serve("chat") \/ Watch("chat") \/ Shutdown("chat")

FeedMain ==
    \/ AutoMigrate("feed", {"contents", "media_refs", "reactions", "users"})
    \/ Serve("feed")
    \/ Watch("feed")
    \/ Shutdown("feed")

NotifMainAlone ==
    \/ AutoMigrate("notif", {"notifications"})
    \/ Serve("notif")
    \/ Watch("notif")
    \/ Shutdown("notif")

NotifMain ==
    \/ AutoMigrate("notif", {"notifications", "devices"})
    \/ Serve("notif")
    \/ Watch("notif")
    \/ Shutdown("notif")

(* No signal is caught: the media server is only ever killed. *)
MediaMain ==
    /\ Moves("media", "down", "serving") \/ Moves("media", "down", "down")
    /\ UNCHANGED <<deployment, held, tables, calls>>

-----------------------------------------------------------------------------

(* What a server does for a call, until it is answered. *)
Work(i) ==
    \/ Unavailable(i)
    \/ DispatchPublic(i) \/ DispatchProtected(i)
    \/ DispatchFeed(i) \/ DispatchChat(i) \/ DispatchNotif(i) \/ ServeHTTP(i)
    \/ Accept(i) \/ Refuse(i) \/ Skip(i) \/ Query(i) \/ QueryFails(i)
    \/ NotifyAsync(i) \/ AskFriends(i) \/ Asked(i)
    \/ ReadText(i) \/ TextMissing(i)
    \/ BeginStream(i) \/ StreamOver(i)
    \/ Return(i)

Start ==
    InitializeUserHandler \/ InitializeChatService \/ InitializeFeedService \/ InitializeApplication

Next ==
    \/ \E c \in Clients :
          \/ UserServiceClient(c) \/ FeedServiceClient(c)
          \/ ChatServiceClient(c) \/ NotificationServiceClient(c) \/ HTTPClient(c)
          \/ ClientLeaves(c)
    \/ \E i \in Calls : Work(i)
    \/ Start
    \/ UserMain \/ ChatMain \/ FeedMain \/ NotifMain \/ MediaMain
    \/ \E s \in ServerNames : Killed(s)

(* A process that runs goes on with its calls and, once it was told to     *)
(* stop, with stopping.  Nobody has to call, to start a server, to signal  *)
(* it, or to leave a stream.                                               *)
Fairness ==
    /\ \A i \in Calls : WF_vars(Work(i))
    /\ \A s \in ServerNames : WF_vars(GracefulStop(s) \/ Exit(s))

Spec == Init /\ [][Next]_vars /\ Fairness

-----------------------------------------------------------------------------

(* The values of the variables; a call is answered exactly when it has a   *)
(* reply, works at one of its steps, and has written to tables there are.  *)
TypeOK ==
    /\ deployment \in Deployments
    /\ phase \in [ServerNames -> Phases]
    /\ held \in [ServerNames -> SUBSET {"dispatcher", "connection"}]
    /\ \A i \in Calls :
          /\ calls[i].stage \in {"idle", "sent", "running", "asking", "streaming", "answered"}
          /\ calls[i].reply \in Replies \cup {None}
          /\ calls[i].stage = "answered" <=> calls[i].reply # None
          /\ calls[i].stage \in {"asking", "streaming"} => ~Finished(i)
          /\ calls[i].wrote \subseteq tables \cup {"files"}

(* While a handler works, what it works with is there: the tables were     *)
(* migrated by the start of its own server, whichever other servers were   *)
(* ever started on the same database, and the dispatcher and the           *)
(* connection are closed only after the last call has ended.               *)
ResourcesHeld ==
    \A i \in Calls :
       calls[i].stage = "running" /\ ~Finished(i) =>
          /\ Current(i).tables \subseteq tables \cup {"files"}
          /\ Current(i).op = "notify" => "dispatcher" \in held[calls[i].server]
          /\ Current(i).op = "ask" => "connection" \in held[calls[i].server]

(* A client that is told that its arguments are invalid may correct them   *)
(* and call again: nothing was written.  ReactToContent does not keep to   *)
(* this, nor do the handlers of the user server, which answer every        *)
(* failure as an invalid argument, also that of a write.                   *)
RefusedUntouched ==
    \A i \in Calls :
       /\ calls[i].reply = "invalid"
       /\ calls[i].server # "user"
       /\ calls[i].method # "ReactToContent"
       => calls[i].wrote = {}

Must(step) == step.op = "write" /\ ~step.maybe

(* A success is reported only when everything the call is about has been   *)
(* written.                                                                *)
OkIsDone ==
    \A i \in Calls :
       calls[i].reply = "ok" =>
          \A n \in 1 .. Len(Methods(i).steps) :
             Must(Methods(i).steps[n]) => Methods(i).steps[n].tables \subseteq calls[i].wrote

(* A call that was sent is answered, also when its server, or the user     *)
(* server behind the feed server, dies or never comes up.                  *)
AnsweredInTheEnd ==
    \A c \in Clients :
       /\ calls[<<c, "own">>].stage = "sent"
       /\ calls[<<c, "own">>].method # "StreamMessages"
       ~> calls[<<c, "own">>].stage = "answered"

StreamOpen(s) ==
    \E i \in Calls : calls[i].server = s /\ calls[i].stage = "streaming" /\ ~calls[i].left

(* A server that was told to stop does, unless a client keeps a stream     *)
(* open: GracefulStop has no deadline.                                     *)
StopsUnlessStreamed ==
    \A s \in ServerNames : phase[s] = "draining" ~> phase[s] = "down" \/ StreamOpen(s)

(* A timeline that was asked for properly fails only if the user server    *)
(* failed or was away.                                                     *)
TimelineServed ==
    \A c \in Clients :
       /\ calls[<<c, "own">>].method = "GetTimeline"
       /\ calls[<<c, "own">>].bad = None
       /\ calls[<<c, "own">>].reply = "internal"
       => calls[<<c, "nested">>].reply \in {"internal", "unavailable"}
=============================================================================
