---------------------------- MODULE Servers_proofs ----------------------------
(***************************************************************************)
(* The safety properties of Servers hold for any number of clients and any *)
(* deployment.                                                             *)
(***************************************************************************)
EXTENDS Servers, SequenceTheorems, TLAPS

-----------------------------------------------------------------------------
(* What the handlers have in common                                        *)

Ops == {"check", "validate", "read", "write", "notify", "ask", "text", "stream"}

\* What the main of server s has migrated when it serves.
Migrated(s) ==
    IF s = "user" THEN {"devices", "users", "friends"}
    ELSE IF s = "feed" THEN {"contents", "media_refs", "reactions", "users"}
    ELSE IF s = "chat" THEN {"messages"}
    ELSE IF s = "notif" THEN {"notifications", "devices"}
    ELSE {}

Reach(s) == Migrated(s) \cup {"files"}

\* A step of a handler of server s uses what s has.
Fit(s, step) ==
    /\ DOMAIN step = {"op", "faults", "tables", "maybe", "onError"}
    /\ step.op \in Ops
    /\ step.onError \in {"answer", "ignore", "keep", "end"}
    /\ step.tables \subseteq Reach(s)
    /\ step.op = "notify" => s = "notif"
    /\ step.op = "ask" => s = "feed"

\* A write whose failure fails the call.
Sure(step) == Must(step) /\ step.onError \in {"answer", "keep"}

\* A step that hides no failure of a write, and does not end the work.
Plain(step) == (Must(step) => Sure(step)) /\ step.onError # "end"

IsList(l) == Len(l) \in Nat /\ DOMAIN l = 1 .. Len(l)

\* What every handler does: it uses what its server has, never hides the failure
\* of a write for good, and ends early only when all is written.
Sound(s, h) ==
    /\ h.code \in Replies \ {"ok"}
    /\ IsList(h.steps)
    /\ \A n \in DOMAIN h.steps : Fit(s, h.steps[n])
    /\ \A n \in DOMAIN h.steps : Must(h.steps[n]) =>
          \E k \in DOMAIN h.steps : Sure(h.steps[k]) /\ h.steps[k].tables = h.steps[n].tables
    /\ \A n \in DOMAIN h.steps : h.steps[n].onError = "end" =>
          \A k \in DOMAIN h.steps : k >= n => ~Must(h.steps[k])

\* What most of them do: look at the request before they write.
ChecksFirst(h) ==
    /\ h.code # "invalid"
    /\ \A k, n \in DOMAIN h.steps :
          k < n /\ h.steps[n].op = "check" => h.steps[k].op # "write"

\* The plain case of both: plain steps, and no check but the first of them.
Later(s, step) == Fit(s, step) /\ Plain(step) /\ step.op # "check"

Fits(s, steps) ==
    /\ IsList(steps)
    /\ \A n \in DOMAIN steps :
          Fit(s, steps[n]) /\ Plain(steps[n]) /\ (steps[n].op = "check" => n = 1)

\* A step that may be first.
First(s, step) == Fit(s, step) /\ Plain(step)

\* A plain handler is sound, and checks first if it has a code of its own for
\* what is refused.
LEMMA PlainIsSound ==
    ASSUME NEW s, NEW steps, Fits(s, steps), NEW code \in Replies \ {"ok"}
    PROVE  /\ Sound(s, Handler(code, steps))
           /\ code # "invalid" => ChecksFirst(Handler(code, steps))
<1>1. Handler(code, steps).code = code /\ Handler(code, steps).steps = steps
      BY DEF Handler
<1>2. DOMAIN steps \subseteq Nat
      BY DEF Fits, IsList
<1>3. \A n \in DOMAIN steps : Must(steps[n]) => Sure(steps[n])
      BY DEF Fits, Plain
<1>4. \A n \in DOMAIN steps : steps[n].onError # "end"
      BY DEF Fits, Plain
<1>5. Sound(s, Handler(code, steps))
      BY <1>1, <1>3, <1>4 DEF Sound, Fits
<1>6. \A k, n \in DOMAIN steps : ~(k < n /\ steps[n].op = "check")
  <2> SUFFICES ASSUME NEW k \in DOMAIN steps, NEW n \in DOMAIN steps, k < n, n = 1
               PROVE  FALSE
      BY DEF Fits
  <2> QED
      BY DEF Fits, IsList
<1> QED
    BY <1>1, <1>5, <1>6 DEF ChecksFirst

\* The steps that refuse a request,
LEMMA RefusalsFit ==
    ASSUME NEW s, NEW F
    PROVE  First(s, Check(F)) /\ Later(s, Validate(F))
BY DEF Check, Validate, Step, First, Later, Fit, Plain, Must, Sure, Ops

\* the queries, but for those that hide a failure,
LEMMA QueriesFit ==
    ASSUME NEW s, NEW T, T \subseteq Reach(s)
    PROVE  /\ Later(s, Read(T)) /\ Later(s, Write(T))
           /\ Later(s, Maybe(Write(T))) /\ Later(s, Maybe(Ignored(Write(T))))
           /\ Later(s, Ignored(Read(T))) /\ Later(s, Maybe(Ignored(Read(T))))
BY DEF Read, Write, Maybe, Ignored, Step, Later, Fit, Plain, Must, Sure, Ops

\* and the others.
LEMMA OthersFit ==
    ASSUME NEW s
    PROVE  /\ Later(s, Text) /\ Later(s, Stream)
           /\ s = "notif" => Later(s, Notify)
           /\ s = "feed" => Later(s, Ask) /\ Later(s, Maybe(Ask))
BY DEF Text, Stream, Notify, Ask, Maybe, Step, Later, Fit, Plain, Must, Sure, Ops

\* A step that comes later may come first.
LEMMA LaterIsFirst == \A s, a : Later(s, a) => First(s, a)
BY DEF Later, First

\* Lists of plain steps.
LEMMA NoStep == ASSUME NEW s PROVE Fits(s, <<>>)
BY DEF Fits, IsList

\* ... of one,
LEMMA OneStep ==
    ASSUME NEW s, NEW a, First(s, a)
    PROVE  Fits(s, <<a>>)
BY DEF Fits, First, Fit, IsList

\* ... of two,
LEMMA TwoSteps ==
    ASSUME NEW s, NEW a, First(s, a), NEW b, Later(s, b)
    PROVE  Fits(s, <<a, b>>)
BY DEF Fits, First, Later, Fit, IsList

\* ... of three,
LEMMA ThreeSteps ==
    ASSUME NEW s, NEW a, First(s, a), NEW b, Later(s, b), NEW c, Later(s, c)
    PROVE  Fits(s, <<a, b, c>>)
BY DEF Fits, First, Later, Fit, IsList

\* ... of four.
LEMMA FourSteps ==
    ASSUME NEW s, NEW a, First(s, a), NEW b, Later(s, b), NEW c, Later(s, c),
           NEW d, Later(s, d)
    PROVE  Fits(s, <<a, b, c, d>>)
BY DEF Fits, First, Later, Fit, IsList

\* The tables of each server.
LEMMA TablesReached ==
    /\ {"users"} \subseteq Reach("user") /\ {"friends"} \subseteq Reach("user")
    /\ {"friends", "users"} \subseteq Reach("user") /\ {"devices"} \subseteq Reach("user")
    /\ {"contents"} \subseteq Reach("feed") /\ {"reactions"} \subseteq Reach("feed")
    /\ Media \subseteq Reach("feed")
    /\ {"messages"} \subseteq Reach("chat")
    /\ {"notifications"} \subseteq Reach("notif") /\ {"devices"} \subseteq Reach("notif")
    /\ {"files"} \subseteq Reach("media")
BY DEF Reach, Migrated, Media

\* A handler made of plain steps, by its code.
LEMMA PlainHandlers ==
    \A s, steps : Fits(s, steps) =>
       /\ Sound(s, Handler("invalid", steps))
       /\ \A code \in {"unauthenticated", "missing", "precondition", "internal", "unknown"} :
             Sound(s, Handler(code, steps)) /\ ChecksFirst(Handler(code, steps))
BY PlainIsSound DEF Replies

\* The handlers of the user server.
LEMMA UserHandlers == \A m \in DOMAIN UserService : Sound("user", UserService[m])
<1> USE TablesReached, RefusalsFit, QueriesFit, LaterIsFirst, PlainHandlers
<1>1. Sound("user", Register)
      BY ThreeSteps DEF Register
<1>2. Sound("user", Login)
      BY TwoSteps DEF Login
<1>3. Sound("user", GetProfile)
      BY OneStep DEF GetProfile
<1>4. Sound("user", UpdateProfile)
      BY ThreeSteps DEF UpdateProfile
<1>5. Sound("user", SendFriendRequest)
      BY ThreeSteps DEF SendFriendRequest
<1>6. Sound("user", AcceptFriendRequest)
      BY FourSteps DEF AcceptFriendRequest
<1>7. Sound("user", ListFriends)
      BY OneStep DEF ListFriends
<1>8. Sound("user", RegisterDevice)
      BY TwoSteps DEF RegisterDevice
<1>9. Sound("user", RemoveDevice)
      BY OneStep DEF RemoveDevice
<1>10. Sound("user", GetUserDevices)
       BY OneStep DEF GetUserDevices
<1> QED
    BY <1>1, <1>2, <1>3, <1>4, <1>5, <1>6, <1>7, <1>8, <1>9, <1>10 DEF UserService

\* The handlers that create a content: all is written before it is read back.
LEMMA Creates ==
    ASSUME NEW F
    PROVE  LET h == Handler("internal", <<Check(F)>> \o CreateContent \o ReadBack)
           IN  Sound("feed", h) /\ ChecksFirst(h)
<1> DEFINE a == Check(F)
           b == Maybe(Write(Media))
           c == Write({"contents"})
           d == Ending(Read({"contents"}))
           e == Maybe(Ignored(Read(Media)))
           l == <<a>> \o <<b, c>> \o <<d, e>>
           h == Handler("internal", l)
<1>1. First("feed", a) /\ Later("feed", b) /\ Later("feed", c) /\ Later("feed", e)
      BY TablesReached, RefusalsFit, QueriesFit
<1>2. Fit("feed", d) /\ d.op = "read" /\ ~Must(d)
      BY TablesReached DEF Ending, Read, Step, Fit, Must, Ops
<1>3. ~Must(e)
      BY DEF Maybe, Ignored, Read, Step, Must
<1>4. b.onError # "end" /\ c.onError # "end"
      BY DEF Maybe, Write, Step
<1>5. a.onError # "end"
      BY DEF Check, Step
<1> HIDE DEF a, b, c, d, e
<1>6. l = <<a>> \o <<b, c>> \o <<d, e>>
      OBVIOUS
<1> HIDE DEF l
<1>7. /\ IsList(l) /\ Len(l) = 5
      /\ l[1] = a /\ l[2] = b /\ l[3] = c /\ l[4] = d /\ l[5] = e
      BY <1>6 DEF IsList
<1>8. DOMAIN l = 1 .. 5
      BY <1>7 DEF IsList
<1>9. \A n \in 1 .. 5 : n = 1 \/ n = 2 \/ n = 3 \/ n = 4 \/ n = 5
      OBVIOUS
<1>10. \A n \in 1 .. 5 : Fit("feed", l[n])
       BY <1>1, <1>2, <1>7, <1>9 DEF First, Later
<1>11. \A n \in 1 .. 5 : Must(l[n]) => Sure(l[n])
       BY <1>1, <1>2, <1>3, <1>7, <1>9 DEF First, Later, Plain
<1>12. \A n \in 1 .. 5 : n >= 4 => ~Must(l[n])
       BY <1>2, <1>3, <1>7, <1>9
<1>13. \A n \in 1 .. 5 : l[n].onError = "end" => n >= 4
       BY <1>4, <1>5, <1>7, <1>9
<1>14. h.code = "internal" /\ h.steps = l
       BY DEF Handler
<1> HIDE DEF h
<1>15. Sound("feed", h)
  <2>1. \A n \in DOMAIN l : l[n].onError = "end" =>
           \A k \in DOMAIN l : k >= n => ~Must(l[k])
        BY <1>8, <1>12, <1>13
  <2>2. "internal" \in Replies \ {"ok"}
        BY DEF Replies
  <2> QED
       BY <2>1, <2>2, <1>7, <1>8, <1>10, <1>11, <1>14 DEF Sound
<1>16. \A n \in 1 .. 5 : n # 1 => l[n].op # "check"
       BY <1>1, <1>2, <1>7, <1>9 DEF Later
<1>17. ChecksFirst(h)
  <2>1. \A k, n \in 1 .. 5 : k < n => n # 1
        OBVIOUS
  <2> QED
       BY <2>1, <1>8, <1>14, <1>16 DEF ChecksFirst
<1>18. h = Handler("internal", <<Check(F)>> \o CreateContent \o ReadBack)
       BY DEF h, l, a, b, c, d, e, CreateContent, ReadBack
<1> QED
    BY <1>15, <1>17, <1>18

\* Reactions are put down by the second write if the first did not do it.
LEMMA Reacts == Sound("feed", ReactToContent)
<1> DEFINE a == Ignored(Write({"reactions"}))
           b == Kept(Write({"reactions"}))
           c == Check({"user"})
           l == <<a, b, c>>
<1>1. First("feed", c) /\ c.op = "check" /\ c.onError = "answer"
      BY RefusalsFit DEF Check, Step
<1>2. Fit("feed", a) /\ Fit("feed", b) /\ a.onError = "ignore" /\ b.onError = "keep"
      BY TablesReached DEF Ignored, Kept, Write, Step, Fit, Ops
<1>3. Sure(b) /\ a.tables = b.tables /\ ~Must(c)
      BY DEF Ignored, Kept, Write, Check, Step, Sure, Must
<1>4. ReactToContent = Handler("internal", l)
      BY DEF ReactToContent
<1> HIDE DEF a, b, c
<1>5. IsList(l) /\ DOMAIN l = 1 .. 3 /\ l[1] = a /\ l[2] = b /\ l[3] = c
      BY DEF IsList
<1> HIDE DEF l
<1>6. \A n \in 1 .. 3 : n = 1 \/ n = 2 \/ n = 3
      OBVIOUS
<1>7. \A n \in 1 .. 3 : Fit("feed", l[n]) /\ l[n].onError # "end"
      BY <1>1, <1>2, <1>5, <1>6 DEF First
<1>8. \A n \in 1 .. 3 : Must(l[n]) =>
         \E k \in 1 .. 3 : Sure(l[k]) /\ l[k].tables = l[n].tables
      BY <1>3, <1>5, <1>6
<1>9. "internal" \in Replies \ {"ok"}
      BY DEF Replies
<1>10. ReactToContent.code = "internal" /\ ReactToContent.steps = l
       BY <1>4 DEF Handler
<1> QED
    BY <1>5, <1>7, <1>8, <1>9, <1>10 DEF Sound

\* The handler that loads a content.
LEMMA Loads == Sound("feed", GetContent) /\ ChecksFirst(GetContent)
<1> DEFINE a == Check({"content"})
           b == Read({"contents"})
           c == Maybe(Ignored(Read(Media)))
           l == <<a>> \o <<b, c>> \o <<Text>>
<1>1. First("feed", a) /\ Later("feed", b) /\ Later("feed", c) /\ Later("feed", Text)
      BY TablesReached, RefusalsFit, QueriesFit, OthersFit
<1>2. GetContent = Handler("internal", l)
      BY DEF GetContent, LoadContent
<1> HIDE DEF a, b, c
<1>3. l = <<a>> \o <<b, c>> \o <<Text>>
      OBVIOUS
<1> HIDE DEF l
<1>4. IsList(l) /\ Len(l) = 4 /\ l[1] = a /\ l[2] = b /\ l[3] = c /\ l[4] = Text
      BY <1>3 DEF IsList
<1>5. \A n \in 1 .. 4 : n = 1 \/ n = 2 \/ n = 3 \/ n = 4
      OBVIOUS
<1>6. Fits("feed", l)
      BY <1>1, <1>4, <1>5 DEF Fits, First, Later, IsList
<1> QED
    BY <1>2, <1>6, PlainHandlers

\* The handlers of the feed server.
LEMMA FeedHandlers ==
    \A m \in DOMAIN FeedService :
       /\ Sound("feed", FeedService[m])
       /\ m # "ReactToContent" => ChecksFirst(FeedService[m])
<1> DEFINE Good(h) == Sound("feed", h) /\ ChecksFirst(h)
<1> USE TablesReached, RefusalsFit, QueriesFit, OthersFit, LaterIsFirst, PlainHandlers
<1>1. Good(CreatePost) /\ Good(CreateReel) /\ Good(CreateStory)
      BY Creates DEF CreatePost, CreateReel, CreateStory
<1>2. Good(GetReactions)
      BY TwoSteps DEF GetReactions
<1>3. Good(DeleteReaction)
      BY TwoSteps DEF DeleteReaction
<1>4. Good(GetMediaRef)
      BY TwoSteps DEF GetMediaRef
<1>5. Good(DeleteContent)
      BY FourSteps DEF DeleteContent
<1>6. Good(GetTimeline)
      BY FourSteps DEF GetTimeline
<1>7. Good(GetUserContent)
      BY FourSteps DEF GetUserContent
<1>8. Good(GetContent)
      BY Loads
<1> QED
    BY <1>1, <1>2, <1>3, <1>4, <1>5, <1>6, <1>7, <1>8, Reacts DEF FeedService, Good

\* The handlers of the chat server,
LEMMA ChatHandlers ==
    \A m \in DOMAIN ChatService : Sound("chat", ChatService[m]) /\ ChecksFirst(ChatService[m])
<1> USE TablesReached, RefusalsFit, QueriesFit, OthersFit, LaterIsFirst, PlainHandlers
<1>1. Sound("chat", SendMessages) /\ ChecksFirst(SendMessages)
      BY TwoSteps DEF SendMessages
<1>2. Sound("chat", GetChatHistory) /\ ChecksFirst(GetChatHistory)
      BY TwoSteps DEF GetChatHistory
<1>3. Sound("chat", StreamMessages) /\ ChecksFirst(StreamMessages)
      BY OneStep DEF StreamMessages
<1> QED
    BY <1>1, <1>2, <1>3 DEF ChatService

\* those of the notification server,
LEMMA NotifHandlers ==
    \A m \in DOMAIN NotificationService :
       Sound("notif", NotificationService[m]) /\ ChecksFirst(NotificationService[m])
<1> DEFINE Good(h) == Sound("notif", h) /\ ChecksFirst(h)
<1> USE TablesReached, RefusalsFit, QueriesFit, OthersFit, LaterIsFirst, PlainHandlers
<1>1. Good(SendNotification)
      BY ThreeSteps DEF SendNotification
<1>2. Good(ScheduleNotification)
      BY ThreeSteps DEF ScheduleNotification
<1>3. Good(GetUserNotifications)
      BY TwoSteps DEF GetUserNotifications
<1>4. Good(MarkAsRead)
      BY TwoSteps DEF MarkAsRead
<1>5. Good(RegisterDeviceToken)
      BY ThreeSteps DEF RegisterDeviceToken
<1>6. Good(SendFriendRequestNotification)
      BY ThreeSteps DEF SendFriendRequestNotification
<1>7. Good(HealthCheck)
      BY NoStep DEF HealthCheck
<1> QED
    BY <1>1, <1>2, <1>3, <1>4, <1>5, <1>6, <1>7 DEF NotificationService

\* and those of the media server.
LEMMA MediaHandlers ==
    \A m \in DOMAIN HTTPServer : Sound("media", HTTPServer[m]) /\ ChecksFirst(HTTPServer[m])
<1> USE TablesReached, RefusalsFit, QueriesFit, LaterIsFirst, PlainHandlers
<1>1. Sound("media", serveFile) /\ ChecksFirst(serveFile)
      BY TwoSteps DEF serveFile
<1>2. Sound("media", health) /\ ChecksFirst(health)
      BY NoStep DEF health
<1> QED
    BY <1>1, <1>2 DEF HTTPServer

\* All of them.
LEMMA Handlers ==
    \A s \in ServerNames : \A m \in DOMAIN Service[s] :
       /\ Sound(s, Service[s][m])
       /\ s # "user" /\ m # "ReactToContent" => ChecksFirst(Service[s][m])
<1>1. /\ Service["user"] = UserService /\ Service["feed"] = FeedService
      /\ Service["chat"] = ChatService /\ Service["notif"] = NotificationService
      /\ Service["media"] = HTTPServer
      BY DEF Service
<1> QED
    BY <1>1, UserHandlers, FeedHandlers, ChatHandlers, NotifHandlers, MediaHandlers
    DEF ServerNames

-----------------------------------------------------------------------------
(* The inductive invariant: what is true of every server, and of every     *)
(* call, given how far the servers are and which tables there are.         *)

Fields ==
    {"server", "method", "bad", "token", "left", "stage", "at", "wrote", "err", "reply"}

Method(r) == Service[r.server][r.method]

Known(r) == r.server \in ServerNames /\ r.method \in DOMAIN Service[r.server]

\* A write that must be done is done once the handler is past it, or the failure is kept.
Written(r, steps) ==
    \/ r.err
    \/ \A n \in DOMAIN steps :
          n < r.at /\ Sure(steps[n]) => steps[n].tables \subseteq r.wrote

\* A handler that has written has no check before it.
Untouched(r, h) ==
    ChecksFirst(h) =>
       \/ r.wrote = {}
       \/ \A n \in DOMAIN h.steps : n >= r.at => h.steps[n].op # "check"

Waits(r, steps, op) == r.at \in DOMAIN steps /\ steps[r.at].op = op

Working(r, P) ==
    /\ Known(r)
    /\ r.reply = None
    /\ P[r.server] \in {"serving", "watching", "draining"}
    /\ r.at \in 1 .. Len(Method(r).steps) + 1
    /\ Written(r, Method(r).steps)
    /\ Untouched(r, Method(r))
    /\ r.stage = "asking" => Waits(r, Method(r).steps, "ask")
    /\ r.stage = "streaming" => Waits(r, Method(r).steps, "stream")

Told(r) ==
    /\ Known(r)
    /\ r.reply \in Replies
    /\ r.reply = "invalid" /\ ChecksFirst(Method(r)) => r.wrote = {}
    /\ r.reply = "ok" =>
          \A n \in DOMAIN Method(r).steps :
             Must(Method(r).steps[n]) => Method(r).steps[n].tables \subseteq r.wrote

CallOK(r, P, T) ==
    /\ DOMAIN r = Fields
    /\ r.wrote \subseteq T \cup {"files"}
    /\ \/ r.stage = "idle" /\ r.reply = None
       \/ r.stage = "sent" /\ r.reply = None /\ Known(r) /\ r.wrote = {} /\ ~r.err
       \/ r.stage \in {"running", "asking", "streaming"} /\ Working(r, P)
       \/ r.stage = "answered" /\ Told(r)

Ready == {"migrated", "serving", "watching", "draining", "drained"}

ServerOK(s, P, H, T) ==
    /\ P[s] \in Ready => Migrated(s) \subseteq T
    /\ s = "notif" /\ P[s] # "down" => "dispatcher" \in H[s]
    /\ s = "feed" /\ P[s] # "down" => "connection" \in H[s]

ServersInv ==
    /\ deployment \in Deployments
    /\ phase \in [ServerNames -> Phases]
    /\ held \in [ServerNames -> SUBSET {"dispatcher", "connection"}]
    /\ DOMAIN calls = Calls
    /\ \A s \in ServerNames : ServerOK(s, phase, held, tables)
    /\ \A i \in Calls : CallOK(calls[i], phase, tables)

-----------------------------------------------------------------------------
(* What the changes of one call do to it.                                  *)

\* A call that was made names a handler.
LEMMA Made ==
    ASSUME NEW r, NEW P, NEW T, CallOK(r, P, T), r.stage # "idle"
    PROVE  Known(r) /\ (r.stage # "answered" => r.reply = None)
BY DEF CallOK, Working, Told

\* Its handler is sound.
LEMMA HandlerOf ==
    ASSUME NEW r, Known(r)
    PROVE  /\ Sound(r.server, Method(r))
           /\ r.server # "user" /\ r.method # "ReactToContent" => ChecksFirst(Method(r))
BY Handlers DEF Known, Method

\* A call that is answered.
LEMMA AnsweredOK ==
    ASSUME NEW q, NEW r, NEW P, NEW T, Known(q), DOMAIN r = Fields,
           r.stage = "answered", r.server = q.server, r.method = q.method,
           r.wrote \subseteq T \cup {"files"}, r.reply \in Replies,
           r.reply = "invalid" /\ ChecksFirst(Method(q)) => r.wrote = {},
           r.reply = "ok" =>
              \A n \in DOMAIN Method(q).steps :
                 Must(Method(q).steps[n]) => Method(q).steps[n].tables \subseteq r.wrote
    PROVE  CallOK(r, P, T)
<1>1. Known(r) /\ Method(r) = Method(q)
      BY DEF Known, Method
<1> QED
    BY <1>1 DEF CallOK, Told

\* The code of a handler tells neither of a success nor, if it checks the request
\* first, of one that was invalid.
LEMMA CodeAnswered ==
    ASSUME NEW q, NEW r, NEW P, NEW T, Known(q), DOMAIN r = Fields,
           r.stage = "answered", r.server = q.server, r.method = q.method,
           r.wrote \subseteq T \cup {"files"}, r.reply = Method(q).code
    PROVE  CallOK(r, P, T)
<1>1. r.reply \in Replies \ {"ok"} /\ (ChecksFirst(Method(q)) => r.reply # "invalid")
      BY HandlerOf DEF Sound, ChecksFirst
<1> QED
    BY <1>1, AnsweredOK

\* What a handler goes on with, after step q.at.
After(q, r) ==
    /\ DOMAIN r = Fields
    /\ r.stage = "running"
    /\ r.reply = None
    /\ r.server = q.server
    /\ r.method = q.method
    /\ q.err => r.err
    /\ q.wrote \subseteq r.wrote

\* A handler that takes its next step: it writes the tables of the step only if
\* that writes, and must have written them if it was to be sure.
LEMMA GoesOn ==
    ASSUME NEW q, NEW r, NEW P, NEW T, Working(q, P), After(q, r),
           q.at \in DOMAIN Method(q).steps, r.at = q.at + 1,
           r.wrote \subseteq T \cup {"files"},
           r.wrote = q.wrote \/ Method(q).steps[q.at].op = "write",
           Sure(Method(q).steps[q.at]) =>
              r.err \/ Method(q).steps[q.at].tables \subseteq r.wrote
    PROVE  CallOK(r, P, T)
<1> DEFINE h == Method(q)
           l == h.steps
<1>1. Known(q) /\ Known(r) /\ Method(r) = h
      BY DEF Known, Method, After, Working
<1>2. IsList(l)
      BY <1>1, HandlerOf DEF Sound
<1>3. r.at \in 1 .. Len(l) + 1 /\ \A n \in DOMAIN l : n < r.at => n = q.at \/ n < q.at
      BY <1>2 DEF IsList
<1>4. Written(r, l)
      BY <1>3 DEF Written, Working, After
<1>5. Untouched(r, h)
  <2> SUFFICES ASSUME ChecksFirst(h)
               PROVE  \/ r.wrote = {}
                      \/ \A n \in DOMAIN l : n >= r.at => l[n].op # "check"
      BY DEF Untouched
  <2>1. \A n \in DOMAIN l : n >= r.at => n >= q.at /\ q.at < n
        BY <1>2 DEF IsList
  <2>2. CASE r.wrote = q.wrote
        BY <2>1, <2>2 DEF Working, Untouched
  <2>3. CASE l[q.at].op = "write"
        BY <2>1, <2>3 DEF ChecksFirst
  <2> QED
      BY <2>2, <2>3
<1> QED
    BY <1>1, <1>3, <1>4, <1>5 DEF CallOK, Working, After

\* A handler that ends its work with success has nothing left to write.
LEMMA EndsWell ==
    ASSUME NEW q, NEW r, NEW P, NEW T, Working(q, P), After(q, r),
           q.at \in DOMAIN Method(q).steps, r.at = Len(Method(q).steps) + 1,
           r.wrote \subseteq T \cup {"files"}, Method(q).steps[q.at].onError = "end"
    PROVE  CallOK(r, P, T)
<1> DEFINE h == Method(q)
           l == h.steps
<1>1. Known(q) /\ Known(r) /\ Method(r) = h
      BY DEF Known, Method, After, Working
<1>2. IsList(l) /\ \A n \in DOMAIN l : n >= q.at => ~Must(l[n])
      BY <1>1, HandlerOf DEF Sound
<1>3. r.at \in 1 .. Len(l) + 1 /\ \A n \in DOMAIN l : ~(n >= r.at) /\ (n >= q.at \/ n < q.at)
      BY <1>2 DEF IsList
<1>4. Written(r, l)
      BY <1>2, <1>3 DEF Written, Working, After, Sure
<1>5. Untouched(r, h)
      BY <1>3 DEF Untouched
<1> QED
    BY <1>1, <1>3, <1>4, <1>5 DEF CallOK, Working, After

\* Nothing is lost of a call when tables are added, or servers change that do not
\* work on it.
LEMMA Stays ==
    ASSUME NEW r, NEW P, NEW T, NEW P2, NEW T2, CallOK(r, P, T), T \subseteq T2,
           r.stage \in {"running", "asking", "streaming"} =>
              P2[r.server] \in {"serving", "watching", "draining"}
    PROVE  CallOK(r, P2, T2)
BY DEF CallOK, Working

-----------------------------------------------------------------------------
(* What an action does to the function of the calls.                       *)

\* One call is put down anew.
LEMMA CallSet ==
    ASSUME NEW f, DOMAIN f = Calls, NEW i \in Calls, NEW v, NEW g, g = [f EXCEPT ![i] = v]
    PROVE  DOMAIN g = Calls /\ g[i] = v /\ \A j \in Calls : j # i => g[j] = f[j]
OBVIOUS

\* One call is answered.
LEMMA CallAnswered ==
    ASSUME NEW f, DOMAIN f = Calls, NEW i \in Calls, DOMAIN f[i] = Fields, NEW v, NEW g,
           g = [f EXCEPT ![i].stage = "answered", ![i].reply = v]
    PROVE  /\ DOMAIN g = Calls /\ \A j \in Calls : j # i => g[j] = f[j]
           /\ DOMAIN g[i] = Fields /\ g[i].stage = "answered" /\ g[i].reply = v
           /\ g[i].server = f[i].server /\ g[i].method = f[i].method
           /\ g[i].wrote = f[i].wrote
<1> DEFINE k == [f EXCEPT ![i] = [f[i] EXCEPT !.stage = "answered"]]
           q == [f[i] EXCEPT !.stage = "answered"]
<1>1. g = [k EXCEPT ![i] = [k[i] EXCEPT !.reply = v]]
      OBVIOUS
<1>2. DOMAIN k = Calls /\ k[i] = q /\ \A j \in Calls : j # i => k[j] = f[j]
      OBVIOUS
<1>3. /\ DOMAIN q = Fields /\ q.stage = "answered"
      /\ q.server = f[i].server /\ q.method = f[i].method /\ q.wrote = f[i].wrote
      BY DEF Fields
<1> HIDE DEF k, q
<1>4. DOMAIN g = Calls /\ g[i] = [q EXCEPT !.reply = v] /\ \A j \in Calls : j # i => g[j] = k[j]
      BY <1>1, <1>2
<1> QED
    BY <1>2, <1>3, <1>4 DEF Fields

\* A handler that goes on.
LEMMA CallAdvanced ==
    ASSUME NEW q, DOMAIN q = Fields, q.stage = "running", q.reply = None,
           NEW r, r = [q EXCEPT !.at = q.at + 1]
    PROVE  After(q, r) /\ r.at = q.at + 1 /\ r.wrote = q.wrote
BY DEF Fields, After

-----------------------------------------------------------------------------
(* The actions of one call.                                                *)

\* The other calls, and the servers, stay as they are.
LEMMA OneCall ==
    ASSUME ServersInv, UNCHANGED lifecycle, NEW i \in Calls, DOMAIN calls' = Calls,
           \A j \in Calls : j # i => calls'[j] = calls[j],
           CallOK(calls'[i], phase, tables)
    PROVE  ServersInv'
<1>1. /\ deployment' = deployment /\ phase' = phase /\ held' = held /\ tables' = tables
      BY DEF lifecycle
<1>2. \A j \in Calls : CallOK(calls'[j], phase, tables)
      BY DEF ServersInv
<1> QED
    BY <1>1, <1>2 DEF ServersInv

\* What the invariant says of one call.
LEMMA OfCall ==
    ASSUME ServersInv, NEW i \in Calls
    PROVE  /\ DOMAIN calls = Calls /\ CallOK(calls[i], phase, tables)
           /\ DOMAIN calls[i] = Fields /\ calls[i].wrote \subseteq tables \cup {"files"}
BY DEF ServersInv, CallOK

\* A call is answered with a failure that is not the handler's.
LEMMA PlainAnswer ==
    ASSUME ServersInv, UNCHANGED lifecycle, NEW i \in Calls, calls[i].stage # "idle",
           NEW v, v \in Replies \ {"ok", "invalid"}, Answer(i, v)
    PROVE  ServersInv'
<1>1. Known(calls[i])
      BY OfCall, Made
<1>2. calls' = [calls EXCEPT ![i].stage = "answered", ![i].reply = v]
      BY DEF Answer
<1>3. /\ DOMAIN calls' = Calls /\ \A j \in Calls : j # i => calls'[j] = calls[j]
      /\ DOMAIN calls'[i] = Fields /\ calls'[i].stage = "answered" /\ calls'[i].reply = v
      /\ calls'[i].server = calls[i].server /\ calls'[i].method = calls[i].method
      /\ calls'[i].wrote = calls[i].wrote
      BY <1>2, OfCall, CallAnswered
<1>4. CallOK(calls'[i], phase, tables)
      BY <1>1, <1>3, OfCall, AnsweredOK
<1> QED
    BY <1>3, <1>4, OneCall

\* A call is answered with the code of its handler.
LEMMA CodeAnswer ==
    ASSUME ServersInv, UNCHANGED lifecycle, NEW i \in Calls, calls[i].stage # "idle",
           Answer(i, Methods(i).code)
    PROVE  ServersInv'
<1>1. Known(calls[i]) /\ Methods(i) = Method(calls[i])
      BY OfCall, Made DEF Method, Methods
<1>2. calls' = [calls EXCEPT ![i].stage = "answered", ![i].reply = Methods(i).code]
      BY DEF Answer
<1>3. /\ DOMAIN calls' = Calls /\ \A j \in Calls : j # i => calls'[j] = calls[j]
      /\ DOMAIN calls'[i] = Fields /\ calls'[i].stage = "answered"
      /\ calls'[i].reply = Method(calls[i]).code
      /\ calls'[i].server = calls[i].server /\ calls'[i].method = calls[i].method
      /\ calls'[i].wrote = calls[i].wrote
      BY <1>1, <1>2, OfCall, CallAnswered
<1>4. CallOK(calls'[i], phase, tables)
      BY <1>1, <1>3, OfCall, CodeAnswered
<1> QED
    BY <1>3, <1>4, OneCall

\* A call that is put down anew.
LEMMA SetOne ==
    ASSUME ServersInv, UNCHANGED lifecycle, NEW i \in Calls, NEW v,
           CallOK(v, phase, tables), calls' = [calls EXCEPT ![i] = v]
    PROVE  ServersInv'
<1>1. /\ DOMAIN calls' = Calls /\ \A j \in Calls : j # i => calls'[j] = calls[j]
      /\ calls'[i] = v
      BY OfCall, CallSet
<1> QED
    BY <1>1, OneCall

\* A request that is sent.
LEMMA Sent ==
    ASSUME NEW s \in ServerNames, NEW m \in DOMAIN Service[s], NEW bad, NEW token,
           NEW P, NEW T
    PROVE  CallOK([Idle EXCEPT !.server = s, !.method = m, !.bad = bad, !.token = token,
                               !.stage = "sent"], P, T)
<1> DEFINE a == [Idle EXCEPT !.server = s]
           b == [a EXCEPT !.method = m]
           c == [b EXCEPT !.bad = bad]
           d == [c EXCEPT !.token = token]
           q == [d EXCEPT !.stage = "sent"]
<1>1. DOMAIN Idle = Fields /\ Idle.wrote = {} /\ ~Idle.err /\ Idle.reply = None
      BY DEF Idle, Fields
<1> HIDE DEF Idle
<1>2. DOMAIN a = Fields /\ a.wrote = {} /\ ~a.err /\ a.reply = None /\ a.server = s
      BY <1>1 DEF Fields
<1>3. q = [Idle EXCEPT !.server = s, !.method = m, !.bad = bad, !.token = token,
                       !.stage = "sent"]
      OBVIOUS
<1> HIDE DEF a
<1>4. /\ DOMAIN b = Fields /\ b.wrote = {} /\ ~b.err /\ b.reply = None /\ b.server = s
      /\ b.method = m
      BY <1>2 DEF Fields
<1> HIDE DEF b
<1>5. /\ DOMAIN c = Fields /\ c.wrote = {} /\ ~c.err /\ c.reply = None /\ c.server = s
      /\ c.method = m
      BY <1>4 DEF Fields
<1> HIDE DEF c
<1>6. /\ DOMAIN d = Fields /\ d.wrote = {} /\ ~d.err /\ d.reply = None /\ d.server = s
      /\ d.method = m
      BY <1>5 DEF Fields
<1> HIDE DEF d
<1>7. /\ DOMAIN q = Fields /\ q.wrote = {} /\ ~q.err /\ q.reply = None /\ q.server = s
      /\ q.method = m /\ q.stage = "sent"
      BY <1>6 DEF Fields
<1> HIDE DEF q
<1>8. CallOK(q, P, T)
      BY <1>7 DEF CallOK, Known
<1> QED
    BY <1>3, <1>8

\* The clients of a server.
LEMMA RequestsKeep ==
    ASSUME ServersInv, NEW c \in Clients, NEW s \in ServerNames, NEW tokens,
           Requests(c, s, tokens)
    PROVE  ServersInv'
<1>1. PICK m \in DOMAIN Service[s] :
         \E token \in tokens : \E bad \in Faults(s, m) \cup {None, "malformed"} :
            Invoke(<<c, "own">>, s, m, bad, token)
      BY DEF Requests
<1>2. PICK token \in tokens : \E bad \in Faults(s, m) \cup {None, "malformed"} :
            Invoke(<<c, "own">>, s, m, bad, token)
      BY <1>1
<1>3. PICK bad \in Faults(s, m) \cup {None, "malformed"} :
            Invoke(<<c, "own">>, s, m, bad, token)
      BY <1>2
<1> DEFINE q == [Idle EXCEPT !.server = s, !.method = m, !.bad = bad, !.token = token,
                             !.stage = "sent"]
<1>4. calls' = [calls EXCEPT ![<<c, "own">>] = q]
      BY <1>3 DEF Invoke
<1>5. CallOK(q, phase, tables)
      BY Sent
<1> HIDE DEF q
<1>6. <<c, "own">> \in Calls /\ UNCHANGED lifecycle
      BY DEF Calls, Requests
<1> QED
    BY <1>4, <1>5, <1>6, SetOne

\* A client leaves its stream: nothing else of the call changes.
LEMMA ClientLeavesKeeps ==
    ASSUME ServersInv, NEW c \in Clients, ClientLeaves(c)
    PROVE  ServersInv'
<1> DEFINE i == <<c, "own">>
           q == [calls[i] EXCEPT !.left = TRUE]
<1>1. i \in Calls
      BY DEF Calls
<1> HIDE DEF i
<1>2. calls' = [calls EXCEPT ![i] = q] /\ UNCHANGED lifecycle /\ calls[i].stage = "streaming"
      BY DEF ClientLeaves, i
<1>3. CallOK(calls[i], phase, tables) /\ DOMAIN calls[i] = Fields
      BY <1>1, OfCall
<1>4. /\ DOMAIN q = Fields /\ q.server = calls[i].server /\ q.method = calls[i].method
      /\ q.stage = calls[i].stage /\ q.at = calls[i].at /\ q.wrote = calls[i].wrote
      /\ q.err = calls[i].err /\ q.reply = calls[i].reply
      BY <1>3 DEF Fields
<1> HIDE DEF q
<1>5. Known(q) = Known(calls[i]) /\ Method(q) = Method(calls[i])
      BY <1>4 DEF Known, Method
<1>6. CallOK(q, phase, tables)
      BY <1>2, <1>3, <1>4, <1>5 DEF CallOK, Working, Written, Untouched, Waits
<1> QED
    BY <1>1, <1>2, <1>6, SetOne

\* A handler starts at its first step.
LEMMA Started ==
    ASSUME NEW q, NEW r, NEW P, NEW T, CallOK(q, P, T), q.stage = "sent",
           P[q.server] \in {"serving", "watching"},
           r = [q EXCEPT !.stage = "running", !.at = 1]
    PROVE  CallOK(r, P, T)
<1> DEFINE l == Method(q).steps
<1>1. DOMAIN q = Fields /\ Known(q) /\ q.wrote = {} /\ q.reply = None
      BY DEF CallOK
<1>2. /\ DOMAIN r = Fields /\ r.server = q.server /\ r.method = q.method /\ r.stage = "running"
      /\ r.at = 1 /\ r.wrote = {} /\ r.reply = None
      BY <1>1 DEF Fields
<1>3. Known(r) /\ Method(r) = Method(q)
      BY <1>1, <1>2 DEF Known, Method
<1>4. IsList(l)
      BY <1>1, HandlerOf DEF Sound
<1>5. r.at \in 1 .. Len(l) + 1 /\ \A n \in DOMAIN l : ~(n < 1)
      BY <1>2, <1>4 DEF IsList
<1> QED
    BY <1>2, <1>3, <1>5 DEF CallOK, Working, Written, Untouched

\* The generated handlers.
LEMMA DispatchKeeps ==
    ASSUME ServersInv, NEW i \in Calls, NEW s \in ServerNames, Arrived(i, s), Dispatch(i)
    PROVE  ServersInv'
<1>1. /\ calls[i].stage = "sent" /\ calls[i].server = s /\ phase[s] \in {"serving", "watching"}
      /\ UNCHANGED lifecycle
      BY DEF Arrived, Accepting
<1>2. CASE Answer(i, "internal")
  <2>1. "internal" \in Replies \ {"ok", "invalid"}
        BY DEF Replies
  <2> QED
      BY <1>1, <1>2, <2>1, PlainAnswer
<1>3. CASE calls' = [calls EXCEPT ![i].stage = "running", ![i].at = 1]
  <2> DEFINE q == [calls[i] EXCEPT !.stage = "running", !.at = 1]
  <2>1. calls' = [calls EXCEPT ![i] = q]
        BY <1>3
  <2>2. CallOK(calls[i], phase, tables)
        BY OfCall
  <2>3. CallOK(q, phase, tables)
        BY <1>1, <2>2, Started
  <2> HIDE DEF q
  <2> QED
      BY <1>1, <2>1, <2>3, SetOne
<1> QED
    BY <1>2, <1>3 DEF Dispatch

\* A call that nobody takes, and one that is refused at the door.
LEMMA UnavailableKeeps ==
    ASSUME ServersInv, NEW i \in Calls, Unavailable(i)
    PROVE  ServersInv'
<1>1. "unavailable" \in Replies \ {"ok", "invalid"}
      BY DEF Replies
<1>2. calls[i].stage # "idle" /\ UNCHANGED lifecycle /\ Answer(i, "unavailable")
      BY DEF Unavailable
<1> QED
    BY <1>1, <1>2, PlainAnswer

\* The interceptor of the user server, and the router of the media server.
LEMMA ArrivedKeeps ==
    ASSUME ServersInv, NEW i \in Calls,
           \/ DispatchPublic(i) \/ DispatchProtected(i)
           \/ DispatchFeed(i) \/ DispatchChat(i) \/ DispatchNotif(i) \/ ServeHTTP(i)
    PROVE  ServersInv'
<1>1. \A s \in ServerNames : Arrived(i, s) =>
         /\ Dispatch(i) => ServersInv'
         /\ Answer(i, "unauthenticated") \/ Answer(i, "missing") => ServersInv'
  <2> SUFFICES ASSUME NEW s \in ServerNames, Arrived(i, s),
                      \/ Dispatch(i)
                      \/ Answer(i, "unauthenticated")
                      \/ Answer(i, "missing")
               PROVE  ServersInv'
      OBVIOUS
  <2>1. /\ "unauthenticated" \in Replies \ {"ok", "invalid"}
        /\ "missing" \in Replies \ {"ok", "invalid"}
        BY DEF Replies
  <2>2. calls[i].stage # "idle" /\ UNCHANGED lifecycle
        BY DEF Arrived
  <2>3. CASE Dispatch(i)
        BY <2>3, DispatchKeeps
  <2>4. CASE Answer(i, "unauthenticated")
        BY <2>1, <2>2, <2>4, PlainAnswer
  <2>5. CASE Answer(i, "missing")
        BY <2>1, <2>2, <2>5, PlainAnswer
  <2> QED
      BY <2>3, <2>4, <2>5
<1>2. ServerNames = {"user", "feed", "chat", "notif", "media"}
      BY DEF ServerNames
<1> QED
    BY <1>1, <1>2
    DEF DispatchPublic, DispatchProtected, AuthInterceptor, DispatchFeed, DispatchChat,
        DispatchNotif, ServeHTTP

\* What is known of a handler at work.
LEMMA AtWork ==
    ASSUME ServersInv, NEW i \in Calls, NEW ops, At(i, ops)
    PROVE  /\ UNCHANGED lifecycle /\ calls[i].stage = "running"
           /\ CallOK(calls[i], phase, tables) /\ Working(calls[i], phase) /\ calls[i].reply = None
           /\ Methods(i) = Method(calls[i])
           /\ calls[i].at \in DOMAIN Method(calls[i]).steps
           /\ Current(i) = Method(calls[i]).steps[calls[i].at] /\ Current(i).op \in ops
           /\ Current(i).tables \subseteq tables \cup {"files"}
<1> DEFINE q == calls[i]
<1>1. /\ UNCHANGED lifecycle /\ q.stage = "running" /\ CallOK(q, phase, tables)
      /\ Working(q, phase) /\ q.reply = None
      BY OfCall DEF At, CallOK, Working
<1>2. Methods(i) = Method(q) /\ Current(i) = Method(q).steps[q.at] /\ Current(i).op \in ops
      BY DEF Methods, Method, Current, At
<1>3. Known(q) /\ Sound(q.server, Method(q))
      BY <1>1, HandlerOf DEF Working
<1>4. ~(q.at > Len(Method(q).steps))
      BY <1>2 DEF At, Finished
<1>5. q.at \in DOMAIN Method(q).steps
      BY <1>1, <1>3, <1>4 DEF Working, Sound, IsList
<1>6. Current(i).tables \subseteq Reach(q.server)
      BY <1>2, <1>3, <1>5 DEF Sound, Fit
<1>7. Migrated(q.server) \subseteq tables
      BY <1>1, <1>3 DEF ServersInv, ServerOK, Ready, Working, Known
<1> QED
    BY <1>1, <1>2, <1>5, <1>6, <1>7 DEF Reach

\* A step that writes nothing, or was skipped.
LEMMA AdvanceKeeps ==
    ASSUME ServersInv, NEW i \in Calls, NEW ops, At(i, ops), Advance(i), ~Sure(Current(i))
    PROVE  ServersInv'
<1> DEFINE q == calls[i]
<1>1. /\ UNCHANGED lifecycle /\ Working(q, phase) /\ q.stage = "running" /\ q.reply = None
      /\ q.at \in DOMAIN Method(q).steps /\ ~Sure(Method(q).steps[q.at])
      BY AtWork
<1>2. DOMAIN q = Fields /\ q.wrote \subseteq tables \cup {"files"}
      BY OfCall
<1> DEFINE r == [q EXCEPT !.at = q.at + 1]
<1>3. calls' = [calls EXCEPT ![i] = r]
      BY DEF Advance
<1>4. After(q, r) /\ r.at = q.at + 1 /\ r.wrote = q.wrote
      BY <1>1, <1>2, CallAdvanced
<1> HIDE DEF r
<1>5. CallOK(r, phase, tables)
      BY <1>1, <1>2, <1>4, GoesOn
<1> QED
    BY <1>1, <1>3, <1>5, SetOne

\* Such steps.
LEMMA AcceptKeeps ==
    ASSUME ServersInv, NEW i \in Calls,
           Accept(i) \/ Skip(i) \/ NotifyAsync(i) \/ ReadText(i)
    PROVE  ServersInv'
<1>1. CASE Accept(i)
  <2>1. At(i, {"check", "validate"}) /\ Advance(i)
        BY <1>1 DEF Accept
  <2>2. Current(i).op \in {"check", "validate"}
        BY <2>1, AtWork
  <2> QED
      BY <2>1, <2>2, AdvanceKeeps DEF Sure, Must
<1>2. CASE Skip(i)
      BY <1>2, AdvanceKeeps DEF Skip, Sure, Must
<1>3. CASE NotifyAsync(i)
  <2>1. At(i, {"notify"}) /\ Advance(i)
        BY <1>3 DEF NotifyAsync
  <2>2. Current(i).op \in {"notify"}
        BY <2>1, AtWork
  <2> QED
      BY <2>1, <2>2, AdvanceKeeps DEF Sure, Must
<1>4. CASE ReadText(i)
  <2>1. At(i, {"text"}) /\ Advance(i)
        BY <1>4 DEF ReadText
  <2>2. Current(i).op \in {"text"}
        BY <2>1, AtWork
  <2> QED
      BY <2>1, <2>2, AdvanceKeeps DEF Sure, Must
<1> QED
    BY <1>1, <1>2, <1>3, <1>4

\* A refusal: a handler that checks first has written nothing.
LEMMA RefuseKeeps ==
    ASSUME ServersInv, NEW i \in Calls, Refuse(i)
    PROVE  ServersInv'
<1> DEFINE q == calls[i]
<1>1. /\ UNCHANGED lifecycle /\ Working(q, phase) /\ q.stage = "running"
      /\ Methods(i) = Method(q)
      /\ q.at \in DOMAIN Method(q).steps /\ Current(i) = Method(q).steps[q.at]
      BY AtWork DEF Refuse
<1>2. CASE Current(i).op # "check"
      BY <1>1, <1>2, CodeAnswer DEF Refuse
<1>3. CASE Current(i).op = "check"
  <2>1. calls' = [calls EXCEPT ![i].stage = "answered", ![i].reply = "invalid"]
        BY <1>3 DEF Refuse, Answer
  <2>2. /\ DOMAIN calls' = Calls /\ \A j \in Calls : j # i => calls'[j] = calls[j]
        /\ DOMAIN calls'[i] = Fields /\ calls'[i].stage = "answered"
        /\ calls'[i].reply = "invalid"
        /\ calls'[i].server = q.server /\ calls'[i].method = q.method
        /\ calls'[i].wrote = q.wrote
        BY <2>1, OfCall, CallAnswered
  <2>3. ChecksFirst(Method(q)) => q.wrote = {}
    <3>1. Known(q) /\ IsList(Method(q).steps)
          BY <1>1, HandlerOf DEF Sound, Working
    <3>2. q.at >= q.at
          BY <1>1, <3>1 DEF IsList
    <3> QED
        BY <1>1, <1>3, <3>2 DEF Working, Untouched
  <2>4. Known(q) /\ "invalid" \in Replies /\ q.wrote \subseteq tables \cup {"files"}
        BY <1>1, OfCall DEF Replies, Working
  <2>5. CallOK(calls'[i], phase, tables)
        BY <2>2, <2>3, <2>4, AnsweredOK
  <2> QED
      BY <1>1, <2>2, <2>5, OneCall
<1> QED
    BY <1>2, <1>3

\* A call that has written w.
LEMMA CallWrites ==
    ASSUME NEW q, DOMAIN q = Fields, NEW w, NEW p, p = [q EXCEPT !.wrote = q.wrote \cup w]
    PROVE  /\ DOMAIN p = Fields /\ p.server = q.server /\ p.method = q.method /\ p.at = q.at
           /\ p.wrote = q.wrote \cup w /\ p.stage = q.stage /\ p.reply = q.reply
           /\ p.err = q.err
BY DEF Fields

\* What a step writes is in the tables there are.
LEMMA WroteFits ==
    ASSUME ServersInv, NEW i \in Calls, NEW ops, At(i, ops), NEW w, w = {} \/ w = Wrote(i)
    PROVE  /\ calls[i].wrote \cup w \subseteq tables \cup {"files"}
           /\ calls[i].wrote \cup w = calls[i].wrote \/ Current(i).op = "write"
<1>1. w = {} \/ (Current(i).op = "write" /\ w = Current(i).tables)
      BY DEF Wrote
<1>2. Current(i).tables \subseteq tables \cup {"files"}
      BY AtWork
<1> QED
    BY <1>1, <1>2, OfCall

\* A query that is done.
LEMMA QueryKeeps ==
    ASSUME ServersInv, NEW i \in Calls, Query(i)
    PROVE  ServersInv'
<1> DEFINE q == calls[i]
           w == Wrote(i)
           p == [q EXCEPT !.wrote = q.wrote \cup w]
           r == [p EXCEPT !.at = p.at + 1]
<1>1. /\ UNCHANGED lifecycle /\ Working(q, phase) /\ q.stage = "running" /\ q.reply = None
      /\ q.at \in DOMAIN Method(q).steps /\ Current(i) = Method(q).steps[q.at]
      BY AtWork DEF Query
<1>2. /\ q.wrote \cup w \subseteq tables \cup {"files"}
      /\ q.wrote \cup w = q.wrote \/ Current(i).op = "write"
      BY WroteFits DEF Query
<1>3. DOMAIN q = Fields
      BY OfCall
<1>4. r = [q EXCEPT !.at = q.at + 1, !.wrote = q.wrote \cup w]
      BY <1>3 DEF Fields
<1>5. calls' = [calls EXCEPT ![i] = [q EXCEPT !.at = q.at + 1, !.wrote = q.wrote \cup w]]
      BY DEF Query
<1>6. calls' = [calls EXCEPT ![i] = r]
      BY <1>4, <1>5
<1>7. Sure(Current(i)) => Current(i).tables \subseteq q.wrote \cup w
      BY DEF Sure, Must, Wrote
<1>8. p = [q EXCEPT !.wrote = q.wrote \cup w] /\ r = [p EXCEPT !.at = p.at + 1]
      OBVIOUS
<1> HIDE DEF p, r, w
<1>9. /\ DOMAIN p = Fields /\ p.server = q.server /\ p.method = q.method /\ p.at = q.at
      /\ p.wrote = q.wrote \cup w /\ p.stage = q.stage /\ p.reply = q.reply
      /\ p.err = q.err
      BY <1>3, <1>8, CallWrites
<1>10. After(p, r) /\ r.at = p.at + 1 /\ r.wrote = p.wrote
       BY <1>1, <1>8, <1>9, CallAdvanced
<1>11. After(q, r) /\ r.at = q.at + 1 /\ r.wrote = q.wrote \cup w
       BY <1>9, <1>10 DEF After
<1>12. CallOK(r, phase, tables)
       BY <1>1, <1>2, <1>11, <1>7, GoesOn
<1> QED
    BY <1>1, <1>6, <1>12, SetOne

\* A query that fails: its writes may be there, and a handler that goes on with it
\* all the same was not to be sure of them or keeps the failure.
LEMMA QueryFailsKeeps ==
    ASSUME ServersInv, NEW i \in Calls, QueryFails(i)
    PROVE  ServersInv'
<1> DEFINE q == calls[i]
<1>1. /\ UNCHANGED lifecycle /\ Working(q, phase) /\ q.stage = "running" /\ q.reply = None
      /\ q.at \in DOMAIN Method(q).steps /\ Current(i) = Method(q).steps[q.at]
      /\ Methods(i) = Method(q)
      BY AtWork DEF QueryFails
<1>2. PICK w \in {{}, Wrote(i)} :
         LET call == [q EXCEPT !.wrote = @ \cup w]
             Becomes(after) == calls' = [calls EXCEPT ![i] = after]
         IN  \/ /\ Current(i).onError = "answer"
                /\ Becomes([call EXCEPT !.stage = "answered", !.reply = Methods(i).code])
             \/ /\ Current(i).onError = "ignore"
                /\ Becomes([call EXCEPT !.at = @ + 1])
             \/ /\ Current(i).onError = "keep"
                /\ Becomes([call EXCEPT !.at = @ + 1, !.err = TRUE])
             \/ /\ Current(i).onError = "end"
                /\ Becomes([call EXCEPT !.at = Len(Methods(i).steps) + 1])
      BY DEF QueryFails
<1> DEFINE p == [q EXCEPT !.wrote = q.wrote \cup w]
           s == Current(i)
           r1 == [p EXCEPT !.stage = "answered", !.reply = Methods(i).code]
           r2 == [p EXCEPT !.at = p.at + 1]
           r3 == [p EXCEPT !.at = p.at + 1, !.err = TRUE]
           r4 == [p EXCEPT !.at = Len(Methods(i).steps) + 1]
<1>3. /\ q.wrote \cup w \subseteq tables \cup {"files"}
      /\ q.wrote \cup w = q.wrote \/ s.op = "write"
      BY WroteFits DEF QueryFails
<1>4. DOMAIN q = Fields
      BY OfCall
<1>5. \/ s.onError = "answer" /\ calls' = [calls EXCEPT ![i] = r1]
      \/ s.onError = "ignore" /\ calls' = [calls EXCEPT ![i] = r2]
      \/ s.onError = "keep" /\ calls' = [calls EXCEPT ![i] = r3]
      \/ s.onError = "end" /\ calls' = [calls EXCEPT ![i] = r4]
      BY <1>2
<1>6. p = [q EXCEPT !.wrote = q.wrote \cup w] /\ r2 = [p EXCEPT !.at = p.at + 1]
      OBVIOUS
<1> HIDE DEF p, r2
<1>7. /\ DOMAIN p = Fields /\ p.server = q.server /\ p.method = q.method /\ p.at = q.at
      /\ p.wrote = q.wrote \cup w /\ p.stage = q.stage /\ p.reply = q.reply
      /\ p.err = q.err
      BY <1>4, <1>6, CallWrites
<1>8. After(p, r2) /\ r2.at = p.at + 1 /\ r2.wrote = p.wrote
      BY <1>1, <1>6, <1>7, CallAdvanced
<1>9. After(q, r2) /\ r2.at = q.at + 1 /\ r2.wrote = q.wrote \cup w
      BY <1>7, <1>8 DEF After
<1> USE DEF r2
<1>10. CASE s.onError = "answer" /\ calls' = [calls EXCEPT ![i] = r1]
  <2>1. /\ DOMAIN r1 = Fields /\ r1.stage = "answered" /\ r1.reply = Method(q).code
        /\ r1.server = q.server /\ r1.method = q.method /\ r1.wrote = q.wrote \cup w
        BY <1>1, <1>7 DEF Fields
  <2>2. Known(q)
        BY <1>1 DEF Working
  <2> HIDE DEF r1
  <2>3. CallOK(r1, phase, tables)
        BY <1>3, <2>1, <2>2, CodeAnswered
  <2> QED
       BY <1>1, <1>10, <2>3, SetOne
<1>11. CASE s.onError = "ignore" /\ calls' = [calls EXCEPT ![i] = r2]
  <2>1. ~Sure(s)
        BY <1>11 DEF Sure
  <2> HIDE DEF r2
  <2>2. CallOK(r2, phase, tables)
        BY <1>1, <1>3, <1>9, <2>1, GoesOn
  <2> QED
       BY <1>1, <1>11, <2>2, SetOne
<1>12. CASE s.onError = "keep" /\ calls' = [calls EXCEPT ![i] = r3]
  <2> HIDE DEF r2
  <2>1. After(q, r3) /\ r3.at = q.at + 1 /\ r3.wrote = q.wrote \cup w /\ r3.err
    <3>1. r3 = [r2 EXCEPT !.err = TRUE]
          BY <1>7 DEF r2, Fields
    <3> HIDE DEF r3
    <3> QED
        BY <1>9, <3>1 DEF After, Fields
  <2> HIDE DEF r3
  <2>2. CallOK(r3, phase, tables)
        BY <1>1, <1>3, <2>1, GoesOn
  <2> QED
       BY <1>1, <1>12, <2>2, SetOne
<1>13. CASE s.onError = "end" /\ calls' = [calls EXCEPT ![i] = r4]
  <2>1. After(q, r4) /\ r4.at = Len(Method(q).steps) + 1 /\ r4.wrote = q.wrote \cup w
        BY <1>1, <1>7 DEF After, Fields
  <2> HIDE DEF r4
  <2>2. CallOK(r4, phase, tables)
        BY <1>1, <1>3, <1>13, <2>1, EndsWell
  <2> QED
       BY <1>1, <1>13, <2>2, SetOne
<1> QED
    BY <1>10, <1>11, <1>12, <1>13, <1>5

\* A handler that waits for another server, or for its stream.
LEMMA Waiting ==
    ASSUME NEW q, NEW P, NEW T, NEW st, NEW op, CallOK(q, P, T), Working(q, P),
           q.at \in DOMAIN Method(q).steps, Method(q).steps[q.at].op = op,
           \/ st = "asking" /\ op = "ask"
           \/ st = "streaming" /\ op = "stream",
           NEW r, r = [q EXCEPT !.stage = st]
    PROVE  CallOK(r, P, T)
<1>1. DOMAIN q = Fields /\ q.wrote \subseteq T \cup {"files"}
      BY DEF CallOK
<1>2. /\ DOMAIN r = Fields /\ r.server = q.server /\ r.method = q.method /\ r.stage = st
      /\ r.at = q.at /\ r.wrote = q.wrote /\ r.err = q.err /\ r.reply = q.reply
      BY <1>1 DEF Fields
<1>3. Known(r) = Known(q) /\ Method(r) = Method(q)
      BY <1>2 DEF Known, Method
<1> QED
    BY <1>1, <1>2, <1>3 DEF CallOK, Working, Written, Untouched, Waits

\* Several calls change.
LEMMA SomeCalls ==
    ASSUME ServersInv, UNCHANGED lifecycle, DOMAIN calls' = Calls,
           \A j \in Calls : calls'[j] = calls[j] \/ CallOK(calls'[j], phase, tables)
    PROVE  ServersInv'
<1>1. /\ deployment' = deployment /\ phase' = phase /\ held' = held /\ tables' = tables
      BY DEF lifecycle
<1>2. \A j \in Calls : CallOK(calls'[j], phase, tables)
      BY DEF ServersInv
<1> QED
    BY <1>1, <1>2 DEF ServersInv

\* The call that the feed server makes for a client.
LEMMA NestedSent ==
    ASSUME NEW P, NEW T, NEW r,
           r = [Idle EXCEPT !.server = "user", !.method = "ListFriends", !.stage = "sent"]
    PROVE  CallOK(r, P, T)
<1>1. /\ DOMAIN Idle = Fields /\ Idle.wrote = {} /\ ~Idle.err /\ Idle.reply = None
      BY DEF Idle, Fields
<1> HIDE DEF Idle
<1>2. /\ DOMAIN r = Fields /\ r.wrote = {} /\ ~r.err /\ r.reply = None /\ r.server = "user"
      /\ r.method = "ListFriends" /\ r.stage = "sent"
      BY <1>1 DEF Fields
<1>3. Service["user"] = UserService
      BY DEF Service
<1>4. "user" \in ServerNames /\ "ListFriends" \in DOMAIN UserService
      BY DEF ServerNames, UserService
<1> QED
    BY <1>2, <1>3, <1>4 DEF CallOK, Known

\* The feed server asks for the friends of a user.
LEMMA AskFriendsKeeps ==
    ASSUME ServersInv, NEW i \in Calls, AskFriends(i)
    PROVE  ServersInv'
<1> DEFINE q == calls[i]
           n == Nested(i)
           r == [q EXCEPT !.stage = "asking"]
           a == [Idle EXCEPT !.server = "user", !.method = "ListFriends", !.stage = "sent"]
           f == [calls EXCEPT ![i] = r]
<1>1. /\ UNCHANGED lifecycle /\ CallOK(q, phase, tables) /\ Working(q, phase)
      /\ q.at \in DOMAIN Method(q).steps /\ Method(q).steps[q.at].op = "ask"
      BY AtWork DEF AskFriends
<1>2. CallOK(r, phase, tables)
      BY <1>1, Waiting
<1>3. CallOK(a, phase, tables)
      BY NestedSent
<1>4. n \in Calls
      BY DEF Calls, Nested
<1>5. calls' = [f EXCEPT ![n] = a]
      BY DEF AskFriends
<1>6. DOMAIN f = Calls /\ f[i] = r /\ \A j \in Calls : j # i => f[j] = calls[j]
      BY OfCall
<1> HIDE DEF f, n, a, r
<1>7. DOMAIN calls' = Calls /\ \A j \in Calls : calls'[j] = f[j] \/ calls'[j] = a
      BY <1>4, <1>5, <1>6
<1> QED
    BY <1>1, <1>2, <1>3, <1>6, <1>7, SomeCalls

\* The answer comes.
LEMMA AskedKeeps ==
    ASSUME ServersInv, NEW i \in Calls, Asked(i)
    PROVE  ServersInv'
<1> DEFINE q == calls[i]
           p == [q EXCEPT !.stage = "running"]
           r == [p EXCEPT !.at = q.at + 1]
<1>1. UNCHANGED lifecycle /\ q.stage = "asking"
      BY DEF Asked
<1>2. /\ DOMAIN q = Fields /\ q.wrote \subseteq tables \cup {"files"}
      /\ Working(q, phase) /\ Waits(q, Method(q).steps, "ask")
      BY <1>1, OfCall DEF CallOK, Working
<1>3. CASE Answer(i, Methods(i).code)
      BY <1>1, <1>3, CodeAnswer
<1>4. CASE calls' = [calls EXCEPT ![i].stage = "running", ![i].at = @ + 1]
  <2>1. DOMAIN calls = Calls
        BY OfCall
  <2>2. /\ DOMAIN p = Fields /\ p.at = q.at /\ p.server = q.server /\ p.method = q.method
        /\ p.stage = "running" /\ p.wrote = q.wrote /\ p.err = q.err /\ p.reply = q.reply
        BY <1>2 DEF Fields
  <2>3. calls' = [calls EXCEPT ![i] = r]
        BY <1>4, <2>1, <2>2
  <2> HIDE DEF p
  <2>4. After(q, r) /\ r.at = q.at + 1 /\ r.wrote = q.wrote
        BY <1>2, <2>2 DEF After, Fields, Working
  <2>5. ~Sure(Method(q).steps[q.at]) /\ q.at \in DOMAIN Method(q).steps
        BY <1>2 DEF Waits, Sure, Must
  <2> HIDE DEF r
  <2>6. CallOK(r, phase, tables)
        BY <1>2, <2>4, <2>5, GoesOn
  <2> QED
      BY <1>1, <2>3, <2>6, SetOne
<1> QED
    BY <1>3, <1>4 DEF Asked, Answer

\* A stream begins, and is over.
LEMMA BeginStreamKeeps ==
    ASSUME ServersInv, NEW i \in Calls, BeginStream(i)
    PROVE  ServersInv'
<1> DEFINE q == calls[i]
           r == [q EXCEPT !.stage = "streaming"]
<1>1. /\ UNCHANGED lifecycle /\ CallOK(q, phase, tables) /\ Working(q, phase)
      /\ q.at \in DOMAIN Method(q).steps /\ Method(q).steps[q.at].op = "stream"
      BY AtWork DEF BeginStream
<1>2. CallOK(r, phase, tables)
      BY <1>1, Waiting
<1>3. calls' = [calls EXCEPT ![i] = r]
      BY DEF BeginStream
<1> HIDE DEF r
<1> QED
    BY <1>1, <1>2, <1>3, SetOne

\* ... which is neither a success nor a refusal.
LEMMA StreamOverKeeps ==
    ASSUME ServersInv, NEW i \in Calls, StreamOver(i)
    PROVE  ServersInv'
<1>1. "cancelled" \in Replies \ {"ok", "invalid"}
      BY DEF Replies
<1>2. calls[i].stage # "idle" /\ UNCHANGED lifecycle /\ Answer(i, "cancelled")
      BY DEF StreamOver
<1> QED
    BY <1>1, <1>2, PlainAnswer

\* A handler returns: with success only when it is past all of its writes and kept no
\* failure.
LEMMA ReturnKeeps ==
    ASSUME ServersInv, NEW i \in Calls, Return(i)
    PROVE  ServersInv'
<1> DEFINE q == calls[i]
           l == Method(q).steps
<1>1. UNCHANGED lifecycle /\ q.stage = "running" /\ Methods(i) = Method(q)
      BY DEF Return, Methods, Method
<1>2. /\ DOMAIN q = Fields /\ q.wrote \subseteq tables \cup {"files"}
      /\ Working(q, phase) /\ Known(q)
      BY <1>1, OfCall DEF CallOK, Working
<1>3. CASE Answer(i, Methods(i).code)
      BY <1>1, <1>3, CodeAnswer
<1>4. CASE ~q.err /\ Answer(i, "ok")
  <2>1. calls' = [calls EXCEPT ![i].stage = "answered", ![i].reply = "ok"]
        BY <1>4 DEF Answer
  <2>2. /\ DOMAIN calls' = Calls /\ \A j \in Calls : j # i => calls'[j] = calls[j]
        /\ DOMAIN calls'[i] = Fields /\ calls'[i].stage = "answered"
        /\ calls'[i].reply = "ok"
        /\ calls'[i].server = q.server /\ calls'[i].method = q.method
        /\ calls'[i].wrote = q.wrote
        BY <2>1, OfCall, CallAnswered
  <2>3. Sound(q.server, Method(q))
        BY <1>2, HandlerOf
  <2>4. \A n \in DOMAIN l : n < q.at
        BY <1>1, <1>2, <2>3 DEF Return, Finished, Working, Sound, IsList
  <2>5. \A n \in DOMAIN l : Sure(l[n]) => l[n].tables \subseteq q.wrote
        BY <1>2, <1>4, <2>4 DEF Working, Written
  <2>6. \A n \in DOMAIN l : Must(l[n]) => l[n].tables \subseteq q.wrote
        BY <2>3, <2>5 DEF Sound
  <2>7. "ok" \in Replies
        BY DEF Replies
  <2>8. CallOK(calls'[i], phase, tables)
        BY <1>2, <2>2, <2>6, <2>7, AnsweredOK
  <2> QED
      BY <1>1, <2>2, <2>8, OneCall
<1> QED
    BY <1>3, <1>4 DEF Return

-----------------------------------------------------------------------------
(* The life of the servers.                                                *)

\* A server that moves, while the calls stay as they are.
LEMMA LifeKeeps ==
    ASSUME ServersInv, UNCHANGED <<deployment, calls>>, NEW s \in ServerNames,
           phase' \in [ServerNames -> Phases],
           held' \in [ServerNames -> SUBSET {"dispatcher", "connection"}],
           tables \subseteq tables', ServerOK(s, phase', held', tables'),
           \A t \in ServerNames : t # s => phase'[t] = phase[t] /\ held'[t] = held[t],
           \/ phase'[s] \in {"serving", "watching", "draining"}
           \/ phase[s] \notin {"serving", "watching", "draining"}
           \/ \A i \in Calls : calls[i].server = s => ~Open(i)
    PROVE  ServersInv'
<1>1. \A t \in ServerNames : ServerOK(t, phase', held', tables')
      BY DEF ServersInv, ServerOK
<1>2. ASSUME NEW i \in Calls
      PROVE  CallOK(calls[i], phase', tables')
  <2>1. CallOK(calls[i], phase, tables)
        BY DEF ServersInv
  <2>2. ASSUME calls[i].stage \in {"running", "asking", "streaming"}
        PROVE  phase'[calls[i].server] \in {"serving", "watching", "draining"}
        BY <2>1, <2>2 DEF CallOK, Working, Known, Open
  <2> QED
      BY <2>1, <2>2, Stays
<1> QED
    BY <1>1, <1>2 DEF ServersInv

\* The process of a server ends, and its calls with it.
LEMMA EndsKeep ==
    ASSUME ServersInv, NEW s \in ServerNames, Ends(s), UNCHANGED <<deployment, tables>>
    PROVE  ServersInv'
<1>1. /\ phase' = [phase EXCEPT ![s] = "down"] /\ phase' \in [ServerNames -> Phases]
      /\ held' = [held EXCEPT ![s] = {}]
      /\ held' \in [ServerNames -> SUBSET {"dispatcher", "connection"}]
      /\ calls' = Cut(s)
      BY DEF Ends, ServersInv, Phases
<1>2. /\ phase'[s] = "down"
      /\ \A t \in ServerNames : t # s => phase'[t] = phase[t] /\ held'[t] = held[t]
      BY <1>1 DEF ServersInv
<1>3. \A t \in ServerNames : ServerOK(t, phase', held', tables')
      BY <1>2 DEF ServersInv, ServerOK, Ready
<1>4. ASSUME NEW i \in Calls
      PROVE  CallOK(calls'[i], phase', tables')
  <2> DEFINE q == calls[i]
             r == [q EXCEPT !.stage = "answered", !.reply = "unavailable"]
  <2>1. CallOK(q, phase, tables) /\ DOMAIN q = Fields /\ q.wrote \subseteq tables \cup {"files"}
        BY OfCall
  <2>2. CASE calls'[i] = r /\ Open(i)
    <3>1. Known(q)
          BY <2>1, <2>2, Made DEF Open
    <3>2. /\ DOMAIN r = Fields /\ r.stage = "answered" /\ r.reply = "unavailable"
          /\ r.server = q.server /\ r.method = q.method /\ r.wrote = q.wrote
          BY <2>1 DEF Fields
    <3>3. "unavailable" \in Replies
          BY DEF Replies
    <3> HIDE DEF r
    <3>4. CallOK(r, phase', tables')
          BY <2>1, <3>1, <3>2, <3>3, AnsweredOK
    <3> QED
        BY <2>2, <3>4
  <2>3. CASE calls'[i] = Idle
        BY <2>3 DEF CallOK, Idle, Fields
  <2>4. CASE calls'[i] = q /\ ~(q.server = s /\ Open(i))
    <3>1. ASSUME q.stage \in {"running", "asking", "streaming"}
          PROVE  phase'[q.server] \in {"serving", "watching", "draining"}
      <4>1. q.server \in ServerNames /\ phase[q.server] \in {"serving", "watching", "draining"}
            BY <2>1, <3>1 DEF CallOK, Working, Known
      <4>2. q.server # s
            BY <2>4, <3>1 DEF Open
      <4> QED
          BY <1>2, <4>1, <4>2
    <3>2. tables' = tables
          OBVIOUS
    <3> QED
        BY <2>1, <2>4, <3>1, <3>2, Stays
  <2> QED
      BY <1>1, <2>2, <2>3, <2>4 DEF Cut
<1>5. DOMAIN calls' = Calls
      BY <1>1 DEF Cut
<1> QED
    BY <1>1, <1>3, <1>4, <1>5 DEF ServersInv

\* It is killed, or panics over a text that is not there.
LEMMA KilledKeeps ==
    ASSUME ServersInv, NEW s \in ServerNames, Killed(s)
    PROVE  ServersInv'
BY EndsKeep DEF Killed

\* ... in the handler of a call.
LEMMA TextMissingKeeps ==
    ASSUME ServersInv, NEW i \in Calls, TextMissing(i)
    PROVE  ServersInv'
<1>1. Known(calls[i])
      BY OfCall, Made DEF TextMissing
<1>2. calls[i].server \in ServerNames
      BY <1>1 DEF Known
<1> QED
    BY <1>2, EndsKeep DEF TextMissing

\* A database is opened.
LEMMA NewMySQLKeeps ==
    ASSUME ServersInv, NEW s \in ServerNames, NEW opened,
           opened \in SUBSET {"dispatcher", "connection"},
           s = "notif" => "dispatcher" \in opened,
           s = "feed" => "connection" \in opened,
           NewMySQL(s, opened)
    PROVE  ServersInv'
<1>1. /\ UNCHANGED <<deployment, calls>> /\ tables \subseteq tables' /\ phase[s] = "down"
      /\ \/ phase' = [phase EXCEPT ![s] = "opened"] /\ held' = [held EXCEPT ![s] = opened]
         \/ phase' = [phase EXCEPT ![s] = "down"] /\ held' = held
      BY DEF NewMySQL, Moves
<1>2. /\ phase' \in [ServerNames -> Phases]
      /\ held' \in [ServerNames -> SUBSET {"dispatcher", "connection"}]
      /\ \A t \in ServerNames : t # s => phase'[t] = phase[t] /\ held'[t] = held[t]
      BY <1>1 DEF ServersInv, Phases
<1>3. ServerOK(s, phase', held', tables')
      BY <1>1 DEF ServersInv, ServerOK, Ready
<1> QED
    BY <1>1, <1>2, <1>3, LifeKeeps

\* The tables of a server are migrated.
LEMMA AutoMigrateKeeps ==
    ASSUME ServersInv, NEW s \in ServerNames, AutoMigrate(s, Migrated(s))
    PROVE  ServersInv'
<1>1. /\ UNCHANGED <<deployment, calls>> /\ tables \subseteq tables' /\ phase[s] = "opened"
      /\ \/ /\ phase' = [phase EXCEPT ![s] = "migrated"] /\ held' = held
            /\ Migrated(s) \subseteq tables'
         \/ phase' = [phase EXCEPT ![s] = "down"] /\ held' = [held EXCEPT ![s] = {}]
      BY DEF AutoMigrate, Moves
<1>2. /\ phase' \in [ServerNames -> Phases]
      /\ held' \in [ServerNames -> SUBSET {"dispatcher", "connection"}]
      /\ \A t \in ServerNames : t # s => phase'[t] = phase[t] /\ held'[t] = held[t]
      BY <1>1 DEF ServersInv, Phases
<1>3. ServerOK(s, phase', held', tables')
      BY <1>1 DEF ServersInv, ServerOK, Ready
<1> QED
    BY <1>1, <1>2, <1>3, LifeKeeps

\* A server that goes on: to serve, to watch for signals, to drain.
LEMMA MovesKeep ==
    ASSUME ServersInv, NEW s \in ServerNames, NEW from, NEW to, Moves(s, from, to),
           UNCHANGED <<deployment, held, tables, calls>>,
           \/ from \in Ready \ {"drained"} /\ to \in Ready
           \/ s = "media" /\ from = "down" /\ to \in {"serving", "down"},
           \/ from \in {"migrated", "down"}
           \/ to \in {"serving", "watching", "draining"}
           \/ \A i \in Calls : calls[i].server = s => ~Open(i)
    PROVE  ServersInv'
<1>1. phase[s] = from /\ phase' = [phase EXCEPT ![s] = to] /\ to \in Phases
      BY DEF Moves, Ready, Phases
<1>2. /\ phase' \in [ServerNames -> Phases] /\ phase'[s] = to
      /\ \A t \in ServerNames : t # s => phase'[t] = phase[t] /\ held'[t] = held[t]
      BY <1>1 DEF ServersInv
<1>3. ServerOK(s, phase', held', tables')
      BY <1>1, <1>2 DEF ServersInv, ServerOK, Ready, Migrated
<1>4. held' \in [ServerNames -> SUBSET {"dispatcher", "connection"}] /\ tables \subseteq tables'
      BY DEF ServersInv
<1> QED
    BY <1>1, <1>2, <1>3, <1>4, LifeKeeps

\* A server that stops.
LEMMA ShutdownKeeps ==
    ASSUME ServersInv, NEW s \in ServerNames,
           Serve(s) \/ Watch(s) \/ Shutdown(s)
    PROVE  ServersInv'
<1>1. CASE Serve(s) \/ Watch(s) \/ Signal(s) \/ GracefulStop(s)
      BY <1>1, MovesKeep DEF Serve, Watch, Signal, GracefulStop, Ready
<1>2. CASE Exit(s)
  <2>1. /\ UNCHANGED <<deployment, tables, calls>> /\ phase[s] = "drained"
        /\ phase' = [phase EXCEPT ![s] = "down"] /\ held' = [held EXCEPT ![s] = {}]
        BY <1>2 DEF Exit, Moves
  <2>2. /\ phase' \in [ServerNames -> Phases] /\ phase'[s] = "down"
        /\ held' \in [ServerNames -> SUBSET {"dispatcher", "connection"}]
        /\ \A t \in ServerNames : t # s => phase'[t] = phase[t] /\ held'[t] = held[t]
        BY <2>1 DEF ServersInv, Phases
  <2>3. ServerOK(s, phase', held', tables')
        BY <2>2 DEF ServerOK, Ready
  <2> QED
      BY <2>1, <2>2, <2>3, LifeKeeps
<1> QED
    BY <1>1, <1>2 DEF Shutdown

\* The main of each server.
LEMMA MainKeeps ==
    ASSUME ServersInv, Start \/ UserMain \/ ChatMain \/ FeedMain \/ NotifMain \/ MediaMain
    PROVE  ServersInv'
<1>1. "user" \in ServerNames /\ "feed" \in ServerNames /\ "chat" \in ServerNames
      /\ "notif" \in ServerNames /\ "media" \in ServerNames
      BY DEF ServerNames
<1>2. CASE Start
      BY <1>1, <1>2, NewMySQLKeeps
      DEF Start, InitializeUserHandler, InitializeChatService, InitializeFeedService,
          InitializeApplication
<1>3. /\ Migrated("user") = {"devices", "users", "friends"} /\ Migrated("chat") = {"messages"}
      /\ Migrated("feed") = {"contents", "media_refs", "reactions", "users"}
      /\ Migrated("notif") = {"notifications", "devices"}
      BY DEF Migrated
<1>4. CASE UserMain \/ ChatMain \/ FeedMain \/ NotifMain
      BY <1>1, <1>3, <1>4, AutoMigrateKeeps, ShutdownKeeps
      DEF UserMain, ChatMain, FeedMain, NotifMain
<1>5. CASE MediaMain
      BY <1>1, <1>5, MovesKeep DEF MediaMain
<1> QED
    BY <1>2, <1>4, <1>5

-----------------------------------------------------------------------------
(* The theorems.                                                           *)

\* At first no server runs and nobody has called.
LEMMA InitServersInv == Init => ServersInv
<1> SUFFICES ASSUME Init
             PROVE  ServersInv
    OBVIOUS
<1>1. /\ phase \in [ServerNames -> Phases]
      /\ held \in [ServerNames -> SUBSET {"dispatcher", "connection"}]
      BY DEF Init, Phases
<1>2. \A s \in ServerNames : ServerOK(s, phase, held, tables)
      BY DEF Init, ServerOK, Ready
<1>3. DOMAIN calls = Calls /\ \A i \in Calls : calls[i] = Idle
      BY DEF Init
<1>4. CallOK(Idle, phase, tables)
      BY DEF CallOK, Idle, Fields
<1> HIDE DEF Idle
<1> QED
    BY <1>1, <1>2, <1>3, <1>4 DEF Init, ServersInv

\* Every step keeps the invariant.
LEMMA NextServersInv == ServersInv /\ [Next]_vars => ServersInv'
<1> SUFFICES ASSUME ServersInv, [Next]_vars
             PROVE  ServersInv'
    OBVIOUS
<1>1. /\ "user" \in ServerNames /\ "feed" \in ServerNames /\ "chat" \in ServerNames
      /\ "notif" \in ServerNames /\ "media" \in ServerNames
      BY DEF ServerNames
<1>2. ASSUME NEW c \in Clients,
             \/ UserServiceClient(c) \/ FeedServiceClient(c)
             \/ ChatServiceClient(c) \/ NotificationServiceClient(c) \/ HTTPClient(c)
      PROVE  ServersInv'
      BY <1>1, <1>2, RequestsKeep
      DEF UserServiceClient, FeedServiceClient, ChatServiceClient, NotificationServiceClient,
          HTTPClient
<1>3. ASSUME NEW c \in Clients, ClientLeaves(c)
      PROVE  ServersInv'
      BY <1>3, ClientLeavesKeeps
<1>4. ASSUME NEW i \in Calls, Work(i)
      PROVE  ServersInv'
  <2>1. CASE \/ DispatchPublic(i) \/ DispatchProtected(i)
             \/ DispatchFeed(i) \/ DispatchChat(i) \/ DispatchNotif(i) \/ ServeHTTP(i)
        BY <2>1, ArrivedKeeps
  <2>2. CASE Unavailable(i)
        BY <2>2, UnavailableKeeps
  <2>3. CASE Accept(i) \/ Skip(i) \/ NotifyAsync(i) \/ ReadText(i)
        BY <2>3, AcceptKeeps
  <2>4. CASE Refuse(i)
        BY <2>4, RefuseKeeps
  <2>5. CASE Query(i)
        BY <2>5, QueryKeeps
  <2>6. CASE QueryFails(i)
        BY <2>6, QueryFailsKeeps
  <2>7. CASE AskFriends(i)
        BY <2>7, AskFriendsKeeps
  <2>8. CASE Asked(i)
        BY <2>8, AskedKeeps
  <2>9. CASE TextMissing(i)
        BY <2>9, TextMissingKeeps
  <2>10. CASE BeginStream(i)
         BY <2>10, BeginStreamKeeps
  <2>11. CASE StreamOver(i)
         BY <2>11, StreamOverKeeps
  <2>12. CASE Return(i)
         BY <2>12, ReturnKeeps
  <2> QED
      BY <1>4, <2>1, <2>2, <2>3, <2>4, <2>5, <2>6, <2>7, <2>8, <2>9, <2>10, <2>11, <2>12 DEF Work
<1>5. ASSUME NEW s \in ServerNames, Killed(s)
      PROVE  ServersInv'
      BY <1>5, KilledKeeps
<1>6. CASE Start \/ UserMain \/ ChatMain \/ FeedMain \/ NotifMain \/ MediaMain
      BY <1>6, MainKeeps
<1>7. CASE UNCHANGED vars
  <2>1. UNCHANGED lifecycle /\ calls' = calls
        BY <1>7 DEF vars, lifecycle
  <2> QED
      BY <2>1, OfCall, SomeCalls DEF ServersInv
<1> QED
    BY <1>2, <1>3, <1>4, <1>5, <1>6, <1>7 DEF Next

\* The invariant holds of the servers.
THEOREM ServersStand == Spec => []ServersInv
<1>1. Init => ServersInv
      BY InitServersInv
<1>2. ServersInv /\ [Next]_vars => ServersInv'
      BY NextServersInv
<1> QED
    BY <1>1, <1>2, PTL DEF Spec

\* What the invariant says of a call at work, and of one that was answered.
LEMMA AtStep ==
    ASSUME ServersInv, NEW i \in Calls
    PROVE  LET q == calls[i] IN
           /\ q.reply \in Replies \cup {None} /\ (q.stage = "answered" <=> q.reply # None)
           /\ q.stage \in {"idle", "sent", "running", "asking", "streaming", "answered"}
           /\ q.stage \in {"running", "asking", "streaming"} => Working(q, phase)
           /\ q.stage = "answered" => Told(q)
<1>1. CallOK(calls[i], phase, tables) /\ None \notin Replies
      BY OfCall, DeploymentAssumption
<1> QED
    BY <1>1 DEF CallOK, Working, Told

\* The variables keep their types, a call that waits is at one of its steps, and only
\* tables there are were written.
THEOREM TypeCorrect == Spec => []TypeOK
<1>1. ServersInv => TypeOK
  <2> SUFFICES ASSUME ServersInv
               PROVE  TypeOK
      OBVIOUS
  <2>1. ASSUME NEW i \in Calls, calls[i].stage \in {"asking", "streaming"}
        PROVE  ~Finished(i)
    <3>1. Working(calls[i], phase) /\ calls[i].at \in DOMAIN Method(calls[i]).steps
          BY <2>1, AtStep DEF Working, Waits
    <3>2. IsList(Method(calls[i]).steps)
          BY <3>1, HandlerOf DEF Working, Sound
    <3> QED
        BY <3>1, <3>2 DEF Finished, Methods, Method, IsList
  <2> QED
      BY <2>1, AtStep, OfCall DEF TypeOK, ServersInv
<1> QED
    BY <1>1, ServersStand, PTL

\* While a handler works, the tables it uses were migrated by its own server, and the
\* dispatcher or the connection it uses is open.
THEOREM HoldsResources == Spec => []ResourcesHeld
<1>1. ServersInv => ResourcesHeld
  <2> SUFFICES ASSUME ServersInv, NEW i \in Calls, calls[i].stage = "running", ~Finished(i)
               PROVE  /\ Current(i).tables \subseteq tables \cup {"files"}
                      /\ Current(i).op = "notify" => "dispatcher" \in held[calls[i].server]
                      /\ Current(i).op = "ask" => "connection" \in held[calls[i].server]
      BY DEF ResourcesHeld
  <2> DEFINE q == calls[i]
             s == q.server
  <2>1. Working(q, phase) /\ Known(q) /\ phase[s] \in {"serving", "watching", "draining"}
        BY AtStep DEF Working
  <2>2. Sound(s, Method(q)) /\ s \in ServerNames
        BY <2>1, HandlerOf DEF Known
  <2>3. q.at \in DOMAIN Method(q).steps
    <3>1. q.at \in 1 .. Len(Method(q).steps) + 1 /\ ~(q.at > Len(Method(q).steps))
          BY <2>1 DEF Working, Finished, Methods, Method
    <3> QED
        BY <2>2, <3>1 DEF Sound, IsList
  <2>4. Current(i) = Method(q).steps[q.at]
        BY DEF Current, Methods, Method
  <2>5. Fit(s, Current(i))
        BY <2>2, <2>3, <2>4 DEF Sound
  <2>6. ServerOK(s, phase, held, tables)
        BY <2>2 DEF ServersInv
  <2> QED
      BY <2>1, <2>5, <2>6 DEF Fit, Reach, ServerOK, Ready
<1> QED
    BY <1>1, ServersStand, PTL

\* A client that is told that its request is invalid finds nothing written, except by
\* the handlers that answer any failure so.
THEOREM RefusesUntouched == Spec => []RefusedUntouched
<1>1. ServersInv => RefusedUntouched
  <2> SUFFICES ASSUME ServersInv, NEW i \in Calls, calls[i].reply = "invalid",
                      calls[i].server # "user", calls[i].method # "ReactToContent"
               PROVE  calls[i].wrote = {}
      BY DEF RefusedUntouched
  <2>1. "invalid" # None
        BY DeploymentAssumption DEF Replies
  <2>2. Told(calls[i])
        BY <2>1, AtStep
  <2>3. ChecksFirst(Method(calls[i]))
        BY <2>2, HandlerOf DEF Told
  <2> QED
      BY <2>2, <2>3 DEF Told
<1> QED
    BY <1>1, ServersStand, PTL

\* A success is reported only when all that the call is about was written.
THEOREM OkMeansDone == Spec => []OkIsDone
<1>1. ServersInv => OkIsDone
  <2> SUFFICES ASSUME ServersInv, NEW i \in Calls, calls[i].reply = "ok",
                      NEW n \in 1 .. Len(Methods(i).steps), Must(Methods(i).steps[n])
               PROVE  Methods(i).steps[n].tables \subseteq calls[i].wrote
      BY DEF OkIsDone
  <2>1. "ok" # None
        BY DeploymentAssumption DEF Replies
  <2>2. Told(calls[i]) /\ Known(calls[i])
        BY <2>1, AtStep DEF Told
  <2>3. Methods(i) = Method(calls[i]) /\ IsList(Method(calls[i]).steps)
        BY <2>2, HandlerOf DEF Methods, Method, Sound
  <2> QED
      BY <2>2, <2>3 DEF Told, IsList
<1> QED
    BY <1>1, ServersStand, PTL
=============================================================================
