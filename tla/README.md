# GoSocial in TLA+

A verification development kept beside the Go services of GoSocial: TLA+ models
of the parts where goroutines, databases and failures meet, model-checked with
TLC on small instances, and theorems about each of them proved with TLAPS for
every instance. `PROJECT.json` lists the runs, the mutants that show that each
property can fail, the source lines behind each definition, the hazards and the
theorems.

## The system

GoSocial is four gRPC servers and an HTTP server for media, each a process of
its own, over one MySQL database and a MongoDB GridFS bucket.

| Part | State | Operations | Who it works with |
|---|---|---|---|
| Notification dispatcher (`internal/notif/service.go`, `NotificationSubject`) | a channel of 1000 events, 5 workers, the observers' map, a context | Subscribe, Unsubscribe, NotifyAsync, processEvents/Notify, Shutdown | called by the handlers and the scheduler, calls the observers |
| Notification service (`internal/notif`, `internal/dbmysql/notification_repositories.go`) | rows `notifications` in MySQL, the scheduler's goroutine | SendNotification, ScheduleNotification, MarkAsRead, GetUserNotifications, a round of the scheduler every minute, Shutdown | the dispatcher, MySQL |
| Observers (`internal/notif/observers.go`) | none; device rows in MySQL | FCM push, e-mail | the dispatcher, FCM, SMTP, `device_repository.go` |
| Chat (`internal/chat`) | the registry of open streams per conversation, rows `messages` | SendMessages, StreamMessages, broadcast, removal, GetChatHistory | clients, MySQL |
| Users and friends (`internal/user`) | rows `users`, `friends`, `devices` | registration, login, profile, friend requests, devices | MySQL; asked by the feed for friends |
| Feed (`internal/feed`, `internal/dbmongo`) | rows `contents`, `media_refs`, `reactions`, files in GridFS | create, delete, react, timeline, user content, cleaner of expired stories | MySQL, GridFS, the user service |
| Authentication (`internal/common`) | none; the tokens are the clients' | interceptor, JWT, validation | the user server |
| Media server (`internal/media`) | none | serve a file, health | GridFS |
| Servers (`cmd/*`, `internal/di`, the handlers, the stubs of `api/v1`) | processes with their connections, open calls | migration, serving, dispatch of calls, graceful stop, the end of a process | clients, each other, MySQL, GridFS |

What is hard in it:

* goroutines around one channel that is closed under them (dispatcher),
* slices shared between a walker without a lock and a writer with one (chat),
* operations of several statements without a transaction, interleaved with each
  other and cut short by errors and crashes (friends, feed, reactions),
* a scheduler that acts on query results that may be stale, and whose record of
  what it did may fail or be lost with the process (notifications),
* servers that start, stop and die under the calls they serve, and one server
  that calls another for its own client,
* work that must come to an end in spite of all this (calls, events, due rows,
  expired stories, shutdown).

What makes the parts correct:

* dispatcher: an accepted event is handled once, by one worker, for everyone
  subscribed; shutdown ends and leaves silence;
* notification service: no row early, none forgotten, none repeated without a
  failure to blame;
* chat: a listener hears its own conversation, all of it but for removals, and
  nothing that is not stored; who leaves is removed, but for the cases that
  `NoGhosts` names;
* friends: friendship needs a request and an acceptance, is mutual, and stays;
* feed: contents keep their media until they are deleted, nothing is left over
  without a failure to blame, expired stories go; what a user is shown is
  complete, in order, and hides what the authors hide;
* accounts: a handle is one account with one password, and a profile holds what
  was asked for it last;
* reactions: a user has one reaction to a content, and has it once told so;
* servers: a handler finds what it works with, a refusal leaves nothing behind, a
  success is done, every call is answered and a server that is told to stop does;
* devices: a push reaches its user and nobody else, working devices stay active
  and dead tokens do not.

## The modules

| Module | Models | State and actions |
|---|---|---|
| `NotificationPromise` | the abstract dispatcher | an event is new, waiting, being notified, done or refused; no channel, no workers |
| `NotificationSubject` | `service.go` 18-102 | `eventChannel`, `cancelled` (the context), `closed`, `observers`, per worker `pc`, `event`, `todo` (its snapshot of the observers); each `case` of a `select` is an action, `Update` is one call of an observer, `Cancel`, `Close`, `Wait` are the three statements of Shutdown |
| `NotificationSubject_proofs` | theorems about it, and that it implements the promise | |
| `NotificationService` | `service.go` 136-300, the repository, `main` of the server | `row` and `scheduledAt` are columns; `batch` and `current` are the scheduler's loop; the dispatcher is an instance of `NotificationPromise`; `Kill`, `Exit` and `Restart` are the process |
| `NotificationService_proofs` | theorems about it | |
| `ChatHub` | `chat_handler.go`, `chat_service.go` | `arrays` and `streams` are the registry as Go keeps it: slices (array, length) over backing arrays; `walk` is a broadcast, holding the slice it read; each stream has its receiving goroutine and the goroutine that waits for its context. The latter ends in two steps (below) |
| `ChatHub_proofs` | theorems about it | |
| `Friendship` | `user_service.go` 142-196, `friend_repository.go` | `row` is the table `friends`; per call `pc` names the next query |
| `Friendship_proofs` | theorems about it | |
| `FeedContent` | `feed_service.go`, `feed_repo.go`, `media_storage.go` | `row`, `ref`, `file`: the content row, the media row and the GridFS file of each content; per goroutine `pc` names the next access; `Rounds` are the goroutines that the ticker of the cleaner starts |
| `FeedContent_proofs` | theorems about it | |
| `FeedReactions` | `feed_service.go` 275-287, `DeleteReaction`, `AddReaction` | `reactions` is the table, a row named by the call that inserts it; per call `stage` names the next statement |
| `Accounts` | `user_service.go` 37-140, `user_repository.go`, `jwt.go`, `middleware.go` | `rows` is the table `users`, `valid` the tokens that are good; per call `pc` names the next query, `user` is the struct that the call has read or made and will save |
| `FeedTimeline` | `feed_service.go` 289-395, `ListUserContent`, `GetMediaRefByID` | one call of GetTimeline or GetUserContent: `authors` and `listed` are what its loops have left, `items` and `urls` the two lists it returns; contents are numbered in the order of `created_at`, and a content stands for its URL |
| `Feed_proofs` | theorems about `FeedReactions` and `FeedTimeline` | |
| `DevicePush` | `observers.go` 39-132, `device_repository.go` | `owner` and `active` are the table `devices`; per push `devices` is what it has read and `todo` what it has still to mark; FCM answers each token |
| `User_proofs` | theorems about `Accounts` and `DevicePush` | |
| `Servers` | the handlers of the four gRPC servers and of the media server, the stubs and dispatchers of `api/v1`, `middleware.go`, `wire_gen.go`, `NewMySQL`, the five `main.go` | a handler is a sequence of steps (checks, reads, writes, a call of another server) and the code of its errors; `calls` are the requests under way and where each stands, `phase`, `held` and `tables` are how far each `main` has come, what it has opened and what has been migrated |
| `Servers_proofs` | theorems about it | |

`NotificationService` composes with the dispatcher through its promise, and
`NotificationSubject` is shown to implement that promise
(`KeepsPromise`, with the refinement mapping in `Promise`): the service is
checked against what the dispatcher guarantees and not against its channel.
`Servers` composes all the servers: what the other modules say of one operation
in detail is one step there, and what it adds is how calls, the two servers of a
nested call, start-up, shutdown and the death of a process go together.
The remaining models stand alone. `DevicePush` is the Update that
`NotificationSubject` has a worker call, and `FeedTimeline` has the tables of
`FeedContent` and `Friendship` change under it, each by the writes that matter
to a reader.

`FeedReactions` and `DevicePush` call their specification, its parts and the
places of their calls by names of their own (`ReactionsSpec`, `DevicesSpec`,
`stage`), so that a module of proofs can extend two models at once.

Each module has definitions that no behaviour uses, each right before the
action that it would replace, with a comment that says what bug it is: they are
the mutants, and `PROJECT.json` says which property each one breaks. Variables
declared under "history" record what properties need to speak about the past;
no action's guard depends on them, except that an event is submitted once
(`outcome`) and a content identifier is used once (`blamed`).

In `ChatHub`, StreamMessages ends in two steps. `StreamMessagesWakes` is the
`select` and the reading of `conversationID` into `argument`: the code evaluates
the argument of removeStream before removeStream takes the lock, and without any
synchronisation with the goroutine that sets the variable. `StreamMessagesReturns`
is the removal under the lock and the return. `Recv` (which sets the variable) and
`Register` (the append under the lock) may come before, between or after the two.
The variable changes from "" to a name only, so that a string caught half written
is "" or a nil pointer with a length, which ends the process; the former is the
old value. The process itself has no end in this model.

### What is abstracted

Payloads, names and times of day are left out; a notification, event, user or
content is a model value. In `Servers` a request carries at most one fault: each
step of a handler that refuses requests is given the set of fields it refuses,
and one of them stands for all. The other modules leave validation out where it
rejects a request before any state changes, except for the message without a
conversation, which matters in the chat. Tokens, passwords and hashes are model
values. ListFriends of the user server answers for the user of the token and
ignores the user that the request names; the timeline of `FeedTimeline` asks for
the viewer's friends, as the code of the feed means it. A database
statement is one step. It may fail, in the models where failures matter, and a
write that fails may have been carried out. The uniqueness of a (user, friend)
pair is the index that AutoMigrate creates from the tags of
`dbmysql/friend.go`; the SQL file under `migrations/` has none, and the user
server does not run it.

## The runs

| Run | Bounds | Shows |
|---|---|---|
| `subject` | 3 events, 1 observer, 2 workers, channel of 1 | `Conservation`, `AtMostOnce`, `FanoutComplete`, `QuietAfterShutdown`, the refinement `KeepsPromise`, and under fairness `AcceptedIsHandled`, `ShutdownReturns`. Three events are the fewest with which one is dropped while one waits and one is held; the observer comes and goes freely |
| `service` | 2 rows, 1 immediate send, clock 0..1, 1 failure | `NeverEarly`, `TriedOncePerFault`, `SentWasTried`, and the liveness property `DueIsSettled`; two rows make a round with one row handled and one to go |
| `chat` | 3 streams and a unary call, 2 conversations and none, 3 messages and 2 broadcasts in all, 2 clients that go | `MissesBounded`, `NoGhosts`, `ConversationsApart`, `HeardIsSaved`; three streams grow the array to four places, so removals and appends in place happen under a broadcast; the second broadcast and the message without a conversation make streams register twice and under several conversations; with two clients that go, a broadcast meets two removals and still has a listener to miss, and two streams cross each other at the end; a third would leave nobody to hear |
| `friendship` | 2 users, 3 calls at once, any number in sequence | `Consent`, `MutualUnlessBroken`, `AcceptedStays`; pairs of users do not influence each other |
| `feed_content` | a story with media, a note without, 1 call and 2 rounds of the cleaner at once, 2 failures | `Whole`, `OrphansBlamed`, `FileGoesFirst`, and the liveness property `StoriesGo` |
| `reactions` | 4 calls, one user, 2 contents, 2 types | `DoubledOnlyByRace`, `ReactionSurvives`; a row is told apart by its user and content only, so a second user adds nothing to a second content; four calls are two that race, one after them and one on the other content |
| `accounts` | 3 calls, 2 keys, 2 handles, 2 passwords, 2 fields of a profile | `SignedInAsAsked`, `LostOnlyByRace`; three calls are a registration and two logins or updates with its token that race |
| `device_push` | 2 users, 2 tokens, 2 pushes | `StraysAreRaces`, `RowsFollowRegistrations`, `OnlyBadMessagesMute`, `RefusedGoQuiet`; two tokens leave a push with one marked and one to go, two users have a token change hands |
| `feed_timeline` | 2 users, 2 contents, any number of calls in sequence | `NothingMissed`, `PrivacyKept`, `UserContentPaired`; two contents are enough to be in the wrong order or beside the wrong URL, two users to be a viewer and an author who become friends under the call |
| `feed_timeline_urls` | as above | a violation: the URL of one content beside another |
| `servers` | the feed server with the user server behind it, and the chat, notification and media servers; one client with one call, two for the chat server | `ResourcesHeld`, `RefusedUntouched`, `OkIsDone`, and under fairness `AnsweredInTheEnd`, `StopsUnlessStreamed`; servers that call nobody share nothing but the database and are run one by one; the chat server needs a stream that stays and a call beside it |
| `servers_timeline` | as above | a violation: a timeline that fails though both servers are up |

Type invariants are proved; those of `ChatHub` and of `FeedTimeline`, whose slices,
arrays and lists make it worth running, are checked as well.

`CHECK_DEADLOCK FALSE` stands in the runs whose behaviours really end: a
dispatcher that has shut down or panicked, a service whose bounded failures and
clock are used up with every row settled, streams that have all left, a feed
with nothing left to do, calls on accounts or reactions that are all answered. The other runs check for deadlock.

### Fairness

* `NotificationSubject`: a worker that can step does (the Go scheduler is fair,
  and an `Update` is taken to return), and one that comes back to its `select`
  for ever with the context cancelled takes the Done case at some point, since
  `select` draws among the ready cases: strong fairness of `Exit`. Shutdown goes
  on once it is called. Nothing forces calls.
* `NotificationService`: the ticker fires while the process lives, the loop goes
  on, the dispatcher works, the process is started again when it is down.
  Failures are never forced and are bounded by `MaxFaults`, so liveness is about
  a database that recovers.
* `FeedContent`: the ticker fires, a round goes through its stories, an access
  returns; failures are bounded likewise.
* `Servers`: a server that runs goes on with each of its calls, the database and
  GridFS answer or fail, a client's stub sees that nobody listens, and a server
  that was told to stop goes on stopping (`GracefulStop(s) \/ Exit(s)`). Nobody
  has to call, to start or signal a server, or to leave a stream.
* The other modules are checked for safety only.

### What the runs found

* A broadcast walks the backing array that a removal shifts under it. The
  consequence is bounded, as `MissesBounded` shows: a broadcast misses at most as
  many of its listeners as streams were removed under way.
* A stream that has left may stay registered, in two ways that `NoGhosts` tells
  apart. Its goroutine may register it when no removal from there is to come:
  StreamMessages has returned, or it read `conversationID` before the goroutine
  set it, and the removal of the old value finds nothing. Such a stream is removed
  when a broadcast fails on it. And a stream whose first message names no
  conversation is listed under "" and again under what its next message names,
  while StreamMessages removes it from one of the two, or once of two places. What
  remains under "" remains until the server ends: a message without a
  conversation is not stored, so it is never broadcast, and nobody purges.
* Every timeline fails as the servers are wired (`TimelineServed`): the feed
  server's client of the user service passes no token on
  (`ProvideUserServiceClient`), and the user server refuses calls without one.
  So does every look at another user's contents. `FeedTimeline` has the client
  of the feed's tests, which answers or fails.
* A client of the chat server that keeps its stream open keeps the server from
  stopping (`StopsUnlessStreamed` excepts just that): GracefulStop has no
  deadline, and StreamMessages returns only when its client goes.
* A GetContent of a content without a text ends the feed server: the handler
  follows the pointer, and nothing recovers (`TextMissing`). The calls that are
  cut off are answered as unavailable all the same (`AnsweredInTheEnd`).
* ReactToContent writes before it looks at the request, and the user server
  answers every failure as an invalid argument, also that of a write
  (`RefusedUntouched` excepts both).
* Two registrations of one handle both pass the check, and only the unique index
  tells them apart (`SignedInAsAsked` fails without it, its mutant). Two updates
  of a profile at once lose fields (`LostOnlyByRace` names the fields that may
  be), and two reactions at once leave two rows (`DoubledOnlyByRace`), which a
  later reaction removes.
* A full channel drops events and the caller is told of success, since
  NotifyAsync returns nothing (`Drop`, `Refuse` in the promise).
* GetTimeline sorts the contents and leaves the URLs as they were collected
  (`TimelinePaired`), so a friend's newer content appears without its media and
  another one with it. GetUserContent does not sort and has no such fault
  (`UserContentPaired`).
* Two users who ask each other at the same time both get a pending row. When one of the two is then accepted, the other stays
  pending until it is accepted too; until then the friendship is listed on one
  side, the third case of `MutualUnlessBroken`.
* `FeedContent` shows what is not visible in any test: an upload whose deferred
  `Close` fails leaves a content without its file (`silent` in `Whole`), and a
  crash between the two deletions of a media leaves its row for ever
  (`OrphansBlamed`).
* A push whose message FCM does not accept silences every device it was sent to
  (`OnlyBadMessagesMute` excepts these), and a device that changes hands while a
  push is under way receives the other user's notification (`StraysAreRaces`).

One more fault was met that no run is needed for: a story's expiration is
computed from a creation time that is not set yet (`feed_service.go` 268), so a
story has expired when it is stored. GetTimeline also shows the private contents
of friends, which GetUserContent hides: nothing in the repository says which of
the two is meant.

## The proofs

`NotificationSubject_proofs` proves for any sets of events, observers and
workers and any capacity, under `SubjectAssumption` (a positive capacity, some
worker, a zero event that is no event):

* `TypeCorrect`;
* `EventsConserved`: `Conservation` is inductive together with `TypeOK`; the
  steps that move an event (Enqueue, Receive, Return) each have a lemma, and
  `PlacesKept` covers all the others at once, which leave every event where it
  is;
* `DeliveredAtMostOnce` and `FanoutIsComplete`: neither property is inductive.
  The invariant `Delivery` adds what a worker in the middle of its loop owes: an
  event not yet begun has been handed to nobody, and one under way has been
  handed exactly to the observers that have left its `todo`. It rests on
  `Conservation`: a second worker with the same event would spoil it;
* `ShutdownQuiet`, from the invariant `ShutdownStage` that ties `closed` and the
  workers' exits to the position of Shutdown.

The same module proves `PromiseKept`: `Spec => Promise!Spec` for
the mapping of `NotificationSubject`, in which an event is waiting while it is
in the channel, is being notified while a worker holds it, and was handed to the
observers whose Update was called. Each action has a lemma that it is a step of
the promise or leaves the mapped state alone, under the invariants of
the properties above: `Conservation` makes the status well defined, and
`ShutdownStage` ties the promise's phase to the position of Shutdown.

`Friendship_proofs` proves for any number of users and calls, with no
assumption: `TypeCorrect`, `FriendsConsented`, `FriendshipsMutual` and
`FriendshipsStay`. `Consent` is not inductive, since a call between its read and
its write carries the evidence in its program counter: `Traces` says that a
pending row was asked for, that a call about to write has read a row that was
asked for, and that a half-done acceptance has its row accepted. Each kind of
step has a lemma that it keeps `IInv`.

`NotificationService_proofs` proves, for any number of rows and sends, any clock
and any number of faults, under `ServiceAssumption`: `TypeCorrect`, `NotEarly`,
`TriesPaidFor` and `SentTried`. The invariant accounts for each row
(`Accounted`): its tries so far, with one more if the scheduler still has it on
its list, are at most one more than the faults, and the shutdown that is under
way counts for the rows it will take from the scheduler (`Ending`).

`FeedContent_proofs` proves, for any contents, calls and rounds and any bound of
faults: `TypeCorrect`, `SeenIsWhole`, `OrphansAreBlamed` and `FileFirst`. The
invariant ties what a content has in the two databases to the place of every
goroutine that is at work on it: one that creates is alone with it, those that
delete may be many. The frame lemmas say that a goroutine leaves other contents
alone, so that each access needs only its own content's case.

`User_proofs` proves about `Accounts`, for any number of calls, keys, handles and
fields, under `AccountsAssumption`: `TypeCorrect`, `SignedIn`, `TokensName` and
`LossesAreRaces`. The invariant says that a row once inserted keeps its handle
and password, that a call in possession of a user has one with the row's handle
and password, and that a fresh call has the row's very profile.

`User_proofs` also proves about `DevicePush`, for any number of users, tokens and
pushes, under `DeviceAssumption` (no user is nobody): `DevicesTypeCorrect`, `RowsFollow`,
`OnlyBadMute`, `RefusedAreQuiet` and `StraysRace`. The invariant adds
`Knowledge`, what a push may rely on between its accesses: the tokens it has
read are its user's unless they changed hands since, FCM had forgotten the
tokens that it has to mark unless the message was bad, and the refused tokens
that it need not mark any more are inactive, spared or registered anew. Each
kind of step has a lemma.

`Feed_proofs` proves about `FeedReactions`, for any number of calls, users and
contents: `ReactionsTypeCorrect`, `DoublesAreRaces` and `ReactionsSurvive`. A call
about to insert has emptied the table of its reaction, or has met whoever wrote
since, or is recorded as one that deleted nothing.

It proves about `FeedTimeline`, for any finite set of users and any number of
contents: `TypeCorrect`, `ShowsAll`, `KeepsPrivacy` and `PairsURLs`. The invariant
`TimelineInv` follows what the call has in hand. `AuthorsAhead`: it holds nothing
yet of an author that is still to be listed, so no content comes twice.
`NothingLost`: a content that was there before the call, is there still and must
be shown is listed already or is of an author ahead. `Filtered`: what has passed
the filter may be shown whatever happens to the friendships, since `friends`
records who was ever accepted. `PairedUntilSorted`: a content stands beside its own
URL or none until the timeline sorts one list without the other. The order of a
listing is `NewestFirst`, the sequences that hold a set once each in descending
order; what the proofs use of such a sequence is that it holds exactly the set and
nothing twice, which follows from the cardinality of the set.

`ChatHub_proofs` proves, for any streams, calls and conversations, under
`HubAssumption`: `TypeCorrect`, `Apart`, `Heard`, `Ghosts` and `Misses`. The invariant says
what the registry's arrays hold (`RegistryFilled`): whoever lies within the
length of a conversation's slice is a stream of that conversation. A broadcast
walks through its slice without the lock, so `Walking` says the same of the slice
it took, however long ago. It stays true since append and removal keep every
array, in its length, and write nothing into it but streams of the same
conversation (`Kept`, from the lemmas about one array rewritten and one
allocated); the effects of `AppendStream` and `RemoveStream` are a lemma each.
`NoGhosts` follows from `GhostParts`, which follows every listed stream to the
removal that is to come for it: a stream stands in a slice only if it is excused
(it registered too late, or stands under "" and has set out to register again) or
awaited, that is, StreamMessages has not returned and has read, or will read, just
this conversation (`ListedAwaited`). When it returns, what it removes is the first
place only, so the stream must be in the slice once at most: `RegisteredOnce` says
so of the conversations with a name, and `NamelessOnce` of "", as long as the
stream has registered only once. `Leaving` adds that the conversation is read only
when the client has gone.

`Misses` needs a balance for each broadcast. While it walks through an array that
others rewrite, `Balanced` says that the listeners it will have missed, were it to
go on through the array as it is, are no more than the removals it has counted,
and that the times it has reached a stream and the places where that stream still
stands ahead are together at most one more than those removals. A removal in place
moves every later stream down by one: at most one of them slips below the walk,
and at most one place is doubled at the end; an append in place writes behind the
slice that the broadcast took; and an append that moves to another array leaves
the walked one behind as it was. Each is a lemma about one array (what is missed
and what is ahead, as finite sets), and a lemma for each action carries it over
to all broadcasts (`Counted`). `ArraysKnown` adds that whoever is written anywhere
in a conversation's arrays, also beyond the length of its slice, has named it.

`Servers_proofs` proves, for any clients and any deployments, under
`DeploymentAssumption`: `TypeCorrect`, `HoldsResources`, `RefusesUntouched` and
`OkMeansDone`. First, `Handlers` shows of every handler, as a list of steps, what
the rest needs (`Sound`): each step uses only the tables that its own server
migrates, asks for friends in the feed server only and notifies in the
notification server only; a write whose failure is ignored is followed by one of
the same table whose failure is not; a failure that ends the work early comes
after the last write; and, but for the user server and ReactToContent, no request
is looked at after a write (`ChecksFirst`). The invariant `ServersInv` says of a
server that has come as far as serving that its tables are there and what it
opened is open; and of a call at work that its server still serves or drains, that
what it was sure to write before its place is written or a failure is kept, and
that it has written nothing if a check is still to come. Each kind of step of a
call has a lemma; the servers' moves have one frame lemma, which asks that a
server that ceases to serve has no call at work (GracefulStop) or cuts its calls
off (its death).

Model-checked only: liveness, which the provers cannot do (`AcceptedIsHandled`,
`ShutdownReturns`, `DueIsSettled`, `StoriesGo`, `AnsweredInTheEnd`,
`StopsUnlessStreamed`). Every safety property and every action property that a
passing run checks is a theorem.

## Not modelled

* Hashing, signing and the formats of handles and e-mails: they look at one
  request alone, and a model would take their outcome as given, as `Accounts`
  and `Servers` do.
* Paging: the offset of a page is a product of two parameters of the client, and
  the history of a chat is read without an order, so its pages are what the
  database makes of them. Both only read.
* Generated message types (`*.pb.go`), mocks and the reading of environment
  variables: no behaviour of their own. `src/main.go`, `shared/database.go` and
  `dbmysql/db.go` belong to none of the servers.
* The logging interceptors and the reflection service: they change nothing.
* Two `Send`s at once on one gRPC stream: undefined in grpc-go.
* Chunks of GridFS files: a file is there or it is not.

## Plan

What could come next: an abstract specification of what a broadcast promises to
the listeners of a conversation, with `ChatHub` shown to implement it, and one of
friendship as a relation that two users agree on, under `Friendship`.
