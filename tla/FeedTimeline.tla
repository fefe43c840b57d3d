----------------------------- MODULE FeedTimeline -----------------------------
(***************************************************************************)
(* What a user is shown: GetTimeline and GetUserContent of                 *)
(* internal/feed/feed_service.go.  Each is a series of reads without a     *)
(* transaction (the friends, the contents of each author, the media of     *)
(* each content), under which contents come and go and users become        *)
(* friends.  A call only reads, so calls do not influence each other and   *)
(* one at a time is modelled.  The user service is taken to answer for the *)
(* user it is asked about, as the client in the feed's tests does, or to   *)
(* fail.                                                                   *)
(***************************************************************************)
EXTENDS Naturals, FiniteSets, Sequences, SequencesExt

CONSTANTS
    Users,
    MaxContents,  \* the contents ever created
    NoURL         \* the empty URL

ASSUME TimelineAssumption ==
    /\ IsFiniteSet(Users)
    /\ MaxContents \in Nat
    /\ NoURL \notin Nat

VARIABLES
    rows,     \* the contents ever created, in the order of created_at
    stored,   \* those that are in the table
    media,    \* those whose media can be read
    friends,  \* <<u, v>>: the user service lists v as a friend of u
    pc,       \* the next read of the call
    kind,     \* "timeline" or "user", for GetTimeline or GetUserContent
    viewer,   \* userID, or requesterID
    authors,  \* the users whose contents are still to be listed
    listed,   \* the contents listed and not yet in the answer
    items,    \* the contents of the answer
    urls,     \* their URLs: a content stands for its URL
    \* The history, which no code reads:
    owed,     \* the users to be shown, but for those whose listing failed
    before    \* the contents that were stored when the call began

store == <<rows, stored, media, friends>>
query == <<kind, viewer, before>>
vars  == <<store, query, pc, authors, listed, items, urls, owed>>

Keys == 1 .. MaxContents
Row == [author : Users, privacy : {"public", "friends", "private"}, hasMedia : BOOLEAN]

TypeOK ==
    /\ rows \in Seq(Row) /\ Len(rows) <= MaxContents
    /\ stored \subseteq DOMAIN rows
    /\ media \subseteq {c \in DOMAIN rows : rows[c].hasMedia}
    /\ friends \subseteq {p \in Users \X Users : p[1] # p[2]}
    /\ pc \in {"idle", "friends", "list", "target", "filter", "lookup", "done", "failed"}
    /\ kind \in {"timeline", "user"}
    /\ viewer \in Users
    /\ authors \in Seq(Users) /\ IsInjective(authors)
    /\ listed \in Seq(DOMAIN rows) /\ IsInjective(listed)
    /\ items \in Seq(DOMAIN rows) /\ IsInjective(items)
    /\ ToSet(listed) \cap ToSet(items) = {}
    /\ urls \in Seq(Keys \cup {NoURL}) /\ Len(urls) = Len(items)
    /\ owed \subseteq Users
    /\ before \subseteq DOMAIN rows

Init ==
    /\ rows = <<>>
    /\ stored = {}
    /\ media = {}
    /\ friends = {}
    /\ pc = "idle"
    /\ kind = "timeline"
    /\ viewer \in Users
    /\ authors = <<>>
    /\ listed = <<>>
    /\ items = <<>>
    /\ urls = <<>>
    /\ owed = {}
    /\ before = {}

-----------------------------------------------------------------------------
(* The tables change *)

CreateContent(row) ==
    /\ Len(rows) < MaxContents
    /\ rows' = Append(rows, row)
    /\ stored' = stored \cup {Len(rows')}
    /\ media' = IF row.hasMedia THEN media \cup {Len(rows')} ELSE media
    /\ UNCHANGED <<friends, query, pc, authors, listed, items, urls, owed>>

\* DeleteContent deletes the media of a content and then its row, the row even
\* when the media could not be deleted.
DeleteMedia(c) ==
    /\ media' = media \ {c}
    /\ UNCHANGED <<rows, stored, friends, query, pc, authors, listed, items, urls, owed>>

DeleteContent(c) ==
    /\ stored' = stored \ {c}
    /\ UNCHANGED <<rows, media, friends, query, pc, authors, listed, items, urls, owed>>

\* One of the two rows of an acceptance (see Friendship).
AcceptFriend(u, v) ==
    /\ u # v
    /\ friends' = friends \cup {<<u, v>>}
    /\ UNCHANGED <<rows, stored, media, query, pc, authors, listed, items, urls, owed>>

-----------------------------------------------------------------------------
(* The reads *)

Begin(what, u) ==
    /\ pc \in {"idle", "done", "failed"}
    /\ kind' = what
    /\ viewer' = u
    /\ before' = stored
    /\ items' = <<>>
    /\ urls' = <<>>
    /\ listed' = <<>>
    /\ UNCHANGED store

Fail ==
    /\ pc' = "failed"
    /\ UNCHANGED <<store, query, authors, listed, items, urls, owed>>

\* The contents of S in the order of created_at DESC: the set of the one such
\* sequence.
NewestFirst(S) ==
    {s \in SetToSeqs(S) : \A i, j \in DOMAIN s : i < j => s[i] > s[j]}

\* A query of the contents without its condition.
ContentsOfAll(u) == NewestFirst(stored)

\* What the query of ListUserContent may answer.
ContentsOf(u) == NewestFirst({c \in stored : rows[c].author = u})

(* GetTimeline *)

GetTimeline(u) ==
    /\ Begin("timeline", u)
    /\ pc' = "friends"
    /\ authors' = <<>>
    /\ owed' = {}

FriendsOf(u) == {v \in Users : <<u, v>> \in friends}

\* The users in the order of the timeline's loop: the viewer, then the
\* friends as the user service lists them.
ListFriends ==
    /\ pc = "friends"
    /\ \E order \in SetToSeqs(FriendsOf(viewer)) : authors' = <<viewer>> \o order
    /\ owed' = ToSet(authors')
    /\ pc' = "list"
    /\ UNCHANGED <<store, query, listed, items, urls>>

ListFriendsFails == pc = "friends" /\ Fail

ListUserContent ==
    /\ pc = "list"
    /\ authors # <<>>
    /\ listed' \in ContentsOf(Head(authors))
    /\ authors' = Tail(authors)
    /\ pc' = IF listed' = <<>> THEN "list" ELSE "lookup"
    /\ UNCHANGED <<store, query, items, urls, owed>>

\* A loop that ends with the first author whose listing fails.
ListUserContentBreaks ==
    /\ pc = "list"
    /\ authors # <<>>
    /\ authors' = <<>>
    /\ owed' = owed \ {Head(authors)}
    /\ UNCHANGED <<store, query, pc, listed, items, urls>>

\* An author whose listing fails is left out.
ListUserContentFails ==
    /\ pc = "list"
    /\ authors # <<>>
    /\ authors' = Tail(authors)
    /\ owed' = owed \ {Head(authors)}
    /\ UNCHANGED <<store, query, pc, listed, items, urls>>

\* sort.SliceStable by CreatedAt, of the contents and not of the URLs.
\* No content is listed twice, so the sorted ones are those of a set.
SortedByTime(s) == NewestFirst(ToSet(s))

TimelineReturns ==
    /\ pc = "list"
    /\ authors = <<>>
    /\ items' \in SortedByTime(items)
    /\ pc' = "done"
    /\ UNCHANGED <<store, query, authors, listed, urls, owed>>

(* GetUserContent *)

GetUserContent(u, target) ==
    /\ Begin("user", u)
    /\ pc' = "target"
    /\ authors' = <<target>>
    /\ owed' = {target}

Target == Head(authors)

ListTarget ==
    /\ pc = "target"
    /\ listed' \in ContentsOf(Target)
    /\ pc' = IF viewer # Target THEN "filter" ELSE IF listed' = <<>> THEN "done" ELSE "lookup"
    /\ UNCHANGED <<store, query, authors, items, urls, owed>>

\* A test of the privacy that asks for friendship only when it is "friends".
VisibleUnlessFriends(c, isFriend) == rows[c].privacy = "friends" => isFriend

Visible(c, isFriend) ==
    \/ rows[c].privacy = "public"
    \/ rows[c].privacy = "friends" /\ isFriend

\* The friends of the target decide what the viewer may see.  What he may see
\* stays in the order of the list.
FilterByFriendship ==
    LET isFriend == viewer \in FriendsOf(Target)
    IN  /\ pc = "filter"
        /\ listed' \in NewestFirst({c \in ToSet(listed) : Visible(c, isFriend)})
        /\ pc' = IF listed' = <<>> THEN "done" ELSE "lookup"
        /\ UNCHANGED <<store, query, authors, items, urls, owed>>

ListTargetFails == pc \in {"target", "filter"} /\ Fail

(* Both *)

\* A look-up that gives no URL, not even an empty one, to what has none.
URLsOfMedia(c) ==
    {<<>>} \cup IF c \in media THEN {<<c>>} ELSE {}

\* GetMediaRefByID, for a content with media; an empty URL when it fails.
URLs(c) ==
    {<<NoURL>>} \cup IF c \in media THEN {<<c>>} ELSE {}

GetMediaRefByID ==
    /\ pc = "lookup"
    /\ items' = Append(items, Head(listed))
    /\ \E url \in URLs(Head(listed)) : urls' = urls \o url
    /\ listed' = Tail(listed)
    /\ pc' = IF listed' # <<>> THEN "lookup" ELSE IF kind = "timeline" THEN "list" ELSE "done"
    /\ UNCHANGED <<store, query, authors, owed>>

Next ==
    \/ \E row \in Row : CreateContent(row)
    \/ \E c \in DOMAIN rows : DeleteMedia(c) \/ DeleteContent(c)
    \/ \E u, v \in Users : AcceptFriend(u, v)
    \/ \E u \in Users : GetTimeline(u)
    \/ ListFriends \/ ListFriendsFails
    \/ ListUserContent \/ ListUserContentFails
    \/ TimelineReturns
    \/ \E u, v \in Users : GetUserContent(u, v)
    \/ ListTarget \/ FilterByFriendship \/ ListTargetFails
    \/ GetMediaRefByID

Spec == Init /\ [][Next]_vars

-----------------------------------------------------------------------------
(* Properties *)

\* What was stored during the whole call is in the answer, if the viewer may
\* see it and the listing of its author did not fail: the failure of one
\* author, or of one look-up, costs no other content.
NothingMissed ==
    pc = "done" =>
        \A c \in before \cap stored :
            /\ rows[c].author \in owed
            /\ kind = "timeline" \/ viewer = rows[c].author \/ rows[c].privacy = "public"
            => c \in ToSet(items)

\* In GetUserContent nobody is shown a private content of another user, nor a
\* content for friends of a user who has not accepted them.
PrivacyKept ==
    kind = "user" =>
        \A c \in ToSet(items) :
            LET row == rows[c] IN
            \/ row.author = viewer
            \/ row.privacy = "public"
            \/ row.privacy = "friends" /\ <<row.author, viewer>> \in friends

\* The URL beside a content is that content's, or empty: the handlers pair
\* the two lists by index.
Paired == \A i \in DOMAIN urls : urls[i] \in {NoURL, items[i]}

\* ... as it is in every answer of GetUserContent, with look-ups that fail
\* and media deleted under the call,
UserContentPaired == kind = "user" => Paired

\* ... and should be in every timeline.
TimelinePaired == kind = "timeline" /\ pc = "done" => Paired
=============================================================================
