------------------------------ MODULE Feed_proofs ------------------------------
(***************************************************************************)
(* The properties of FeedTimeline and of FeedReactions, two specifications *)
(* that share no variable, for any number of users, contents and calls.    *)
(***************************************************************************)
EXTENDS FeedTimeline, FeedReactions, SequenceTheorems, FiniteSetTheorems, TLAPS

-----------------------------------------------------------------------------
(* FeedTimeline: the inductive invariant                                   *)

\* Where a call stands, and what it has in hand there.
Stands ==
    /\ pc \in {"friends", "list"} => kind = "timeline"
    /\ pc \in {"target", "filter"} => kind = "user"
    /\ pc \in {"friends", "list", "target", "done"} => listed = <<>>
    /\ pc \in {"friends", "target", "filter"} => items = <<>> /\ urls = <<>>
    /\ pc = "done" /\ kind = "timeline" => authors = <<>>
    /\ kind = "user" => authors # <<>>
    /\ pc = "filter" => viewer # Target
    /\ pc = "lookup" => listed # <<>>
    /\ pc \in {"target", "filter", "lookup", "done"} /\ kind = "user" => owed = {Target}

\* A timeline has nothing yet of the authors that are still to be listed.
AuthorsAhead ==
    kind = "timeline" =>
        \A c \in ToSet(listed) \cup ToSet(items) : rows[c].author \notin ToSet(authors)

\* What must be shown is in the answer, in hand, or of an author that is still
\* to be listed.
ToBeShown(c) ==
    /\ c \in before \cap stored
    /\ rows[c].author \in owed
    /\ kind = "timeline" \/ viewer = rows[c].author \/ rows[c].privacy = "public"

Coming(c) ==
    \/ c \in ToSet(listed) \cup ToSet(items)
    \/ kind = "timeline" /\ rows[c].author \in ToSet(authors)

NothingLost ==
    pc \in {"list", "filter", "lookup", "done"} =>
        \A c \in DOMAIN rows : ToBeShown(c) => Coming(c)

\* What GetUserContent may show, and what it has in hand before and after the
\* filter.
MayBeShown(c) ==
    \/ rows[c].author = viewer
    \/ rows[c].privacy = "public"
    \/ rows[c].privacy = "friends" /\ <<rows[c].author, viewer>> \in friends

Filtered ==
    kind = "user" =>
        /\ \A c \in ToSet(items) : MayBeShown(c)
        /\ pc = "lookup" => \A c \in ToSet(listed) : MayBeShown(c)
        /\ pc = "filter" => \A c \in ToSet(listed) : rows[c].author = Target

\* A timeline loses the order of its URLs only when it is sorted.
PairedUntilSorted == kind = "user" \/ pc # "done" => Paired

TimelineInv ==
    /\ TypeOK
    /\ Stands
    /\ AuthorsAhead
    /\ NothingLost
    /\ Filtered
    /\ PairedUntilSorted

-----------------------------------------------------------------------------
(* Sequences *)

\* A sequence of what is in S, each once, has just the elements of S.
LEMMA InSomeOrder ==
    ASSUME NEW S, IsFiniteSet(S), NEW s \in SetToSeqs(S)
    PROVE  s \in Seq(S) /\ IsInjective(s) /\ ToSet(s) = S
<1> DEFINE n == Cardinality(S)
<1>1. n \in Nat
      BY FS_CardinalityType
<1>2. s \in [1 .. n -> S] /\ \A i, j \in 1 .. n : i # j => s[i] # s[j]
      BY DEF SetToSeqs
<1>3. s \in Injection(1 .. n, S)
      BY <1>2 DEF Injection, IsInjective
<1>4. IsFiniteSet(1 .. n) /\ Cardinality(1 .. n) = n
      BY <1>1, FS_Interval
<1> HIDE DEF n
<1>5. s \in Surjection(1 .. n, S)
      BY <1>3, <1>4, FS_Injection DEF n
<1>6. \A x \in S : \E i \in 1 .. n : s[i] = x
      BY <1>5 DEF Surjection
<1>7. s \in Seq(S)
      BY <1>1, <1>2
<1> QED
    BY <1>2, <1>3, <1>6, <1>7 DEF Injection, ToSet

\* ... and so has the sorted one.
LEMMA Sorted ==
    ASSUME NEW S, IsFiniteSet(S), NEW s \in NewestFirst(S)
    PROVE  s \in Seq(S) /\ IsInjective(s) /\ ToSet(s) = S
BY InSomeOrder DEF NewestFirst

\* What is taken from the front of a list is not in the rest.
LEMMA Taken ==
    ASSUME NEW S, NEW s \in Seq(S), s # <<>>
    PROVE  /\ Head(s) \in S /\ Tail(s) \in Seq(S)
           /\ ToSet(s) = {Head(s)} \cup ToSet(Tail(s))
           /\ IsInjective(s) => IsInjective(Tail(s)) /\ Head(s) \notin ToSet(Tail(s))
<1>1. /\ Head(s) = s[1] /\ s[1] \in S
      /\ Tail(s) \in Seq(S) /\ Len(Tail(s)) = Len(s) - 1
      /\ Len(s) \in Nat /\ Len(s) > 0 /\ DOMAIN s = 1 .. Len(s)
      /\ DOMAIN Tail(s) = 1 .. Len(s) - 1
      /\ \A i \in 1 .. Len(s) - 1 : Tail(s)[i] = s[i + 1]
      OBVIOUS
<1>2. ToSet(s) \subseteq {Head(s)} \cup ToSet(Tail(s))
  <2> SUFFICES ASSUME NEW i \in DOMAIN s, i # 1 PROVE s[i] \in ToSet(Tail(s))
      BY <1>1 DEF ToSet
  <2>1. i - 1 \in 1 .. Len(s) - 1 /\ Tail(s)[i - 1] = s[i]
        BY <1>1
  <2> QED
      BY <1>1, <2>1 DEF ToSet
<1>3. {Head(s)} \cup ToSet(Tail(s)) \subseteq ToSet(s)
  <2>1. \A i \in 1 .. Len(s) - 1 : i + 1 \in DOMAIN s
        BY <1>1
  <2> QED
      BY <1>1, <2>1 DEF ToSet
<1>4. ASSUME IsInjective(s)
      PROVE  IsInjective(Tail(s)) /\ Head(s) \notin ToSet(Tail(s))
  <2>1. \A i, j \in 1 .. Len(s) - 1 : Tail(s)[i] = Tail(s)[j] => i = j
        BY <1>1, <1>4 DEF IsInjective
  <2>2. \A i \in 1 .. Len(s) - 1 : s[1] # s[i + 1]
        BY <1>1, <1>4 DEF IsInjective
  <2> QED
      BY <1>1, <2>1, <2>2 DEF IsInjective, ToSet
<1> QED
    BY <1>1, <1>2, <1>3, <1>4

\* What is appended comes in once more.
LEMMA Appended ==
    ASSUME NEW S, NEW s \in Seq(S), NEW x \in S
    PROVE  /\ Append(s, x) \in Seq(S)
           /\ ToSet(Append(s, x)) = ToSet(s) \cup {x}
           /\ IsInjective(s) /\ x \notin ToSet(s) => IsInjective(Append(s, x))
<1>1. /\ Append(s, x) \in Seq(S)
      /\ Len(s) \in Nat /\ DOMAIN s = 1 .. Len(s)
      /\ DOMAIN Append(s, x) = 1 .. Len(s) + 1
      /\ \A i \in 1 .. Len(s) : Append(s, x)[i] = s[i]
      /\ Append(s, x)[Len(s) + 1] = x
      OBVIOUS
<1>2. ToSet(Append(s, x)) \subseteq ToSet(s) \cup {x}
      BY <1>1 DEF ToSet
<1>3. ToSet(s) \cup {x} \subseteq ToSet(Append(s, x))
  <2>1. 1 .. Len(s) \subseteq DOMAIN Append(s, x) /\ Len(s) + 1 \in DOMAIN Append(s, x)
        BY <1>1
  <2> QED
      BY <1>1, <2>1 DEF ToSet
<1> QED
    BY <1>1, <1>2, <1>3 DEF IsInjective, ToSet

\* What is added to the end of a list leaves the rest.
LEMMA Added ==
    ASSUME NEW S, NEW s \in Seq(S), NEW x \in S
    PROVE  /\ s \o <<x>> \in Seq(S) /\ Len(s \o <<x>>) = Len(s) + 1
           /\ \A i \in 1 .. Len(s) : (s \o <<x>>)[i] = s[i]
           /\ (s \o <<x>>)[Len(s) + 1] = x
<1> DEFINE t == <<x>>
<1>1. t \in Seq(S) /\ Len(t) = 1 /\ t[1] = x /\ Len(s) \in Nat
      OBVIOUS
<1> HIDE DEF t
<1>2. /\ s \o t \in Seq(S) /\ Len(s \o t) = Len(s) + Len(t)
      /\ \A i \in 1 .. Len(s) + Len(t) :
            (s \o t)[i] = IF i <= Len(s) THEN s[i] ELSE t[i - Len(s)]
      BY <1>1, ConcatProperties, Zenon
<1>3. (s \o t)[Len(s) + 1] = t[1]
  <2>1. Len(s) + 1 \in 1 .. Len(s) + Len(t) /\ ~(Len(s) + 1 <= Len(s)) /\ Len(s) + 1 - Len(s) = 1
        BY <1>1
  <2> QED
      BY <1>2, <2>1
<1>4. t = <<x>>
      BY DEF t
<1> QED
    BY <1>1, <1>2, <1>3, <1>4

\* What is put in front of a list comes in once more.
LEMMA Prepended ==
    ASSUME NEW S, NEW s \in Seq(S), NEW x \in S
    PROVE  /\ <<x>> \o s \in Seq(S) /\ <<x>> \o s # <<>>
           /\ IsInjective(s) /\ x \notin ToSet(s) => IsInjective(<<x>> \o s)
<1> DEFINE t == <<x>> \o s
<1>1. Len(s) \in Nat /\ DOMAIN s = 1 .. Len(s)
      OBVIOUS
<1>2. t \in Seq(S) /\ Len(t) = Len(s) + 1 /\ DOMAIN t = 1 .. Len(t)
      OBVIOUS
<1>3. t[1] = x /\ \A i \in DOMAIN t : i # 1 => i - 1 \in DOMAIN s /\ t[i] = s[i - 1]
      BY <1>1, <1>2
<1> HIDE DEF t
<1>4. t # <<>>
      BY <1>1, <1>2
<1>5. ASSUME IsInjective(s), x \notin ToSet(s) PROVE IsInjective(t)
  <2> SUFFICES ASSUME NEW i \in DOMAIN t, NEW j \in DOMAIN t, t[i] = t[j] PROVE i = j
      BY DEF IsInjective
  <2>1. \A k \in DOMAIN s : s[k] # x
        BY <1>5 DEF ToSet
  <2>2. i = 1 <=> j = 1
        BY <1>3, <2>1
  <2>3. i # 1 => i - 1 = j - 1
        BY <1>3, <1>5, <2>2 DEF IsInjective
  <2> QED
      BY <1>1, <1>2, <2>2, <2>3
<1> QED
    BY <1>2, <1>4, <1>5 DEF t

\* As many as there are positions, in a list without a repetition.
LEMMA HowMany ==
    ASSUME NEW S, NEW s \in Seq(S), IsInjective(s)
    PROVE  Cardinality(ToSet(s)) = Len(s)
<1>1. Len(s) \in Nat /\ s \in [1 .. Len(s) -> ToSet(s)]
      BY DEF ToSet
<1>2. /\ s \in Surjection(1 .. Len(s), ToSet(s))
      /\ s \in Injection(1 .. Len(s), ToSet(s))
      BY <1>1 DEF Surjection, Injection, ToSet
<1>3. IsFiniteSet(1 .. Len(s)) /\ Cardinality(1 .. Len(s)) = Len(s)
      BY <1>1, FS_Interval
<1> QED
    BY <1>2, <1>3, FS_Surjection

\* A list holds what its positions hold, and an empty one nothing.
LEMMA Held ==
    /\ ToSet(<<>>) = {} /\ IsInjective(<<>>)
    /\ \A S : \A s \in Seq(S) : ToSet(s) \subseteq S /\ IsFiniteSet(ToSet(s))
<1>1. ToSet(<<>>) = {} /\ IsInjective(<<>>)
      BY DEF ToSet, IsInjective
<1>2. ASSUME NEW S, NEW s \in Seq(S) PROVE ToSet(s) \subseteq S /\ IsFiniteSet(ToSet(s))
  <2>1. s \in [1 .. Len(s) -> S] /\ Len(s) \in Nat
        OBVIOUS
  <2>2. s \in Surjection(1 .. Len(s), ToSet(s)) /\ ToSet(s) \subseteq S
        BY <2>1 DEF Surjection, ToSet
  <2>3. IsFiniteSet(1 .. Len(s))
        BY <2>1, FS_Interval
  <2> QED
      BY <2>2, <2>3, FS_Surjection
<1> QED
    BY <1>1, <1>2

-----------------------------------------------------------------------------
(* The invariant of the reads *)

\* Nobody has read anything.
LEMMA InitTimelineInv == Init => TimelineInv
<1> SUFFICES ASSUME Init PROVE TimelineInv
    OBVIOUS
<1>1. TypeOK
  <2>1. rows = <<>> /\ DOMAIN rows = {}
        BY DEF Init
  <2> QED
      BY <2>1, Held, TimelineAssumption DEF Init, TypeOK
<1> QED
    BY <1>1, Held DEF Init, TimelineInv, Stands, AuthorsAhead, NothingLost, Filtered,
                      PairedUntilSorted, Paired

\* What others do to the tables while a call reads: contents keep their rows,
\* none comes back, and nobody unfriends anybody.
LEMMA TablesKeep ==
    ASSUME TimelineInv, TypeOK',
           UNCHANGED <<query, pc, authors, listed, items, urls, owed>>,
           \A c \in DOMAIN rows : c \in DOMAIN rows' /\ rows'[c] = rows[c],
           before \cap stored' \subseteq stored,
           friends \subseteq friends'
    PROVE  TimelineInv'
<1> USE DEF TimelineInv, query
<1>1. ToSet(listed) \cup ToSet(items) \subseteq DOMAIN rows
      BY Held DEF TypeOK
<1>2. Stands'
      BY DEF Stands, Target
<1>3. AuthorsAhead'
      BY <1>1 DEF AuthorsAhead
<1>4. NothingLost'
      BY DEF NothingLost, ToBeShown, Coming, TypeOK
<1>5. Filtered'
      BY <1>1 DEF Filtered, MayBeShown, Target
<1>6. PairedUntilSorted'
      BY DEF PairedUntilSorted, Paired
<1> QED
    BY <1>2, <1>3, <1>4, <1>5, <1>6

\* A new content has a new key, which no call holds.
LEMMA CreateContentKeeps ==
    ASSUME TimelineInv, NEW row \in Row, CreateContent(row)
    PROVE  TimelineInv'
<1> USE DEF CreateContent
<1>1. TypeOK
      BY DEF TimelineInv
<1>2. /\ rows' \in Seq(Row) /\ Len(rows') = Len(rows) + 1 /\ Len(rows) \in Nat
      /\ Len(rows') <= MaxContents
      /\ DOMAIN rows = 1 .. Len(rows) /\ DOMAIN rows' = 1 .. Len(rows')
      /\ rows'[Len(rows')] = row
      /\ \A c \in DOMAIN rows : c \in DOMAIN rows' /\ rows'[c] = rows[c]
      BY <1>1, TimelineAssumption DEF TypeOK
<1>3. stored' \subseteq DOMAIN rows' /\ before \cap stored' \subseteq stored
      BY <1>1, <1>2 DEF TypeOK
<1>4. media' \subseteq {c \in DOMAIN rows' : rows'[c].hasMedia}
      BY <1>1, <1>2 DEF TypeOK
<1>5. DOMAIN rows \subseteq DOMAIN rows'
      BY <1>2
<1>6. listed \in Seq(DOMAIN rows') /\ items \in Seq(DOMAIN rows')
      BY <1>1, <1>5 DEF TypeOK
<1>7. TypeOK'
      BY <1>1, <1>2, <1>3, <1>4, <1>5, <1>6 DEF TypeOK, query
<1> QED
    BY <1>2, <1>3, <1>7, TablesKeep

\* Neither a media nor a row that goes away changes what a call holds.
LEMMA DeleteKeeps ==
    ASSUME TimelineInv, NEW c \in DOMAIN rows, DeleteMedia(c) \/ DeleteContent(c)
    PROVE  TimelineInv'
<1> USE DEF DeleteMedia, DeleteContent
<1>1. TypeOK'
      BY DEF TimelineInv, TypeOK, query
<1> QED
    BY <1>1, TablesKeep

\* Friends are only won.
LEMMA AcceptFriendKeeps ==
    ASSUME TimelineInv, NEW u \in Users, NEW v \in Users, AcceptFriend(u, v)
    PROVE  TimelineInv'
<1> USE DEF AcceptFriend
<1>1. TypeOK'
      BY DEF TimelineInv, TypeOK, query
<1> QED
    BY <1>1, TablesKeep

\* A call begins with empty lists.
LEMMA BeginKeeps ==
    ASSUME TimelineInv, NEW u \in Users, NEW v \in Users, GetTimeline(u) \/ GetUserContent(u, v)
    PROVE  TimelineInv'
<1> USE DEF GetTimeline, GetUserContent, Begin, store
<1>1. /\ listed' = <<>> /\ items' = <<>> /\ urls' = <<>>
      /\ ToSet(listed') = {} /\ ToSet(items') = {} /\ IsInjective(<<>>)
      BY Held
<1>2. /\ <<v>> \in Seq(Users) /\ IsInjective(<<v>>) /\ <<v>> # <<>>
      BY DEF IsInjective
<1>3. TypeOK'
  <2>1. authors' \in Seq(Users) /\ IsInjective(authors') /\ owed' \subseteq Users
    <3>1. CASE GetTimeline(u)
          BY <1>1, <3>1
    <3>2. CASE GetUserContent(u, v)
          BY <1>2, <3>2
    <3> QED
        BY <3>1, <3>2
  <2>2. kind' \in {"timeline", "user"} /\ viewer' \in Users /\ pc' \in {"friends", "target"}
        OBVIOUS
  <2>3. before' \subseteq DOMAIN rows
        BY DEF TimelineInv, TypeOK
  <2>4. Len(urls') = Len(items') /\ ToSet(listed') \cap ToSet(items') = {}
        BY <1>1
  <2>5. \A S : <<>> \in Seq(S)
        OBVIOUS
  <2> QED
      BY <1>1, <2>1, <2>2, <2>3, <2>4, <2>5 DEF TimelineInv, TypeOK
<1>4. Stands'
      BY <1>1, <1>2 DEF Stands, Target
<1> QED
    BY <1>1, <1>3, <1>4 DEF TimelineInv, AuthorsAhead, NothingLost, Filtered,
                            PairedUntilSorted, Paired

\* A read that fails ends the call.
LEMMA FailKeeps ==
    ASSUME TimelineInv, ListFriendsFails \/ ListTargetFails
    PROVE  TimelineInv'
<1> USE DEF ListFriendsFails, ListTargetFails, Fail, store, query, TimelineInv
<1>1. TypeOK'
      BY DEF TypeOK
<1>2. Stands' /\ AuthorsAhead' /\ NothingLost'
      BY DEF Stands, AuthorsAhead, NothingLost
<1>3. Filtered' /\ PairedUntilSorted'
      BY DEF Filtered, MayBeShown, PairedUntilSorted, Paired, Stands
<1> QED
    BY <1>1, <1>2, <1>3

\* The viewer and the friends are each listed once, for nobody is a friend of
\* himself.
LEMMA ListFriendsKeeps ==
    ASSUME TimelineInv, ListFriends
    PROVE  TimelineInv'
<1> USE DEF ListFriends, store, query
<1>1. PICK order \in SetToSeqs(FriendsOf(viewer)) : authors' = <<viewer>> \o order
      OBVIOUS
<1>2. FriendsOf(viewer) \subseteq Users /\ viewer \in Users /\ viewer \notin FriendsOf(viewer)
      BY DEF TimelineInv, TypeOK, FriendsOf
<1>3. IsFiniteSet(FriendsOf(viewer))
      BY <1>2, TimelineAssumption, FS_Subset
<1>4. order \in Seq(FriendsOf(viewer)) /\ IsInjective(order)
      /\ ToSet(order) = FriendsOf(viewer)
      BY <1>3, InSomeOrder
<1>5. order \in Seq(Users)
      BY <1>2, <1>4
<1>6. /\ authors' \in Seq(Users) /\ authors' # <<>> /\ IsInjective(authors')
      BY <1>1, <1>2, <1>4, <1>5, Prepended
<1>7. ToSet(authors') \subseteq Users
      BY <1>6, Held
<1>8. TypeOK'
      BY <1>6, <1>7 DEF TimelineInv, TypeOK
<1>9. Stands'
      BY <1>6 DEF TimelineInv, Stands
<1>10. AuthorsAhead'
      BY Held DEF TimelineInv, AuthorsAhead, Stands
<1>11. NothingLost'
      BY DEF TimelineInv, NothingLost, Coming, ToBeShown, Stands
<1>12. Filtered' /\ PairedUntilSorted'
      BY DEF TimelineInv, Filtered, PairedUntilSorted, Paired, Stands
<1> QED
    BY <1>8, <1>9, <1>10, <1>11, <1>12 DEF TimelineInv

\* The contents of one author, the first or the target, are those that are
\* stored now.
LEMMA Listing ==
    ASSUME TypeOK, NEW u, listed' \in ContentsOf(u), UNCHANGED rows
    PROVE  /\ listed' \in Seq(DOMAIN rows) /\ IsInjective(listed')
           /\ ToSet(listed') = {c \in stored : rows[c].author = u}
<1> DEFINE S == {c \in stored : rows[c].author = u}
<1>1. S \subseteq DOMAIN rows /\ IsFiniteSet(S)
  <2>1. IsFiniteSet(1 .. Len(rows)) /\ DOMAIN rows = 1 .. Len(rows)
        BY FS_Interval DEF TypeOK
  <2> QED
      BY <2>1, FS_Subset DEF TypeOK
<1>2. listed' \in NewestFirst(S)
      BY DEF ContentsOf
<1>3. listed' \in Seq(S) /\ IsInjective(listed') /\ ToSet(listed') = S
      BY <1>1, <1>2, Sorted
<1> QED
    BY <1>1, <1>3

\* The contents of the first author are none of those that are in the answer.
LEMMA ListUserContentKeeps ==
    ASSUME TimelineInv, ListUserContent
    PROVE  TimelineInv'
<1> USE DEF ListUserContent, store, query
<1>1. /\ TypeOK /\ authors \in Seq(Users) /\ IsInjective(authors)
      /\ kind = "timeline" /\ listed = <<>> /\ ToSet(listed) = {}
      BY Held DEF TimelineInv, TypeOK, Stands
<1>2. /\ listed' \in Seq(DOMAIN rows) /\ IsInjective(listed')
      /\ ToSet(listed') = {c \in stored : rows[c].author = Head(authors)}
      BY <1>1, Listing
<1>3. /\ Head(authors) \in Users /\ authors' \in Seq(Users) /\ IsInjective(authors')
      /\ ToSet(authors) = {Head(authors)} \cup ToSet(authors')
      /\ Head(authors) \notin ToSet(authors')
      BY <1>1, Taken
<1>4. \A c \in ToSet(items) : rows[c].author \notin ToSet(authors)
      BY <1>1 DEF TimelineInv, AuthorsAhead
<1>5. TypeOK'
      BY <1>1, <1>2, <1>3, <1>4 DEF TypeOK
<1>6. Stands'
      BY <1>1 DEF TimelineInv, Stands
<1>7. AuthorsAhead'
      BY <1>2, <1>3, <1>4 DEF AuthorsAhead
<1>8. NothingLost'
  <2>1. listed' = <<>> => ToSet(listed') = {}
        BY Held
  <2> SUFFICES ASSUME NEW c \in DOMAIN rows, ToBeShown(c)' PROVE Coming(c)'
      BY DEF NothingLost
  <2>2. c \in stored /\ Coming(c)
        BY DEF TimelineInv, NothingLost, ToBeShown
  <2> QED
      BY <1>1, <1>2, <1>3, <2>2 DEF Coming
<1>9. Filtered' /\ PairedUntilSorted'
      BY <1>1 DEF TimelineInv, Filtered, PairedUntilSorted, Paired
<1> QED
    BY <1>5, <1>6, <1>7, <1>8, <1>9 DEF TimelineInv

\* An author whose listing fails is no longer owed.
LEMMA ListUserContentFailsKeeps ==
    ASSUME TimelineInv, ListUserContentFails
    PROVE  TimelineInv'
<1> USE DEF ListUserContentFails, store, query
<1>1. /\ TypeOK /\ authors \in Seq(Users) /\ IsInjective(authors) /\ kind = "timeline"
      BY DEF TimelineInv, TypeOK, Stands
<1>2. /\ Head(authors) \in Users /\ authors' \in Seq(Users) /\ IsInjective(authors')
      /\ ToSet(authors) = {Head(authors)} \cup ToSet(authors')
      BY <1>1, Taken
<1>3. TypeOK' /\ Stands'
      BY <1>1, <1>2 DEF TimelineInv, TypeOK, Stands
<1>4. AuthorsAhead'
      BY <1>2 DEF TimelineInv, AuthorsAhead
<1>5. NothingLost'
  <2> SUFFICES ASSUME NEW c \in DOMAIN rows, ToBeShown(c)' PROVE Coming(c)'
      BY DEF NothingLost
  <2>1. Coming(c) /\ rows[c].author # Head(authors)
        BY DEF TimelineInv, NothingLost, ToBeShown
  <2> QED
      BY <1>2, <2>1 DEF Coming
<1>6. Filtered' /\ PairedUntilSorted'
      BY <1>1 DEF TimelineInv, Filtered, PairedUntilSorted, Paired
<1> QED
    BY <1>3, <1>4, <1>5, <1>6 DEF TimelineInv

\* Sorting gives the same contents; the URLs are left as they are.
LEMMA TimelineReturnsKeeps ==
    ASSUME TimelineInv, TimelineReturns
    PROVE  TimelineInv'
<1> USE DEF TimelineReturns, store, query
<1>1. /\ TypeOK /\ kind = "timeline" /\ listed = <<>>
      /\ items \in Seq(DOMAIN rows) /\ IsInjective(items)
      BY DEF TimelineInv, TypeOK, Stands
<1>2. ToSet(items) \subseteq DOMAIN rows /\ IsFiniteSet(ToSet(items))
      BY <1>1, Held
<1>3. items' \in Seq(ToSet(items)) /\ IsInjective(items') /\ ToSet(items') = ToSet(items)
      BY <1>2, Sorted DEF SortedByTime
<1>4. Len(items') = Len(items)
      BY <1>1, <1>3, HowMany
<1>5. items' \in Seq(DOMAIN rows)
      BY <1>2, <1>3
<1>6. TypeOK'
      BY <1>1, <1>3, <1>4, <1>5 DEF TypeOK
<1>7. Stands' /\ AuthorsAhead'
      BY <1>1, <1>3 DEF TimelineInv, Stands, AuthorsAhead
<1>8. NothingLost'
      BY <1>1, <1>3 DEF TimelineInv, NothingLost, Coming, ToBeShown
<1>9. Filtered' /\ PairedUntilSorted'
      BY <1>1 DEF TimelineInv, Filtered, PairedUntilSorted
<1> QED
    BY <1>6, <1>7, <1>8, <1>9 DEF TimelineInv

\* The contents of the target, which the viewer may see as they are if they are
\* his own.
LEMMA ListTargetKeeps ==
    ASSUME TimelineInv, ListTarget
    PROVE  TimelineInv'
<1> USE DEF ListTarget, store, query
<1>1. /\ TypeOK /\ kind = "user" /\ listed = <<>> /\ items = <<>> /\ urls = <<>>
      /\ ToSet(items) = {}
      BY Held DEF TimelineInv, Stands
<1>2. /\ listed' \in Seq(DOMAIN rows) /\ IsInjective(listed')
      /\ ToSet(listed') = {c \in stored : rows[c].author = Target}
      BY <1>1, Listing
<1>3. owed = {Target} /\ Target' = Target /\ authors # <<>>
      BY <1>1 DEF TimelineInv, Stands, Target
<1>4. listed' = <<>> => ToSet(listed') = {}
      BY Held
<1>5. TypeOK'
      BY <1>1, <1>2 DEF TypeOK
<1>6. Stands' /\ AuthorsAhead'
      BY <1>1, <1>3 DEF TimelineInv, Stands, AuthorsAhead
<1>7. NothingLost'
      BY <1>1, <1>2, <1>3, <1>4 DEF NothingLost, ToBeShown, Coming
<1>8. Filtered'
      BY <1>1, <1>2, <1>3 DEF Filtered, MayBeShown
<1>9. PairedUntilSorted'
      BY <1>1 DEF PairedUntilSorted, Paired
<1> QED
    BY <1>5, <1>6, <1>7, <1>8, <1>9 DEF TimelineInv

\* The filter keeps what the viewer may see, of the user whose friends decide.
LEMMA FilterKeeps ==
    ASSUME TimelineInv, FilterByFriendship
    PROVE  TimelineInv'
<1> USE DEF FilterByFriendship, store, query
<1> DEFINE isFriend == viewer \in FriendsOf(Target)
           S == {c \in ToSet(listed) : Visible(c, isFriend)}
<1>1. /\ TypeOK /\ kind = "user" /\ items = <<>> /\ urls = <<>> /\ ToSet(items) = {}
      /\ owed = {Target} /\ Target' = Target /\ authors # <<>>
      BY Held DEF TimelineInv, Stands, Target
<1>2. ToSet(listed) \subseteq DOMAIN rows /\ IsFiniteSet(ToSet(listed))
      BY <1>1, Held DEF TypeOK
<1>3. S \subseteq DOMAIN rows /\ IsFiniteSet(S)
      BY <1>2, FS_Subset
<1>4. listed' \in NewestFirst(S)
      OBVIOUS
<1> HIDE DEF S
<1>5. listed' \in Seq(DOMAIN rows) /\ IsInjective(listed') /\ ToSet(listed') = S
      BY <1>3, <1>4, Sorted
<1>6. \A c \in ToSet(listed) : rows[c].author = Target
      BY <1>1 DEF TimelineInv, Filtered
<1>7. TypeOK'
      BY <1>1, <1>5 DEF TypeOK
<1>8. Stands' /\ AuthorsAhead'
      BY <1>1 DEF TimelineInv, Stands, AuthorsAhead
<1>9. \A c \in S : MayBeShown(c)
      BY <1>6 DEF S, MayBeShown, Visible, FriendsOf
<1>10. Filtered'
       BY <1>1, <1>5, <1>9 DEF Filtered, MayBeShown
<1>11. NothingLost'
  <2>1. listed' = <<>> => ToSet(listed') = {}
        BY Held
  <2> SUFFICES ASSUME NEW c \in DOMAIN rows, ToBeShown(c)' PROVE Coming(c)'
      BY DEF NothingLost
  <2>2. ToBeShown(c) /\ Coming(c)
        BY DEF TimelineInv, NothingLost, ToBeShown
  <2>3. c \in ToSet(listed) /\ rows[c].author = Target
        BY <1>1, <2>2 DEF Coming, ToBeShown
  <2>4. Visible(c, isFriend)
        BY <1>1, <2>2, <2>3 DEF ToBeShown, Visible, TimelineInv, Stands
  <2> QED
      BY <1>5, <2>3, <2>4 DEF S, Coming
<1>12. PairedUntilSorted'
       BY <1>1 DEF PairedUntilSorted, Paired
<1> QED
    BY <1>7, <1>8, <1>10, <1>11, <1>12 DEF TimelineInv


\* A content goes from the list in hand to the answer, with its URL or none.
LEMMA LookupKeeps ==
    ASSUME TimelineInv, GetMediaRefByID
    PROVE  TimelineInv'
<1> USE DEF GetMediaRefByID, store, query
<1> DEFINE c == Head(listed)
<1>1. /\ TypeOK /\ listed \in Seq(DOMAIN rows) /\ items \in Seq(DOMAIN rows)
      /\ urls \in Seq(Keys \cup {NoURL}) /\ Len(urls) = Len(items)
      /\ IsInjective(listed) /\ IsInjective(items)
      /\ ToSet(listed) \cap ToSet(items) = {} /\ listed # <<>>
      /\ DOMAIN rows = 1 .. Len(rows) /\ Len(rows) \in 0 .. MaxContents
      BY TimelineAssumption DEF TimelineInv, TypeOK, Stands
<1>2. /\ c \in DOMAIN rows
      /\ listed' \in Seq(DOMAIN rows) /\ IsInjective(listed')
      /\ ToSet(listed) = {c} \cup ToSet(listed') /\ c \notin ToSet(listed')
      BY <1>1, Taken
<1>3. /\ items' \in Seq(DOMAIN rows) /\ IsInjective(items')
      /\ ToSet(items') = ToSet(items) \cup {c}
      BY <1>1, <1>2, Appended
<1>4. /\ Len(items') = Len(items) + 1 /\ Len(items) \in Nat
      /\ DOMAIN items = 1 .. Len(items) /\ DOMAIN items' = 1 .. Len(items) + 1
      /\ \A i \in DOMAIN items : items'[i] = items[i]
      /\ items'[Len(items) + 1] = c
      BY <1>1, <1>2
<1>5. PICK u : u \in {NoURL, c} /\ urls' = urls \o <<u>>
      BY DEF URLs
<1>6. u \in Keys \cup {NoURL}
      BY <1>1, <1>2, <1>5, TimelineAssumption DEF Keys
<1>7. /\ urls' \in Seq(Keys \cup {NoURL}) /\ Len(urls') = Len(items')
      /\ DOMAIN urls = DOMAIN items /\ DOMAIN urls' = DOMAIN items'
      /\ \A i \in DOMAIN urls : urls'[i] = urls[i]
      /\ urls'[Len(items) + 1] = u
  <2> DEFINE U == Keys \cup {NoURL}
  <2>0. urls \in Seq(U) /\ u \in U
        BY <1>1, <1>6
  <2> HIDE DEF U
  <2>1. /\ urls' \in Seq(U) /\ Len(urls') = Len(urls) + 1
        /\ \A i \in 1 .. Len(urls) : urls'[i] = urls[i]
        /\ urls'[Len(urls) + 1] = u
        BY <1>5, <2>0, Added, Zenon
  <2>2. DOMAIN urls' = 1 .. Len(urls) + 1 /\ DOMAIN urls = 1 .. Len(urls)
        BY <1>1, <2>1
  <2> QED
      BY <1>1, <1>4, <2>1, <2>2 DEF U
<1>8. listed' = <<>> => ToSet(listed') = {}
      BY Held
<1> HIDE DEF c
<1>9. ToSet(listed') \cup ToSet(items') = ToSet(listed) \cup ToSet(items)
      BY <1>2, <1>3
<1>10. TypeOK'
  <2>1. ToSet(listed') \cap ToSet(items') = {}
        BY <1>1, <1>2, <1>3
  <2>2. pc' \in {"list", "lookup", "done"}
        OBVIOUS
  <2> QED
      BY <1>1, <1>2, <1>3, <1>7, <2>1, <2>2 DEF TypeOK
<1>11. Stands'
       BY <1>1 DEF TimelineInv, TypeOK, Stands, Target
<1>12. AuthorsAhead'
       BY <1>9 DEF TimelineInv, AuthorsAhead
<1>13. NothingLost'
  <2> SUFFICES ASSUME NEW d \in DOMAIN rows, ToBeShown(d)' PROVE Coming(d)'
      BY DEF NothingLost
  <2>1. Coming(d)
        BY DEF TimelineInv, NothingLost, ToBeShown
  <2> QED
      BY <1>9, <2>1 DEF Coming
<1>14. Filtered'
       BY <1>2, <1>3 DEF TimelineInv, Filtered, MayBeShown
<1>15. Paired'
  <2>1. Paired
        BY DEF TimelineInv, PairedUntilSorted
  <2> SUFFICES ASSUME NEW i \in DOMAIN urls' PROVE urls'[i] \in {NoURL, items'[i]}
      BY DEF Paired
  <2>2. CASE i \in DOMAIN urls
        BY <1>4, <1>7, <2>1, <2>2 DEF Paired
  <2>3. CASE i = Len(items) + 1
        BY <1>4, <1>5, <1>7, <2>3
  <2> QED
      BY <1>4, <1>7, <2>2, <2>3
<1> QED
    BY <1>10, <1>11, <1>12, <1>13, <1>14, <1>15 DEF TimelineInv, PairedUntilSorted

\* The invariant is inductive.
LEMMA NextTimelineInv == TimelineInv /\ [Next]_vars => TimelineInv'
<1> SUFFICES ASSUME TimelineInv, [Next]_vars PROVE TimelineInv'
    OBVIOUS
<1>1. CASE \E row \in Row : CreateContent(row)
      BY <1>1, CreateContentKeeps
<1>2. CASE \E c \in DOMAIN rows : DeleteMedia(c) \/ DeleteContent(c)
      BY <1>2, DeleteKeeps
<1>3. CASE \E u, v \in Users : AcceptFriend(u, v)
      BY <1>3, AcceptFriendKeeps
<1>4. CASE (\E u \in Users : GetTimeline(u)) \/ (\E u, v \in Users : GetUserContent(u, v))
      BY <1>4, BeginKeeps
<1>5. CASE ListFriendsFails \/ ListTargetFails
      BY <1>5, FailKeeps
<1>6. CASE ListFriends
      BY <1>6, ListFriendsKeeps
<1>7. CASE ListUserContent
      BY <1>7, ListUserContentKeeps
<1>8. CASE ListUserContentFails
      BY <1>8, ListUserContentFailsKeeps
<1>9. CASE TimelineReturns
      BY <1>9, TimelineReturnsKeeps
<1>10. CASE ListTarget
       BY <1>10, ListTargetKeeps
<1>11. CASE FilterByFriendship
       BY <1>11, FilterKeeps
<1>12. CASE GetMediaRefByID
       BY <1>12, LookupKeeps
<1>13. CASE UNCHANGED vars
  <2>1. TypeOK'
        BY <1>13 DEF vars, store, query, TimelineInv, TypeOK
  <2> QED
      BY <1>13, <2>1, TablesKeep DEF vars, store, query
<1> QED
    BY <1>1, <1>2, <1>3, <1>4, <1>5, <1>6, <1>7, <1>8, <1>9, <1>10, <1>11, <1>12, <1>13
    DEF Next

-----------------------------------------------------------------------------
(* The theorems of FeedTimeline *)

\* The lists of a call keep their types, no content is listed twice, and there
\* is one URL for each content, whatever happens to the tables under the call.
THEOREM TypeCorrect == Spec => []TypeOK
<1>1. TimelineInv => TypeOK
      BY DEF TimelineInv
<1> QED
    BY <1>1, InitTimelineInv, NextTimelineInv, PTL DEF Spec

\* A call shows whatever was there all along, is for the viewer's eyes and is
\* not of an author whose listing failed.
THEOREM ShowsAll == Spec => []NothingMissed
<1>1. TimelineInv => NothingMissed
  <2> SUFFICES ASSUME TimelineInv, pc = "done", NEW c \in before \cap stored, ToBeShown(c)
               PROVE  c \in ToSet(items)
      BY DEF NothingMissed, ToBeShown
  <2>1. c \in DOMAIN rows
        BY DEF TimelineInv, TypeOK
  <2>2. Coming(c)
        BY <2>1 DEF TimelineInv, NothingLost
  <2>3. listed = <<>> /\ (kind = "timeline" => authors = <<>>)
        BY DEF TimelineInv, Stands
  <2> QED
      BY <2>2, <2>3, Held DEF Coming
<1> QED
    BY <1>1, InitTimelineInv, NextTimelineInv, PTL DEF Spec

\* GetUserContent shows nobody what is not meant for him.
THEOREM KeepsPrivacy == Spec => []PrivacyKept
<1>1. TimelineInv => PrivacyKept
      BY DEF TimelineInv, Filtered, MayBeShown, PrivacyKept
<1> QED
    BY <1>1, InitTimelineInv, NextTimelineInv, PTL DEF Spec

\* In GetUserContent a content has its own URL or none.
THEOREM PairsURLs == Spec => []UserContentPaired
<1>1. TimelineInv => UserContentPaired
      BY DEF TimelineInv, PairedUntilSorted, UserContentPaired
<1> QED
    BY <1>1, InitTimelineInv, NextTimelineInv, PTL DEF Spec

-----------------------------------------------------------------------------
(* FeedReactions: the inductive invariant                                  *)


\* A row was inserted by a call that is past its insertion.
RowsAreDone == \A c \in reactions : Reacts(c) /\ stage[c] \in {"ok", "error"}

\* Two calls that are at work on one reaction have met.
WorkersMeet ==
    \A c, d \in Calls :
       c # d /\ AtWork(c) /\ AtWork(d) /\ SameReaction(c, d) => <<c, d>> \in met

\* Whoever is about to insert has deleted the rows of all but those it met.
CleanBeforeAdd ==
    \A c \in Calls, d \in reactions :
       stage[c] = "add" /\ SameReaction(c, d) =>
          c \in skipped \/ (<<c, d>> \in met /\ <<d, c>> \in met)

\* What a call is for shows in what it does.
KindsKept ==
    \A c \in Calls :
       /\ stage[c] \in {"delete", "add"} => req[c].kind = "react"
       /\ stage[c] = "remove" => req[c].kind = "remove"

ReactionsInv ==
    /\ ReactionsTypeOK
    /\ RowsAreDone
    /\ WorkersMeet
    /\ CleanBeforeAdd
    /\ KindsKept
    /\ DoubledOnlyByRace
    /\ ReactionSurvives

-----------------------------------------------------------------------------
(* Type correctness *)

\* Nothing is stored and nobody has called.
LEMMA InitReactionsTypeOK == ReactionsInit => ReactionsTypeOK
BY DEF ReactionsInit, ReactionsTypeOK, Began

\* A call that begins keeps the types.
LEMMA CallTypeOK ==
    ASSUME ReactionsTypeOK, NEW c \in Calls, NEW r \in Request, NEW next \in {"delete", "remove"},
           Call(c, r, next)
    PROVE  ReactionsTypeOK'
<1> USE DEF ReactionsTypeOK, Call, Goes
<1>1. met' \subseteq Calls \X Calls
      OBVIOUS
<1>2. \A d \in Calls : Began(d)' => req'[d] \in Request
      BY DEF Began
<1> QED
    BY <1>1, <1>2

\* The variables keep their types through every step.
LEMMA NextReactionsTypeOK == ReactionsTypeOK /\ [ReactionsNext]_reactionVars => ReactionsTypeOK'
<1> SUFFICES ASSUME ReactionsTypeOK, [ReactionsNext]_reactionVars PROVE ReactionsTypeOK'
    OBVIOUS
<1> USE DEF ReactionsTypeOK
<1>1. ASSUME NEW c \in Calls, ReactToContent(c) PROVE ReactionsTypeOK'
  <2> PICK u \in Reactors, x \in Contents, t \in Types :
         Call(c, [kind |-> "react", user |-> u, content |-> x, type |-> t], "delete")
      BY <1>1 DEF ReactToContent
  <2>1. [kind |-> "react", user |-> u, content |-> x, type |-> t] \in Request
        BY DEF Request
  <2> QED
      BY <2>1, CallTypeOK
<1>2. ASSUME NEW c \in Calls, DeleteReaction(c) PROVE ReactionsTypeOK'
  <2> PICK u \in Reactors, x \in Contents :
         Call(c, [kind |-> "remove", user |-> u, content |-> x, type |-> NoType], "remove")
      BY <1>2 DEF DeleteReaction
  <2>1. [kind |-> "remove", user |-> u, content |-> x, type |-> NoType] \in Request
        BY DEF Request
  <2> QED
      BY <2>1, CallTypeOK
<1>3. ASSUME NEW c \in Calls,
             \/ DeleteOld(c) \/ DeleteOldFails(c) \/ AddReaction(c)
             \/ AddReactionFails(c) \/ RemoveReaction(c) \/ Dies(c)
      PROVE  ReactionsTypeOK'
      BY <1>3 DEF DeleteOld, DeleteOldFails, AddReaction, AddReactionFails, RemoveReaction, Dies,
                  Rows, Goes, Began, AtWork
<1>4. CASE UNCHANGED reactionVars
      BY <1>4 DEF reactionVars, Began
<1> QED
    BY <1>1, <1>2, <1>3, <1>4 DEF ReactionsNext, Step

\* The table, the calls and their requests keep their types.
THEOREM ReactionsTypeCorrect == ReactionsSpec => []ReactionsTypeOK
BY InitReactionsTypeOK, NextReactionsTypeOK, PTL DEF ReactionsSpec

-----------------------------------------------------------------------------
(* The invariant *)

\* Nobody has called.
LEMMA InitReactionsInv == ReactionsInit => ReactionsInv
<1> SUFFICES ASSUME ReactionsInit PROVE ReactionsInv
    OBVIOUS
<1>1. ReactionsTypeOK
      BY InitReactionsTypeOK
<1> QED
    BY <1>1 DEF ReactionsInit, ReactionsInv, RowsAreDone, WorkersMeet, CleanBeforeAdd, KindsKept,
                DoubledOnlyByRace, ReactionSurvives, AtWork, Began, Reacts

\* A call that begins has met whoever is at work on its reaction, and has
\* stored nothing yet.
LEMMA CallKeeps ==
    ASSUME ReactionsInv, NEW c \in Calls, NEW r \in Request, NEW next \in {"delete", "remove"},
           Call(c, r, next), r.kind = (IF next = "delete" THEN "react" ELSE "remove")
    PROVE  ReactionsInv'
<1> USE DEF ReactionsInv, Call, Goes
<1>1. ReactionsTypeOK'
      BY CallTypeOK
<1>2. /\ c \notin reactions
      /\ met \subseteq met'
      /\ req'[c] = r /\ stage'[c] = next
      /\ \A d \in Calls \ {c} : req'[d] = req[d] /\ stage'[d] = stage[d]
      BY DEF ReactionsTypeOK, RowsAreDone
<1>3. RowsAreDone'
      BY <1>2 DEF RowsAreDone, Reacts, Began, ReactionsTypeOK
<1>4. WorkersMeet'
  <2> SUFFICES ASSUME NEW a \in Calls, NEW b \in Calls, a # b, AtWork(a)', AtWork(b)',
                      SameReaction(a, b)'
               PROVE  <<a, b>> \in met'
      BY DEF WorkersMeet
  <2>1. CASE a = c
        BY <1>2, <2>1 DEF AtWork, SameReaction
  <2>2. CASE b = c
        BY <1>2, <2>2 DEF AtWork, SameReaction
  <2>3. CASE a # c /\ b # c
        BY <1>2, <2>3 DEF WorkersMeet, AtWork, SameReaction
  <2> QED
      BY <2>1, <2>2, <2>3
<1>5. CleanBeforeAdd'
      BY <1>2 DEF CleanBeforeAdd, SameReaction, ReactionsTypeOK
<1>6. KindsKept'
      BY <1>2 DEF KindsKept
<1>7. DoubledOnlyByRace'
      BY <1>2 DEF DoubledOnlyByRace, SameReaction, ReactionsTypeOK
<1>8. ReactionSurvives'
  <2> SUFFICES ASSUME NEW a \in Calls, Reacts(a)', stage'[a] = "ok", OnlyReacts(a)'
               PROVE  \E d \in Calls : Reacts(d)' /\ SameReaction(a, d)'
                                       /\ (d \in reactions' \/ stage'[d] = "add")
      BY DEF ReactionSurvives
  <2>1. a # c /\ Reacts(a) /\ stage[a] = "ok"
        BY <1>2 DEF Reacts, Began
  <2>2. OnlyReacts(a)
        BY <1>2, <2>1 DEF OnlyReacts, Reacts, Began, SameReaction
  <2>3. PICK d \in Calls : Reacts(d) /\ SameReaction(a, d) /\ (d \in reactions \/ stage[d] = "add")
        BY <2>1, <2>2 DEF ReactionSurvives
  <2>4. d # c
        BY <2>3 DEF Reacts, Began
  <2> QED
      BY <1>2, <2>1, <2>3, <2>4 DEF Reacts, Began, SameReaction
<1> QED
    BY <1>1, <1>3, <1>4, <1>5, <1>6, <1>7, <1>8

\* The history and the requests stay as they are in all the other steps, and so
\* does the place of every other call.
LEMMA MoveKeeps ==
    ASSUME ReactionsInv, ReactionsTypeOK', NEW c \in Calls, Began(c), Began(c)',
           UNCHANGED <<req, met>>, skipped \subseteq skipped',
           \A d \in Calls \ {c} : stage'[d] = stage[d],
           AtWork(c)' => AtWork(c), reactions' \subseteq reactions \cup {c}
    PROVE  /\ WorkersMeet'
           /\ \A a, b : SameReaction(a, b)' <=> SameReaction(a, b)
           /\ \A d \in Calls : Began(d)' <=> Began(d)
           /\ \A d \in Calls : Reacts(d)' <=> Reacts(d)
           /\ c \notin reactions' => DoubledOnlyByRace'
<1> USE DEF ReactionsInv
<1>1. \A a, b : SameReaction(a, b)' <=> SameReaction(a, b)
      BY DEF SameReaction
<1>2. WorkersMeet'
      BY <1>1 DEF WorkersMeet, AtWork
<1>3. \A d \in Calls : Began(d)' <=> Began(d)
      BY DEF Began
<1>4. \A d \in Calls : Reacts(d)' <=> Reacts(d)
      BY <1>3 DEF Reacts
<1>5. ASSUME c \notin reactions' PROVE DoubledOnlyByRace'
      BY <1>1, <1>5 DEF DoubledOnlyByRace
<1> QED
    BY <1>1, <1>2, <1>3, <1>4, <1>5

\* The old rows of the reaction are deleted, or the call goes on without.
LEMMA DeleteOldKeeps ==
    ASSUME ReactionsInv, ReactionsTypeOK', NEW c \in Calls, DeleteOld(c) \/ DeleteOldFails(c)
    PROVE  ReactionsInv'
<1> USE DEF ReactionsInv, DeleteOld, DeleteOldFails, Goes
<1>1. /\ stage[c] = "delete" /\ stage'[c] = "add"
      /\ \A d \in Calls \ {c} : stage'[d] = stage[d]
      /\ UNCHANGED <<req, met>>
      /\ skipped \subseteq skipped'
      /\ reactions' \subseteq reactions
      /\ c \notin reactions
      BY DEF ReactionsTypeOK, RowsAreDone
<1>2. Began(c) /\ Began(c)' /\ (AtWork(c)' => AtWork(c))
      BY <1>1 DEF Began, AtWork
<1>3. /\ WorkersMeet'
      /\ \A a, b : SameReaction(a, b)' <=> SameReaction(a, b)
      /\ \A d \in Calls : Began(d)' <=> Began(d)
      /\ \A d \in Calls : Reacts(d)' <=> Reacts(d)
      /\ DoubledOnlyByRace'
      BY <1>1, <1>2, MoveKeeps
<1>4. RowsAreDone'
      BY <1>1, <1>3 DEF RowsAreDone, ReactionsTypeOK
<1>5. CleanBeforeAdd'
      BY <1>1, <1>3 DEF CleanBeforeAdd, Rows, SameReaction
<1>6. KindsKept'
      BY <1>1 DEF KindsKept
<1>7. ReactionSurvives'
  <2> SUFFICES ASSUME NEW a \in Calls, Reacts(a)', stage'[a] = "ok", OnlyReacts(a)'
               PROVE  \E d \in Calls : Reacts(d)' /\ SameReaction(a, d)'
                                       /\ (d \in reactions' \/ stage'[d] = "add")
      BY DEF ReactionSurvives
  <2>1. a # c /\ Reacts(a) /\ stage[a] = "ok" /\ OnlyReacts(a)
        BY <1>1, <1>3 DEF OnlyReacts
  <2>2. PICK d \in Calls : Reacts(d) /\ SameReaction(a, d) /\ (d \in reactions \/ stage[d] = "add")
        BY <2>1 DEF ReactionSurvives
  <2>3. Reacts(c)
        BY <1>1, <1>2 DEF KindsKept, Reacts
  <2>4. CASE SameReaction(a, c)
        BY <1>1, <1>3, <2>3, <2>4
  <2>5. CASE ~SameReaction(a, c)
    <3>1. ~SameReaction(c, d)
          BY <2>2, <2>5 DEF SameReaction
    <3>2. d # c
          BY <2>2, <2>5
    <3> QED
        BY <1>1, <1>3, <2>2, <3>1, <3>2 DEF Rows
  <2> QED
      BY <2>4, <2>5
<1> QED
    BY <1>3, <1>4, <1>5, <1>6, <1>7

\* The new row is inserted beside those of the calls that were met only; what
\* was inserted by a call that is told of an error need not stay.
LEMMA AddReactionKeeps ==
    ASSUME ReactionsInv, ReactionsTypeOK', NEW c \in Calls, AddReaction(c) \/ AddReactionFails(c)
    PROVE  ReactionsInv'
<1> USE DEF ReactionsInv, AddReaction, AddReactionFails, Goes
<1>1. /\ stage[c] = "add" /\ stage'[c] \in {"ok", "error"}
      /\ \A d \in Calls \ {c} : stage'[d] = stage[d]
      /\ UNCHANGED <<req, met, skipped>>
      /\ reactions' \subseteq reactions \cup {c}
      /\ c \notin reactions
      /\ reactions \subseteq reactions'
      /\ stage'[c] = "ok" => c \in reactions'
      /\ Reacts(c)
      BY DEF ReactionsTypeOK, RowsAreDone, KindsKept, Reacts, Began
<1>2. Began(c) /\ Began(c)' /\ (AtWork(c)' => AtWork(c))
      BY <1>1 DEF Began, AtWork
<1>3. /\ WorkersMeet'
      /\ \A a, b : SameReaction(a, b)' <=> SameReaction(a, b)
      /\ \A d \in Calls : Began(d)' <=> Began(d)
      /\ \A d \in Calls : Reacts(d)' <=> Reacts(d)
      /\ c \notin reactions' => DoubledOnlyByRace'
      BY <1>1, <1>2, MoveKeeps
<1>4. RowsAreDone'
      BY <1>1, <1>3 DEF RowsAreDone, ReactionsTypeOK
<1>5. CleanBeforeAdd'
  <2> SUFFICES ASSUME NEW a \in Calls, NEW d \in reactions', stage'[a] = "add", SameReaction(a, d)'
               PROVE  a \in skipped' \/ (<<a, d>> \in met' /\ <<d, a>> \in met')
      BY DEF CleanBeforeAdd
  <2>1. a # c /\ stage[a] = "add" /\ SameReaction(a, d)
        BY <1>1, <1>3
  <2>2. CASE d = c
    <3>1. AtWork(a) /\ AtWork(c) /\ SameReaction(c, a)
          BY <1>1, <2>1, <2>2 DEF AtWork, SameReaction
    <3> QED
        BY <1>1, <2>1, <2>2, <3>1 DEF WorkersMeet
  <2>3. CASE d # c
        BY <1>1, <2>1, <2>3 DEF CleanBeforeAdd
  <2> QED
      BY <2>2, <2>3
<1>6. KindsKept'
      BY <1>1 DEF KindsKept
<1>7. ReactionSurvives'
  <2> SUFFICES ASSUME NEW a \in Calls, Reacts(a)', stage'[a] = "ok", OnlyReacts(a)'
               PROVE  \E d \in Calls : Reacts(d)' /\ SameReaction(a, d)'
                                       /\ (d \in reactions' \/ stage'[d] = "add")
      BY DEF ReactionSurvives
  <2>1. CASE SameReaction(a, c)
    <3>1. stage'[c] # "error"
          BY <1>1, <1>2, <1>3, <2>1 DEF OnlyReacts
    <3> QED
        BY <1>1, <1>3, <2>1, <3>1
  <2>2. CASE ~SameReaction(a, c)
    <3>1. a # c /\ Reacts(a) /\ stage[a] = "ok" /\ OnlyReacts(a)
          BY <1>1, <1>3, <2>2 DEF OnlyReacts, SameReaction
    <3>2. PICK d \in Calls : Reacts(d) /\ SameReaction(a, d) /\ (d \in reactions \/ stage[d] = "add")
          BY <3>1 DEF ReactionSurvives
    <3> QED
        BY <1>1, <1>3, <2>2, <3>2
  <2> QED
      BY <2>1, <2>2
<1>8. DoubledOnlyByRace'
  <2> SUFFICES ASSUME NEW a \in reactions', NEW b \in reactions', a # b, SameReaction(a, b)'
               PROVE  <<a, b>> \in met' \/ a \in skipped' \/ b \in skipped'
      BY DEF DoubledOnlyByRace
  <2>1. SameReaction(a, b) /\ SameReaction(b, a)
        BY <1>3 DEF SameReaction
  <2>2. CASE a = c
        BY <1>1, <2>1, <2>2 DEF CleanBeforeAdd
  <2>3. CASE b = c
        BY <1>1, <2>1, <2>3 DEF CleanBeforeAdd
  <2>4. CASE a # c /\ b # c
        BY <1>1, <2>1, <2>4 DEF DoubledOnlyByRace
  <2> QED
      BY <2>2, <2>3, <2>4
<1> QED
    BY <1>3, <1>4, <1>5, <1>6, <1>7, <1>8

\* A reaction that is taken back, or a call that ends with an error, takes the
\* case of its reaction away.
LEMMA EndKeeps ==
    ASSUME ReactionsInv, ReactionsTypeOK', NEW c \in Calls, RemoveReaction(c) \/ Dies(c)
    PROVE  ReactionsInv'
<1> USE DEF ReactionsInv, RemoveReaction, Dies, Goes
<1>1. /\ AtWork(c) /\ stage'[c] \in {"ok", "error"}
      /\ \A d \in Calls \ {c} : stage'[d] = stage[d]
      /\ UNCHANGED <<req, met, skipped>>
      /\ reactions' \subseteq reactions
      /\ c \notin reactions
      /\ \A d \in reactions \ Rows(c) : d \in reactions'
      /\ Reacts(c) => stage'[c] = "error"
      BY DEF ReactionsTypeOK, RowsAreDone, KindsKept, Reacts, Began, AtWork
<1>2. Began(c) /\ Began(c)' /\ (AtWork(c)' => AtWork(c))
      BY <1>1 DEF Began, AtWork
<1>3. /\ WorkersMeet'
      /\ \A a, b : SameReaction(a, b)' <=> SameReaction(a, b)
      /\ \A d \in Calls : Began(d)' <=> Began(d)
      /\ \A d \in Calls : Reacts(d)' <=> Reacts(d)
      /\ c \notin reactions' => DoubledOnlyByRace'
      BY <1>1, <1>2, MoveKeeps
<1>4. RowsAreDone'
      BY <1>1, <1>3 DEF RowsAreDone, ReactionsTypeOK, Reacts
<1>5. CleanBeforeAdd' /\ KindsKept'
      BY <1>1, <1>3 DEF CleanBeforeAdd, KindsKept
<1>6. ReactionSurvives'
  <2> SUFFICES ASSUME NEW a \in Calls, Reacts(a)', stage'[a] = "ok", OnlyReacts(a)'
               PROVE  \E d \in Calls : Reacts(d)' /\ SameReaction(a, d)'
                                       /\ (d \in reactions' \/ stage'[d] = "add")
      BY DEF ReactionSurvives
  <2>1. ~SameReaction(a, c)
        BY <1>1, <1>2, <1>3 DEF OnlyReacts
  <2>2. a # c /\ Reacts(a) /\ stage[a] = "ok" /\ OnlyReacts(a)
        BY <1>1, <1>3, <2>1 DEF OnlyReacts, SameReaction
  <2>3. PICK d \in Calls : Reacts(d) /\ SameReaction(a, d) /\ (d \in reactions \/ stage[d] = "add")
        BY <2>2 DEF ReactionSurvives
  <2>4. d # c /\ d \notin Rows(c)
        BY <2>1, <2>3 DEF Rows, SameReaction
  <2> QED
      BY <1>1, <1>3, <2>3, <2>4
<1> QED
    BY <1>1, <1>3, <1>4, <1>5, <1>6

\* The invariant is inductive.
LEMMA NextReactionsInv == ReactionsInv /\ [ReactionsNext]_reactionVars => ReactionsInv'
<1> SUFFICES ASSUME ReactionsInv, [ReactionsNext]_reactionVars PROVE ReactionsInv'
    OBVIOUS
<1>1. ReactionsTypeOK'
      BY NextReactionsTypeOK DEF ReactionsInv
<1>2. ASSUME NEW c \in Calls, ReactToContent(c) PROVE ReactionsInv'
  <2> PICK u \in Reactors, x \in Contents, t \in Types :
         Call(c, [kind |-> "react", user |-> u, content |-> x, type |-> t], "delete")
      BY <1>2 DEF ReactToContent
  <2>1. [kind |-> "react", user |-> u, content |-> x, type |-> t] \in Request
        BY DEF Request
  <2> QED
      BY <2>1, CallKeeps
<1>3. ASSUME NEW c \in Calls, DeleteReaction(c) PROVE ReactionsInv'
  <2> PICK u \in Reactors, x \in Contents :
         Call(c, [kind |-> "remove", user |-> u, content |-> x, type |-> NoType], "remove")
      BY <1>3 DEF DeleteReaction
  <2>1. [kind |-> "remove", user |-> u, content |-> x, type |-> NoType] \in Request
        BY DEF Request
  <2> QED
      BY <2>1, CallKeeps
<1>4. ASSUME NEW c \in Calls, DeleteOld(c) \/ DeleteOldFails(c) PROVE ReactionsInv'
      BY <1>1, <1>4, DeleteOldKeeps
<1>5. ASSUME NEW c \in Calls, AddReaction(c) \/ AddReactionFails(c) PROVE ReactionsInv'
      BY <1>1, <1>5, AddReactionKeeps
<1>6. ASSUME NEW c \in Calls, RemoveReaction(c) \/ Dies(c) PROVE ReactionsInv'
      BY <1>1, <1>6, EndKeeps
<1>7. CASE UNCHANGED reactionVars
      BY <1>7 DEF reactionVars, ReactionsInv, ReactionsTypeOK, RowsAreDone, WorkersMeet, CleanBeforeAdd, KindsKept,
                  DoubledOnlyByRace, ReactionSurvives, OnlyReacts, Reacts, AtWork, Began,
                  SameReaction
<1> QED
    BY <1>2, <1>3, <1>4, <1>5, <1>6, <1>7 DEF ReactionsNext, Step

\* Two reactions of a user to one content are the work of two calls that
\* overlapped, or of one that could not delete.
THEOREM DoublesAreRaces == ReactionsSpec => []DoubledOnlyByRace
<1>1. ReactionsInv => DoubledOnlyByRace
      BY DEF ReactionsInv
<1> QED
    BY <1>1, InitReactionsInv, NextReactionsInv, PTL DEF ReactionsSpec

\* An acknowledged reaction is kept or being replaced, unless it is taken back
\* or a call of its user is told of an error.
THEOREM ReactionsSurvive == ReactionsSpec => []ReactionSurvives
<1>1. ReactionsInv => ReactionSurvives
      BY DEF ReactionsInv
<1> QED
    BY <1>1, InitReactionsInv, NextReactionsInv, PTL DEF ReactionsSpec
==============================================================================
