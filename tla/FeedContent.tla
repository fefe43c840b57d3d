---------------------------- MODULE FeedContent ----------------------------
(***************************************************************************)
(* Posts, reels and stories of internal/feed: a content is a row of MySQL, *)
(* its media a second row there and a file in GridFS, and no transaction   *)
(* spans the three.  CreateContent writes the file, the media row and the  *)
(* content row in this order; DeleteContent, called by users and by the    *)
(* cleaner of expired stories, removes them in the same order and ignores  *)
(* what goes wrong with the media.  Every access is a step of its own,     *)
(* each may fail, and the process may die between two.                     *)
(*                                                                         *)
(* CreateStory computes the expiration from a CreatedAt that CreateContent *)
(* has yet to set, the zero time: a story has expired when it is stored,   *)
(* whatever its duration.                                                  *)
(***************************************************************************)
EXTENDS Naturals

CONSTANTS
    Contents,   \* the contents that may be created
    Stories,    \* those of type STORY
    Plain,      \* those without media
    Calls,      \* the goroutines that serve calls
    Rounds,     \* the goroutines of the cleaner, which may overlap
    MaxFaults   \* bound of the failures and crashes

ASSUME FeedAssumption ==
    /\ Stories \subseteq Contents
    /\ Plain \subseteq Contents
    /\ Calls \cap Rounds = {}
    /\ MaxFaults \in Nat

Goroutines == Calls \cup Rounds

VARIABLES
    row,      \* the content row
    ref,      \* the media row; a deleted one stays, marked
    file,     \* the file is in GridFS
    pc,       \* the access each goroutine makes next
    on,       \* the content it works on
    expired,  \* the stories a round has still to delete
    faults,
    \* The history, which no code reads:
    unwanted, \* the contents that DeleteContent has found
    silent,   \* the uploads whose loss no one was told of
    blamed    \* the contents hit by a failure that costs an orphan

store   == <<row, ref, file>>
server  == <<pc, on, expired>>
history == <<unwanted, silent, blamed>>
vars    == <<store, server, faults, history>>

TypeOK ==
    /\ row \in [Contents -> {"none", "present", "deleted"}]
    /\ ref \in [Contents -> {"none", "active", "deleted"}]
    /\ file \in [Contents -> BOOLEAN]
    /\ pc \in [Goroutines -> {"idle", "upload", "createRef", "create", "load",
                              "loadRef", "deleteFile", "deleteRef", "delete"}]
    /\ on \in [Goroutines -> Contents]
    /\ expired \in [Rounds -> SUBSET Stories]
    /\ faults \in 0..MaxFaults
    /\ unwanted \in SUBSET Contents
    /\ silent \in SUBSET Contents
    /\ blamed \in SUBSET Contents

Init ==
    /\ row = [c \in Contents |-> "none"]
    /\ ref = [c \in Contents |-> "none"]
    /\ file = [c \in Contents |-> FALSE]
    /\ pc = [g \in Goroutines |-> "idle"]
    /\ on \in {[g \in Goroutines |-> c] : c \in Contents}
    /\ expired = [k \in Rounds |-> {}]
    /\ faults = 0
    /\ unwanted = {}
    /\ silent = {}
    /\ blamed = {}

At(g, label) == pc[g] = label

Goto(g, label) == pc' = [pc EXCEPT ![g] = label] /\ UNCHANGED <<on, expired>>

\* The call ends, with success or an error.
Return(g) == Goto(g, "idle")

Begin(g, c, label) ==
    /\ pc' = [pc EXCEPT ![g] = label]
    /\ on' = [on EXCEPT ![g] = c]

Fault == faults < MaxFaults /\ faults' = faults + 1

Blame(g) == blamed' = blamed \cup {on[g]} /\ UNCHANGED <<unwanted, silent>>

-----------------------------------------------------------------------------
(* CreateContent, for CreatePost, CreateReel and CreateStory *)

\* The database gives a content an ID that no other has had.
CreateContent(g, c) ==
    /\ At(g, "idle")
    /\ row[c] = "none" /\ ref[c] = "none" /\ ~file[c]
    /\ \A h \in Goroutines : ~At(h, "idle") => on[h] # c
    /\ c \notin blamed
    /\ Begin(g, c, IF c \in Plain THEN "create" ELSE "upload")
    /\ UNCHANGED <<store, expired, faults, history>>

CreatePost(g, c)  == c \notin Stories /\ CreateContent(g, c)  \* and CreateReel
CreateStory(g, c) == c \in Stories /\ CreateContent(g, c)

UploadFile(g) ==
    /\ At(g, "upload")
    /\ file' = [file EXCEPT ![on[g]] = TRUE]
    /\ Goto(g, "createRef")
    /\ UNCHANGED <<row, ref, faults, history>>

\* The file comes to be when the stream is closed, in a defer that drops the
\* error: UploadFile succeeds without a file.
UploadFileLost(g) ==
    /\ At(g, "upload")
    /\ Fault
    /\ silent' = silent \cup {on[g]}
    /\ Goto(g, "createRef")
    /\ UNCHANGED <<store, unwanted, blamed>>

\* A content whose upload failed is stored all the same.
UploadFileIgnored(g) ==
    /\ At(g, "upload")
    /\ Fault
    /\ Goto(g, "createRef")
    /\ UNCHANGED <<store, history>>

\* The copying breaks off; the deferred Close may still store what has come.
UploadFileFails(g) ==
    /\ At(g, "upload")
    /\ Fault
    /\ \E there \in BOOLEAN : file' = [file EXCEPT ![on[g]] = there]
    /\ Return(g)
    /\ Blame(g)
    /\ UNCHANGED <<row, ref>>

CreateMediaRef(g) ==
    /\ At(g, "createRef")
    /\ ref' = [ref EXCEPT ![on[g]] = "active"]
    /\ Goto(g, "create")
    /\ UNCHANGED <<row, file, faults, history>>

\* Here and below, an access that fails may have been carried out.
CreateMediaRefFails(g) ==
    /\ At(g, "createRef")
    /\ Fault
    /\ ref' \in {ref, [ref EXCEPT ![on[g]] = "active"]}
    /\ Return(g)
    /\ Blame(g)
    /\ UNCHANGED <<row, file>>

CreateRow(g) ==
    /\ At(g, "create")
    /\ row' = [row EXCEPT ![on[g]] = "present"]
    /\ Return(g)
    /\ UNCHANGED <<ref, file, faults, history>>

CreateRowFails(g) ==
    /\ At(g, "create")
    /\ Fault
    /\ row' \in {row, [row EXCEPT ![on[g]] = "present"]}
    /\ Return(g)
    /\ Blame(g)
    /\ UNCHANGED <<ref, file>>

-----------------------------------------------------------------------------
(* DeleteContent *)

DeleteContent(g, c) ==
    /\ At(g, "idle")
    /\ row[c] # "none"
    /\ Begin(g, c, "load")
    /\ UNCHANGED <<store, faults, history>>

GetContentByID(g) ==
    /\ At(g, "load")
    /\ IF row[on[g]] = "present"
       THEN /\ Goto(g, IF on[g] \in Plain THEN "delete" ELSE "loadRef")
            /\ unwanted' = unwanted \cup {on[g]}
       ELSE Return(g) /\ UNCHANGED unwanted
    /\ UNCHANGED <<store, faults, silent, blamed>>

GetContentByIDFails(g) ==
    /\ At(g, "load")
    /\ Fault
    /\ Return(g)
    /\ UNCHANGED <<store, history>>

\* DeleteContent that does not delete a content whose media it cannot find.
LoadRefStrict(g) ==
    /\ At(g, "loadRef")
    /\ IF ref[on[g]] = "active" THEN Goto(g, "deleteFile") ELSE Return(g)
    /\ UNCHANGED <<store, faults, history>>

\* DeleteContent that leaves the media alone.
LoadRefForgotten(g) ==
    /\ At(g, "loadRef")
    /\ Goto(g, "delete")
    /\ UNCHANGED <<store, faults, history>>

\* The media row that DeleteMedia looks up.
LoadRef(g) ==
    /\ At(g, "loadRef")
    /\ Goto(g, IF ref[on[g]] = "active" THEN "deleteFile" ELSE "delete")
    /\ UNCHANGED <<store, faults, history>>

LoadRefFails(g) ==
    /\ At(g, "loadRef")
    /\ Fault
    /\ Goto(g, "delete")
    /\ Blame(g)
    /\ UNCHANGED store

\* A file that is not there is an error, and its media row stays.
DeleteFile(g) ==
    /\ At(g, "deleteFile")
    /\ file' = [file EXCEPT ![on[g]] = FALSE]
    /\ Goto(g, IF file[on[g]] THEN "deleteRef" ELSE "delete")
    /\ UNCHANGED <<row, ref, faults, history>>

\* DeleteMedia that deletes the row though the file could not be deleted.
DeleteFileIgnored(g) ==
    /\ At(g, "deleteFile")
    /\ Fault
    /\ file' \in {file, [file EXCEPT ![on[g]] = FALSE]}
    /\ Goto(g, "deleteRef")
    /\ Blame(g)
    /\ UNCHANGED <<row, ref>>

DeleteFileFails(g) ==
    /\ At(g, "deleteFile")
    /\ Fault
    /\ file' \in {file, [file EXCEPT ![on[g]] = FALSE]}
    /\ Goto(g, "delete")
    /\ Blame(g)
    /\ UNCHANGED <<row, ref>>

DeleteRef(g) ==
    /\ At(g, "deleteRef")
    /\ ref' = [ref EXCEPT ![on[g]] = "deleted"]
    /\ Goto(g, "delete")
    /\ UNCHANGED <<row, file, faults, history>>

DeleteRefFails(g) ==
    /\ At(g, "deleteRef")
    /\ Fault
    /\ ref' \in {ref, [ref EXCEPT ![on[g]] = "deleted"]}
    /\ Goto(g, "delete")
    /\ Blame(g)
    /\ UNCHANGED <<row, file>>

DeleteRow(g) ==
    /\ At(g, "delete")
    /\ row' = [row EXCEPT ![on[g]] = "deleted"]
    /\ Return(g)
    /\ UNCHANGED <<ref, file, faults, history>>

DeleteRowFails(g) ==
    /\ At(g, "delete")
    /\ Fault
    /\ row' \in {row, [row EXCEPT ![on[g]] = "deleted"]}
    /\ Return(g)
    /\ UNCHANGED <<ref, file, history>>

-----------------------------------------------------------------------------
(* startExpiredStoryCleaner *)

\* A tick, and the query of its round; a query that fails ends the round.
ListExpiredStories(k) ==
    /\ At(k, "idle")
    /\ expired[k] = {}
    /\ expired' = [expired EXCEPT ![k] = {s \in Stories : row[s] = "present"}]
    /\ UNCHANGED <<store, pc, on, faults, history>>

\* An error of one story is printed, and the round goes on.
DeleteExpired(k) ==
    \E s \in expired[k] :
        /\ DeleteContent(k, s)
        /\ expired' = [expired EXCEPT ![k] = @ \ {s}]

-----------------------------------------------------------------------------

\* The process dies and is started again.
Crash ==
    /\ Fault
    /\ pc' = [g \in Goroutines |-> "idle"]
    /\ expired' = [k \in Rounds |-> {}]
    /\ blamed' = blamed \cup {on[g] : g \in {h \in Goroutines :
                    pc[h] \in {"createRef", "create", "deleteRef"}}}
    /\ UNCHANGED <<store, on, unwanted, silent>>

Access(g) ==
    \/ UploadFile(g)
    \/ UploadFileLost(g)
    \/ UploadFileFails(g)
    \/ CreateMediaRef(g)
    \/ CreateMediaRefFails(g)
    \/ CreateRow(g)
    \/ CreateRowFails(g)
    \/ GetContentByID(g)
    \/ GetContentByIDFails(g)
    \/ LoadRef(g)
    \/ LoadRefFails(g)
    \/ DeleteFile(g)
    \/ DeleteFileFails(g)
    \/ DeleteRef(g)
    \/ DeleteRefFails(g)
    \/ DeleteRow(g)
    \/ DeleteRowFails(g)

Next ==
    \/ \E g \in Calls, c \in Contents :
          \/ CreatePost(g, c)
          \/ CreateStory(g, c)
          \/ DeleteContent(g, c) /\ UNCHANGED expired
    \/ \E g \in Goroutines : Access(g)
    \/ \E k \in Rounds : ListExpiredStories(k) \/ DeleteExpired(k)
    \/ Crash

Spec == Init /\ [][Next]_vars

(***************************************************************************)
(* The ticker fires every ten minutes, a round goes through the stories it *)
(* has found, and every access returns.  Nobody has to create or delete    *)
(* anything, and MaxFaults bounds what fails.                              *)
(***************************************************************************)
Fairness ==
    /\ \A k \in Rounds : WF_vars(ListExpiredStories(k)) /\ WF_vars(DeleteExpired(k))
    /\ \A g \in Goroutines : WF_vars(Access(g))

FairSpec == Spec /\ Fairness

-----------------------------------------------------------------------------
(* Properties *)

\* A content that readers can see and nobody has deleted has its media, row
\* and file, unless the upload was lost in silence: a failure that CreateContent
\* is told of leaves no content without its media, and neither the deletion of
\* others nor the cleaner takes it away.
Whole ==
    \A c \in Contents \ (Plain \cup unwanted \cup silent) :
        row[c] = "present" => ref[c] = "active" /\ file[c]

\* Media that no content needs is left behind only where a failure or a crash
\* has hit just that content, at the accesses that cannot be made good again;
\* users and overlapping rounds of the cleaner that delete the same content
\* never cause it by themselves.
OrphansBlamed ==
    \A c \in Contents :
        /\ row[c] # "present"
        /\ file[c] \/ ref[c] = "active"
        /\ \A g \in Goroutines : ~At(g, "idle") => on[g] # c
        => c \in blamed \cup silent

\* A media row is not marked as deleted while its file is still there: nothing
\* would lead to that file any more.
FileGoesFirst ==
    \A c \in Contents : ref[c] = "deleted" => ~file[c]

\* A story is cleaned up in the end, also if an earlier attempt has deleted its
\* media and then failed.
StoriesGo ==
    \A s \in Stories : row[s] = "present" ~> row[s] = "deleted"
=============================================================================
