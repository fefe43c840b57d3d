---------------------------- MODULE FeedReactions ----------------------------
(***************************************************************************)
(* Reactions to contents: ReactToContent and DeleteReaction of             *)
(* internal/feed/feed_service.go.  A user changes a reaction by a          *)
(* statement that deletes the old one and a statement that inserts the new *)
(* one, without a transaction around them and without a unique index in    *)
(* the table, so calls on one reaction interleave and fail half-done.      *)
(* (The names of the specification are its own, for it is extended together *)
(* with FeedTimeline.)                                                     *)
(***************************************************************************)
CONSTANTS
    Calls,     \* the requests, one call each
    Reactors,  \* the users
    Contents,
    Types,     \* like, love, laugh
    NoType     \* not called yet, no type

Request ==
    [kind : {"react", "remove"}, user : Reactors, content : Contents, type : Types \cup {NoType}]

VARIABLES
    reactions, \* the table of reactions: a row is named by the call that inserts it
    stage,     \* where each call stands
    req,       \* what it asks for
    \* The history, which no code reads:
    met,       \* the pairs of calls on one reaction that were at work together
    skipped    \* the calls that went on though they had deleted nothing

reactionVars == <<reactions, stage, req, met, skipped>>

ReactionsInit ==
    /\ reactions = {}
    /\ stage = [c \in Calls |-> "idle"]
    /\ req = [c \in Calls |-> NoType]
    /\ met = {}
    /\ skipped = {}

Began(c) == stage[c] # "idle"
AtWork(c) == stage[c] \in {"delete", "add", "remove"}
Reacts(c) == Began(c) /\ req[c].kind = "react"

(* Two calls on the reaction of one user to one content. *)
SameReaction(c, d) ==
    req[c].user = req[d].user /\ req[c].content = req[d].content

Rows(c) == {d \in reactions : SameReaction(c, d)}

Goes(c, next) == stage' = [stage EXCEPT ![c] = next]

Call(c, r, next) ==
    /\ stage[c] = "idle"
    /\ req' = [req EXCEPT ![c] = r]
    /\ Goes(c, next)
    /\ met' = met \cup UNION {{<<c, d>>, <<d, c>>} :
                  d \in {d \in Calls : /\ AtWork(d)
                                       /\ req[d].user = r.user
                                       /\ req[d].content = r.content}}
    /\ UNCHANGED <<reactions, skipped>>

-----------------------------------------------------------------------------
(* ReactToContent.                                                         *)

ReactToContent(c) ==
    \E u \in Reactors, x \in Contents, t \in Types :
       Call(c, [kind |-> "react", user |-> u, content |-> x, type |-> t], "delete")

DeleteOldOfType(c) ==
    /\ stage[c] = "delete"
    /\ reactions' = reactions \ {d \in Rows(c) : req[d].type = req[c].type}
    /\ Goes(c, "add")
    /\ UNCHANGED <<req, met, skipped>>

DeleteOld(c) ==
    /\ stage[c] = "delete"
    /\ reactions' = reactions \ Rows(c)
    /\ Goes(c, "add")
    /\ UNCHANGED <<req, met, skipped>>

(* The error is ignored, whatever it says. *)
DeleteOldFails(c) ==
    /\ stage[c] = "delete"
    /\ Goes(c, "add")
    /\ skipped' = skipped \cup {c}
    /\ UNCHANGED <<reactions, req, met>>

AddReaction(c) ==
    /\ stage[c] = "add"
    /\ reactions' = reactions \cup {c}
    /\ Goes(c, "ok")
    /\ UNCHANGED <<req, met, skipped>>

AddReactionForgiven(c) ==
    /\ stage[c] = "add"
    /\ reactions' \in {reactions, reactions \cup {c}}
    /\ Goes(c, "ok")
    /\ UNCHANGED <<req, met, skipped>>

(* The row may have been inserted, and the answer of the database lost. *)
AddReactionFails(c) ==
    /\ stage[c] = "add"
    /\ reactions' \in {reactions, reactions \cup {c}}
    /\ Goes(c, "error")
    /\ UNCHANGED <<req, met, skipped>>

-----------------------------------------------------------------------------
(* DeleteReaction.                                                         *)

DeleteReaction(c) ==
    \E u \in Reactors, x \in Contents :
       Call(c, [kind |-> "remove", user |-> u, content |-> x, type |-> NoType], "remove")

RemoveReaction(c) ==
    /\ stage[c] = "remove"
    /\ reactions' = reactions \ Rows(c)
    /\ \E next \in {"ok", "error"} : Goes(c, next)
    /\ UNCHANGED <<req, met, skipped>>

(* A delete that is refused, or a process that ends before the next query. *)
Dies(c) ==
    /\ AtWork(c)
    /\ Goes(c, "error")
    /\ UNCHANGED <<reactions, req, met, skipped>>

Step(c) ==
    \/ ReactToContent(c) \/ DeleteOld(c) \/ DeleteOldFails(c)
    \/ AddReaction(c) \/ AddReactionFails(c)
    \/ DeleteReaction(c) \/ RemoveReaction(c)
    \/ Dies(c)

ReactionsNext == \E c \in Calls : Step(c)

ReactionsSpec == ReactionsInit /\ [][ReactionsNext]_reactionVars

-----------------------------------------------------------------------------

ReactionsTypeOK ==
    /\ reactions \subseteq Calls
    /\ stage \in [Calls -> {"idle", "delete", "add", "remove", "ok", "error"}]
    /\ req \in [Calls -> Request \cup {NoType}]
    /\ \A c \in Calls : Began(c) => req[c] \in Request
    /\ met \subseteq Calls \X Calls
    /\ skipped \subseteq Calls

(* A user has two reactions to one content only if the calls that made     *)
(* them were at work together, or one of them deleted nothing and went on. *)
DoubledOnlyByRace ==
    \A c, d \in reactions :
       c # d /\ SameReaction(c, d) => <<c, d>> \in met \/ c \in skipped \/ d \in skipped

(* Among the calls of a user that only reacts, never takes a reaction back *)
(* and is never told of an error, one reaction at least is kept as soon as *)
(* one was acknowledged, except while a call replaces it.                  *)
OnlyReacts(c) ==
    \A d \in Calls : Began(d) /\ SameReaction(c, d) => Reacts(d) /\ stage[d] # "error"

ReactionSurvives ==
    \A c \in Calls :
       Reacts(c) /\ stage[c] = "ok" /\ OnlyReacts(c) =>
          \E d \in Calls : Reacts(d) /\ SameReaction(c, d) /\ (d \in reactions \/ stage[d] = "add")
=============================================================================
