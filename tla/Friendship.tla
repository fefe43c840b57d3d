----------------------------- MODULE Friendship -----------------------------
(***************************************************************************)
(* Friend requests and their acceptance: SendFriendRequest and             *)
(* AcceptFriendRequest of internal/user/user_service.go over the table     *)
(* friends, whose unique index holds one row per ordered pair of users.  A *)
(* friendship is two accepted rows, one in each direction, but neither     *)
(* call runs in a transaction: every query is a step of its own, calls     *)
(* interleave, each query may fail, and the process may die between two.   *)
(***************************************************************************)
EXTENDS Naturals

CONSTANTS
    Users,
    Calls   \* the goroutines that serve calls, one call at a time each

VARIABLES
    row,    \* the status of the row (user_id, friend_user_id), or "none"
    pc,     \* the query each goroutine makes next
    user,   \* the caller
    other,  \* the target of a request, or the requester to accept
    \* The history, which no code reads:
    asked,   \* <<u, v>>: u has sent v a request
    agreed,  \* <<u, v>>: u has accepted the request of v
    broken   \* <<u, v>>: u's acceptance of v was cut short after its first write

calls   == <<pc, user, other>>
history == <<asked, agreed, broken>>
vars    == <<row, calls, history>>

Pairs == Users \X Users

TypeOK ==
    /\ row \in [Pairs -> {"none", "pending", "accepted"}]
    /\ pc \in [Calls -> {"idle", "check", "create", "get", "save", "getReverse", "createReverse"}]
    /\ user \in [Calls -> Users]
    /\ other \in [Calls -> Users]
    /\ asked \in SUBSET Pairs
    /\ agreed \in SUBSET Pairs
    /\ broken \in SUBSET Pairs

Init ==
    /\ row = [p \in Pairs |-> "none"]
    /\ pc = [c \in Calls |-> "idle"]
    /\ user \in [Calls -> Users]
    /\ other = user
    /\ asked = {}
    /\ agreed = {}
    /\ broken = {}

Goto(c, label) == pc' = [pc EXCEPT ![c] = label]

\* The row that call c is about, and the one in the other direction.
Forth(c) == <<user[c], other[c]>>
Back(c)  == <<other[c], user[c]>>

Begin(c, u, v, label) ==
    /\ pc[c] = "idle"
    /\ user' = [user EXCEPT ![c] = u]
    /\ other' = [other EXCEPT ![c] = v]
    /\ Goto(c, label)
    /\ UNCHANGED <<row, history>>

\* The call returns, with success or an error.
Return(c) ==
    /\ Goto(c, "idle")
    /\ UNCHANGED <<user, other>>

Proceed(c, label) ==
    /\ Goto(c, label)
    /\ UNCHANGED <<user, other>>

-----------------------------------------------------------------------------
(* SendFriendRequest *)

SendFriendRequest(c, u, v) ==
    /\ u # v
    /\ Begin(c, u, v, "check")

\* CheckFriendshipExists looks at both directions.
CheckFriendshipExists(c) ==
    /\ pc[c] = "check"
    /\ IF row[Forth(c)] = "none" /\ row[Back(c)] = "none"
       THEN Proceed(c, "create")
       ELSE Return(c)
    /\ UNCHANGED <<row, history>>

\* An insert that replaces the row it finds.
CreateOverwrites(c) ==
    /\ pc[c] = "create"
    /\ row' = [row EXCEPT ![Forth(c)] = "pending"]
    /\ asked' = asked \cup {Forth(c)}
    /\ Return(c)
    /\ UNCHANGED <<agreed, broken>>

\* The unique index refuses a second row for the pair.
CreateFriendRequest(c) ==
    /\ pc[c] = "create"
    /\ IF row[Forth(c)] = "none"
       THEN /\ row' = [row EXCEPT ![Forth(c)] = "pending"]
            /\ asked' = asked \cup {Forth(c)}
       ELSE UNCHANGED <<row, asked>>
    /\ Return(c)
    /\ UNCHANGED <<agreed, broken>>

-----------------------------------------------------------------------------
(* AcceptFriendRequest *)

AcceptFriendRequest(c, u, v) == Begin(c, u, v, "get")

\* The query with its two arguments the other way round.
GetFriendRequestSwapped(c) ==
    /\ pc[c] = "get"
    /\ IF row[Forth(c)] = "pending" THEN Proceed(c, "save") ELSE Return(c)
    /\ UNCHANGED <<row, history>>

\* Only a pending row of the requester is accepted.
GetFriendRequest(c) ==
    /\ pc[c] = "get"
    /\ IF row[Back(c)] = "pending" THEN Proceed(c, "save") ELSE Return(c)
    /\ UNCHANGED <<row, history>>

\* The row read before is written back as a whole.
UpdateFriendRequest(c) ==
    /\ pc[c] = "save"
    /\ row' = [row EXCEPT ![Back(c)] = "accepted"]
    /\ agreed' = agreed \cup {Forth(c)}
    /\ Proceed(c, "getReverse")
    /\ UNCHANGED <<asked, broken>>

\* The lookup that is content with a row in either direction.
GetReverseEither(c) ==
    /\ pc[c] = "getReverse"
    /\ IF row[Forth(c)] = "none" /\ row[Back(c)] = "none"
       THEN Proceed(c, "createReverse") ELSE Return(c)
    /\ UNCHANGED <<row, history>>

\* A row in the caller's own direction is left as it is, pending or accepted.
GetReverse(c) ==
    /\ pc[c] = "getReverse"
    /\ IF row[Forth(c)] = "none" THEN Proceed(c, "createReverse") ELSE Return(c)
    /\ UNCHANGED <<row, history>>

CreateReverse(c) ==
    /\ pc[c] = "createReverse"
    /\ row' = IF row[Forth(c)] = "none" THEN [row EXCEPT ![Forth(c)] = "accepted"] ELSE row
    /\ Return(c)
    /\ UNCHANGED history

-----------------------------------------------------------------------------
(* Failures *)

HalfDone(c) == pc[c] \in {"getReverse", "createReverse"}

\* The query fails, or its answer is lost, and the call returns the error.
QueryFails(c) ==
    /\ pc[c] # "idle"
    /\ broken' = IF HalfDone(c) THEN broken \cup {Forth(c)} ELSE broken
    /\ Return(c)
    /\ UNCHANGED <<row, asked, agreed>>

\* The process dies with all its calls.
Crash ==
    /\ \E c \in Calls : pc[c] # "idle"
    /\ pc' = [c \in Calls |-> "idle"]
    /\ broken' = broken \cup {Forth(c) : c \in {d \in Calls : HalfDone(d)}}
    /\ UNCHANGED <<row, user, other, asked, agreed>>

-----------------------------------------------------------------------------

Next ==
    \/ \E c \in Calls :
          \/ \E u, v \in Users : SendFriendRequest(c, u, v)
          \/ CheckFriendshipExists(c)
          \/ CreateFriendRequest(c)
          \/ \E u, v \in Users : AcceptFriendRequest(c, u, v)
          \/ GetFriendRequest(c)
          \/ UpdateFriendRequest(c)
          \/ GetReverse(c)
          \/ CreateReverse(c)
          \/ QueryFails(c)
    \/ Crash

Spec == Init /\ [][Next]_vars

-----------------------------------------------------------------------------
(* Properties *)

\* Nobody is anyone's friend without having asked or agreed: an accepted row
\* goes back to a request of one of the two and an acceptance of it by the
\* other, however requests and acceptances cross.
Consent ==
    \A u, v \in Users : row[<<u, v>>] = "accepted" =>
        \/ <<u, v>> \in asked /\ <<v, u>> \in agreed
        \/ <<v, u>> \in asked /\ <<u, v>> \in agreed

\* If u is listed as v's friend and v is not listed as u's, then the missing
\* row is about to be written, or was not written because the acceptance was
\* cut short, or is u's own crossing request, which waits for v.
MutualUnlessBroken ==
    \A u, v \in Users : row[<<u, v>>] = "accepted" /\ row[<<v, u>>] # "accepted" =>
        \/ \E c \in Calls : HalfDone(c) /\ Forth(c) = <<v, u>>
        \/ <<v, u>> \in broken
        \/ row[<<v, u>>] = "pending"

\* A friendship is never undone: a stale row written back, a second request
\* and a second acceptance leave what was accepted.
AcceptedStays ==
    [][\A p \in Pairs : row[p] = "accepted" => row'[p] = "accepted"]_vars
=============================================================================
