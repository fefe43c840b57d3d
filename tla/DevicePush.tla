------------------------------ MODULE DevicePush ------------------------------
(***************************************************************************)
(* Device tokens and the pushes to them.  The user server and the          *)
(* notification server both write the table devices                        *)
(* (internal/user/device_repository.go), one statement per call: a         *)
(* registration takes a token over for its user.  FCMObserver.Update       *)
(* (internal/notif/observers.go), which several workers run at once, reads *)
(* the active devices of a user, sends to their tokens, and then marks the *)
(* tokens that FCM refused: between the three, devices change hands.       *)
(***************************************************************************)
EXTENDS Naturals

CONSTANTS
    Users,
    Tokens,
    Pushes,  \* the calls of Update, one for each event
    NoUser

ASSUME DeviceAssumption == NoUser \notin Users

VARIABLES
    owner,     \* the column user_id of each token's row, NoUser without a row
    active,    \* the tokens whose last_active is less than 30 days ago
    known,     \* the tokens that FCM knows: it forgets one for good
    stage,     \* the next access of each push
    target,    \* event.UserID
    devices,   \* the tokens read by the push
    todo,      \* the refused tokens that the push has still to mark
    \* The history, which no code reads:
    holder,    \* the user that last registered the token, if not removed since
    touched,   \* the tokens registered or removed since the push read its devices
    got,       \* the tokens that the push reached
    refused,   \* the tokens that FCM refused the push for
    spared,    \* the refused tokens that it could not mark
    malformed, \* the pushes whose message FCM did not accept
    muted      \* <<p, t>>: p marked t, which FCM knew

table   == <<owner, active>>
push    == <<stage, target, devices, todo>>
outcome == <<got, refused, spared, malformed, muted>>
deviceVars    == <<table, known, push, holder, touched, outcome>>

DevicesTypeOK ==
    /\ owner \in [Tokens -> Users \cup {NoUser}]
    /\ active \subseteq {t \in Tokens : owner[t] # NoUser}
    /\ known \subseteq Tokens
    /\ stage \in [Pushes -> {"new", "query", "send", "mark", "done"}]
    /\ target \in [Pushes -> Users]
    /\ devices \in [Pushes -> SUBSET Tokens]
    /\ todo \in [Pushes -> SUBSET Tokens]
    /\ holder \in [Tokens -> Users \cup {NoUser}]
    /\ touched \in [Pushes -> SUBSET Tokens]
    /\ got \in [Pushes -> SUBSET Tokens]
    /\ refused \in [Pushes -> SUBSET Tokens]
    /\ spared \in [Pushes -> SUBSET Tokens]
    /\ malformed \subseteq Pushes
    /\ muted \subseteq Pushes \X Tokens

Nothing == [p \in Pushes |-> {}]

DevicesInit ==
    /\ owner = [t \in Tokens |-> NoUser]
    /\ active = {}
    /\ known = Tokens
    /\ stage = [p \in Pushes |-> "new"]
    /\ target \in [Pushes -> Users]
    /\ devices = Nothing
    /\ todo = Nothing
    /\ holder = owner
    /\ touched = Nothing
    /\ got = Nothing
    /\ refused = Nothing
    /\ spared = Nothing
    /\ malformed = {}
    /\ muted = {}

Goto(p, label) == stage' = [stage EXCEPT ![p] = label]

-----------------------------------------------------------------------------
(* The devices of the users *)

\* What the callers know: u has the device, or nobody does.
Handed(t, u) ==
    /\ holder' = [holder EXCEPT ![t] = u]
    /\ touched' = [p \in Pushes |->
           IF stage[p] \in {"new", "query"} THEN {} ELSE touched[p] \cup {t}]
    /\ UNCHANGED <<known, push, outcome>>

\* A registration that leaves a row it finds to the user it has.
SaveKeepsOwner(u, t) ==
    /\ owner' = [owner EXCEPT ![t] = IF @ = NoUser THEN u ELSE @]
    /\ active' = active \cup {t}

\* gorm's Save: the row with this primary key is written whole, or inserted.
Save(u, t) ==
    /\ owner' = [owner EXCEPT ![t] = u]
    /\ active' = active \cup {t}

\* On the user server.
RegisterDevice(u, t) == Save(u, t) /\ Handed(t, u)

\* On the notification server.
RegisterDeviceToken(u, t) == Save(u, t) /\ Handed(t, u)

RemovedDevice(t) ==
    /\ owner' = [owner EXCEPT ![t] = NoUser]
    /\ active' = active \ {t}
    /\ Handed(t, NoUser)

\* Thirty days pass without a registration of the token.
Lapse(t) ==
    /\ t \in active
    /\ active' = active \ {t}
    /\ UNCHANGED <<owner, known, push, holder, touched, outcome>>

\* The app is removed from the device: FCM forgets the token.
Forget(t) ==
    /\ known' = known \ {t}
    /\ UNCHANGED <<table, push, holder, touched, outcome>>

-----------------------------------------------------------------------------
(* A push: FCMObserver.Update *)

Update(p) ==
    /\ stage[p] = "new"
    /\ Goto(p, "query")
    /\ UNCHANGED <<table, known, target, devices, todo, holder, touched, outcome>>

\* The query of the active devices; without any there is nothing to send.
ActiveByUserID(p) ==
    LET read == {t \in active : owner[t] = target[p]} IN
    /\ stage[p] = "query"
    /\ devices' = [devices EXCEPT ![p] = read]
    /\ Goto(p, IF read = {} THEN "done" ELSE "send")
    /\ UNCHANGED <<table, known, target, todo, holder, touched, outcome>>

\* A test that takes every failed response for a refused token.
MarkedReplies == {"notRegistered", "invalidArgument", "unavailable"}

\* The replies that handleFailedTokens answers with a mark.
RefusingReplies == {"notRegistered", "invalidArgument"}

\* FCM answers for each token: it delivers, it does not know the token, it
\* is unavailable; a message it does not accept is refused for every token.
Replies(p, bad) ==
    {r \in [devices[p] -> {"ok", "notRegistered", "invalidArgument", "unavailable"}] :
        \A t \in devices[p] :
            r[t] \in IF bad THEN {"invalidArgument"}
                     ELSE {IF t \in known THEN "ok" ELSE "notRegistered", "unavailable"}}

\* SendMulticast, and the choice of the tokens that handleFailedTokens marks.
SendMulticast(p) ==
    \E bad \in BOOLEAN : \E reply \in Replies(p, bad) :
        LET failed == {t \in devices[p] : reply[t] \in RefusingReplies} IN
        /\ stage[p] = "send"
        /\ got' = [got EXCEPT ![p] = {t \in devices[p] : reply[t] = "ok"}]
        /\ refused' = [refused EXCEPT ![p] = failed]
        /\ malformed' = IF bad THEN malformed \cup {p} ELSE malformed
        /\ todo' = [todo EXCEPT ![p] = failed]
        /\ Goto(p, IF failed = {} THEN "done" ELSE "mark")
        /\ UNCHANGED <<table, known, target, devices, holder, touched, spared, muted>>

\* The query fails, or SendMulticast as a whole, delivered or not: Update
\* returns the error.
UpdateFails(p) ==
    /\ stage[p] \in {"query", "send"}
    /\ \/ UNCHANGED got
       \/ stage[p] = "send" /\ got' = [got EXCEPT ![p] = devices[p] \cap known]
    /\ Goto(p, "done")
    /\ UNCHANGED <<table, known, target, devices, todo, holder, touched,
                   refused, spared, malformed, muted>>

\* One token done; after the last one Update returns.
Answered(p, t) ==
    /\ stage[p] = "mark"
    /\ t \in todo[p]
    /\ todo' = [todo EXCEPT ![p] = @ \ {t}]
    /\ Goto(p, IF todo[p] = {t} THEN "done" ELSE "mark")
    /\ UNCHANGED <<target, devices>>

\* A mark that writes back the row as it was read.
UpdateTokenStatusSaves(p, t) ==
    /\ Answered(p, t)
    /\ owner' = [owner EXCEPT ![t] = target[p]]
    /\ active' = active \ {t}
    /\ muted' = IF t \in active \cap known THEN muted \cup {<<p, t>>} ELSE muted
    /\ UNCHANGED <<known, holder, touched, got, refused, spared, malformed>>

\* The mark: last_active is put a year back, in the row if there still is one.
UpdateTokenStatus(p, t) ==
    /\ Answered(p, t)
    /\ active' = active \ {t}
    /\ muted' = IF t \in active \cap known THEN muted \cup {<<p, t>>} ELSE muted
    /\ UNCHANGED <<owner, known, holder, touched, got, refused, spared, malformed>>

\* A loop that ends with the first mark that fails.
UpdateTokenStatusGivesUp(p, t) ==
    /\ stage[p] = "mark"
    /\ t \in todo[p]
    /\ todo' = [todo EXCEPT ![p] = {}]
    /\ Goto(p, "done")
    /\ spared' = [spared EXCEPT ![p] = @ \cup {t}]
    /\ UNCHANGED <<table, known, target, devices, holder, touched, got, refused, malformed, muted>>

\* A mark that fails is logged, and the loop goes on.  (The crash of the
\* process is the failure of all that its pushes have left to do.)
UpdateTokenStatusFails(p, t) ==
    /\ Answered(p, t)
    /\ spared' = [spared EXCEPT ![p] = @ \cup {t}]
    /\ UNCHANGED <<table, known, holder, touched, got, refused, malformed, muted>>

DevicesNext ==
    \/ \E t \in Tokens :
          \/ \E u \in Users : RegisterDevice(u, t) \/ RegisterDeviceToken(u, t)
          \/ RemovedDevice(t)
          \/ Lapse(t)
          \/ Forget(t)
    \/ \E p \in Pushes :
          \/ Update(p)
          \/ ActiveByUserID(p)
          \/ SendMulticast(p)
          \/ UpdateFails(p)
          \/ \E t \in Tokens : UpdateTokenStatus(p, t) \/ UpdateTokenStatusFails(p, t)

DevicesSpec == DevicesInit /\ [][DevicesNext]_deviceVars

-----------------------------------------------------------------------------
(* Properties *)

\* The notification of a user reaches a device that is not, or no longer,
\* that user's only if the device changed hands after the push had read the
\* devices: what SendMulticast delivers rests on ActiveByUserID and on every
\* registration and mark before it.
StraysAreRaces ==
    [][\A p \in Pushes : \A t \in got'[p] \ got[p] :
          holder[t] = target[p] \/ t \in touched[p]]_deviceVars

\* Whatever pushes mark with what they read earlier, a row is its last
\* registrant's, and what was removed stays removed.
RowsFollowRegistrations == owner = holder

\* A push marks a token that still works only when FCM refused its whole
\* message: an unavailable FCM, a failed query or another push silence no
\* device.
OnlyBadMessagesMute == \A m \in muted : m[1] \in malformed

\* When a push is over, a token that FCM refused it for is not active, unless
\* the mark failed or the token was registered again.
RefusedGoQuiet ==
    \A p \in Pushes : stage[p] = "done" =>
        refused[p] \cap active \subseteq spared[p] \cup touched[p]
=============================================================================
