------------------------------ MODULE Accounts ------------------------------
(***************************************************************************)
(* The accounts of the user server: Register, Login, GetProfile and        *)
(* UpdateProfile of internal/user/user_service.go, query by query, behind  *)
(* the interceptor of internal/common/middleware.go.  Registration looks   *)
(* for the handle and then inserts; UpdateProfile reads the user, changes  *)
(* some fields and saves the whole row.  The calls run side by side, and   *)
(* any of them may fail at any query, or fail though its query was done.   *)
(***************************************************************************)
EXTENDS Naturals, FiniteSets

CONSTANTS
    Calls,      \* the requests, one call each
    Ids,        \* the primary keys
    Handles,
    Passwords,
    Fields,     \* the fields of a profile: e-mail, phone, details
    Email,      \* the field that Register takes too
    Values,     \* what a field may hold
    None        \* an empty string, no row, nothing read yet

Contents == Values \cup {None}
Profiles == [Fields -> Contents]

(* The columns of a user.  The handle has a unique index. *)
User == [handle : Handles, password : Passwords, profile : Profiles]

ASSUME AccountsAssumption ==
    /\ Email \in Fields
    /\ None \notin Ids
    /\ None \notin User

Request ==
    [kind : {"register", "login", "profile", "update"}, handle : Handles \cup {None},
     password : Passwords \cup {None}, changes : Profiles]

Token == [id : Ids, handle : Handles]

VARIABLES
    rows,   \* the table of users
    valid,  \* the tokens that were issued and have not expired
    pc,     \* where each call stands
    req,    \* what it asks for
    id,     \* the user it is about
    user,   \* the user as it has read or made it
    \* The history, which no code reads:
    last,   \* what was last asked for each field of each user
    fresh,  \* the calls whose user nobody has saved since they read it
    doubt   \* the fields of each user written by a call that was not fresh

vars == <<rows, valid, pc, req, id, user, last, fresh, doubt>>
history == <<last, fresh, doubt>>

Init ==
    /\ rows = [i \in Ids |-> None]
    /\ valid = {}
    /\ pc = [c \in Calls |-> "idle"]
    /\ req = [c \in Calls |-> None]
    /\ id = [c \in Calls |-> None]
    /\ user = [c \in Calls |-> None]
    /\ last = [i \in Ids |-> [f \in Fields |-> None]]
    /\ fresh = {}
    /\ doubt = [i \in Ids |-> {}]

Begin(c, kind, h, p, changes, next) ==
    /\ pc[c] = "idle"
    /\ req' = [req EXCEPT ![c] = [kind |-> kind, handle |-> h, password |-> p,
                                  changes |-> changes]]
    /\ pc' = [pc EXCEPT ![c] = next]
    /\ UNCHANGED <<rows, valid, user, history>>

Goes(c, next) == pc' = [pc EXCEPT ![c] = next]

Taken(h) == \E i \in Ids : rows[i] # None /\ rows[i].handle = h

-----------------------------------------------------------------------------
(* Registration and login.                                                 *)

(* A request that does not pass the validation is answered at once. *)
RegisterUser(c) ==
    /\ \E h \in Handles, p \in Passwords, email \in Contents, next \in {"check", "error"} :
          Begin(c, "register", h, p, [f \in Fields |-> IF f = Email THEN email ELSE None], next)
    /\ UNCHANGED id

CheckUserExists(c) ==
    /\ pc[c] = "check"
    /\ Goes(c, IF Taken(req[c].handle) THEN "error" ELSE "create")
    /\ UNCHANGED <<rows, valid, req, id, user, history>>

Made(c) ==
    [handle |-> req[c].handle, password |-> req[c].password, profile |-> req[c].changes]

(* The row is inserted under a new key; the answer may be lost. *)
Insert(c, i) ==
    /\ rows[i] = None
    /\ rows' = [rows EXCEPT ![i] = Made(c)]
    /\ id' = [id EXCEPT ![c] = i]
    /\ user' = [user EXCEPT ![c] = Made(c)]
    /\ last' = [last EXCEPT ![i] = req[c].changes]
    /\ \E next \in {"token", "error"} : Goes(c, next)
    /\ UNCHANGED <<valid, req, fresh, doubt>>

CreateUserTwice(c) ==
    /\ pc[c] = "create"
    /\ \E i \in Ids : Insert(c, i)

CreateUser(c) ==
    /\ pc[c] = "create"
    /\ ~Taken(req[c].handle)
    /\ \E i \in Ids : Insert(c, i)

LoginUser(c) ==
    /\ \E h \in Handles, p \in Passwords, next \in {"find", "error"} :
          Begin(c, "login", h, p, [f \in Fields |-> None], next)
    /\ UNCHANGED id

GetUserByHandle(c) ==
    /\ pc[c] = "find"
    /\ \E i \in Ids :
          /\ rows[i] # None
          /\ rows[i].handle = req[c].handle
          /\ id' = [id EXCEPT ![c] = i]
          /\ user' = [user EXCEPT ![c] = rows[i]]
          /\ Goes(c, IF rows[i].password = req[c].password THEN "token" ELSE "error")
    /\ UNCHANGED <<rows, valid, req, history>>

GenerateToken(c) ==
    /\ pc[c] = "token"
    /\ valid' = valid \cup {[id |-> id[c], handle |-> user[c].handle]}
    /\ Goes(c, "ok")
    /\ UNCHANGED <<rows, req, id, user, history>>

(* A token is good for a day. *)
Expire(t) ==
    /\ valid' = valid \ {t}
    /\ UNCHANGED <<rows, pc, req, id, user, history>>

-----------------------------------------------------------------------------
(* Profiles.                                                               *)

(* The interceptor puts the user of a valid token into the context, and    *)
(* refuses the call without one.                                           *)
AuthInterceptor(c) ==
    \/ \E t \in valid : id' = [id EXCEPT ![c] = t.id] /\ pc'[c] = "read"
    \/ UNCHANGED id /\ pc'[c] = "error"

GetProfile(c) ==
    /\ \E next \in {"read", "error"} :
          Begin(c, "profile", None, None, [f \in Fields |-> None], next)
    /\ AuthInterceptor(c)

UpdateProfile(c) ==
    /\ \E changes \in Profiles, next \in {"read", "error"} :
          Begin(c, "update", None, None, changes, next)
    /\ AuthInterceptor(c)

GetUserByID(c) ==
    /\ pc[c] = "read"
    /\ rows[id[c]] # None
    /\ user' = [user EXCEPT ![c] = rows[id[c]]]
    /\ fresh' = fresh \cup {c}
    /\ Goes(c, IF req[c].kind = "update" THEN "save" ELSE "ok")
    /\ UNCHANGED <<rows, valid, req, id, last, doubt>>

Named(c) == {f \in Fields : req[c].changes[f] # None}

MergedWithEmpty(c) == [user[c] EXCEPT !.profile = req[c].changes]

(* An empty field of the request leaves the user's field as it was read. *)
Merged(c) ==
    [user[c] EXCEPT !.profile =
        [f \in Fields |-> IF f \in Named(c) THEN req[c].changes[f] ELSE user[c].profile[f]]]

(* Save writes every column of the user. *)
UpdateUser(c) ==
    /\ pc[c] = "save"
    /\ rows' = [rows EXCEPT ![id[c]] = Merged(c)]
    /\ \E next \in {"ok", "error"} : Goes(c, next)
    /\ last' = [last EXCEPT ![id[c]] =
                   [f \in Fields |-> IF f \in Named(c) THEN req[c].changes[f] ELSE @[f]]]
    /\ doubt' = [doubt EXCEPT ![id[c]] =
                    (IF c \in fresh THEN @ ELSE Fields) \ Named(c)]
    /\ fresh' = {d \in fresh : id[d] # id[c]}
    /\ UNCHANGED <<valid, req, id, user>>

(* A query fails or finds nothing, a duplicate is refused, an e-mail or a  *)
(* hash is refused, the process ends: the client gets an error or nothing. *)
Fails(c) ==
    /\ pc[c] \in {"check", "create", "find", "token", "read", "save"}
    /\ Goes(c, "error")
    /\ UNCHANGED <<rows, valid, req, id, user, history>>

Step(c) ==
    \/ RegisterUser(c) \/ CheckUserExists(c) \/ CreateUser(c)
    \/ LoginUser(c) \/ GetUserByHandle(c) \/ GenerateToken(c)
    \/ GetProfile(c) \/ UpdateProfile(c) \/ GetUserByID(c) \/ UpdateUser(c)
    \/ Fails(c)

Next ==
    \/ \E c \in Calls : Step(c)
    \/ \E t \in valid : Expire(t)

Spec == Init /\ [][Next]_vars

-----------------------------------------------------------------------------

States == {"idle", "check", "create", "find", "token", "read", "save", "ok", "error"}

TypeOK ==
    /\ rows \in [Ids -> User \cup {None}]
    /\ valid \subseteq Token
    /\ pc \in [Calls -> States]
    /\ req \in [Calls -> Request \cup {None}]
    /\ id \in [Calls -> Ids \cup {None}]
    /\ user \in [Calls -> User \cup {None}]
    /\ last \in [Ids -> Profiles]
    /\ fresh \subseteq Calls
    /\ doubt \in [Ids -> SUBSET Fields]

(* Whoever was told that a registration or a login succeeded has the only  *)
(* account of that handle, with the password it gave, for good, though     *)
(* registrations look before they insert and updates write whole rows.     *)
SignedInAsAsked ==
    \A c \in Calls :
       pc[c] = "ok" /\ req[c].kind \in {"register", "login"} =>
          /\ rows[id[c]] # None
          /\ rows[id[c]].handle = req[c].handle
          /\ rows[id[c]].password = req[c].password
          /\ \A i \in Ids \ {id[c]} : rows[i] = None \/ rows[i].handle # req[c].handle

(* A token, as long as it is good, names an account that is stored, by its *)
(* key and by its handle.                                                  *)
TokensNameAccounts ==
    \A t \in valid : rows[t.id] # None /\ rows[t.id].handle = t.handle

(* A field of a profile holds what was asked for it last, unless another   *)
(* update that had read the user before wrote its old value back.          *)
LostOnlyByRace ==
    \A i \in Ids : rows[i] # None =>
       \A f \in Fields \ doubt[i] : rows[i].profile[f] = last[i][f]
=============================================================================
