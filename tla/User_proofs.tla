----------------------------- MODULE User_proofs -----------------------------
(***************************************************************************)
(* The properties of what internal/user keeps: those of Accounts hold for  *)
(* any number of calls, keys, handles and fields, and those of DevicePush  *)
(* for any number of users, tokens and pushes.                             *)
(***************************************************************************)
EXTENDS Accounts, DevicePush, TLAPS

-----------------------------------------------------------------------------
(* Accounts                                                                *)


\* The row of key i holds the handle and the password of u.
Stores(i, u) ==
    /\ i \in Ids
    /\ u \in User
    /\ rows[i] # None
    /\ rows[i].handle = u.handle
    /\ rows[i].password = u.password

\* What a call has in hand at each of its queries.
Going(c) ==
    /\ pc[c] # "idle" => req[c] \in Request
    /\ pc[c] \in {"check", "create"} =>
          /\ req[c].kind = "register"
          /\ req[c].handle \in Handles /\ req[c].password \in Passwords
    /\ pc[c] = "find" => req[c].kind = "login"
    /\ pc[c] = "token" =>
          /\ req[c].kind \in {"register", "login"}
          /\ Stores(id[c], user[c])
          /\ user[c].handle = req[c].handle /\ user[c].password = req[c].password
    /\ pc[c] = "read" =>
          /\ req[c].kind \in {"profile", "update"}
          /\ id[c] \in Ids /\ rows[id[c]] # None
    /\ pc[c] = "save" =>
          /\ req[c].kind = "update"
          /\ Stores(id[c], user[c])
          /\ c \in fresh => user[c].profile = rows[id[c]].profile
    /\ pc[c] = "ok" /\ req[c].kind \in {"register", "login"} =>
          /\ id[c] \in Ids /\ rows[id[c]] # None
          /\ rows[id[c]].handle = req[c].handle
          /\ rows[id[c]].password = req[c].password

\* The unique index.
UniqueHandles ==
    \A i, j \in Ids :
       i # j /\ rows[i] # None /\ rows[j] # None => rows[i].handle # rows[j].handle

IInv ==
    /\ TypeOK
    /\ UniqueHandles
    /\ \A c \in Calls : Going(c)
    /\ TokensNameAccounts
    /\ LostOnlyByRace

-----------------------------------------------------------------------------
(* Type correctness *)

\* Nobody is registered and nobody has called.
LEMMA InitTypeOK == Init => TypeOK
BY DEF Init, TypeOK, States, Profiles, Contents

\* A request has its type.
LEMMA BeginTypeOK ==
    ASSUME TypeOK, NEW c \in Calls, NEW kind \in {"register", "login", "profile", "update"},
           NEW h \in Handles \cup {None}, NEW p \in Passwords \cup {None},
           NEW changes \in Profiles, NEW next \in States,
           Begin(c, kind, h, p, changes, next), id' \in [Calls -> Ids \cup {None}]
    PROVE  TypeOK' /\ req'[c] \in Request
<1> DEFINE r == [kind |-> kind, handle |-> h, password |-> p, changes |-> changes]
<1>1. r \in Request
      BY DEF Request
<1>2. /\ req' = [req EXCEPT ![c] = r]
      /\ pc' = [pc EXCEPT ![c] = next]
      /\ UNCHANGED <<rows, valid, user, last, fresh, doubt>>
      BY DEF Begin, history
<1> HIDE DEF r
<1> QED
    BY <1>1, <1>2 DEF TypeOK

\* A profile of one field, or of none.
LEMMA SmallProfiles ==
    /\ [f \in Fields |-> None] \in Profiles
    /\ \A email \in Contents : [f \in Fields |-> IF f = Email THEN email ELSE None] \in Profiles
BY DEF Profiles, Contents

\* The merged user is a user.
LEMMA MergedType ==
    ASSUME NEW c \in Calls, req[c] \in Request, user[c] \in User
    PROVE  /\ Merged(c) \in User
           /\ Merged(c).handle = user[c].handle
           /\ Merged(c).password = user[c].password
           /\ \A f \in Fields :
                 Merged(c).profile[f] =
                    IF f \in Named(c) THEN req[c].changes[f] ELSE user[c].profile[f]
BY DEF Merged, Request, User, Profiles

\* A registration makes a user.
LEMMA MadeType ==
    ASSUME NEW c \in Calls, req[c] \in Request, req[c].handle \in Handles,
           req[c].password \in Passwords
    PROVE  /\ Made(c) \in User
           /\ Made(c).handle = req[c].handle /\ Made(c).password = req[c].password
           /\ Made(c).profile = req[c].changes
BY DEF Made, Request, User

\* The steps that begin a call.
Begins(c) == RegisterUser(c) \/ LoginUser(c) \/ GetProfile(c) \/ UpdateProfile(c)

\* A call that begins has a request of its kind, and is about a user only with a
\* token.
LEMMA BeginsMakes ==
    ASSUME TypeOK, NEW c \in Calls, Begins(c)
    PROVE  /\ TypeOK'
           /\ UNCHANGED <<rows, valid, user, history>>
           /\ pc[c] = "idle"
           /\ \A d \in Calls \ {c} : req'[d] = req[d] /\ pc'[d] = pc[d] /\ id'[d] = id[d]
           /\ req'[c] \in Request
           /\ \/ pc'[c] = "error"
              \/ /\ pc'[c] = "check" /\ req'[c].kind = "register"
                 /\ req'[c].handle \in Handles /\ req'[c].password \in Passwords
              \/ pc'[c] = "find" /\ req'[c].kind = "login"
              \/ /\ pc'[c] = "read" /\ req'[c].kind \in {"profile", "update"}
                 /\ \E t \in valid : id'[c] = t.id
<1> USE SmallProfiles
<1>1. CASE RegisterUser(c)
  <2> PICK h \in Handles, p \in Passwords, email \in Contents, next \in {"check", "error"} :
         Begin(c, "register", h, p, [f \in Fields |-> IF f = Email THEN email ELSE None], next)
      BY <1>1 DEF RegisterUser
  <2>1. /\ [f \in Fields |-> IF f = Email THEN email ELSE None] \in Profiles
        /\ next \in States
        /\ id' \in [Calls -> Ids \cup {None}]
        BY <1>1 DEF RegisterUser, TypeOK, States
  <2>2. TypeOK' /\ req'[c] \in Request
        BY <2>1, BeginTypeOK
  <2> QED
      BY <1>1, <2>2 DEF RegisterUser, Begin, history, TypeOK
<1>2. CASE LoginUser(c)
  <2> PICK h \in Handles, p \in Passwords, next \in {"find", "error"} :
         Begin(c, "login", h, p, [f \in Fields |-> None], next)
      BY <1>2 DEF LoginUser
  <2>1. next \in States /\ id' \in [Calls -> Ids \cup {None}]
        BY <1>2 DEF LoginUser, TypeOK, States
  <2>2. TypeOK' /\ req'[c] \in Request
        BY <2>1, BeginTypeOK
  <2> QED
      BY <1>2, <2>2 DEF LoginUser, Begin, history, TypeOK
<1>3. CASE GetProfile(c) \/ UpdateProfile(c)
  <2> PICK kind \in {"profile", "update"}, changes \in Profiles, next \in {"read", "error"} :
         Begin(c, kind, None, None, changes, next)
      BY <1>3 DEF GetProfile, UpdateProfile
  <2>1. AuthInterceptor(c)
        BY <1>3 DEF GetProfile, UpdateProfile
  <2>2. /\ id' \in [Calls -> Ids \cup {None}]
        /\ next \in States /\ kind \in {"register", "login", "profile", "update"}
        BY <2>1 DEF AuthInterceptor, Token, TypeOK, States
  <2>3. TypeOK' /\ req'[c] \in Request
        BY <2>2, BeginTypeOK
  <2> QED
      BY <2>1, <2>3 DEF AuthInterceptor, Begin, history, Token, TypeOK
<1> QED
    BY <1>1, <1>2, <1>3 DEF Begins

-----------------------------------------------------------------------------
(* The invariant *)

\* Nobody is registered and nobody has called.
LEMMA InitIInv == Init => IInv
<1> SUFFICES ASSUME Init PROVE IInv
    OBVIOUS
<1>1. TypeOK
      BY InitTypeOK
<1> QED
    BY <1>1 DEF Init, IInv, UniqueHandles, Going, TokensNameAccounts, LostOnlyByRace

\* The rows keep their handles and passwords for good.
RowsStay ==
    \A i \in Ids : rows[i] # None =>
       rows'[i] # None /\ rows'[i].handle = rows[i].handle /\ rows'[i].password = rows[i].password

\* As long as rows stay, the other calls have what they had, and tokens name
\* what they named.
LEMMA OthersKeep ==
    ASSUME IInv, TypeOK', NEW c \in Calls, RowsStay,
           \A d \in Calls \ {c} :
              /\ req'[d] = req[d] /\ pc'[d] = pc[d] /\ id'[d] = id[d] /\ user'[d] = user[d]
              /\ d \in fresh' =>
                    /\ d \in fresh
                    /\ id[d] \in Ids /\ rows[id[d]] # None =>
                          rows'[id[d]].profile = rows[id[d]].profile
    PROVE  /\ \A d \in Calls \ {c} : Going(d)'
           /\ \A t \in valid : rows'[t.id] # None /\ rows'[t.id].handle = t.handle
<1>1. ASSUME NEW d \in Calls \ {c} PROVE Going(d)'
  <2>1. Going(d)
        BY DEF IInv
  <2>2. Stores(id[d], user[d]) => Stores(id[d], user[d])'
        BY DEF Stores, RowsStay
  <2>3. UNCHANGED <<pc[d], req[d], id[d], user[d]>>
        OBVIOUS
  <2>4. id[d] \in Ids /\ rows[id[d]] # None =>
           /\ rows'[id[d]] # None
           /\ rows'[id[d]].handle = rows[id[d]].handle
           /\ rows'[id[d]].password = rows[id[d]].password
           /\ d \in fresh' => d \in fresh /\ rows'[id[d]].profile = rows[id[d]].profile
        BY DEF RowsStay
  <2>5. pc[d] = "save" => id[d] \in Ids /\ rows[id[d]] # None
        BY <2>1 DEF Going, Stores
  <2> QED
      BY <2>1, <2>2, <2>3, <2>4, <2>5 DEF Going
<1>2. ASSUME NEW t \in valid PROVE rows'[t.id] # None /\ rows'[t.id].handle = t.handle
      BY DEF IInv, TypeOK, TokensNameAccounts, RowsStay, Token
<1> QED
    BY <1>1, <1>2

\* A call that begins has nothing in hand but the user that a token names.
LEMMA BeginsKeeps == ASSUME IInv, NEW c \in Calls, Begins(c) PROVE IInv'
<1>1. TypeOK
      BY DEF IInv
<1>2. /\ TypeOK'
      /\ UNCHANGED <<rows, valid, user, history>>
      /\ \A d \in Calls \ {c} : req'[d] = req[d] /\ pc'[d] = pc[d] /\ id'[d] = id[d]
      /\ req'[c] \in Request
      /\ \/ pc'[c] = "error"
         \/ /\ pc'[c] = "check" /\ req'[c].kind = "register"
            /\ req'[c].handle \in Handles /\ req'[c].password \in Passwords
         \/ pc'[c] = "find" /\ req'[c].kind = "login"
         \/ /\ pc'[c] = "read" /\ req'[c].kind \in {"profile", "update"}
            /\ \E t \in valid : id'[c] = t.id
      BY <1>1, BeginsMakes
<1>3. RowsStay
      BY <1>2 DEF RowsStay
<1>4. \A d \in Calls \ {c} : Going(d)'
      BY <1>2, <1>3, OthersKeep DEF history
<1>5. Going(c)'
      BY <1>2 DEF Going, IInv, TypeOK, TokensNameAccounts, Token
<1>6. UniqueHandles' /\ TokensNameAccounts' /\ LostOnlyByRace'
      BY <1>2 DEF IInv, UniqueHandles, TokensNameAccounts, LostOnlyByRace, history
<1> QED
    BY <1>2, <1>4, <1>5, <1>6 DEF IInv

\* A step that writes no row and issues no token.
LEMMA ReadKeeps ==
    ASSUME IInv, TypeOK', NEW c \in Calls, Going(c)',
           UNCHANGED <<rows, req, last, doubt>>, valid' \subseteq valid,
           fresh' \subseteq fresh \cup {c},
           \A d \in Calls \ {c} : pc'[d] = pc[d] /\ id'[d] = id[d] /\ user'[d] = user[d]
    PROVE  IInv'
<1>1. RowsStay
      BY DEF RowsStay
<1>2. \A d \in Calls \ {c} : Going(d)'
      BY <1>1, OthersKeep
<1>3. UniqueHandles' /\ TokensNameAccounts' /\ LostOnlyByRace'
      BY DEF IInv, UniqueHandles, TokensNameAccounts, LostOnlyByRace
<1> QED
    BY <1>2, <1>3 DEF IInv

\* The look for the handle.
LEMMA CheckKeeps == ASSUME IInv, NEW c \in Calls, CheckUserExists(c) PROVE IInv'
<1> USE DEF CheckUserExists, Goes, history
<1>1. TypeOK'
      BY DEF IInv, TypeOK, States
<1>2. Going(c)'
      BY DEF IInv, TypeOK, Going
<1> QED
    BY <1>1, <1>2, ReadKeeps DEF IInv, TypeOK

\* The row of a login, whose handle and password are the request's.
LEMMA FindKeeps == ASSUME IInv, NEW c \in Calls, GetUserByHandle(c) PROVE IInv'
<1> USE DEF GetUserByHandle, Goes, history
<1> PICK i \in Ids :
       /\ rows[i] # None
       /\ rows[i].handle = req[c].handle
       /\ id' = [id EXCEPT ![c] = i]
       /\ user' = [user EXCEPT ![c] = rows[i]]
       /\ Goes(c, IF rows[i].password = req[c].password THEN "token" ELSE "error")
    OBVIOUS
<1>0. rows[i] \in User
      BY DEF IInv, TypeOK
<1>1. TypeOK'
      BY <1>0 DEF IInv, TypeOK, States
<1>2. Going(c)'
      BY <1>0 DEF IInv, TypeOK, Going, Stores
<1> QED
    BY <1>1, <1>2, ReadKeeps DEF IInv, TypeOK

\* The row of a profile.
LEMMA GetKeeps == ASSUME IInv, NEW c \in Calls, GetUserByID(c) PROVE IInv'
<1> USE DEF GetUserByID, Goes, history
<1>0. id[c] \in Ids /\ rows[id[c]] \in User /\ req[c].kind \in {"profile", "update"}
      BY DEF IInv, TypeOK, Going
<1>1. TypeOK'
      BY <1>0 DEF IInv, TypeOK, States
<1>2. Going(c)'
      BY <1>0 DEF IInv, TypeOK, Going, Stores
<1> QED
    BY <1>1, <1>2, ReadKeeps DEF IInv, TypeOK

\* A failure leaves a call with nothing.
LEMMA FailsKeeps == ASSUME IInv, NEW c \in Calls, Fails(c) PROVE IInv'
<1> USE DEF Fails, Goes, history
<1>1. TypeOK'
      BY DEF IInv, TypeOK, States
<1>2. Going(c)'
      BY DEF IInv, TypeOK, Going
<1> QED
    BY <1>1, <1>2, ReadKeeps DEF IInv, TypeOK

\* A token names the row it is issued for.
LEMMA TokenKeeps == ASSUME IInv, NEW c \in Calls, GenerateToken(c) PROVE IInv'
<1> USE DEF GenerateToken, Goes, history
<1>0. /\ pc[c] = "token" /\ req[c].kind \in {"register", "login"}
      /\ Stores(id[c], user[c])
      /\ user[c].handle = req[c].handle /\ user[c].password = req[c].password
      BY DEF IInv, Going
<1>1. [id |-> id[c], handle |-> user[c].handle] \in Token
      BY <1>0 DEF Stores, User, Token
<1>2. TypeOK'
      BY <1>1 DEF IInv, TypeOK, States
<1>3. Going(c)'
      BY <1>0 DEF IInv, TypeOK, Going, Stores
<1>4. \A d \in Calls \ {c} : Going(d)'
  <2>1. RowsStay
        BY DEF RowsStay
  <2> QED
      BY <1>2, <2>1, OthersKeep DEF IInv, TypeOK
<1>5. UniqueHandles' /\ TokensNameAccounts' /\ LostOnlyByRace'
      BY <1>0 DEF IInv, UniqueHandles, TokensNameAccounts, LostOnlyByRace, Stores
<1> QED
    BY <1>2, <1>3, <1>4, <1>5 DEF IInv

\* A new row is the only one of its handle, and holds what was asked for.
LEMMA CreateKeeps == ASSUME IInv, NEW c \in Calls, CreateUser(c) PROVE IInv'
<1> PICK i \in Ids : Insert(c, i)
    BY DEF CreateUser
<1> USE DEF Insert, Goes
<1>0. /\ pc[c] = "create" /\ ~Taken(req[c].handle)
      /\ req[c] \in Request /\ req[c].kind = "register"
      /\ req[c].handle \in Handles /\ req[c].password \in Passwords
      BY DEF CreateUser, IInv, Going
<1>1. /\ Made(c) \in User
      /\ Made(c).handle = req[c].handle /\ Made(c).password = req[c].password
      /\ Made(c).profile = req[c].changes
      BY <1>0, MadeType
<1>2. Made(c) # None /\ req[c].changes \in Profiles
      BY <1>0, <1>1, AccountsAssumption DEF Request
<1>3. TypeOK'
      BY <1>1, <1>2 DEF IInv, TypeOK, States
<1>4. /\ rows[i] = None /\ rows'[i] = Made(c)
      /\ \A j \in Ids \ {i} : rows'[j] = rows[j]
      BY DEF IInv, TypeOK
<1>5. RowsStay
      BY <1>4 DEF RowsStay
<1>6. \A d \in Calls \ {c} : Going(d)'
      BY <1>3, <1>4, <1>5, OthersKeep DEF IInv, TypeOK
<1>7. Going(c)'
  <2>1. /\ id'[c] = i /\ user'[c] = Made(c) /\ req'[c] = req[c]
        /\ pc'[c] \in {"token", "error"}
        BY DEF IInv, TypeOK
  <2> QED
      BY <1>0, <1>1, <1>2, <1>4, <2>1 DEF Going, Stores
<1>8. UniqueHandles'
      BY <1>0, <1>1, <1>4 DEF IInv, UniqueHandles, Taken
<1>9. TokensNameAccounts'
      BY <1>4 DEF IInv, TypeOK, TokensNameAccounts, Token
<1>10. LostOnlyByRace'
  <2>1. last'[i] = req[c].changes /\ \A j \in Ids \ {i} : last'[j] = last[j]
        BY DEF IInv, TypeOK
  <2> QED
      BY <1>1, <1>4, <2>1 DEF IInv, LostOnlyByRace
<1> QED
    BY <1>3, <1>6, <1>7, <1>8, <1>9, <1>10 DEF IInv

\* A row that is written back keeps its handle and password, and every field that
\* is not in doubt holds what was asked for last: it was changed now, or nobody
\* has saved the user since it was read.
LEMMA SaveKeeps == ASSUME IInv, NEW c \in Calls, UpdateUser(c) PROVE IInv'
<1> DEFINE i == id[c]
<1> USE DEF UpdateUser, Goes
<1>0. /\ pc[c] = "save" /\ req[c] \in Request /\ req[c].kind = "update"
      /\ Stores(i, user[c])
      /\ c \in fresh => user[c].profile = rows[i].profile
      BY DEF IInv, Going
<1>1. i \in Ids /\ user[c] \in User
      BY <1>0 DEF Stores
<1>2. /\ Merged(c) \in User /\ Merged(c) # None
      /\ Merged(c).handle = rows[i].handle /\ Merged(c).password = rows[i].password
      /\ \A f \in Fields :
            Merged(c).profile[f] =
               IF f \in Named(c) THEN req[c].changes[f] ELSE user[c].profile[f]
      BY <1>0, <1>1, MergedType, AccountsAssumption DEF Stores
<1>3. /\ rows'[i] = Merged(c)
      /\ \A j \in Ids \ {i} : rows'[j] = rows[j]
      BY <1>1 DEF IInv, TypeOK
<1>4. /\ doubt'[i] = (IF c \in fresh THEN doubt[i] ELSE Fields) \ Named(c)
      /\ \A j \in Ids \ {i} : doubt'[j] = doubt[j]
      BY <1>1 DEF IInv, TypeOK
<1>5. /\ \A f \in Fields :
            last'[i][f] = IF f \in Named(c) THEN req[c].changes[f] ELSE last[i][f]
      /\ \A j \in Ids \ {i} : last'[j] = last[j]
      BY <1>1 DEF IInv, TypeOK
<1>6. TypeOK'
  <2>1. rows' \in [Ids -> User \cup {None}] /\ pc' \in [Calls -> States]
        BY <1>2 DEF IInv, TypeOK, States
  <2>2. last' \in [Ids -> Profiles]
    <3>1. [f \in Fields |-> IF f \in Named(c) THEN req[c].changes[f] ELSE last[i][f]] \in Profiles
          BY <1>0, <1>1 DEF IInv, TypeOK, Request, Profiles
    <3> QED
        BY <3>1 DEF IInv, TypeOK
  <2>3. doubt' \in [Ids -> SUBSET Fields] /\ fresh' \subseteq Calls
        BY DEF IInv, TypeOK
  <2> QED
      BY <2>1, <2>2, <2>3 DEF IInv, TypeOK
<1> HIDE DEF i
<1>7. RowsStay
      BY <1>1, <1>2, <1>3 DEF RowsStay
<1>8. /\ UNCHANGED <<valid, req, id, user>>
      /\ \A d \in Calls \ {c} : pc'[d] = pc[d]
      /\ \A d \in fresh' : d \in fresh /\ id[d] # i
      /\ pc'[c] \in {"ok", "error"}
      BY DEF IInv, TypeOK, i
<1>9. \A d \in Calls \ {c} : Going(d)'
      BY <1>3, <1>6, <1>7, <1>8, OthersKeep
<1>10. Going(c)'
      BY <1>0, <1>8 DEF Going
<1>11. UniqueHandles'
      BY <1>0, <1>1, <1>2, <1>3 DEF IInv, UniqueHandles, Stores
<1>12. TokensNameAccounts'
      BY <1>7, <1>8 DEF IInv, TypeOK, TokensNameAccounts, RowsStay, Token
<1>13. LostOnlyByRace'
  <2>1. ASSUME NEW f \in Fields \ doubt'[i] PROVE rows'[i].profile[f] = last'[i][f]
    <3>1. CASE f \in Named(c)
          BY <1>2, <1>3, <1>5, <3>1
    <3>2. CASE f \notin Named(c)
      <4>1. c \in fresh /\ f \notin doubt[i]
            BY <1>4, <2>1, <3>2
      <4>2. rows[i].profile[f] = last[i][f]
            BY <1>0, <1>1, <4>1 DEF IInv, LostOnlyByRace, Stores
      <4> QED
          BY <1>0, <1>2, <1>3, <1>5, <3>2, <4>1, <4>2
    <3> QED
        BY <3>1, <3>2
  <2> QED
      BY <1>3, <1>4, <1>5, <2>1 DEF IInv, LostOnlyByRace
<1> QED
    BY <1>6, <1>9, <1>10, <1>11, <1>12, <1>13 DEF IInv

\* A token that expires is no loss.
LEMMA ExpireKeeps == ASSUME IInv, NEW t \in valid, Expire(t) PROVE IInv'
BY DEF Expire, history, IInv, TypeOK, UniqueHandles, Going, Stores, TokensNameAccounts,
       LostOnlyByRace

\* The invariant is inductive.
LEMMA NextIInv == IInv /\ [Next]_vars => IInv'
<1> SUFFICES ASSUME IInv, [Next]_vars PROVE IInv'
    OBVIOUS
<1>1. ASSUME NEW c \in Calls, Step(c) PROVE IInv'
      BY <1>1, BeginsKeeps, CheckKeeps, CreateKeeps, FindKeeps, TokenKeeps, GetKeeps,
         SaveKeeps, FailsKeeps DEF Step, Begins
<1>2. ASSUME NEW t \in valid, Expire(t) PROVE IInv'
      BY <1>2, ExpireKeeps
<1>3. CASE UNCHANGED vars
      BY <1>3 DEF vars, history, IInv, TypeOK, UniqueHandles, Going, Stores,
                  TokensNameAccounts, LostOnlyByRace
<1> QED
    BY <1>1, <1>2, <1>3 DEF Next

\* The rows, the tokens and the calls keep their types.
THEOREM TypeCorrect == Spec => []TypeOK
<1>1. IInv => TypeOK
      BY DEF IInv
<1> QED
    BY <1>1, InitIInv, NextIInv, PTL DEF Spec

\* A registration or a login that succeeded was for the only account of its
\* handle, with the password that was given.
THEOREM SignedIn == Spec => []SignedInAsAsked
<1>1. IInv => SignedInAsAsked
      BY DEF IInv, UniqueHandles, Going, SignedInAsAsked
<1> QED
    BY <1>1, InitIInv, NextIInv, PTL DEF Spec

\* A good token names a stored account by its key and by its handle.
THEOREM TokensName == Spec => []TokensNameAccounts
<1>1. IInv => TokensNameAccounts
      BY DEF IInv
<1> QED
    BY <1>1, InitIInv, NextIInv, PTL DEF Spec

\* A field holds what was asked for last, unless an update that had read the user
\* before wrote it back.
THEOREM LossesAreRaces == Spec => []LostOnlyByRace
<1>1. IInv => LostOnlyByRace
      BY DEF IInv
<1> QED
    BY <1>1, InitIInv, NextIInv, PTL DEF Spec

-----------------------------------------------------------------------------
(* The devices, and the pushes to them                                     *)


\* What a push knows when it sends and marks: the tokens it has read are its
\* user's unless they changed hands since; those it still has to mark it was
\* refused, and it has dealt with the rest of what it was refused; and FCM had
\* forgotten a token that it has to mark, unless it did not accept the message.
Knowledge(p) ==
    /\ stage[p] \in {"new", "query", "send"} => todo[p] = {} /\ refused[p] = {}
    /\ stage[p] = "send" => \A t \in devices[p] : holder[t] = target[p] \/ t \in touched[p]
    /\ stage[p] = "done" => todo[p] = {}
    /\ p \notin malformed => todo[p] \cap known = {}
    /\ \A t \in (refused[p] \ todo[p]) \cap active : t \in spared[p] \cup touched[p]

DevicesInv ==
    /\ DevicesTypeOK
    /\ RowsFollowRegistrations
    /\ OnlyBadMessagesMute
    /\ \A p \in Pushes : Knowledge(p)

-----------------------------------------------------------------------------
(* Type correctness *)

\* The empty table and the new pushes have their types.
LEMMA InitDevicesTypeOK == DevicesInit => DevicesTypeOK
BY DEF DevicesInit, DevicesTypeOK, Nothing

\* The variables keep their types through every step.
LEMMA NextDevicesTypeOK == DevicesTypeOK /\ [DevicesNext]_deviceVars => DevicesTypeOK'
<1> SUFFICES ASSUME DevicesTypeOK, [DevicesNext]_deviceVars PROVE DevicesTypeOK'
    OBVIOUS
<1> USE DEF DevicesTypeOK, Goto
<1>1. ASSUME NEW t \in Tokens, NEW u \in Users, Save(u, t), Handed(t, u)
      PROVE  DevicesTypeOK'
      BY <1>1, DeviceAssumption DEF Save, Handed, push, outcome
<1>2. ASSUME NEW t \in Tokens, RemovedDevice(t) PROVE DevicesTypeOK'
      BY <1>2 DEF RemovedDevice, Handed, push, outcome
<1>3. ASSUME NEW t \in Tokens, Lapse(t) PROVE DevicesTypeOK'
      BY <1>3 DEF Lapse, push, outcome
<1>4. ASSUME NEW t \in Tokens, Forget(t) PROVE DevicesTypeOK'
      BY <1>4 DEF Forget, table, push, outcome
<1>5. ASSUME NEW p \in Pushes, Update(p) PROVE DevicesTypeOK'
      BY <1>5 DEF Update, table, outcome
<1>6. ASSUME NEW p \in Pushes, ActiveByUserID(p) PROVE DevicesTypeOK'
      BY <1>6 DEF ActiveByUserID, table, outcome
<1>7. ASSUME NEW p \in Pushes, SendMulticast(p) PROVE DevicesTypeOK'
      BY <1>7 DEF SendMulticast, table
<1>8. ASSUME NEW p \in Pushes, UpdateFails(p) PROVE DevicesTypeOK'
      BY <1>8 DEF UpdateFails, table
<1>9. ASSUME NEW p \in Pushes, NEW t \in Tokens, UpdateTokenStatus(p, t) PROVE DevicesTypeOK'
      BY <1>9 DEF UpdateTokenStatus, Answered
<1>10. ASSUME NEW p \in Pushes, NEW t \in Tokens, UpdateTokenStatusFails(p, t) PROVE DevicesTypeOK'
      BY <1>10 DEF UpdateTokenStatusFails, Answered, table
<1>11. CASE UNCHANGED deviceVars
      BY <1>11 DEF deviceVars, table, push, outcome
<1> QED
    BY <1>1, <1>2, <1>3, <1>4, <1>5, <1>6, <1>7, <1>8, <1>9, <1>10, <1>11
    DEF DevicesNext, RegisterDevice, RegisterDeviceToken

\* The device rows and the pushes keep their types, and a token without a row
\* is never active.
THEOREM DevicesTypeCorrect == DevicesSpec => []DevicesTypeOK
BY InitDevicesTypeOK, NextDevicesTypeOK, PTL DEF DevicesSpec

-----------------------------------------------------------------------------
(* The invariant *)

\* Without rows and pushes there is nothing to be wrong.
LEMMA InitDevicesInv == DevicesInit => DevicesInv
<1> SUFFICES ASSUME DevicesInit PROVE DevicesInv
    OBVIOUS
<1>1. DevicesTypeOK
      BY InitDevicesTypeOK
<1>2. RowsFollowRegistrations /\ OnlyBadMessagesMute
      BY DEF DevicesInit, RowsFollowRegistrations, OnlyBadMessagesMute
<1>3. ASSUME NEW p \in Pushes PROVE Knowledge(p)
      BY DEF DevicesInit, Nothing, Knowledge
<1> QED
    BY <1>1, <1>2, <1>3 DEF DevicesInv

\* A registration or a removal, which hands a token to a user or to nobody and
\* touches it for every push that has read the devices.
LEMMA HandedKeeps ==
    ASSUME DevicesInv, NEW t \in Tokens, NEW u \in Users \cup {NoUser}, Handed(t, u),
           owner' = [owner EXCEPT ![t] = u], active' \subseteq active \cup {t}
    PROVE  /\ RowsFollowRegistrations'
           /\ OnlyBadMessagesMute'
           /\ \A p \in Pushes : Knowledge(p)'
<1> USE DEF DevicesInv, Handed, push, outcome
<1>1. RowsFollowRegistrations'
      BY DEF RowsFollowRegistrations
<1>2. OnlyBadMessagesMute'
      BY DEF OnlyBadMessagesMute
<1>3. ASSUME NEW p \in Pushes PROVE Knowledge(p)'
      BY DEF Knowledge, DevicesTypeOK
<1> QED
    BY <1>1, <1>2, <1>3

\* The steps of the other actors that touch no token.
LEMMA ShrinkKeeps ==
    ASSUME DevicesInv, active' \subseteq active, known' \subseteq known,
           UNCHANGED <<owner, push, holder, touched, outcome>>
    PROVE  /\ RowsFollowRegistrations'
           /\ OnlyBadMessagesMute'
           /\ \A p \in Pushes : Knowledge(p)'
<1> USE DEF DevicesInv, push, outcome
<1>1. RowsFollowRegistrations' /\ OnlyBadMessagesMute'
      BY DEF RowsFollowRegistrations, OnlyBadMessagesMute
<1>2. ASSUME NEW p \in Pushes PROVE Knowledge(p)'
      BY DEF Knowledge
<1> QED
    BY <1>1, <1>2

\* A step of push q before its marks: it writes no row and knows what it does
\* next, and the other pushes know what they knew.
LEMMA PushKeeps ==
    ASSUME DevicesInv, NEW q \in Pushes,
           Update(q) \/ ActiveByUserID(q) \/ SendMulticast(q) \/ UpdateFails(q)
    PROVE  /\ RowsFollowRegistrations'
           /\ OnlyBadMessagesMute'
           /\ \A p \in Pushes : Knowledge(p)'
<1> USE DEF DevicesInv, DevicesTypeOK, Goto, table
<1>1. UNCHANGED <<owner, holder, active, known, touched, muted, target>>
      BY DEF Update, ActiveByUserID, SendMulticast, UpdateFails, outcome
<1>2. malformed \subseteq malformed'
      BY DEF Update, ActiveByUserID, SendMulticast, UpdateFails, outcome
<1>3. RowsFollowRegistrations' /\ OnlyBadMessagesMute'
      BY <1>1, <1>2 DEF RowsFollowRegistrations, OnlyBadMessagesMute
<1>4. ASSUME NEW p \in Pushes, p # q PROVE Knowledge(p)'
  <2>1. /\ UNCHANGED <<stage[p], devices[p], todo[p], refused[p], spared[p]>>
        /\ p \in malformed' <=> p \in malformed
        BY <1>4 DEF Update, ActiveByUserID, SendMulticast, UpdateFails, outcome
  <2> QED
      BY <1>1, <2>1 DEF Knowledge
<1>5. Knowledge(q)'
  <2>1. CASE Update(q)
        BY <2>1 DEF Update, Knowledge, outcome
  <2>2. CASE ActiveByUserID(q)
        BY <2>2 DEF ActiveByUserID, Knowledge, outcome, RowsFollowRegistrations
  <2>3. CASE SendMulticast(q)
    <3> DEFINE Sent(bad, reply) ==
                 LET refusing == {t \in devices[q] : reply[t] \in RefusingReplies} IN
                 /\ stage[q] = "send"
                 /\ refused' = [refused EXCEPT ![q] = refusing]
                 /\ malformed' = IF bad THEN malformed \cup {q} ELSE malformed
                 /\ todo' = [todo EXCEPT ![q] = refusing]
                 /\ stage' = [stage EXCEPT ![q] = IF refusing = {} THEN "done" ELSE "mark"]
    <3>a. PICK bad \in BOOLEAN : \E reply \in Replies(q, bad) : Sent(bad, reply)
          BY <2>3 DEF SendMulticast
    <3>1. PICK reply \in Replies(q, bad) : Sent(bad, reply)
          BY <3>a
    <3> DEFINE failed == {t \in devices[q] : reply[t] \in RefusingReplies}
    <3>2. /\ todo'[q] = failed /\ refused'[q] = failed
          /\ stage'[q] = IF failed = {} THEN "done" ELSE "mark"
          BY <3>1
    <3>3. ASSUME q \notin malformed', NEW t \in failed PROVE t \notin known
          BY <3>1, <3>3 DEF Replies, RefusingReplies
    <3> HIDE DEF failed
    <3> QED
        BY <1>1, <3>2, <3>3 DEF Knowledge
  <2>4. CASE UpdateFails(q)
        BY <2>4 DEF UpdateFails, Knowledge
  <2> QED
      BY <2>1, <2>2, <2>3, <2>4
<1> QED
    BY <1>3, <1>4, <1>5

\* A mark of push q, carried out or failed: the token leaves todo and is either
\* inactive or spared.
LEMMA MarkKeeps ==
    ASSUME DevicesInv, NEW q \in Pushes, NEW s \in Tokens,
           UpdateTokenStatus(q, s) \/ UpdateTokenStatusFails(q, s)
    PROVE  /\ RowsFollowRegistrations'
           /\ OnlyBadMessagesMute'
           /\ \A p \in Pushes : Knowledge(p)'
<1> USE DEF DevicesInv, DevicesTypeOK, Goto, table, Answered
<1>1. UNCHANGED <<owner, holder, known, touched, refused, malformed, target, devices>>
      BY DEF UpdateTokenStatus, UpdateTokenStatusFails
<1>2. RowsFollowRegistrations'
      BY <1>1 DEF RowsFollowRegistrations
<1>3. OnlyBadMessagesMute'
  <2>1. s \in known => q \in malformed
        BY DEF Knowledge, UpdateTokenStatus, UpdateTokenStatusFails
  <2>2. muted' \subseteq IF s \in known THEN muted \cup {<<q, s>>} ELSE muted
        BY DEF UpdateTokenStatus, UpdateTokenStatusFails
  <2> QED
      BY <1>1, <2>1, <2>2 DEF OnlyBadMessagesMute
<1>4. ASSUME NEW p \in Pushes, p # q PROVE Knowledge(p)'
  <2>1. UNCHANGED <<stage[p], todo[p], spared[p]>> /\ active' \subseteq active
        BY <1>4 DEF UpdateTokenStatus, UpdateTokenStatusFails
  <2> QED
      BY <1>1, <2>1 DEF Knowledge
<1>5. Knowledge(q)'
  <2>1. /\ stage[q] = "mark" /\ todo'[q] = todo[q] \ {s}
        /\ stage'[q] = IF todo[q] = {s} THEN "done" ELSE "mark"
        BY DEF UpdateTokenStatus, UpdateTokenStatusFails
  <2>2. /\ active' \subseteq active /\ spared[q] \subseteq spared'[q]
        /\ s \notin active' \/ s \in spared'[q]
        BY DEF UpdateTokenStatus, UpdateTokenStatusFails
  <2> QED
      BY <1>1, <2>1, <2>2 DEF Knowledge
<1> QED
    BY <1>2, <1>3, <1>4, <1>5

\* Every step keeps the invariant: one case for each kind of step above.
LEMMA NextDevicesInv == DevicesInv /\ [DevicesNext]_deviceVars => DevicesInv'
<1> SUFFICES ASSUME DevicesInv, [DevicesNext]_deviceVars PROVE DevicesInv'
    OBVIOUS
<1>1. DevicesTypeOK'
      BY NextDevicesTypeOK DEF DevicesInv
<1> DEFINE Rest == /\ RowsFollowRegistrations'
                   /\ OnlyBadMessagesMute'
                   /\ \A p \in Pushes : Knowledge(p)'
<1>2. ASSUME NEW t \in Tokens, NEW u \in Users, RegisterDevice(u, t) \/ RegisterDeviceToken(u, t)
      PROVE  Rest
      BY <1>2, HandedKeeps DEF RegisterDevice, RegisterDeviceToken, Save
<1>3. ASSUME NEW t \in Tokens, RemovedDevice(t) PROVE Rest
  <2>1. active' \subseteq active \cup {t}
        BY <1>3 DEF RemovedDevice
  <2> QED
      BY <1>3, <2>1, HandedKeeps DEF RemovedDevice
<1>4. ASSUME NEW t \in Tokens, Lapse(t) \/ Forget(t) PROVE Rest
      BY <1>4, ShrinkKeeps DEF Lapse, Forget, table
<1>5. ASSUME NEW p \in Pushes,
             Update(p) \/ ActiveByUserID(p) \/ SendMulticast(p) \/ UpdateFails(p)
      PROVE  Rest
      BY <1>5, PushKeeps
<1>6. ASSUME NEW p \in Pushes, NEW t \in Tokens,
             UpdateTokenStatus(p, t) \/ UpdateTokenStatusFails(p, t)
      PROVE  Rest
      BY <1>6, MarkKeeps
<1>7. ASSUME UNCHANGED deviceVars PROVE Rest
  <2>1. /\ active' \subseteq active /\ known' \subseteq known
        /\ UNCHANGED <<owner, push, holder, touched, outcome>>
        BY <1>7 DEF deviceVars, table
  <2> QED
      BY <2>1, ShrinkKeeps
<1> HIDE DEF Rest
<1>8. Rest
      BY <1>2, <1>3, <1>4, <1>5, <1>6, <1>7 DEF DevicesNext
<1> QED
    BY <1>1, <1>8 DEF DevicesInv, Rest

-----------------------------------------------------------------------------
(* The theorems *)

\* The invariant that the theorems below rest on.
THEOREM DevicesInvariance == DevicesSpec => []DevicesInv
BY InitDevicesInv, NextDevicesInv, PTL DEF DevicesSpec

\* A row is its last registrant's, whatever pushes mark.
THEOREM RowsFollow == DevicesSpec => []RowsFollowRegistrations
<1>1. DevicesInv => RowsFollowRegistrations
      BY DEF DevicesInv
<1> QED
    BY <1>1, DevicesInvariance, PTL

\* A working token is marked only for a message that FCM did not accept.
THEOREM OnlyBadMute == DevicesSpec => []OnlyBadMessagesMute
<1>1. DevicesInv => OnlyBadMessagesMute
      BY DEF DevicesInv
<1> QED
    BY <1>1, DevicesInvariance, PTL

\* When a push is over, what it was refused for is inactive, but for marks that
\* failed and tokens that were registered again.
THEOREM RefusedAreQuiet == DevicesSpec => []RefusedGoQuiet
<1>1. DevicesInv => RefusedGoQuiet
      BY DEF DevicesInv, Knowledge, RefusedGoQuiet
<1> QED
    BY <1>1, DevicesInvariance, PTL

\* What a push delivers to another than its user changed hands after the push
\* had read the devices.
THEOREM StraysRace == DevicesSpec => StraysAreRaces
<1> DEFINE Reached == \A p \in Pushes : \A t \in got'[p] \ got[p] :
                      holder[t] = target[p] \/ t \in touched[p]
<1>1. DevicesInv /\ [DevicesNext]_deviceVars => [Reached]_deviceVars
  <2> SUFFICES ASSUME DevicesInv, DevicesNext, NEW p \in Pushes, NEW t \in got'[p] \ got[p]
               PROVE  holder[t] = target[p] \/ t \in touched[p]
      OBVIOUS
  <2>1. stage[p] = "send" /\ t \in devices[p]
        BY DEF DevicesInv, DevicesTypeOK, DevicesNext, RegisterDevice, RegisterDeviceToken,
               Handed, RemovedDevice, Lapse, Forget, Update, ActiveByUserID, SendMulticast,
               UpdateFails, UpdateTokenStatus, UpdateTokenStatusFails, outcome
  <2> QED
      BY <2>1 DEF DevicesInv, Knowledge
<1> QED
    BY <1>1, DevicesInvariance, PTL DEF DevicesSpec, StraysAreRaces
=============================================================================
