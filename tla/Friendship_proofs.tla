------------------------- MODULE Friendship_proofs -------------------------
(***************************************************************************)
(* What holds of friendships for any number of users and of calls at once. *)
(***************************************************************************)
EXTENDS Friendship, TLAPS

Labels == {"idle", "check", "create", "get", "save", "getReverse", "createReverse"}

\* What every call leaves behind, at any of its queries: pending rows were
\* asked for; a call that is about to accept a request, or has accepted it,
\* has read a row that was asked for and never went back.
Traces ==
    /\ \A p \in Pairs : row[p] = "pending" => p \in asked
    /\ \A c \in Calls : pc[c] = "save" => Back(c) \in asked
    /\ \A c \in Calls : HalfDone(c) =>
          Back(c) \in asked /\ Forth(c) \in agreed /\ row[Back(c)] = "accepted"

IInv == TypeOK /\ Traces /\ Consent /\ MutualUnlessBroken

-----------------------------------------------------------------------------

\* Every variable keeps its type; rows have one of three statuses.
THEOREM TypeCorrect == Spec => []TypeOK
<1>1. Init => TypeOK
  BY DEF Init, TypeOK
<1>2. TypeOK /\ [Next]_vars => TypeOK'
  <2> SUFFICES ASSUME TypeOK, [Next]_vars PROVE TypeOK'
    OBVIOUS
  <2> USE DEF TypeOK, Pairs, Forth, Back, Goto, Return, Proceed, history
  <2>1. ASSUME NEW c \in Calls, NEW u \in Users, NEW v \in Users,
               SendFriendRequest(c, u, v) \/ AcceptFriendRequest(c, u, v)
        PROVE  TypeOK'
    BY <2>1 DEF SendFriendRequest, AcceptFriendRequest, Begin
  <2>2. ASSUME NEW c \in Calls, CheckFriendshipExists(c) PROVE TypeOK'
    BY <2>2 DEF CheckFriendshipExists
  <2>3. ASSUME NEW c \in Calls, CreateFriendRequest(c) PROVE TypeOK'
    BY <2>3 DEF CreateFriendRequest
  <2>4. ASSUME NEW c \in Calls, GetFriendRequest(c) PROVE TypeOK'
    BY <2>4 DEF GetFriendRequest
  <2>5. ASSUME NEW c \in Calls, UpdateFriendRequest(c) PROVE TypeOK'
    BY <2>5 DEF UpdateFriendRequest
  <2>6. ASSUME NEW c \in Calls, GetReverse(c) PROVE TypeOK'
    BY <2>6 DEF GetReverse
  <2>7. ASSUME NEW c \in Calls, CreateReverse(c) PROVE TypeOK'
    BY <2>7 DEF CreateReverse
  <2>8. ASSUME NEW c \in Calls, QueryFails(c) PROVE TypeOK'
    BY <2>8 DEF QueryFails
  <2>9. CASE Crash
    BY <2>9 DEF Crash
  <2>10. CASE UNCHANGED vars
    BY <2>10 DEF vars, calls
  <2>11. QED
    BY <2>1, <2>2, <2>3, <2>4, <2>5, <2>6, <2>7, <2>8, <2>9, <2>10 DEF Next
<1>3. QED
  BY <1>1, <1>2, PTL DEF Spec

-----------------------------------------------------------------------------
(* Each step keeps the inductive invariant. *)

\* No step takes an accepted row back.
LEMMA RowsOnlyAdvance ==
    ASSUME TypeOK, [Next]_vars, NEW p \in Pairs
    PROVE  /\ row[p] = "accepted" => row'[p] = "accepted"
           /\ row[p] # "none" => row'[p] # "none"
<1> USE DEF TypeOK, Pairs, Forth, Back, history
<1>1. ASSUME NEW c \in Calls, CreateFriendRequest(c) \/ UpdateFriendRequest(c) \/ CreateReverse(c)
      PROVE  /\ row[p] = "accepted" => row'[p] = "accepted"
             /\ row[p] # "none" => row'[p] # "none"
  BY <1>1 DEF CreateFriendRequest, UpdateFriendRequest, CreateReverse
<1>2. ASSUME ~\E c \in Calls : CreateFriendRequest(c) \/ UpdateFriendRequest(c) \/ CreateReverse(c)
      PROVE  UNCHANGED row
  BY <1>2 DEF Next, SendFriendRequest, AcceptFriendRequest, Begin, CheckFriendshipExists,
              GetFriendRequest, GetReverse, QueryFails, Crash, vars
<1>3. QED
  BY <1>1, <1>2

\* A step of one call that writes no row, and that leaves no acceptance half
\* done, keeps the invariant.
LEMMA NoWriteKeeps ==
    ASSUME IInv, NEW c \in Calls,
           UNCHANGED <<row, asked, agreed, broken>>,
           \A d \in Calls \ {c} :
              UNCHANGED <<pc[d], user[d], other[d]>>,
           pc'[c] = "save" => Back(c)' \in asked,
           ~HalfDone(c), ~HalfDone(c)'
    PROVE  (Traces /\ Consent /\ MutualUnlessBroken)'
<1> USE DEF IInv
<1>1. Traces'
  BY DEF Traces, HalfDone, Forth, Back
<1>2. Consent'
  BY DEF Consent
<1>3. MutualUnlessBroken'
  BY DEF MutualUnlessBroken, HalfDone, Forth
<1>4. QED
  BY <1>1, <1>2, <1>3

\* Sending a request adds a pending row that was asked for, or nothing.
LEMMA CreateKeeps ==
    ASSUME IInv, NEW c \in Calls, CreateFriendRequest(c)
    PROVE  (Traces /\ Consent /\ MutualUnlessBroken)'
<1> USE DEF IInv
<1>1. /\ Forth(c) \in Pairs
      /\ pc \in [Calls -> Labels]
      /\ pc[c] = "create"
      /\ pc' = [pc EXCEPT ![c] = "idle"]
      /\ asked \subseteq asked'
      /\ \A p \in Pairs : row'[p] # row[p] =>
            p = Forth(c) /\ row[p] = "none" /\ row'[p] = "pending" /\ p \in asked'
      /\ UNCHANGED <<user, other, agreed, broken>>
  BY DEF TypeOK, CreateFriendRequest, Return, Goto, Forth, Pairs, Labels
<1>2. \A d \in Calls : /\ pc'[d] = "save" <=> pc[d] = "save"
                       /\ HalfDone(d)' <=> HalfDone(d)
                       /\ Forth(d)' = Forth(d) /\ Back(d)' = Back(d)
                       /\ Forth(d) \in Pairs /\ Back(d) \in Pairs
  BY <1>1 DEF HalfDone, Forth, Back, TypeOK, Pairs
<1>3. Traces'
  <2>1. \A p \in Pairs : row'[p] = "pending" => p \in asked'
    BY <1>1 DEF Traces
  <2>2. \A p \in Pairs : row[p] = "accepted" => row'[p] = "accepted"
    BY <1>1
  <2>3. \A d \in Calls : pc'[d] = "save" => Back(d)' \in asked'
    BY <1>1, <1>2 DEF Traces
  <2>4. \A d \in Calls : HalfDone(d)' =>
          Back(d)' \in asked' /\ Forth(d)' \in agreed' /\ row'[Back(d)'] = "accepted"
    BY <1>1, <1>2, <2>2 DEF Traces
  <2>5. QED
    BY <2>1, <2>3, <2>4 DEF Traces
<1>4. \A u, v \in Users : <<u, v>> \in Pairs
  BY DEF Pairs
<1>5. Consent'
  BY <1>1, <1>4 DEF Consent
<1>6. MutualUnlessBroken'
  <2> SUFFICES ASSUME NEW u \in Users, NEW v \in Users,
                      row'[<<u, v>>] = "accepted", row'[<<v, u>>] # "accepted"
               PROVE  \/ \E d \in Calls : HalfDone(d)' /\ Forth(d)' = <<v, u>>
                      \/ <<v, u>> \in broken'
                      \/ row'[<<v, u>>] = "pending"
    BY DEF MutualUnlessBroken
  <2>1. row[<<u, v>>] = "accepted"
    BY <1>1, <1>4
  <2>2. row[<<v, u>>] # "accepted"
    BY <1>1, <1>4
  <2>3. CASE \E d \in Calls : HalfDone(d) /\ Forth(d) = <<v, u>>
    BY <2>3, <1>2
  <2>4. CASE <<v, u>> \in broken
    BY <2>4, <1>1
  <2>5. CASE row[<<v, u>>] = "pending"
    BY <2>5, <1>1, <1>4
  <2>6. QED
    BY <2>1, <2>2, <2>3, <2>4, <2>5 DEF MutualUnlessBroken
<1>7. QED
  BY <1>3, <1>5, <1>6

\* The row that becomes accepted was asked for, and its other half is under way.
LEMMA UpdateKeeps ==
    ASSUME IInv, NEW c \in Calls, UpdateFriendRequest(c)
    PROVE  (Traces /\ Consent /\ MutualUnlessBroken)'
<1> USE DEF IInv
<1>1. /\ Forth(c) \in Pairs /\ Back(c) \in Pairs
      /\ pc \in [Calls -> Labels]
      /\ pc[c] = "save"
      /\ pc' = [pc EXCEPT ![c] = "getReverse"]
      /\ agreed' = agreed \cup {Forth(c)}
      /\ \A p \in Pairs : row'[p] = IF p = Back(c) THEN "accepted" ELSE row[p]
      /\ UNCHANGED <<user, other, asked, broken>>
  BY DEF TypeOK, UpdateFriendRequest, Proceed, Goto, Forth, Back, Pairs, Labels
<1>2. \A d \in Calls : /\ pc'[d] = "save" => pc[d] = "save"
                       /\ HalfDone(d)' <=> HalfDone(d) \/ d = c
                       /\ Forth(d)' = Forth(d) /\ Back(d)' = Back(d)
                       /\ Back(d) \in Pairs
  BY <1>1 DEF HalfDone, Forth, Back, TypeOK, Pairs
<1>3. Back(c) \in asked
  BY <1>1 DEF Traces
<1>4. Traces'
  <2>1. \A p \in Pairs : row'[p] = "pending" => p \in asked'
    BY <1>1 DEF Traces
  <2>2. \A d \in Calls : pc'[d] = "save" => Back(d)' \in asked'
    BY <1>1, <1>2 DEF Traces
  <2>3. \A d \in Calls : HalfDone(d)' =>
          Back(d)' \in asked' /\ Forth(d)' \in agreed' /\ row'[Back(d)'] = "accepted"
    BY <1>1, <1>2, <1>3 DEF Traces
  <2>4. QED
    BY <2>1, <2>2, <2>3 DEF Traces
<1>5. \A u, v \in Users : /\ <<u, v>> \in Pairs
                          /\ <<u, v>> = Back(c) => <<v, u>> = Forth(c)
  BY DEF Pairs, Forth, Back
<1>6. Consent'
  BY <1>1, <1>3, <1>5 DEF Consent
<1>7. MutualUnlessBroken'
  <2> SUFFICES ASSUME NEW u \in Users, NEW v \in Users,
                      row'[<<u, v>>] = "accepted", row'[<<v, u>>] # "accepted"
               PROVE  \/ \E d \in Calls : HalfDone(d)' /\ Forth(d)' = <<v, u>>
                      \/ <<v, u>> \in broken'
                      \/ row'[<<v, u>>] = "pending"
    BY DEF MutualUnlessBroken
  <2>1. CASE <<u, v>> = Back(c)
    BY <2>1, <1>2, <1>5
  <2>2. CASE <<u, v>> # Back(c)
    <3>1. row[<<u, v>>] = "accepted" /\ row[<<v, u>>] = row'[<<v, u>>]
      BY <2>2, <1>1, <1>5
    <3>2. QED
      BY <3>1, <1>1, <1>2 DEF MutualUnlessBroken
  <2>3. QED
    BY <2>1, <2>2
<1>8. QED
  BY <1>4, <1>6, <1>7

\* The acceptance whose own direction holds a row ends without writing.
LEMMA GetReverseKeeps ==
    ASSUME IInv, NEW c \in Calls, GetReverse(c)
    PROVE  (Traces /\ Consent /\ MutualUnlessBroken)'
<1> USE DEF IInv
<1>1. /\ Forth(c) \in Pairs
      /\ row \in [Pairs -> {"none", "pending", "accepted"}]
      /\ pc \in [Calls -> Labels]
      /\ pc[c] = "getReverse"
      /\ \/ row[Forth(c)] = "none" /\ pc' = [pc EXCEPT ![c] = "createReverse"]
         \/ row[Forth(c)] # "none" /\ pc' = [pc EXCEPT ![c] = "idle"]
      /\ UNCHANGED <<row, user, other, asked, agreed, broken>>
  BY DEF TypeOK, GetReverse, Proceed, Return, Goto, Forth, Pairs, Labels, history
<1>2. \A d \in Calls : /\ pc'[d] = "save" => pc[d] = "save"
                       /\ HalfDone(d)' => HalfDone(d)
                       /\ HalfDone(d) => HalfDone(d)' \/ row[Forth(d)] # "none"
                       /\ Forth(d)' = Forth(d) /\ Back(d)' = Back(d)
  BY <1>1 DEF HalfDone, Forth, Back
<1>3. Traces'
  BY <1>1, <1>2 DEF Traces
<1>4. Consent'
  BY <1>1 DEF Consent
<1>5. MutualUnlessBroken'
  <2>1. \A u, v \in Users : row[<<v, u>>] \in {"none", "pending", "accepted"}
    BY <1>1 DEF Pairs
  <2>2. QED
    BY <1>1, <1>2, <2>1 DEF MutualUnlessBroken
<1>6. QED
  BY <1>3, <1>4, <1>5

\* The second row stands on the first, which is accepted.
LEMMA CreateReverseKeeps ==
    ASSUME IInv, NEW c \in Calls, CreateReverse(c)
    PROVE  (Traces /\ Consent /\ MutualUnlessBroken)'
<1> USE DEF IInv
<1>1. /\ Forth(c) \in Pairs
      /\ row \in [Pairs -> {"none", "pending", "accepted"}]
      /\ pc \in [Calls -> Labels]
      /\ pc[c] = "createReverse"
      /\ pc' = [pc EXCEPT ![c] = "idle"]
      /\ \A p \in Pairs : row'[p] = IF p = Forth(c) /\ row[p] = "none" THEN "accepted" ELSE row[p]
      /\ UNCHANGED <<user, other, asked, agreed, broken>>
  BY DEF TypeOK, CreateReverse, Return, Goto, Forth, Pairs, Labels, history
<1>2. \A d \in Calls : /\ pc'[d] = "save" => pc[d] = "save"
                       /\ HalfDone(d)' <=> HalfDone(d) /\ d # c
                       /\ Forth(d)' = Forth(d) /\ Back(d)' = Back(d)
                       /\ Back(d) \in Pairs
  BY <1>1 DEF HalfDone, Forth, Back, TypeOK, Pairs
<1>3. Back(c) \in asked /\ Forth(c) \in agreed /\ row[Back(c)] = "accepted"
  BY <1>1 DEF Traces, HalfDone
<1>4. Traces'
  <2>1. \A p \in Pairs : row'[p] = "pending" => p \in asked'
    BY <1>1 DEF Traces
  <2>2. \A d \in Calls : pc'[d] = "save" => Back(d)' \in asked'
    BY <1>1, <1>2 DEF Traces
  <2>3. \A d \in Calls : HalfDone(d)' =>
          Back(d)' \in asked' /\ Forth(d)' \in agreed' /\ row'[Back(d)'] = "accepted"
    BY <1>1, <1>2 DEF Traces
  <2>4. QED
    BY <2>1, <2>2, <2>3 DEF Traces
<1>5. \A u, v \in Users : /\ <<u, v>> \in Pairs
                          /\ <<u, v>> = Forth(c) => <<v, u>> = Back(c)
  BY DEF Pairs, Forth, Back
<1>6. Consent'
  BY <1>1, <1>3, <1>5 DEF Consent
<1>7. MutualUnlessBroken'
  <2> SUFFICES ASSUME NEW u \in Users, NEW v \in Users,
                      row'[<<u, v>>] = "accepted", row'[<<v, u>>] # "accepted"
               PROVE  \/ \E d \in Calls : HalfDone(d)' /\ Forth(d)' = <<v, u>>
                      \/ <<v, u>> \in broken'
                      \/ row'[<<v, u>>] = "pending"
    BY DEF MutualUnlessBroken
  <2>1. CASE <<u, v>> = Forth(c)
    BY <2>1, <1>1, <1>3, <1>5
  <2>2. CASE <<u, v>> # Forth(c)
    <3>1. row[<<u, v>>] = "accepted" /\ row[<<v, u>>] # "accepted"
      BY <2>2, <1>1, <1>5
    <3>2. row'[<<v, u>>] = row[<<v, u>>]
      BY <1>1, <1>5
    <3>3. <<v, u>> = Forth(c) => row[<<v, u>>] # "none"
      BY <1>1, <1>5
    <3>4. row[<<v, u>>] \in {"none", "pending", "accepted"}
      BY <1>1, <1>5
    <3>5. QED
      BY <3>1, <3>2, <3>3, <3>4, <1>1, <1>2 DEF MutualUnlessBroken
  <2>3. QED
    BY <2>1, <2>2
<1>8. QED
  BY <1>4, <1>6, <1>7

\* Calls that end before their time leave their pair among the broken ones.
LEMMA FailureKeeps ==
    ASSUME IInv, Crash \/ \E c \in Calls : QueryFails(c)
    PROVE  (Traces /\ Consent /\ MutualUnlessBroken)'
<1> USE DEF IInv
<1>1. /\ UNCHANGED <<row, user, other, asked, agreed>>
      /\ broken \subseteq broken'
      /\ \A d \in Calls : pc'[d] = pc[d] \/ (pc'[d] = "idle" /\ (HalfDone(d) => Forth(d) \in broken'))
  BY DEF Crash, QueryFails, Return, Goto, TypeOK
<1>2. \A d \in Calls : /\ pc'[d] = "save" => pc[d] = "save"
                       /\ HalfDone(d)' => HalfDone(d)
                       /\ HalfDone(d) => HalfDone(d)' \/ Forth(d) \in broken'
                       /\ Forth(d)' = Forth(d) /\ Back(d)' = Back(d)
  BY <1>1 DEF HalfDone, Forth, Back
<1>3. Traces'
  BY <1>1, <1>2 DEF Traces
<1>4. Consent'
  BY <1>1 DEF Consent
<1>5. MutualUnlessBroken'
  BY <1>1, <1>2 DEF MutualUnlessBroken
<1>6. QED
  BY <1>3, <1>4, <1>5

-----------------------------------------------------------------------------

\* The inductive invariant holds in every state.
LEMMA Invariant == Spec => []IInv
<1>1. Init => IInv
  <2>1. Init => TypeOK
    BY DEF Init, TypeOK
  <2>2. Init => Traces /\ Consent /\ MutualUnlessBroken
    BY DEF Init, Traces, Consent, MutualUnlessBroken, HalfDone, Pairs
  <2>3. QED
    BY <2>1, <2>2 DEF IInv
<1>2. IInv /\ TypeOK' /\ [Next]_vars => IInv'
  <2> SUFFICES ASSUME IInv, [Next]_vars PROVE (Traces /\ Consent /\ MutualUnlessBroken)'
    BY DEF IInv
  <2>0. TypeOK
    BY DEF IInv
  <2>1. ASSUME NEW c \in Calls, NEW u \in Users, NEW v \in Users,
               SendFriendRequest(c, u, v) \/ AcceptFriendRequest(c, u, v)
        PROVE  (Traces /\ Consent /\ MutualUnlessBroken)'
    <3>1. /\ UNCHANGED <<row, asked, agreed, broken>>
          /\ \A d \in Calls \ {c} : UNCHANGED <<pc[d], user[d], other[d]>>
          /\ pc'[c] # "save"
          /\ ~HalfDone(c) /\ ~HalfDone(c)'
      BY <2>0, <2>1 DEF SendFriendRequest, AcceptFriendRequest, Begin, Goto, HalfDone, TypeOK, history
    <3>2. QED
      BY <3>1, NoWriteKeeps
  <2>2. ASSUME NEW c \in Calls, CheckFriendshipExists(c) \/ GetFriendRequest(c)
        PROVE  (Traces /\ Consent /\ MutualUnlessBroken)'
    <3>1. /\ UNCHANGED <<row, asked, agreed, broken>>
          /\ \A d \in Calls \ {c} : UNCHANGED <<pc[d], user[d], other[d]>>
          /\ pc'[c] = "save" => row[Back(c)] = "pending"
          /\ Back(c)' = Back(c) /\ Back(c) \in Pairs
          /\ ~HalfDone(c) /\ ~HalfDone(c)'
      BY <2>0, <2>2 DEF CheckFriendshipExists, GetFriendRequest, Proceed, Return, Goto,
                        HalfDone, TypeOK, history, Back, Pairs
    <3>2. pc'[c] = "save" => Back(c)' \in asked
      BY <3>1 DEF IInv, Traces
    <3>3. QED
      BY <3>1, <3>2, NoWriteKeeps
  <2>3. CASE UNCHANGED vars
    <3>1. UNCHANGED <<row, pc, user, other, asked, agreed, broken>>
      BY <2>3 DEF vars, calls, history
    <3>2. Traces'
      BY <3>1 DEF IInv, Traces, HalfDone, Forth, Back
    <3>3. (Consent /\ MutualUnlessBroken)'
      BY <3>1 DEF IInv, Consent, MutualUnlessBroken, HalfDone, Forth
    <3>4. QED
      BY <3>2, <3>3
  <2>4. QED
    BY <2>1, <2>2, <2>3, CreateKeeps, UpdateKeeps, GetReverseKeeps, CreateReverseKeeps,
       FailureKeeps
    DEF Next
<1>3. QED
  BY <1>1, <1>2, TypeCorrect, PTL DEF Spec

\* An accepted row goes back to a request and an acceptance by the two users.
THEOREM FriendsConsented == Spec => []Consent
<1>1. IInv => Consent
  BY DEF IInv
<1>2. QED
  BY <1>1, Invariant, PTL

\* One-sided friendships come from interrupted acceptances and crossing
\* requests only.
THEOREM FriendshipsMutual == Spec => []MutualUnlessBroken
<1>1. IInv => MutualUnlessBroken
  BY DEF IInv
<1>2. QED
  BY <1>1, Invariant, PTL

\* What is accepted stays accepted.
THEOREM FriendshipsStay == Spec => AcceptedStays
<1>1. TypeOK /\ [Next]_vars
         => [\A p \in Pairs : row[p] = "accepted" => row'[p] = "accepted"]_vars
  BY RowsOnlyAdvance
<1>2. QED
  BY <1>1, TypeCorrect, PTL DEF Spec, AcceptedStays
=============================================================================
