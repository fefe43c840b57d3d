--------------------------- MODULE ChatHub_proofs ---------------------------
(***************************************************************************)
(* What holds of the chat's streams for any number of streams, calls and   *)
(* conversations and any bounds.                                           *)
(***************************************************************************)
EXTENDS ChatHub, SequenceTheorems, FiniteSetTheorems, WellFoundedInduction, TLAPS

Elements == Streams \cup {Nil}
Arrays   == [IDs -> Seq(Seq(Elements))]

\* A stream that may be registered under c, when conv are the streams'
\* conversations.
Belongs(conv, c, x) == x \in Streams /\ (c # NoID => conv[x] = c)

\* A slice of conversation c lies in its array A[c], and whoever is in it is a
\* stream of c.
Filled(A, conv, c, slice) ==
    /\ slice.array \in 0..Len(A[c])
    /\ slice.array = 0 => slice.len = 0
    /\ slice.array > 0 =>
          /\ slice.len <= Len(A[c][slice.array])
          /\ \A i \in 1..slice.len : Belongs(conv, c, A[c][slice.array][i])

\* The streams in a slice, and that one of them, or any, is not in it twice.
Members(A, c, slice) == {A[c][slice.array][i] : i \in 1..slice.len}

Single(A, c, slice, s) ==
    \A i, j \in 1..slice.len :
       A[c][slice.array][i] = s /\ A[c][slice.array][j] = s => i = j

Once(A, c, slice) ==
    \A i, j \in 1..slice.len : A[c][slice.array][i] = A[c][slice.array][j] => i = j

\* No array of A is lost or shrinks in B, and what is written into one belongs
\* there.
Kept(A, B, conv) ==
    \A c \in IDs :
       /\ Len(A[c]) <= Len(B[c])
       /\ \A a \in 1..Len(A[c]) :
             /\ Len(B[c][a]) = Len(A[c][a])
             /\ \A i \in 1..Len(A[c][a]) :
                   B[c][a][i] = A[c][a][i] \/ Belongs(conv, c, B[c][a][i])

\* A with a new array q at c, and with q in the place of its a-th array.
Allocated(A, c, q)    == [A EXCEPT ![c] = Append(A[c], q)]
Rewritten(A, c, a, q) == [A EXCEPT ![c] = [A[c] EXCEPT ![a] = q]]

RegistryFilled ==
    /\ arrays \in Arrays
    /\ \A c \in IDs : Filled(arrays, conversationID, c, streams[c])

\* A broadcast has stored its message, and the slice it holds stays one of
\* streams of its conversation, whatever is written into the array.
Walking(g) ==
    /\ walk[g].next > 0
    /\ pc[g] \in {"send", "purge"} =>
          /\ to[g] \in Conversations
          /\ stored[g]
          /\ Filled(arrays, conversationID, to[g], walk[g].slice)
    /\ pc[g] = "purge" => walk[g].target \in Streams

\* A stream is in its conversation's slice once, and not yet when it is about
\* to register.
RegisteredOnce ==
    /\ \A c \in Conversations : Once(arrays, c, streams[c])
    /\ \A c \in Conversations, s \in Streams :
          pc[s] = "register" /\ conversationID[s] = c => s \notin Members(arrays, c, streams[c])

IInv ==
    /\ TypeOK
    /\ RegistryFilled
    /\ \A g \in Goroutines : Walking(g)
    /\ RegisteredOnce

-----------------------------------------------------------------------------
(* Slices and arrays *)

\* Among some places there is a first one.
Before == {p \in Nat \X Nat : p[1] < p[2]}

LEMMA FirstPlace ==
    ASSUME NEW S \in SUBSET Nat, S # {}
    PROVE  \E n \in S : \A m \in S : n <= m
<1>1. IsWellFoundedOn(Before, Nat)
  <2>1. Before = OpToRel(<, Nat)
        BY DEF Before, OpToRel
  <2> QED
      BY <2>1, NatLessThanWellFounded
<1>2. PICK n \in S : \A m \in S : ~(<<m, n>> \in Before)
      BY <1>1, WFMin
<1>3. \A m \in S : ~(m < n)
      BY <1>2 DEF Before
<1> QED
    BY <1>3

\* A slice stays filled when its arrays are kept.
LEMMA FilledKept ==
    ASSUME NEW A \in Arrays, NEW B \in Arrays, NEW conv, Kept(A, B, conv),
           NEW c \in IDs, NEW slice \in Slice, Filled(A, conv, c, slice)
    PROVE  Filled(B, conv, c, slice)
<1>1. A[c] \in Seq(Seq(Elements)) /\ B[c] \in Seq(Seq(Elements))
      BY DEF Arrays
<1>2. Len(A[c]) \in Nat /\ Len(B[c]) \in Nat /\ Len(A[c]) <= Len(B[c])
      BY <1>1 DEF Kept
<1>3. slice.array \in 0..Len(B[c]) /\ slice.array \in Nat /\ slice.len \in Nat
      BY <1>2 DEF Filled, Slice
<1>4. ASSUME slice.array > 0
      PROVE  /\ slice.len <= Len(B[c][slice.array])
             /\ \A i \in 1..slice.len : Belongs(conv, c, B[c][slice.array][i])
  <2>1. slice.array \in 1..Len(A[c])
        BY <1>2, <1>4 DEF Filled, Slice
  <2>2. A[c][slice.array] \in Seq(Elements)
        BY <1>1, <2>1, ElementOfSeq
  <2>3. /\ Len(B[c][slice.array]) = Len(A[c][slice.array])
        /\ \A i \in 1..Len(A[c][slice.array]) :
              \/ B[c][slice.array][i] = A[c][slice.array][i]
              \/ Belongs(conv, c, B[c][slice.array][i])
        BY <2>1 DEF Kept
  <2>4. /\ slice.len <= Len(A[c][slice.array])
        /\ \A i \in 1..slice.len : Belongs(conv, c, A[c][slice.array][i])
        BY <1>4 DEF Filled
  <2>5. Len(A[c][slice.array]) \in Nat
        BY <2>2
  <2>6. ASSUME NEW i \in 1..slice.len PROVE Belongs(conv, c, B[c][slice.array][i])
    <3>1. i \in 1..Len(A[c][slice.array])
          BY <1>3, <2>4, <2>5
    <3> QED
        BY <3>1, <2>3, <2>4
  <2> QED
      BY <2>3, <2>4, <2>6
<1> QED
    BY <1>3, <1>4 DEF Filled

\* A stream that names its conversation for the first time was in no slice of
\* a conversation before.
LEMMA NamingKeeps ==
    ASSUME NEW conv \in [Streams -> IDs], NEW s \in Streams, conv[s] = NoID, NEW n \in IDs,
           NEW A, NEW c \in IDs, NEW slice, Filled(A, conv, c, slice)
    PROVE  Filled(A, [conv EXCEPT ![s] = n], c, slice)
BY DEF Filled, Belongs

\* One array that is written anew, in its length.
LEMMA ReplaceArray ==
    ASSUME NEW A \in Arrays, NEW c \in IDs, NEW a \in 1..Len(A[c]), NEW q \in Seq(Elements),
           NEW conv, Len(q) = Len(A[c][a]),
           \A i \in 1..Len(q) : q[i] = A[c][a][i] \/ Belongs(conv, c, q[i])
    PROVE  /\ Rewritten(A, c, a, q) \in Arrays
           /\ Kept(A, Rewritten(A, c, a, q), conv)
           /\ Rewritten(A, c, a, q)[c][a] = q
           /\ Len(Rewritten(A, c, a, q)[c]) = Len(A[c])
           /\ \A d \in IDs \ {c} : Rewritten(A, c, a, q)[d] = A[d]
<1> DEFINE B == Rewritten(A, c, a, q)
<1>1. A[c] \in Seq(Seq(Elements))
      BY DEF Arrays
<1>2. /\ [A[c] EXCEPT ![a] = q] \in Seq(Seq(Elements))
      /\ Len([A[c] EXCEPT ![a] = q]) = Len(A[c])
      /\ \A b \in 1..Len(A[c]) : [A[c] EXCEPT ![a] = q][b] = IF b = a THEN q ELSE A[c][b]
      BY <1>1, ExceptSeq
<1>3. B[c] = [A[c] EXCEPT ![a] = q] /\ \A d \in IDs \ {c} : B[d] = A[d]
      BY DEF Arrays, Rewritten
<1>4. B \in Arrays
      BY <1>2 DEF Arrays, Rewritten
<1> HIDE DEF B
<1>5. ASSUME NEW d \in IDs
      PROVE  /\ Len(A[d]) <= Len(B[d])
             /\ \A b \in 1..Len(A[d]) :
                   /\ Len(B[d][b]) = Len(A[d][b])
                   /\ \A i \in 1..Len(A[d][b]) :
                         B[d][b][i] = A[d][b][i] \/ Belongs(conv, d, B[d][b][i])
  <2>1. Len(A[d]) \in Nat
        BY DEF Arrays
  <2>2. CASE d # c
        BY <1>3, <2>1, <2>2
  <2>3. CASE d = c
    <3>1. Len(B[c]) = Len(A[c]) /\ \A b \in 1..Len(A[c]) : B[c][b] = IF b = a THEN q ELSE A[c][b]
          BY <1>2, <1>3
    <3>2. ASSUME NEW b \in 1..Len(A[c])
          PROVE  /\ Len(B[c][b]) = Len(A[c][b])
                 /\ \A i \in 1..Len(A[c][b]) :
                       B[c][b][i] = A[c][b][i] \/ Belongs(conv, c, B[c][b][i])
          BY <3>1
    <3> QED
        BY <2>1, <2>3, <3>1, <3>2
  <2> QED
      BY <2>2, <2>3
<1>6. /\ B \in Arrays
      /\ Kept(A, B, conv)
      /\ B[c][a] = q
      /\ Len(B[c]) = Len(A[c])
      /\ \A d \in IDs \ {c} : B[d] = A[d]
      BY <1>2, <1>3, <1>4, <1>5 DEF Kept
<1> QED
    BY <1>6 DEF B

\* One array that is allocated.
LEMMA AllocateArray ==
    ASSUME NEW A \in Arrays, NEW c \in IDs, NEW q \in Seq(Elements), NEW conv
    PROVE  /\ Allocated(A, c, q) \in Arrays
           /\ Kept(A, Allocated(A, c, q), conv)
           /\ Len(Allocated(A, c, q)[c]) = Len(A[c]) + 1
           /\ Allocated(A, c, q)[c][Len(A[c]) + 1] = q
           /\ \A d \in IDs \ {c} : Allocated(A, c, q)[d] = A[d]
<1> DEFINE B == Allocated(A, c, q)
<1>1. A[c] \in Seq(Seq(Elements)) /\ Len(A[c]) \in Nat
      BY DEF Arrays
<1>2. /\ Append(A[c], q) \in Seq(Seq(Elements))
      /\ Len(Append(A[c], q)) = Len(A[c]) + 1
      /\ \A b \in 1..Len(A[c]) : Append(A[c], q)[b] = A[c][b]
      /\ Append(A[c], q)[Len(A[c]) + 1] = q
      BY <1>1, AppendProperties
<1>3. B[c] = Append(A[c], q) /\ \A d \in IDs \ {c} : B[d] = A[d]
      BY DEF Arrays, Allocated
<1>4. B \in Arrays
      BY <1>2 DEF Arrays, Allocated
<1> HIDE DEF B
<1>5. ASSUME NEW d \in IDs
      PROVE  /\ Len(A[d]) <= Len(B[d])
             /\ \A b \in 1..Len(A[d]) : B[d][b] = A[d][b]
  <2>1. Len(A[d]) \in Nat
        BY DEF Arrays
  <2>2. CASE d # c
        BY <1>3, <2>1, <2>2
  <2>3. CASE d = c
    <3>1. Len(B[c]) = Len(A[c]) + 1 /\ \A b \in 1..Len(A[c]) : B[c][b] = A[c][b]
          BY <1>2, <1>3
    <3>2. Len(A[c]) <= Len(B[c])
          BY <1>1, <3>1
    <3> QED
        BY <2>3, <3>1, <3>2, Zenon
  <2> QED
      BY <2>2, <2>3
<1>6. /\ B \in Arrays
      /\ Kept(A, B, conv)
      /\ Len(B[c]) = Len(A[c]) + 1
      /\ B[c][Len(A[c]) + 1] = q
      /\ \A d \in IDs \ {c} : B[d] = A[d]
      BY <1>2, <1>3, <1>4, <1>5 DEF Kept
<1> QED
    BY <1>6 DEF B

\* The registry of TypeOK, from the arrays and the slices.
LEMMA RegistryTyped ==
    ASSUME NEW A \in Arrays, NEW S \in [IDs -> Slice], NEW conv,
           \A c \in IDs : Filled(A, conv, c, S[c])
    PROVE  /\ \A c \in IDs : \A i \in DOMAIN A[c] : A[c][i] \in Seq(Streams \cup {Nil})
           /\ \A c \in IDs :
                 /\ S[c].array \in 0..Len(A[c])
                 /\ S[c].array = 0 => S[c].len = 0
                 /\ S[c].array > 0 => S[c].len <= Len(A[c][S[c].array])
<1>1. ASSUME NEW c \in IDs, NEW i \in DOMAIN A[c]
      PROVE  A[c][i] \in Seq(Streams \cup {Nil})
      BY DEF Arrays, Elements
<1> QED
    BY <1>1 DEF Filled

\* append(h.streams[c], s): the slice of c has s as well, every other slice of
\* an array stays filled, and the other conversations do not change.
LEMMA AppendStreamEffect ==
    ASSUME TypeOK, RegistryFilled, NEW c \in IDs, NEW s \in Streams,
           Belongs(conversationID, c, s), AppendStream(c, s)
    PROVE  /\ arrays' \in Arrays
           /\ streams' \in [IDs -> Slice]
           /\ Kept(arrays, arrays', conversationID)
           /\ \A d \in IDs : Filled(arrays', conversationID, d, streams'[d])
           /\ Members(arrays', c, streams'[c]) \subseteq Members(arrays, c, streams[c]) \cup {s}
           /\ Once(arrays, c, streams[c]) /\ s \notin Members(arrays, c, streams[c])
                 => Once(arrays', c, streams'[c])
           /\ \A t \in Streams :
                 /\ Single(arrays, c, streams[c], t)
                 /\ t = s => s \notin Members(arrays, c, streams[c])
                 => Single(arrays', c, streams'[c], t)
           /\ \A d \in IDs \ {c} : arrays'[d] = arrays[d] /\ streams'[d] = streams[d]
<1> DEFINE slice == streams[c]
           new   == streams'[c]
           n     == slice.len
<1>1. /\ arrays \in Arrays
      /\ \A d \in IDs : Filled(arrays, conversationID, d, streams[d])
      /\ streams \in [IDs -> Slice]
      BY DEF RegistryFilled, TypeOK
<1>2. /\ slice \in Slice /\ n \in Nat /\ slice.array \in Nat
      /\ arrays[c] \in Seq(Seq(Elements)) /\ Len(arrays[c]) \in Nat
      /\ slice.array \in 0..Len(arrays[c])
      /\ slice.array = 0 => n = 0
      BY <1>1 DEF Slice, Arrays, Filled
<1>3. ASSUME slice.array > 0
      PROVE  /\ slice.array \in 1..Len(arrays[c])
             /\ arrays[c][slice.array] \in Seq(Elements)
             /\ Len(arrays[c][slice.array]) \in Nat
             /\ n <= Len(arrays[c][slice.array])
             /\ \A i \in 1..n : Belongs(conversationID, c, arrays[c][slice.array][i])
  <2>1. slice.array \in 1..Len(arrays[c])
        BY <1>2, <1>3
  <2>2. arrays[c][slice.array] \in Seq(Elements)
        BY <1>2, <2>1, ElementOfSeq
  <2> QED
      BY <1>1, <1>3, <2>1, <2>2 DEF Filled
<1>4. /\ arrays' \in Arrays
      /\ streams' \in [IDs -> Slice]
      /\ Kept(arrays, arrays', conversationID)
      /\ \A d \in IDs \ {c} : arrays'[d] = arrays[d] /\ streams'[d] = streams[d]
      /\ new.len = n + 1
      /\ new.array \in 1..Len(arrays'[c])
      /\ n + 1 <= Len(arrays'[c][new.array])
      /\ \A i \in 1..n : arrays'[c][new.array][i] = arrays[c][slice.array][i]
      /\ arrays'[c][new.array][n + 1] = s
  <2>1. CASE n < Room(c)
    <3> DEFINE old == arrays[c][slice.array]
               q   == [old EXCEPT ![n + 1] = s]
    <3>1. slice.array > 0 /\ n + 1 \in 1..Len(old)
          BY <1>2, <1>3, <2>1 DEF Room
    <3>2. /\ old \in Seq(Elements) /\ Len(old) \in Nat /\ slice.array \in 1..Len(arrays[c])
          BY <1>3, <3>1
    <3>3. s \in Elements
          BY DEF Elements
    <3>4. /\ q \in Seq(Elements) /\ Len(q) = Len(old)
          /\ \A i \in 1..Len(old) : q[i] = IF i = n + 1 THEN s ELSE old[i]
          BY <3>1, <3>2, <3>3, ExceptSeq
    <3>5. /\ arrays' = [arrays EXCEPT ![c][slice.array][n + 1] = s]
          /\ streams' = [streams EXCEPT ![c].len = @ + 1]
          BY <2>1 DEF AppendStream
    <3>6. arrays' = [arrays EXCEPT ![c] = [arrays[c] EXCEPT ![slice.array] = q]]
          BY <3>5
    <3>7. \A i \in 1..Len(q) : q[i] = old[i] \/ Belongs(conversationID, c, q[i])
          BY <3>4
    <3> HIDE DEF q
    <3>8. /\ arrays' \in Arrays
          /\ Kept(arrays, arrays', conversationID)
          /\ arrays'[c][slice.array] = q
          /\ Len(arrays'[c]) = Len(arrays[c])
          /\ \A d \in IDs \ {c} : arrays'[d] = arrays[d]
      <4> DEFINE a == slice.array
                 B == Rewritten(arrays, c, a, q)
      <4>1. /\ arrays \in Arrays /\ a \in 1..Len(arrays[c]) /\ q \in Seq(Elements)
            /\ Len(q) = Len(arrays[c][a])
            /\ \A i \in 1..Len(q) : q[i] = arrays[c][a][i] \/ Belongs(conversationID, c, q[i])
            BY <1>1, <3>2, <3>4, <3>7
      <4> HIDE DEF a
      <4>2. /\ B \in Arrays
            /\ Kept(arrays, B, conversationID)
            /\ B[c][a] = q
            /\ Len(B[c]) = Len(arrays[c])
            /\ \A d \in IDs \ {c} : B[d] = arrays[d]
            BY <4>1, ReplaceArray
      <4> QED
          BY <3>6, <4>2 DEF a, Rewritten
    <3>9. /\ new = [slice EXCEPT !.len = @ + 1]
          /\ \A d \in IDs \ {c} : streams'[d] = streams[d]
          BY <1>1, <3>5
    <3>10. new \in Slice /\ new.len = n + 1 /\ new.array = slice.array
           BY <1>2, <3>9 DEF Slice
    <3>11. streams' \in [IDs -> Slice]
           BY <1>1, <3>5, <3>9, <3>10
    <3>12. ASSUME NEW i \in 1..n PROVE q[i] = old[i]
      <4>1. i \in 1..Len(old) /\ i # n + 1
            BY <1>2, <3>1, <3>2
      <4> QED
          BY <3>4, <4>1
    <3> QED
        BY <3>1, <3>2, <3>4, <3>8, <3>9, <3>10, <3>11, <3>12
  <2>2. CASE ~(n < Room(c))
    <3> DEFINE size == IF n = 0 THEN 1 ELSE 2 * n
               q == [i \in 1..size |->
                        IF i <= n THEN arrays[c][slice.array][i]
                        ELSE IF i = n + 1 THEN s ELSE Nil]
    <3>1. size \in Nat /\ n + 1 <= size
          BY <1>2
    <3>2. ASSUME NEW i \in 1..size PROVE q[i] \in Elements
      <4>1. i \in Nat /\ i >= 1
            BY <3>1
      <4>2. CASE i <= n
        <5>1. slice.array > 0 /\ i \in 1..n
              BY <1>2, <4>1, <4>2
        <5>2. Belongs(conversationID, c, arrays[c][slice.array][i])
              BY <1>3, <5>1
        <5> QED
            BY <4>1, <4>2, <5>2, <1>2 DEF Elements, Belongs
      <4>3. CASE i = n + 1
            BY <4>1, <4>3, <1>2 DEF Elements
      <4>4. CASE i > n + 1
            BY <4>1, <4>4, <1>2 DEF Elements
      <4> QED
          BY <4>1, <4>2, <4>3, <4>4, <1>2
    <3>3. q \in Seq(Elements) /\ Len(q) = size
      <4>1. q \in [1..size -> Elements]
            BY <3>2
      <4> HIDE DEF q, size
      <4> QED
          BY <3>1, <4>1
    <3>4. \A i \in 1..n : q[i] = arrays[c][slice.array][i]
          BY <1>2, <3>1
    <3>5. q[n + 1] = s
          BY <1>2, <3>1
    <3>6. /\ arrays' = [arrays EXCEPT ![c] = Append(arrays[c], q)]
          /\ streams' = [streams EXCEPT ![c] = [array |-> Len(arrays[c]) + 1, len |-> n + 1]]
          BY <2>2, <1>1 DEF AppendStream, Element, Arrays
    <3> HIDE DEF q, size
    <3>7. /\ arrays' \in Arrays
          /\ Kept(arrays, arrays', conversationID)
          /\ Len(arrays'[c]) = Len(arrays[c]) + 1
          /\ arrays'[c][Len(arrays[c]) + 1] = q
          /\ \A d \in IDs \ {c} : arrays'[d] = arrays[d]
      <4> DEFINE B == Allocated(arrays, c, q)
      <4>1. /\ B \in Arrays
            /\ Kept(arrays, B, conversationID)
            /\ Len(B[c]) = Len(arrays[c]) + 1
            /\ B[c][Len(arrays[c]) + 1] = q
            /\ \A d \in IDs \ {c} : B[d] = arrays[d]
            BY <1>1, <3>3, AllocateArray
      <4> QED
          BY <3>6, <4>1 DEF Allocated
    <3>8. /\ new = [array |-> Len(arrays[c]) + 1, len |-> n + 1]
          /\ \A d \in IDs \ {c} : streams'[d] = streams[d]
          BY <1>1, <3>6
    <3>9. new \in Slice
          BY <1>2, <3>8 DEF Slice
    <3>10. streams' \in [IDs -> Slice]
           BY <1>1, <3>6, <3>8, <3>9
    <3>11. new.len = n + 1 /\ new.array = Len(arrays[c]) + 1
           BY <3>8
    <3>12. /\ arrays'[c][new.array] = q /\ n + 1 <= Len(q)
           /\ new.array \in 1..Len(arrays'[c])
           BY <1>2, <3>1, <3>3, <3>7, <3>11
    <3> QED
        BY <3>4, <3>5, <3>7, <3>8, <3>10, <3>11, <3>12
  <2> QED
      BY <2>1, <2>2
<1>5. \A i \in 1..(n + 1) : i \in 1..n \/ i = n + 1
      BY <1>2
<1>6. \A i \in 1..n : slice.array > 0
      BY <1>2
<1>7. \A i \in 1..new.len : Belongs(conversationID, c, arrays'[c][new.array][i])
      BY <1>3, <1>4, <1>5, <1>6
<1>8. Filled(arrays', conversationID, c, new)
      BY <1>2, <1>4, <1>7 DEF Filled, Arrays
<1>9. ASSUME NEW d \in IDs PROVE Filled(arrays', conversationID, d, streams'[d])
      BY <1>1, <1>4, <1>8 DEF Filled
<1>10. Members(arrays', c, new) \subseteq Members(arrays, c, slice) \cup {s}
       BY <1>4, <1>5 DEF Members
<1>11. ASSUME Once(arrays, c, slice), s \notin Members(arrays, c, slice)
       PROVE  Once(arrays', c, new)
  <2>1. \A i \in 1..n : arrays'[c][new.array][i] # s
        BY <1>4, <1>11 DEF Members
  <2>2. \A i, j \in 1..n : arrays'[c][new.array][i] = arrays'[c][new.array][j] => i = j
        BY <1>4, <1>11 DEF Once
  <2> QED
      BY <1>4, <1>5, <2>1, <2>2 DEF Once
<1>12. ASSUME NEW t \in Streams, Single(arrays, c, slice, t),
              t = s => s \notin Members(arrays, c, slice)
       PROVE  Single(arrays', c, new, t)
  <2>1. CASE t # s
    <3>1. \A i \in 1..(n + 1) : arrays'[c][new.array][i] = t =>
             i \in 1..n /\ arrays[c][slice.array][i] = t
          BY <1>4, <1>5, <2>1
    <3> QED
        BY <1>4, <1>12, <3>1 DEF Single
  <2>2. CASE t = s
    <3>1. \A i \in 1..n : arrays'[c][new.array][i] # s
          BY <1>4, <1>12, <2>2 DEF Members
    <3> QED
        BY <1>4, <1>5, <2>2, <3>1 DEF Single
  <2> QED
      BY <2>1, <2>2
<1> QED
    BY <1>4, <1>9, <1>10, <1>11, <1>12

\* removeStream(c, s): who is left in the slice was there, s is not if it was
\* there once, every slice stays filled, and the other conversations do not
\* change.
LEMMA RemoveStreamEffect ==
    ASSUME TypeOK, RegistryFilled, NEW c \in IDs, NEW s \in Streams, RemoveStream(c, s)
    PROVE  /\ arrays' \in Arrays
           /\ streams' \in [IDs -> Slice]
           /\ Kept(arrays, arrays', conversationID)
           /\ \A d \in IDs : Filled(arrays', conversationID, d, streams'[d])
           /\ Members(arrays', c, streams'[c]) \subseteq Members(arrays, c, streams[c])
           /\ Once(arrays, c, streams[c]) =>
                 /\ Once(arrays', c, streams'[c])
                 /\ s \notin Members(arrays', c, streams'[c])
           /\ \A t \in Streams : Single(arrays, c, streams[c], t) =>
                 /\ Single(arrays', c, streams'[c], t)
                 /\ t = s => s \notin Members(arrays', c, streams'[c])
           /\ \A d \in IDs \ {c} : arrays'[d] = arrays[d] /\ streams'[d] = streams[d]
           /\ account' \in [Goroutines -> [audience : SUBSET Streams,
                                           reached : [Streams -> Nat],
                                           removals : Nat]]
<1> DEFINE slice  == streams[c]
           new    == streams'[c]
           n      == slice.len
           old    == arrays[c][slice.array]
           places == {i \in 1..n : old[i] = s}
           first  == CHOOSE i \in places : \A j \in places : i <= j
           q      == [i \in 1..Len(old) |-> IF first <= i /\ i < n THEN old[i + 1] ELSE old[i]]
<1>1. /\ arrays \in Arrays
      /\ \A d \in IDs : Filled(arrays, conversationID, d, streams[d])
      /\ streams \in [IDs -> Slice]
      BY DEF RegistryFilled, TypeOK
<1>2. /\ slice \in Slice /\ n \in Nat /\ slice.array \in Nat
      /\ arrays[c] \in Seq(Seq(Elements)) /\ Len(arrays[c]) \in Nat
      /\ slice.array \in 0..Len(arrays[c])
      /\ slice.array = 0 => n = 0
      BY <1>1 DEF Slice, Arrays, Filled
<1>3. CASE places = {}
  <2>1. UNCHANGED <<arrays, streams, account>>
        BY <1>3 DEF RemoveStream, Element
  <2>2. Kept(arrays, arrays, conversationID)
    <3>1. ASSUME NEW d \in IDs PROVE Len(arrays[d]) <= Len(arrays[d])
          BY <1>1 DEF Arrays
    <3> QED
        BY <3>1 DEF Kept
  <2>3. s \notin Members(arrays, c, streams[c])
        BY <1>3 DEF Members, Single
  <2>4. arrays' = arrays /\ streams' = streams /\ account' = account
        BY <2>1
  <2> QED
      BY <1>1, <2>2, <2>3, <2>4 DEF TypeOK
<1>4. CASE places # {}
  <2>1. PICK p \in 1..n : old[p] = s /\ \A j \in places : p <= j
    <3>1. places \subseteq Nat
          BY <1>2
    <3> QED
        BY <1>4, <3>1, FirstPlace
  <2>2. /\ slice.array > 0 /\ n > 0 /\ p \in Nat
        /\ slice.array \in 1..Len(arrays[c])
        BY <1>2, <2>1
  <2>3. old \in Seq(Elements) /\ Len(old) \in Nat
        BY <1>2, <2>2, ElementOfSeq
  <2>4. /\ n <= Len(old)
        /\ \A i \in 1..n : Belongs(conversationID, c, old[i])
        BY <1>1, <2>2 DEF Filled
  <2>5. Room(c) = Len(old)
        BY <2>2 DEF Room
  <2>6. /\ arrays' = [arrays EXCEPT ![c][slice.array] = q]
        /\ streams' = [streams EXCEPT ![c].len = @ - 1]
        /\ CountRemoval(c)
        BY <1>4, <2>5 DEF RemoveStream, Element
  <2>7. \A i \in 1..Len(old) : q[i] = old[i] \/ (i + 1 \in 1..n /\ q[i] = old[i + 1])
        BY <1>2, <2>3
  <2>8. q \in Seq(Elements) /\ Len(q) = Len(old)
    <3>1. \A i \in 1..Len(old) : old[i] \in Elements
          BY <2>3
    <3>2. \A i \in 1..n : i \in 1..Len(old)
          BY <1>2, <2>3, <2>4
    <3>3. ASSUME NEW i \in 1..Len(old) PROVE q[i] \in Elements
          BY <2>7, <3>1, <3>2
    <3>4. q \in [1..Len(old) -> Elements]
          BY <3>3
    <3> HIDE DEF q
    <3> QED
        BY <2>3, <3>4
  <2>9. \A i \in 1..Len(q) : q[i] = old[i] \/ Belongs(conversationID, c, q[i])
    <3> HIDE DEF q
    <3> QED
        BY <2>4, <2>7, <2>8
  <2>10. first = p
    <3>1. p \in places
          BY <2>1
    <3>2. \A i \in places : (\A j \in places : i <= j) => i = p
      <4>1. \A i \in places : i \in Nat
            BY <1>2
      <4> QED
          BY <2>1, <3>1, <4>1, <2>2
    <3> QED
        BY <2>1, <3>1, <3>2
  <2>11. \A i \in 1..(n - 1) :
            \/ i < p /\ i \in 1..n /\ q[i] = old[i]
            \/ i >= p /\ i + 1 \in 1..n /\ q[i] = old[i + 1]
    <3>1. first = p
          BY <2>10
    <3> HIDE DEF first
    <3>2. \A i \in 1..(n - 1) : i \in 1..Len(old) /\ i \in 1..n /\ i + 1 \in 1..n /\ i < n
          BY <1>2, <2>3, <2>4
    <3>3. \A i \in 1..(n - 1) : q[i] = IF p <= i THEN old[i + 1] ELSE old[i]
          BY <3>1, <3>2
    <3> HIDE DEF q
    <3> QED
        BY <1>2, <2>2, <3>2, <3>3
  <2> HIDE DEF q, first
  <2>12. /\ arrays' \in Arrays
         /\ Kept(arrays, arrays', conversationID)
         /\ arrays'[c][slice.array] = q
         /\ Len(arrays'[c]) = Len(arrays[c])
         /\ \A d \in IDs \ {c} : arrays'[d] = arrays[d]
    <3> DEFINE a == slice.array
               B == Rewritten(arrays, c, a, q)
    <3>1. /\ arrays \in Arrays /\ a \in 1..Len(arrays[c]) /\ q \in Seq(Elements)
          /\ Len(q) = Len(arrays[c][a])
          /\ \A i \in 1..Len(q) : q[i] = arrays[c][a][i] \/ Belongs(conversationID, c, q[i])
          BY <1>1, <2>2, <2>8, <2>9
    <3> HIDE DEF a
    <3>2. /\ B \in Arrays
          /\ Kept(arrays, B, conversationID)
          /\ B[c][a] = q
          /\ Len(B[c]) = Len(arrays[c])
          /\ \A d \in IDs \ {c} : B[d] = arrays[d]
          BY <3>1, ReplaceArray
    <3> QED
        BY <2>6, <3>2 DEF a, Rewritten
  <2>13. /\ new = [slice EXCEPT !.len = @ - 1]
         /\ \A d \in IDs \ {c} : streams'[d] = streams[d]
         BY <1>1, <2>6
  <2>14. new \in Slice /\ new.len = n - 1 /\ new.array = slice.array
    <3>1. n - 1 \in Nat
          BY <1>2, <2>2
    <3>2. slice = [array |-> slice.array, len |-> n]
          BY <1>2 DEF Slice
    <3>3. new = [array |-> slice.array, len |-> n - 1]
          BY <2>13, <3>2
    <3> QED
        BY <1>2, <3>1, <3>3 DEF Slice
  <2>15. streams' \in [IDs -> Slice]
    <3>1. streams' = [streams EXCEPT ![c] = new]
          BY <1>1, <2>6, <2>13
    <3>2. new \in Slice
          BY <2>14
    <3> HIDE DEF new
    <3> QED
        BY <1>1, <3>1, <3>2
  <2>16. \A i \in 1..(n - 1) : /\ i \in 1..Len(old) /\ i \in 1..n
                               /\ \/ q[i] = old[i]
                                  \/ i + 1 \in 1..n /\ q[i] = old[i + 1]
    <3>1. \A i \in 1..(n - 1) : i \in 1..Len(old) /\ i \in 1..n
          BY <1>2, <2>3, <2>4
    <3> QED
        BY <2>7, <3>1
  <2>17. \A i \in 1..new.len : Belongs(conversationID, c, arrays'[c][new.array][i])
         BY <2>4, <2>12, <2>14, <2>16
  <2>18. Filled(arrays', conversationID, c, new)
    <3>1. n - 1 <= Len(q) /\ slice.array \in 0..Len(arrays'[c]) /\ slice.array # 0
          BY <1>2, <2>2, <2>3, <2>4, <2>8, <2>12
    <3> QED
        BY <2>12, <2>14, <2>17, <3>1 DEF Filled
  <2>19. ASSUME NEW d \in IDs PROVE Filled(arrays', conversationID, d, streams'[d])
         BY <1>1, <2>12, <2>13, <2>18 DEF Filled
  <2>20. Members(arrays', c, new) \subseteq Members(arrays, c, slice)
         BY <2>12, <2>14, <2>16 DEF Members
  <2>21. ASSUME Once(arrays, c, slice)
         PROVE  Once(arrays', c, new) /\ s \notin Members(arrays', c, new)
    <3>1. \A i, j \in 1..n : old[i] = old[j] => i = j
          BY <2>21 DEF Once
    <3>2. \A i \in 1..(n - 1) :
                   \/ i < p /\ i \in 1..n /\ q[i] = old[i]
                   \/ i >= p /\ i + 1 \in 1..n /\ q[i] = old[i + 1]
          BY <2>11
    <3>3. ASSUME NEW i \in 1..(n - 1), NEW j \in 1..(n - 1), q[i] = q[j] PROVE i = j
      <4>1. i \in Nat /\ j \in Nat
            BY <1>2
      <4> QED
          BY <2>2, <3>1, <3>2, <3>3, <4>1
    <3>4. ASSUME NEW i \in 1..(n - 1) PROVE q[i] # s
      <4>1. i \in Nat
            BY <1>2
      <4> QED
          BY <2>1, <2>2, <3>1, <3>2, <4>1
    <3> QED
        BY <2>12, <2>14, <3>3, <3>4 DEF Once, Members
  <2>23. ASSUME NEW t \in Streams, Single(arrays, c, slice, t)
         PROVE  /\ Single(arrays', c, new, t)
                /\ t = s => s \notin Members(arrays', c, new)
    <3>1. \A i, j \in 1..n : old[i] = t /\ old[j] = t => i = j
          BY <2>23 DEF Single
    <3>2. ASSUME NEW i \in 1..(n - 1), NEW j \in 1..(n - 1), q[i] = t, q[j] = t PROVE i = j
      <4>1. i \in Nat /\ j \in Nat
            BY <1>2
      <4> QED
          BY <2>2, <2>11, <3>1, <3>2, <4>1
    <3>3. ASSUME NEW i \in 1..(n - 1), t = s PROVE q[i] # s
      <4>1. i \in Nat
            BY <1>2
      <4> QED
          BY <2>1, <2>2, <2>11, <3>1, <3>3, <4>1
    <3> QED
        BY <2>12, <2>14, <3>2, <3>3 DEF Single, Members
  <2>22. account' \in [Goroutines -> [audience : SUBSET Streams,
                                      reached : [Streams -> Nat],
                                      removals : Nat]]
    <3>1. account \in [Goroutines -> [audience : SUBSET Streams,
                                      reached : [Streams -> Nat],
                                      removals : Nat]]
          BY DEF TypeOK
    <3>2. ASSUME NEW g \in Goroutines
          PROVE  [account[g] EXCEPT !.removals = @ + 1] \in
                    [audience : SUBSET Streams, reached : [Streams -> Nat], removals : Nat]
          BY <3>1
    <3> QED
        BY <2>6, <3>1, <3>2 DEF CountRemoval
  <2> QED
      BY <2>12, <2>13, <2>15, <2>19, <2>20, <2>21, <2>22, <2>23
<1> QED
    BY <1>3, <1>4

-----------------------------------------------------------------------------
(* The steps *)

\* Nothing is registered and nobody walks.
LEMMA InitIInv == Init => IInv
<1> SUFFICES ASSUME Init PROVE IInv
    OBVIOUS
<1>1. TypeOK
  <2>1. Empty \in Slice /\ NoID \in IDs
        BY DEF Empty, Slice, IDs
  <2>2. NoWalk \in [slice : Slice, next : Nat, target : Streams \cup {Nil}]
        BY <2>1 DEF NoWalk
  <2>3. NoAccount \in [audience : SUBSET Streams, reached : [Streams -> Nat], removals : Nat]
        BY DEF NoAccount
  <2> QED
      BY <2>1, <2>2, <2>3, HubAssumption DEF Init, TypeOK, Empty
<1>2. RegistryFilled
      BY DEF Init, RegistryFilled, Arrays, Filled, Empty
<1>3. ASSUME NEW g \in Goroutines PROVE Walking(g)
      BY DEF Init, Walking, NoWalk
<1>4. RegisteredOnce
      BY DEF Init, RegisteredOnce, Once, Empty, IDs, Goroutines
<1> QED
    BY <1>1, <1>2, <1>3, <1>4 DEF IInv

\* The steps that leave the registry and the streams' conversations alone keep
\* what is said of them.
LEMMA RegistryStays ==
    ASSUME IInv, UNCHANGED <<arrays, streams, conversationID>>,
           \A s \in Streams : pc'[s] = "register" => pc[s] = "register"
    PROVE  RegistryFilled' /\ RegisteredOnce'
<1>1. RegistryFilled /\ RegisteredOnce
      BY DEF IInv
<1>2. arrays' = arrays /\ streams' = streams /\ conversationID' = conversationID
      OBVIOUS
<1>3. RegistryFilled'
      BY <1>1, <1>2 DEF RegistryFilled
<1>4. RegisteredOnce'
      BY <1>1, <1>2 DEF RegisteredOnce
<1> QED
    BY <1>3, <1>4

\* A broadcast that does not move stays one of its conversation, as long as the
\* arrays are kept.
LEMMA WalkingStays ==
    ASSUME IInv, arrays' \in Arrays, Kept(arrays, arrays', conversationID),
           conversationID' = conversationID, NEW g \in Goroutines,
           pc'[g] = pc[g], to'[g] = to[g], stored'[g] = stored[g], walk'[g] = walk[g]
    PROVE  Walking(g)'
<1>1. /\ Walking(g) /\ arrays \in Arrays /\ walk[g].slice \in Slice
      /\ to[g] \in IDs
      BY DEF IInv, RegistryFilled, TypeOK
<1>2. Filled(arrays, conversationID, to[g], walk[g].slice)
         => Filled(arrays', conversationID, to[g], walk[g].slice)
      BY <1>1, FilledKept
<1> QED
    BY <1>1, <1>2 DEF Walking

\* An array that does not change is kept.
LEMMA KeptSame == ASSUME NEW A \in Arrays, NEW conv PROVE Kept(A, A, conv)
<1>1. ASSUME NEW d \in IDs PROVE Len(A[d]) <= Len(A[d])
      BY DEF Arrays
<1> QED
    BY <1>1 DEF Kept

\* A message without or with a conversation: the stream's name is the only
\* thing the registry could mind.
LEMMA RecvKeeps ==
    ASSUME IInv, NEW s \in Streams, NEW c \in Inputs, Recv(s, c)
    PROVE  IInv'
<1>1. c \in IDs /\ s \in Goroutines
      BY HubAssumption DEF Goroutines
<1>2. /\ TypeOK /\ RegistryFilled /\ RegisteredOnce
      /\ \A g \in Goroutines : Walking(g)
      BY DEF IInv
<1>3. /\ pc[s] = "recv" /\ taken < MaxMessages /\ taken' = taken + 1
      /\ to' = [to EXCEPT ![s] = c]
      /\ arrays' = arrays /\ streams' = streams /\ live' = live /\ returned' = returned
      /\ walk' = walk /\ begun' = begun /\ account' = account /\ late' = late /\ stored' = stored
      /\ argument' = argument
      BY DEF Recv, Take, registry, clients
<1>4. \/ /\ conversationID[s] = NoID /\ conversationID' = [conversationID EXCEPT ![s] = c]
         /\ pc' = [pc EXCEPT ![s] = "register"]
         /\ registrations' = [registrations EXCEPT ![s] = @ + 1]
      \/ /\ conversationID[s] # NoID /\ conversationID' = conversationID
         /\ pc' = [pc EXCEPT ![s] = "save"]
         /\ registrations' = registrations
      BY DEF Recv, Goto
<1>5. TypeOK'
  <2>1. taken' \in 0..MaxMessages
        BY <1>2, <1>3, HubAssumption DEF TypeOK
  <2>2. conversationID' \in [Streams -> IDs]
        BY <1>1, <1>2, <1>4 DEF TypeOK
  <2>3. pc' \in [Goroutines -> {"recv", "register", "save", "send", "purge", "done"}]
        BY <1>2, <1>4 DEF TypeOK
  <2>4. to' \in [Goroutines -> IDs]
        BY <1>1, <1>2, <1>3 DEF TypeOK
  <2>5. registrations' \in [Streams -> Nat]
    <3>1. registrations \in [Streams -> Nat]
          BY <1>2 DEF TypeOK
    <3>2. registrations[s] + 1 \in Nat
          BY <3>1
    <3> QED
        BY <1>4, <3>1, <3>2
  <2> QED
      BY <1>2, <1>3, <2>1, <2>2, <2>3, <2>4, <2>5 DEF TypeOK
<1>6. ASSUME NEW d \in IDs, NEW slice, Filled(arrays, conversationID, d, slice)
      PROVE  Filled(arrays, conversationID', d, slice)
  <2>1. CASE conversationID' = conversationID
        BY <1>6, <2>1
  <2>2. CASE conversationID[s] = NoID /\ conversationID' = [conversationID EXCEPT ![s] = c]
    <3>1. conversationID \in [Streams -> IDs]
          BY <1>2 DEF TypeOK
    <3>2. Filled(arrays, [conversationID EXCEPT ![s] = c], d, slice)
          BY <1>1, <1>6, <2>2, <3>1, NamingKeeps
    <3> QED
        BY <2>2, <3>2
  <2> QED
      BY <1>4, <2>1, <2>2
<1>7. RegistryFilled'
      BY <1>2, <1>3, <1>6 DEF RegistryFilled
<1>8. ASSUME NEW g \in Goroutines PROVE Walking(g)'
  <2>1. /\ Walking(g) /\ to \in [Goroutines -> IDs]
        /\ pc \in [Goroutines -> {"recv", "register", "save", "send", "purge", "done"}]
        BY <1>2 DEF TypeOK
  <2>2. CASE g = s
        BY <1>3, <1>4, <2>1, <2>2 DEF Walking
  <2>3. CASE g # s
    <3>1. to'[g] = to[g] /\ pc'[g] = pc[g]
          BY <1>3, <1>4, <2>1, <2>3
    <3>2. Filled(arrays, conversationID, to[g], walk[g].slice)
             => Filled(arrays, conversationID', to[g], walk[g].slice)
          BY <1>6, <2>1
    <3> QED
        BY <1>3, <2>1, <3>1, <3>2 DEF Walking
  <2> QED
      BY <2>2, <2>3
<1>9. RegisteredOnce'
  <2>1. ASSUME NEW d \in Conversations, NEW t \in Streams,
               pc'[t] = "register", conversationID'[t] = d
        PROVE  t \notin Members(arrays, d, streams[d])
    <3>1. d \in IDs /\ d # NoID /\ t \in Goroutines
          BY HubAssumption DEF IDs, Goroutines
    <3>2. CASE t = s
      <4>1. conversationID[s] = NoID
            BY <1>1, <1>2, <1>4, <2>1, <3>2 DEF TypeOK
      <4>2. \A i \in 1..streams[d].len :
               Belongs(conversationID, d, arrays[d][streams[d].array][i])
        <5>1. Filled(arrays, conversationID, d, streams[d]) /\ streams[d] \in Slice
              BY <1>2, <3>1 DEF RegistryFilled, TypeOK
        <5> QED
            BY <5>1 DEF Filled, Slice
      <4> QED
          BY <3>1, <3>2, <4>1, <4>2 DEF Members, Belongs
    <3>3. CASE t # s
      <4>1. pc[t] = "register" /\ conversationID[t] = d
            BY <1>2, <1>4, <2>1, <3>1, <3>3 DEF TypeOK
      <4> QED
          BY <1>2, <4>1 DEF RegisteredOnce
    <3> QED
        BY <3>2, <3>3
  <2> QED
      BY <1>2, <1>3, <2>1 DEF RegisteredOnce
<1> QED
    BY <1>5, <1>7, <1>8, <1>9 DEF IInv

\* append of a stream to the conversation it names: it is not in the slice yet.
LEMMA RegisterKeeps ==
    ASSUME IInv, NEW s \in Streams, Register(s)
    PROVE  IInv'
<1> DEFINE c == conversationID[s]
<1>1. /\ TypeOK /\ RegistryFilled /\ RegisteredOnce
      /\ \A g \in Goroutines : Walking(g)
      /\ c \in IDs /\ s \in Goroutines
      BY DEF IInv, TypeOK, Goroutines
<1>2. /\ pc[s] = "register" /\ pc' = [pc EXCEPT ![s] = "save"]
      /\ late' = IF TooLate(s) THEN late \cup {s} ELSE late
      /\ live' = live /\ returned' = returned /\ conversationID' = conversationID
      /\ argument' = argument /\ registrations' = registrations
      /\ to' = to /\ stored' = stored /\ taken' = taken /\ begun' = begun
      /\ walk' = walk /\ account' = account
      BY DEF Register, Goto, clients, message
<1>3. Belongs(conversationID, c, s) /\ AppendStream(c, s)
      BY DEF Belongs, Register
<1>4. /\ arrays' \in Arrays
      /\ streams' \in [IDs -> Slice]
      /\ Kept(arrays, arrays', conversationID)
      /\ \A d \in IDs : Filled(arrays', conversationID, d, streams'[d])
      /\ Members(arrays', c, streams'[c]) \subseteq Members(arrays, c, streams[c]) \cup {s}
      /\ Once(arrays, c, streams[c]) /\ s \notin Members(arrays, c, streams[c])
            => Once(arrays', c, streams'[c])
      /\ \A d \in IDs \ {c} : arrays'[d] = arrays[d] /\ streams'[d] = streams[d]
      BY <1>1, <1>3, AppendStreamEffect
<1>5. TypeOK'
  <2>1. /\ \A d \in IDs : \A i \in DOMAIN arrays'[d] : arrays'[d][i] \in Seq(Streams \cup {Nil})
        /\ \A d \in IDs :
              /\ streams'[d].array \in 0..Len(arrays'[d])
              /\ streams'[d].array = 0 => streams'[d].len = 0
              /\ streams'[d].array > 0 => streams'[d].len <= Len(arrays'[d][streams'[d].array])
        BY <1>4, RegistryTyped
  <2>2. pc' \in [Goroutines -> {"recv", "register", "save", "send", "purge", "done"}]
        BY <1>1, <1>2 DEF TypeOK
  <2>3. late' \in SUBSET Streams
        BY <1>1, <1>2 DEF TypeOK
  <2> QED
      BY <1>1, <1>2, <1>4, <2>1, <2>2, <2>3 DEF TypeOK
<1>6. RegistryFilled'
      BY <1>2, <1>4 DEF RegistryFilled
<1>7. ASSUME NEW g \in Goroutines PROVE Walking(g)'
  <2>1. CASE g = s
        BY <1>1, <1>2, <2>1 DEF Walking, TypeOK
  <2>2. CASE g # s
    <3>1. pc'[g] = pc[g] /\ to'[g] = to[g] /\ stored'[g] = stored[g] /\ walk'[g] = walk[g]
          BY <1>1, <1>2, <2>2 DEF TypeOK
    <3> QED
        BY <1>2, <1>4, <3>1, WalkingStays
  <2> QED
      BY <2>1, <2>2
<1>8. c \in Conversations => s \notin Members(arrays, c, streams[c])
      BY <1>1, <1>2 DEF RegisteredOnce
<1>9. ASSUME NEW d \in Conversations
      PROVE  /\ Once(arrays', d, streams'[d])
             /\ Members(arrays', d, streams'[d]) \subseteq
                   Members(arrays, d, streams[d]) \cup (IF d = c THEN {s} ELSE {})
  <2>1. d \in IDs /\ Once(arrays, d, streams[d])
        BY <1>1 DEF IDs, RegisteredOnce
  <2>2. CASE d = c
        BY <1>4, <1>8, <2>1, <2>2
  <2>3. CASE d # c
        BY <1>4, <2>1, <2>3 DEF Once, Members
  <2> QED
      BY <2>2, <2>3
<1>10. RegisteredOnce'
  <2>1. ASSUME NEW d \in Conversations, NEW t \in Streams,
               pc'[t] = "register", conversationID[t] = d
        PROVE  t \notin Members(arrays', d, streams'[d])
    <3>1. t # s /\ pc[t] = "register"
          BY <1>1, <1>2, <2>1 DEF TypeOK, Goroutines
    <3>2. t \notin Members(arrays, d, streams[d])
          BY <1>1, <2>1, <3>1 DEF RegisteredOnce
    <3> QED
        BY <1>9, <3>1, <3>2
  <2> QED
      BY <1>2, <1>9, <2>1 DEF RegisteredOnce
<1> QED
    BY <1>5, <1>6, <1>7, <1>10 DEF IInv

\* SendMessages takes its message.
LEMMA SendMessagesKeeps ==
    ASSUME IInv, NEW call \in Calls, NEW c \in Inputs, SendMessages(call, c)
    PROVE  IInv'
<1>1. /\ TypeOK /\ c \in IDs /\ call \in Goroutines
      /\ \A g \in Goroutines : Walking(g)
      BY HubAssumption DEF IInv, Goroutines
<1>2. /\ pc[call] = "recv" /\ pc' = [pc EXCEPT ![call] = "save"]
      /\ taken < MaxMessages /\ taken' = taken + 1
      /\ to' = [to EXCEPT ![call] = c] /\ stored' = stored
      /\ arrays' = arrays /\ streams' = streams /\ live' = live /\ returned' = returned
      /\ conversationID' = conversationID /\ walk' = walk /\ begun' = begun
      /\ account' = account /\ late' = late
      /\ argument' = argument /\ registrations' = registrations
      BY DEF SendMessages, Take, Goto, registry, clients, history
<1>3. TypeOK'
  <2>1. taken' \in 0..MaxMessages
        BY <1>1, <1>2, HubAssumption DEF TypeOK
  <2>2. pc' \in [Goroutines -> {"recv", "register", "save", "send", "purge", "done"}] /\ to' \in [Goroutines -> IDs]
        BY <1>1, <1>2 DEF TypeOK
  <2> QED
      BY <1>1, <1>2, <2>1, <2>2 DEF TypeOK
<1>4. RegistryFilled' /\ RegisteredOnce'
  <2>1. \A s \in Streams : pc'[s] = "register" => pc[s] = "register"
        BY <1>1, <1>2 DEF TypeOK, Goroutines
  <2> QED
      BY <1>2, <2>1, RegistryStays
<1>5. ASSUME NEW g \in Goroutines PROVE Walking(g)'
      BY <1>1, <1>2 DEF Walking, TypeOK
<1> QED
    BY <1>3, <1>4, <1>5 DEF IInv

\* The message is stored and the broadcast holds the slice of its conversation.
LEMMA SaveKeeps ==
    ASSUME IInv, NEW h \in Goroutines, Save(h)
    PROVE  IInv'
<1>1. /\ TypeOK /\ RegistryFilled
      /\ \A g \in Goroutines : Walking(g)
      BY DEF IInv
<1>2. /\ pc[h] = "save" /\ to[h] # NoID
      /\ stored' = [stored EXCEPT ![h] = TRUE]
      /\ begun < MaxBroadcasts /\ begun' = begun + 1
      /\ walk' = [walk EXCEPT ![h].slice = streams[to[h]]]
      /\ account' = [account EXCEPT ![h].audience = Registered(to[h]) \cap live]
      /\ pc' = [pc EXCEPT ![h] = "send"]
      /\ arrays' = arrays /\ streams' = streams /\ live' = live /\ returned' = returned
      /\ conversationID' = conversationID /\ to' = to /\ taken' = taken /\ late' = late
      /\ argument' = argument /\ registrations' = registrations
      BY DEF Save, BeginBroadcast, Goto, registry, clients
<1>3. to[h] \in IDs /\ streams[to[h]] \in Slice /\ to[h] \in Conversations
      BY <1>1, <1>2 DEF TypeOK, IDs
<1>4. TypeOK'
  <2>1. begun' \in 0..MaxBroadcasts
        BY <1>1, <1>2, HubAssumption DEF TypeOK
  <2>2. pc' \in [Goroutines -> {"recv", "register", "save", "send", "purge", "done"}]
        BY <1>1, <1>2 DEF TypeOK
  <2>3. walk' \in [Goroutines -> [slice : Slice, next : Nat, target : Streams \cup {Nil}]]
    <3>1. walk \in [Goroutines -> [slice : Slice, next : Nat, target : Streams \cup {Nil}]]
          BY <1>1 DEF TypeOK
    <3> QED
        BY <1>2, <1>3, <3>1
  <2>4. live \in SUBSET Streams
        BY <1>1 DEF TypeOK
  <2>5. account' \in [Goroutines -> [audience : SUBSET Streams,
                                     reached : [Streams -> Nat],
                                     removals : Nat]]
        BY <1>1, <1>2, <2>4 DEF TypeOK
  <2>6. stored' \in [Goroutines -> BOOLEAN]
        BY <1>1, <1>2 DEF TypeOK
  <2> QED
      BY <1>1, <1>2, <2>1, <2>2, <2>3, <2>5, <2>6 DEF TypeOK
<1>5. RegistryFilled' /\ RegisteredOnce'
  <2>1. \A s \in Streams : pc'[s] = "register" => pc[s] = "register"
        BY <1>1, <1>2 DEF TypeOK, Goroutines
  <2> QED
      BY <1>2, <2>1, RegistryStays
<1>6. ASSUME NEW g \in Goroutines PROVE Walking(g)'
  <2>1. CASE g = h
    <3>1. /\ pc'[h] = "send" /\ stored'[h] /\ to'[h] = to[h]
          /\ walk'[h].slice = streams[to[h]] /\ walk'[h].next = walk[h].next
          BY <1>1, <1>2 DEF TypeOK
    <3>2. Filled(arrays, conversationID, to[h], streams[to[h]])
          BY <1>1, <1>3 DEF RegistryFilled
    <3> QED
        BY <1>1, <1>2, <1>3, <2>1, <3>1, <3>2 DEF Walking
  <2>2. CASE g # h
    <3>1. pc'[g] = pc[g] /\ to'[g] = to[g] /\ stored'[g] = stored[g] /\ walk'[g] = walk[g]
          BY <1>1, <1>2, <2>2 DEF TypeOK
    <3> QED
        BY <1>1, <1>2, <3>1 DEF Walking
  <2> QED
      BY <2>1, <2>2
<1> QED
    BY <1>4, <1>5, <1>6 DEF IInv

\* A message that is not stored is not sent either.
LEMMA SaveFailsKeeps ==
    ASSUME IInv, NEW h \in Goroutines, SaveFails(h)
    PROVE  IInv'
<1>1. TypeOK /\ \A g \in Goroutines : Walking(g)
      BY DEF IInv
<1>2. /\ pc[h] = "save"
      /\ pc' = [pc EXCEPT ![h] = IF h \in Streams THEN "recv" ELSE "done"]
      /\ to' = [to EXCEPT ![h] = NoID]
      /\ stored' = [stored EXCEPT ![h] = FALSE]
      /\ arrays' = arrays /\ streams' = streams /\ live' = live /\ returned' = returned
      /\ conversationID' = conversationID /\ taken' = taken /\ begun' = begun
      /\ walk' = walk /\ account' = account /\ late' = late
      /\ argument' = argument /\ registrations' = registrations
      BY DEF SaveFails, Resume, Goto, registry, clients, history
<1>3. TypeOK'
  <2>1. pc' \in [Goroutines -> {"recv", "register", "save", "send", "purge", "done"}]
        BY <1>1, <1>2 DEF TypeOK
  <2>2. to' \in [Goroutines -> IDs] /\ stored' \in [Goroutines -> BOOLEAN]
        BY <1>1, <1>2 DEF TypeOK, IDs
  <2> QED
      BY <1>1, <1>2, <2>1, <2>2 DEF TypeOK
<1>4. RegistryFilled' /\ RegisteredOnce'
  <2>1. \A s \in Streams : pc'[s] = "register" => pc[s] = "register"
        BY <1>1, <1>2 DEF TypeOK, Goroutines
  <2> QED
      BY <1>2, <2>1, RegistryStays
<1>5. ASSUME NEW g \in Goroutines PROVE Walking(g)'
      BY <1>1, <1>2 DEF Walking, TypeOK
<1> QED
    BY <1>3, <1>4, <1>5 DEF IInv

\* The end of a broadcast forgets its slice.
LEMMA BroadcastEndsKeeps ==
    ASSUME IInv, NEW h \in Goroutines, BroadcastEnds(h)
    PROVE  IInv'
<1>1. TypeOK /\ \A g \in Goroutines : Walking(g)
      BY DEF IInv
<1>2. /\ pc' = [pc EXCEPT ![h] = IF h \in Streams THEN "recv" ELSE "done"]
      /\ to' = [to EXCEPT ![h] = NoID]
      /\ stored' = [stored EXCEPT ![h] = FALSE]
      /\ walk' = [walk EXCEPT ![h] = NoWalk]
      /\ account' = [account EXCEPT ![h] = NoAccount]
      /\ arrays' = arrays /\ streams' = streams /\ live' = live /\ returned' = returned
      /\ conversationID' = conversationID /\ taken' = taken /\ begun' = begun /\ late' = late
      /\ argument' = argument /\ registrations' = registrations
      BY DEF BroadcastEnds, Resume, Goto, registry, clients
<1>3. NoWalk.next = 1 /\ NoWalk \in [slice : Slice, next : Nat, target : Streams \cup {Nil}]
      BY DEF NoWalk, Empty, Slice
<1>4. NoAccount \in [audience : SUBSET Streams, reached : [Streams -> Nat], removals : Nat]
      BY DEF NoAccount
<1>5. TypeOK'
  <2>1. pc' \in [Goroutines -> {"recv", "register", "save", "send", "purge", "done"}]
        BY <1>1, <1>2 DEF TypeOK
  <2>2. to' \in [Goroutines -> IDs] /\ stored' \in [Goroutines -> BOOLEAN]
        BY <1>1, <1>2 DEF TypeOK, IDs
  <2>3. walk' \in [Goroutines -> [slice : Slice, next : Nat, target : Streams \cup {Nil}]]
        BY <1>1, <1>2, <1>3 DEF TypeOK
  <2>4. account' \in [Goroutines -> [audience : SUBSET Streams, reached : [Streams -> Nat], removals : Nat]]
        BY <1>1, <1>2, <1>4 DEF TypeOK
  <2> QED
      BY <1>1, <1>2, <2>1, <2>2, <2>3, <2>4 DEF TypeOK
<1>6. RegistryFilled' /\ RegisteredOnce'
  <2>1. \A s \in Streams : pc'[s] = "register" => pc[s] = "register"
        BY <1>1, <1>2 DEF TypeOK, Goroutines
  <2> QED
      BY <1>2, <2>1, RegistryStays
<1>7. ASSUME NEW g \in Goroutines PROVE Walking(g)'
  <2>1. CASE g = h
    <3>1. pc'[h] \notin {"send", "purge"} /\ walk'[h] = NoWalk
          BY <1>1, <1>2 DEF TypeOK
    <3> QED
        BY <1>3, <2>1, <3>1 DEF Walking
  <2>2. CASE g # h
    <3>1. pc'[g] = pc[g] /\ to'[g] = to[g] /\ stored'[g] = stored[g] /\ walk'[g] = walk[g]
          BY <1>1, <1>2, <2>2 DEF TypeOK
    <3> QED
        BY <1>1, <1>2, <3>1 DEF Walking
  <2> QED
      BY <2>1, <2>2
<1> QED
    BY <1>5, <1>6, <1>7 DEF IInv

\* One turn of the loop finds a stream in its slice, whatever the array holds.
LEMMA SendKeeps ==
    ASSUME IInv, NEW h \in Goroutines, Send(h)
    PROVE  IInv'
<1> DEFINE s == Element(to[h], walk[h].slice, walk[h].next)
<1>1. TypeOK /\ \A g \in Goroutines : Walking(g)
      BY DEF IInv
<1>2. /\ pc[h] = "send" /\ walk[h].next <= walk[h].slice.len
      /\ arrays' = arrays /\ streams' = streams /\ live' = live /\ returned' = returned
      /\ conversationID' = conversationID /\ to' = to /\ stored' = stored
      /\ taken' = taken /\ begun' = begun /\ late' = late
      /\ argument' = argument /\ registrations' = registrations
      BY DEF Send, registry, clients, message
<1>3. \/ /\ account' = [account EXCEPT ![h].reached[s] = @ + 1]
         /\ walk' = [walk EXCEPT ![h].next = @ + 1]
         /\ pc' = pc
      \/ /\ walk' = [walk EXCEPT ![h].target = s]
         /\ pc' = [pc EXCEPT ![h] = "purge"]
         /\ account' = account
      BY DEF Send, Goto
<1>4. s \in Streams
  <2>1. /\ walk[h] \in [slice : Slice, next : Nat, target : Streams \cup {Nil}]
        /\ walk[h].next > 0
        /\ Filled(arrays, conversationID, to[h], walk[h].slice)
        BY <1>1, <1>2 DEF TypeOK, Walking
  <2>2. walk[h].next \in 1..walk[h].slice.len /\ walk[h].slice.array \in Nat
        BY <1>2, <2>1 DEF Slice
  <2>3. walk[h].slice.array > 0
        BY <2>1, <2>2 DEF Filled, Slice
  <2> QED
      BY <2>1, <2>2, <2>3 DEF Filled, Belongs, Element
<1> HIDE DEF s
<1>5. TypeOK'
  <2>1. pc' \in [Goroutines -> {"recv", "register", "save", "send", "purge", "done"}]
        BY <1>1, <1>3 DEF TypeOK
  <2>2. walk' \in [Goroutines -> [slice : Slice, next : Nat, target : Streams \cup {Nil}]]
    <3> DEFINE w == walk[h]
               W == [slice : Slice, next : Nat, target : Streams \cup {Nil}]
    <3>1. walk \in [Goroutines -> W]
          BY <1>1 DEF TypeOK
    <3>2. [w EXCEPT !.next = @ + 1] \in W /\ [w EXCEPT !.target = s] \in W
          BY <1>4, <3>1
    <3>3. walk' = [walk EXCEPT ![h] = [w EXCEPT !.next = @ + 1]]
             \/ walk' = [walk EXCEPT ![h] = [w EXCEPT !.target = s]]
          BY <1>3, <3>1
    <3> HIDE DEF W
    <3>4. walk' \in [Goroutines -> W]
          BY <3>1, <3>2, <3>3
    <3> QED
        BY <3>4 DEF W
  <2>3. account' \in [Goroutines -> [audience : SUBSET Streams, reached : [Streams -> Nat], removals : Nat]]
    <3> DEFINE a == account[h]
               R == [audience : SUBSET Streams, reached : [Streams -> Nat], removals : Nat]
    <3>1. account \in [Goroutines -> R]
          BY <1>1 DEF TypeOK
    <3>2. a.reached \in [Streams -> Nat]
          BY <3>1
    <3>3. [a.reached EXCEPT ![s] = @ + 1] \in [Streams -> Nat]
          BY <1>4, <3>2
    <3>4. [a EXCEPT !.reached = [a.reached EXCEPT ![s] = @ + 1]] \in R
          BY <3>1, <3>3
    <3>5. \/ account' = account
          \/ account' = [account EXCEPT ![h] = [a EXCEPT !.reached = [a.reached EXCEPT ![s] = @ + 1]]]
          BY <1>3, <3>1
    <3> HIDE DEF R, a
    <3>6. account' \in [Goroutines -> R]
          BY <3>1, <3>4, <3>5
    <3> QED
        BY <3>6 DEF R
  <2> QED
      BY <1>1, <1>2, <2>1, <2>2, <2>3 DEF TypeOK
<1>6. RegistryFilled' /\ RegisteredOnce'
  <2>1. \A t \in Streams : pc'[t] = "register" => pc[t] = "register"
        BY <1>1, <1>3 DEF TypeOK, Goroutines
  <2> QED
      BY <1>2, <2>1, RegistryStays
<1>7. ASSUME NEW g \in Goroutines PROVE Walking(g)'
  <2>1. CASE g = h
    <3>1. /\ walk'[h].slice = walk[h].slice
          /\ walk'[h].next = walk[h].next \/ walk'[h].next = walk[h].next + 1
          /\ pc'[h] = "purge" => walk'[h].target \in Streams
          BY <1>1, <1>2, <1>3, <1>4 DEF TypeOK
    <3>2. walk'[h].next > 0
      <4>1. walk[h].next \in Nat /\ walk[h].next > 0
            BY <1>1 DEF TypeOK, Walking
      <4> QED
          BY <3>1, <4>1
    <3> QED
        BY <1>1, <1>2, <2>1, <3>1, <3>2 DEF Walking
  <2>2. CASE g # h
    <3>1. pc'[g] = pc[g] /\ walk'[g] = walk[g]
          BY <1>1, <1>3, <2>2 DEF TypeOK
    <3> QED
        BY <1>1, <1>2, <3>1 DEF Walking
  <2> QED
      BY <2>1, <2>2
<1> QED
    BY <1>5, <1>6, <1>7 DEF IInv

\* The end of a client's context.
LEMMA ContextDoneKeeps ==
    ASSUME IInv, NEW s \in Streams, ContextDone(s)
    PROVE  IInv'
<1>1. TypeOK /\ \A g \in Goroutines : Walking(g)
      BY DEF IInv
<1>2. /\ live' = live \ {s}
      /\ arrays' = arrays /\ streams' = streams /\ returned' = returned
      /\ conversationID' = conversationID /\ pc' = pc /\ to' = to /\ stored' = stored
      /\ taken' = taken /\ begun' = begun /\ walk' = walk /\ account' = account /\ late' = late
      /\ argument' = argument /\ registrations' = registrations
      BY DEF ContextDone, registry, message, history
<1>3. TypeOK'
  <2>1. live' \in SUBSET Streams /\ returned' \in SUBSET (Streams \ live')
        BY <1>1, <1>2 DEF TypeOK
  <2> QED
      BY <1>1, <1>2, <2>1 DEF TypeOK
<1>4. RegistryFilled' /\ RegisteredOnce'
      BY <1>2, RegistryStays
<1>5. ASSUME NEW g \in Goroutines PROVE Walking(g)'
      BY <1>1, <1>2 DEF Walking
<1> QED
    BY <1>3, <1>4, <1>5 DEF IInv

\* What a removal, of whatever stream, does to a conversation's slice.
LEMMA RemovalKeeps ==
    ASSUME IInv, NEW c \in IDs, NEW s \in Streams, RemoveStream(c, s),
           NEW d \in Conversations
    PROVE  /\ Once(arrays', d, streams'[d])
           /\ Members(arrays', d, streams'[d]) \subseteq Members(arrays, d, streams[d])
<1>1. TypeOK /\ RegistryFilled /\ Once(arrays, d, streams[d]) /\ d \in IDs
      BY DEF IInv, RegisteredOnce, IDs
<1>2. /\ Members(arrays', c, streams'[c]) \subseteq Members(arrays, c, streams[c])
      /\ Once(arrays, c, streams[c]) => Once(arrays', c, streams'[c])
      /\ \A e \in IDs \ {c} : arrays'[e] = arrays[e] /\ streams'[e] = streams[e]
      BY <1>1, RemoveStreamEffect
<1>3. CASE d = c
      BY <1>1, <1>2, <1>3
<1>4. CASE d # c
      BY <1>1, <1>2, <1>4 DEF Once, Members
<1> QED
    BY <1>3, <1>4

\* The steps that remove a stream, in what they have in common.
LEMMA RemovingKeeps ==
    ASSUME IInv, NEW c \in IDs, NEW s \in Streams, RemoveStream(c, s),
           conversationID' = conversationID, late' = late,
           \A t \in Streams : pc'[t] = "register" => pc[t] = "register"
    PROVE  /\ arrays' \in Arrays
           /\ Kept(arrays, arrays', conversationID)
           /\ RegistryFilled' /\ RegisteredOnce'
           /\ \A d \in IDs : \A i \in DOMAIN arrays'[d] : arrays'[d][i] \in Seq(Streams \cup {Nil})
           /\ streams' \in [IDs -> Slice]
           /\ \A d \in IDs :
                 /\ streams'[d].array \in 0..Len(arrays'[d])
                 /\ streams'[d].array = 0 => streams'[d].len = 0
                 /\ streams'[d].array > 0 => streams'[d].len <= Len(arrays'[d][streams'[d].array])
           /\ account' \in [Goroutines -> [audience : SUBSET Streams, reached : [Streams -> Nat], removals : Nat]]
<1>1. TypeOK /\ RegistryFilled /\ RegisteredOnce
      BY DEF IInv
<1>2. /\ arrays' \in Arrays
      /\ streams' \in [IDs -> Slice]
      /\ Kept(arrays, arrays', conversationID)
      /\ \A d \in IDs : Filled(arrays', conversationID, d, streams'[d])
      /\ account' \in [Goroutines -> [audience : SUBSET Streams, reached : [Streams -> Nat], removals : Nat]]
      BY <1>1, RemoveStreamEffect
<1>3. /\ \A d \in IDs : \A i \in DOMAIN arrays'[d] : arrays'[d][i] \in Seq(Streams \cup {Nil})
      /\ \A d \in IDs :
            /\ streams'[d].array \in 0..Len(arrays'[d])
            /\ streams'[d].array = 0 => streams'[d].len = 0
            /\ streams'[d].array > 0 => streams'[d].len <= Len(arrays'[d][streams'[d].array])
      BY <1>2, RegistryTyped
<1>4. RegistryFilled'
      BY <1>2 DEF RegistryFilled
<1>5. \A d \in Conversations :
         /\ Once(arrays', d, streams'[d])
         /\ Members(arrays', d, streams'[d]) \subseteq Members(arrays, d, streams[d])
      BY RemovalKeeps
<1>6. RegisteredOnce'
  <2>1. ASSUME NEW d \in Conversations, NEW t \in Streams,
               pc'[t] = "register", conversationID[t] = d
        PROVE  t \notin Members(arrays', d, streams'[d])
    <3>1. t \notin Members(arrays, d, streams[d])
          BY <1>1, <2>1 DEF RegisteredOnce
    <3> QED
        BY <1>5, <3>1
  <2> QED
      BY <1>5, <2>1 DEF RegisteredOnce
<1> QED
    BY <1>2, <1>3, <1>4, <1>6

\* A broadcast that closes up its own array under its own feet.
LEMMA PurgeKeeps ==
    ASSUME IInv, NEW h \in Goroutines, Purge(h)
    PROVE  IInv'
<1> DEFINE w == walk[h]
           W == [slice : Slice, next : Nat, target : Streams \cup {Nil}]
<1>1. TypeOK /\ \A g \in Goroutines : Walking(g)
      BY DEF IInv
<1>2. /\ pc[h] = "purge" /\ RemoveStream(to[h], w.target)
      /\ walk' = [walk EXCEPT ![h].next = @ + 1, ![h].target = Nil]
      /\ pc' = [pc EXCEPT ![h] = "send"]
      /\ live' = live /\ returned' = returned /\ conversationID' = conversationID
      /\ to' = to /\ stored' = stored /\ taken' = taken /\ begun' = begun /\ late' = late
      /\ argument' = argument /\ registrations' = registrations
      BY DEF Purge, Goto, clients, message
<1>3. to[h] \in IDs /\ w.target \in Streams
      BY <1>1, <1>2 DEF Walking, IDs
<1>4. \A t \in Streams : pc'[t] = "register" => pc[t] = "register"
      BY <1>1, <1>2 DEF TypeOK, Goroutines
<1>5. /\ arrays' \in Arrays
      /\ Kept(arrays, arrays', conversationID)
      /\ RegistryFilled' /\ RegisteredOnce'
      /\ \A d \in IDs : \A i \in DOMAIN arrays'[d] : arrays'[d][i] \in Seq(Streams \cup {Nil})
      /\ streams' \in [IDs -> Slice]
      /\ \A d \in IDs :
            /\ streams'[d].array \in 0..Len(arrays'[d])
            /\ streams'[d].array = 0 => streams'[d].len = 0
            /\ streams'[d].array > 0 => streams'[d].len <= Len(arrays'[d][streams'[d].array])
      /\ account' \in [Goroutines -> [audience : SUBSET Streams, reached : [Streams -> Nat], removals : Nat]]
      BY <1>2, <1>3, <1>4, RemovingKeeps
<1>6. walk \in [Goroutines -> W] /\ w \in W
      BY <1>1 DEF TypeOK
<1>7. /\ walk'[h] = [w EXCEPT !.next = @ + 1, !.target = Nil]
      /\ \A g \in Goroutines \ {h} : walk'[g] = walk[g]
      BY <1>2, <1>6
<1>8. walk' \in [Goroutines -> W]
  <2>1. [w EXCEPT !.next = @ + 1, !.target = Nil] \in W
    <3> DEFINE v == [w EXCEPT !.next = @ + 1]
    <3>1. v \in W
          BY <1>6
    <3>2. [v EXCEPT !.target = Nil] \in W
      <4> HIDE DEF v
      <4> QED
          BY <3>1
    <3>3. [w EXCEPT !.next = @ + 1, !.target = Nil] = [v EXCEPT !.target = Nil]
          OBVIOUS
    <3> QED
        BY <3>2, <3>3
  <2>2. walk' = [walk EXCEPT ![h] = [w EXCEPT !.next = @ + 1, !.target = Nil]]
        BY <1>2, <1>6
  <2> HIDE DEF W
  <2> QED
      BY <1>6, <2>1, <2>2
<1>9. TypeOK'
  <2>1. pc' \in [Goroutines -> {"recv", "register", "save", "send", "purge", "done"}]
        BY <1>1, <1>2 DEF TypeOK
  <2> QED
      BY <1>1, <1>2, <1>5, <1>8, <2>1 DEF TypeOK
<1>10. ASSUME NEW g \in Goroutines PROVE Walking(g)'
  <2>1. CASE g = h
    <3>1. /\ walk'[h].slice = w.slice /\ walk'[h].next = w.next + 1 /\ w.next \in Nat
          /\ w.slice \in Slice /\ pc'[h] = "send"
          BY <1>1, <1>2, <1>6, <1>7 DEF TypeOK
    <3>2. to[h] \in Conversations /\ stored[h] /\ Filled(arrays, conversationID, to[h], w.slice)
          BY <1>1, <1>2 DEF Walking
    <3>3. arrays \in Arrays
          BY DEF IInv, RegistryFilled
    <3>4. Filled(arrays', conversationID, to[h], w.slice)
          BY <1>3, <1>5, <3>1, <3>2, <3>3, FilledKept
    <3>5. walk'[h].next > 0
          BY <3>1
    <3> QED
        BY <1>2, <2>1, <3>1, <3>2, <3>4, <3>5 DEF Walking
  <2>2. CASE g # h
    <3>1. pc'[g] = pc[g] /\ to'[g] = to[g] /\ stored'[g] = stored[g] /\ walk'[g] = walk[g]
          BY <1>1, <1>2, <1>7, <2>2 DEF TypeOK
    <3> QED
        BY <1>2, <1>5, <3>1, WalkingStays
  <2> QED
      BY <2>1, <2>2
<1> QED
    BY <1>5, <1>9, <1>10 DEF IInv

\* StreamMessages reads a variable of its own.
LEMMA StreamMessagesWakesKeeps ==
    ASSUME IInv, NEW s \in Streams, StreamMessagesWakes(s)
    PROVE  IInv'
<1>1. TypeOK /\ \A g \in Goroutines : Walking(g)
      BY DEF IInv
<1>2. /\ argument' = [argument EXCEPT ![s] = conversationID[s]]
      /\ arrays' = arrays /\ streams' = streams /\ live' = live /\ returned' = returned
      /\ conversationID' = conversationID /\ pc' = pc /\ to' = to /\ stored' = stored
      /\ taken' = taken /\ begun' = begun /\ walk' = walk /\ account' = account
      /\ registrations' = registrations /\ late' = late
      BY DEF StreamMessagesWakes, ReadConversation, registry, message, history
<1>3. TypeOK'
  <2>1. argument' \in [Streams -> IDs \cup {Nil}]
        BY <1>1, <1>2 DEF TypeOK
  <2> QED
      BY <1>1, <1>2, <2>1 DEF TypeOK
<1>4. RegistryFilled' /\ RegisteredOnce'
      BY <1>2, RegistryStays
<1>5. ASSUME NEW g \in Goroutines PROVE Walking(g)'
      BY <1>1, <1>2 DEF Walking
<1> QED
    BY <1>3, <1>4, <1>5 DEF IInv

\* StreamMessages that returns takes one place away, of the conversation it read.
LEMMA StreamMessagesReturnsKeeps ==
    ASSUME IInv, NEW s \in Streams, StreamMessagesReturns(s)
    PROVE  IInv'
<1> DEFINE c == argument[s]
<1>1. /\ TypeOK /\ RegistryFilled /\ RegisteredOnce
      /\ \A g \in Goroutines : Walking(g)
      /\ c \in IDs
      BY DEF IInv, TypeOK, StreamMessagesReturns
<1>2. /\ s \in Streams \ (live \cup returned) /\ RemoveStream(c, s)
      /\ returned' = returned \cup {s}
      /\ live' = live /\ conversationID' = conversationID /\ pc' = pc
      /\ to' = to /\ stored' = stored /\ taken' = taken /\ begun' = begun
      /\ walk' = walk /\ late' = late
      /\ argument' = argument /\ registrations' = registrations
      BY DEF StreamMessagesReturns, message
<1>3. /\ arrays' \in Arrays
      /\ Kept(arrays, arrays', conversationID)
      /\ RegistryFilled' /\ RegisteredOnce'
      /\ \A d \in IDs : \A i \in DOMAIN arrays'[d] : arrays'[d][i] \in Seq(Streams \cup {Nil})
      /\ streams' \in [IDs -> Slice]
      /\ \A d \in IDs :
            /\ streams'[d].array \in 0..Len(arrays'[d])
            /\ streams'[d].array = 0 => streams'[d].len = 0
            /\ streams'[d].array > 0 => streams'[d].len <= Len(arrays'[d][streams'[d].array])
      /\ account' \in [Goroutines -> [audience : SUBSET Streams, reached : [Streams -> Nat], removals : Nat]]
      BY <1>1, <1>2, RemovingKeeps
<1>4. TypeOK'
  <2>1. returned' \in SUBSET (Streams \ live)
        BY <1>1, <1>2 DEF TypeOK
  <2> QED
      BY <1>1, <1>2, <1>3, <2>1 DEF TypeOK
<1>5. ASSUME NEW g \in Goroutines PROVE Walking(g)'
      BY <1>2, <1>3, WalkingStays
<1> QED
    BY <1>3, <1>4, <1>5 DEF IInv

\* The invariant is inductive.
LEMMA NextIInv == IInv /\ [Next]_vars => IInv'
<1> SUFFICES ASSUME IInv, [Next]_vars PROVE IInv'
    OBVIOUS
<1>1. ASSUME NEW s \in Streams, NEW c \in Inputs, Recv(s, c) PROVE IInv'
      BY <1>1, RecvKeeps
<1>2. ASSUME NEW s \in Streams, Register(s) PROVE IInv'
      BY <1>2, RegisterKeeps
<1>3. ASSUME NEW s \in Streams, ContextDone(s) PROVE IInv'
      BY <1>3, ContextDoneKeeps
<1>4. ASSUME NEW s \in Streams, StreamMessagesReturns(s) PROVE IInv'
      BY <1>4, StreamMessagesReturnsKeeps
<1>12. ASSUME NEW s \in Streams, StreamMessagesWakes(s) PROVE IInv'
       BY <1>12, StreamMessagesWakesKeeps
<1>5. ASSUME NEW call \in Calls, NEW c \in Inputs, SendMessages(call, c) PROVE IInv'
      BY <1>5, SendMessagesKeeps
<1>6. ASSUME NEW g \in Goroutines, Save(g) PROVE IInv'
      BY <1>6, SaveKeeps
<1>7. ASSUME NEW g \in Goroutines, SaveFails(g) PROVE IInv'
      BY <1>7, SaveFailsKeeps
<1>8. ASSUME NEW g \in Goroutines, Send(g) PROVE IInv'
      BY <1>8, SendKeeps
<1>9. ASSUME NEW g \in Goroutines, Purge(g) PROVE IInv'
      BY <1>9, PurgeKeeps
<1>10. ASSUME NEW g \in Goroutines, BroadcastEnds(g) PROVE IInv'
       BY <1>10, BroadcastEndsKeeps
<1>11. CASE UNCHANGED vars
  <2>1. /\ arrays' = arrays /\ streams' = streams /\ live' = live /\ returned' = returned
        /\ conversationID' = conversationID /\ pc' = pc /\ to' = to /\ stored' = stored
        /\ taken' = taken /\ begun' = begun /\ walk' = walk /\ account' = account /\ late' = late
        /\ argument' = argument /\ registrations' = registrations
        BY <1>11 DEF vars, registry, clients, message, history
  <2>2. TypeOK'
        BY <2>1 DEF IInv, TypeOK
  <2>3. RegistryFilled' /\ RegisteredOnce'
        BY <2>1, RegistryStays
  <2>4. ASSUME NEW g \in Goroutines PROVE Walking(g)'
        BY <2>1 DEF IInv, Walking
  <2> QED
      BY <2>2, <2>3, <2>4 DEF IInv
<1> QED
    BY <1>1, <1>2, <1>3, <1>4, <1>5, <1>6, <1>7, <1>8, <1>9, <1>10, <1>11,
       <1>12 DEF Next

-----------------------------------------------------------------------------
(* The theorems *)

\* The invariant holds in every state the chat's streams reach.
THEOREM Invariance == Spec => []IInv
BY InitIInv, NextIInv, PTL DEF Spec

\* Every variable of the chat has its type, and no slice is longer than its
\* array.
THEOREM TypeCorrect == Spec => []TypeOK
<1>1. IInv => TypeOK
      BY DEF IInv
<1> QED
    BY <1>1, Invariance, PTL

\* No stream is sent a message of another conversation, however appends and
\* removals rewrite the arrays that broadcasts walk through without the lock.
THEOREM Apart == Spec => []ConversationsApart
<1>1. IInv => ConversationsApart
  <2> SUFFICES ASSUME IInv, NEW g \in Goroutines, NEW s \in Ahead(g)
               PROVE  conversationID[s] = to[g]
      BY DEF ConversationsApart
  <2>1. pc[g] = "send"
        BY DEF Ahead
  <2>2. PICK i \in walk[g].next..walk[g].slice.len : s = Element(to[g], walk[g].slice, i)
        BY <2>1 DEF Ahead
  <2>3. /\ walk[g].next \in Nat /\ walk[g].next > 0 /\ walk[g].slice \in Slice
        /\ to[g] \in Conversations
        /\ Filled(arrays, conversationID, to[g], walk[g].slice)
        BY <2>1 DEF IInv, TypeOK, Walking
  <2>4. i \in 1..walk[g].slice.len /\ walk[g].slice.array > 0
        BY <2>2, <2>3 DEF Slice, Filled
  <2>5. Belongs(conversationID, to[g], s)
        BY <2>2, <2>3, <2>4 DEF Filled, Element
  <2> QED
      BY <2>3, <2>5, HubAssumption DEF Belongs
<1> QED
    BY <1>1, Invariance, PTL

\* Nothing is broadcast that is not in the database.
THEOREM Heard == Spec => []HeardIsSaved
<1>1. IInv => HeardIsSaved
      BY DEF IInv, Walking, HeardIsSaved, Ahead
<1> QED
    BY <1>1, Invariance, PTL

-----------------------------------------------------------------------------
(* What a stream that returns leaves behind                                *)

Listed(c, s) == s \in Members(arrays, c, streams[c])

\* No removal is to come for s in the slice of c: it registered too late, or a
\* message without a conversation was followed by another.
Excused(c, s) == s \in late \/ (c = NoID /\ registrations[s] > 1)

\* StreamMessages will remove s from c, which it has read or is to read.
Awaited(c, s) ==
    /\ s \notin returned
    /\ argument[s] \in {Nil, c}
    /\ conversationID[s] = c

ListedAwaited ==
    \A c \in IDs, s \in Streams :
       Listed(c, s) => registrations[s] > 0 /\ (Excused(c, s) \/ Awaited(c, s))

\* Without a conversation too, a stream is listed once as long as it has set
\* out to register only once.
NamelessOnce ==
    \A s \in Streams : registrations[s] <= 1 =>
       /\ Single(arrays, NoID, streams[NoID], s)
       /\ pc[s] = "register" => ~Listed(NoID, s)

Leaving ==
    \A s \in Streams :
       /\ pc[s] = "register" => registrations[s] > 0
       /\ argument[s] # Nil => s \notin live

GhostParts == ListedAwaited /\ NamelessOnce /\ Leaving

GInv == IInv /\ GhostParts

\* Nothing is listed yet.
LEMMA InitGInv == Init => GInv
<1> SUFFICES ASSUME Init PROVE GInv
    OBVIOUS
<1>1. \A c \in IDs, s \in Streams : ~Listed(c, s)
      BY DEF Init, Listed, Members, Empty
<1>2. \A s \in Streams : Single(arrays, NoID, streams[NoID], s)
      BY DEF Init, Single, Empty, IDs
<1>3. Leaving
      BY DEF Init, Leaving, Goroutines
<1> QED
    BY <1>1, <1>2, <1>3, InitIInv DEF GInv, GhostParts, ListedAwaited, NamelessOnce, IDs

\* The steps that leave the registry and its history alone.
LEMMA GhostsStay ==
    ASSUME GInv,
           UNCHANGED <<arrays, streams, conversationID, argument, returned, registrations, late>>,
           live' \subseteq live,
           \A s \in Streams : pc'[s] = "register" => pc[s] = "register"
    PROVE  GhostParts'
<1>1. \A c \in IDs, s \in Streams :
         /\ Listed(c, s)' <=> Listed(c, s)
         /\ Excused(c, s)' <=> Excused(c, s)
         /\ Awaited(c, s)' <=> Awaited(c, s)
      BY DEF Listed, Excused, Awaited
<1>2. ListedAwaited'
      BY <1>1 DEF GInv, GhostParts, ListedAwaited
<1>3. NamelessOnce'
  <2>1. \A s \in Streams : Single(arrays, NoID, streams[NoID], s)'
                             <=> Single(arrays, NoID, streams[NoID], s)
        BY DEF Single
  <2> QED
      BY <1>1, <2>1 DEF GInv, GhostParts, NamelessOnce, IDs
<1>4. Leaving'
      BY DEF GInv, GhostParts, Leaving
<1> QED
    BY <1>2, <1>3, <1>4 DEF GhostParts

\* A stream that names its conversation, perhaps after it was listed without.
LEMMA RecvGhosts ==
    ASSUME GInv, NEW s \in Streams, NEW c \in Inputs, Recv(s, c)
    PROVE  GhostParts'
<1>1. /\ TypeOK /\ ListedAwaited /\ NamelessOnce /\ Leaving /\ RegistryFilled
      /\ s \in Goroutines
      BY DEF GInv, GhostParts, IInv, Goroutines
<1>2. /\ pc[s] = "recv" /\ arrays' = arrays /\ streams' = streams
      /\ live' = live /\ returned' = returned /\ argument' = argument /\ late' = late
      BY DEF Recv, Take, registry, clients
<1>3. CASE conversationID[s] # NoID
  <2>1. /\ conversationID' = conversationID /\ registrations' = registrations
        /\ pc' = [pc EXCEPT ![s] = "save"]
        BY <1>3 DEF Recv, Goto
  <2>2. \A t \in Streams : pc'[t] = "register" => pc[t] = "register"
        BY <1>1, <2>1 DEF TypeOK, Goroutines
  <2> QED
      BY <1>2, <2>1, <2>2, GhostsStay
<1>4. CASE conversationID[s] = NoID
  <2>1. /\ conversationID' = [conversationID EXCEPT ![s] = c]
        /\ registrations' = [registrations EXCEPT ![s] = @ + 1]
        /\ pc' = [pc EXCEPT ![s] = "register"]
        BY <1>4 DEF Recv, Goto
  <2>2. /\ registrations \in [Streams -> Nat] /\ conversationID \in [Streams -> IDs]
        /\ pc \in [Goroutines -> {"recv", "register", "save", "send", "purge", "done"}]
        BY <1>1 DEF TypeOK
  <2>3. /\ registrations'[s] = registrations[s] + 1 /\ registrations[s] \in Nat
        /\ pc'[s] = "register"
        BY <1>1, <2>1, <2>2
  <2>4. \A t \in Streams \ {s} :
           /\ registrations'[t] = registrations[t]
           /\ conversationID'[t] = conversationID[t]
           /\ pc'[t] = pc[t]
        BY <2>1, <2>2 DEF Goroutines
  <2>5. \A d \in IDs : Listed(d, s) => d = NoID
    <3>1. ASSUME NEW d \in IDs, Listed(d, s), d # NoID PROVE FALSE
      <4>1. Filled(arrays, conversationID, d, streams[d]) /\ streams[d] \in Slice
            BY <1>1 DEF RegistryFilled, TypeOK
      <4>2. \A i \in 1..streams[d].len :
               Belongs(conversationID, d, arrays[d][streams[d].array][i])
            BY <4>1 DEF Filled, Slice
      <4> QED
          BY <1>4, <3>1, <4>2 DEF Listed, Members, Belongs
    <3> QED
        BY <3>1
  <2>6. \A d \in IDs, t \in Streams : Listed(d, t)' <=> Listed(d, t)
        BY <1>2 DEF Listed
  <2>7. ListedAwaited'
    <3> SUFFICES ASSUME NEW d \in IDs, NEW t \in Streams, Listed(d, t)
                 PROVE  registrations'[t] > 0 /\ (Excused(d, t)' \/ Awaited(d, t)')
        BY <2>6 DEF ListedAwaited
    <3>1. registrations[t] > 0 /\ (Excused(d, t) \/ Awaited(d, t))
          BY <1>1 DEF ListedAwaited
    <3>2. CASE t = s
      <4>1. d = NoID /\ registrations'[s] > 1
            BY <2>3, <2>5, <3>1, <3>2
      <4> QED
          BY <2>3, <3>2, <4>1 DEF Excused
    <3>3. CASE t # s
          BY <1>2, <2>4, <3>1, <3>3 DEF Excused, Awaited
    <3> QED
        BY <3>2, <3>3
  <2>8. NamelessOnce'
    <3> SUFFICES ASSUME NEW t \in Streams, registrations'[t] <= 1
                 PROVE  /\ Single(arrays, NoID, streams[NoID], t)
                        /\ pc'[t] = "register" => ~Listed(NoID, t)
        BY <1>2 DEF NamelessOnce, Listed
    <3>1. NoID \in IDs
          BY DEF IDs
    <3>2. CASE t = s
      <4>1. registrations[s] = 0
            BY <2>3, <3>2
      <4> QED
          BY <1>1, <3>1, <3>2, <4>1 DEF NamelessOnce, ListedAwaited
    <3>3. CASE t # s
          BY <1>1, <2>4, <3>3 DEF NamelessOnce
    <3> QED
        BY <3>2, <3>3
  <2>9. Leaving'
    <3> SUFFICES ASSUME NEW t \in Streams
                 PROVE  /\ pc'[t] = "register" => registrations'[t] > 0
                        /\ argument[t] # Nil => t \notin live
        BY <1>2 DEF Leaving
    <3>1. CASE t = s
          BY <1>1, <2>3, <3>1 DEF Leaving
    <3>2. CASE t # s
          BY <1>1, <2>4, <3>2 DEF Leaving
    <3> QED
        BY <3>1, <3>2
  <2> QED
      BY <2>7, <2>8, <2>9 DEF GhostParts
<1> QED
    BY <1>3, <1>4

\* append of a stream: if no removal is to come for it, it is late.
LEMMA RegisterGhosts ==
    ASSUME GInv, NEW s \in Streams, Register(s)
    PROVE  GhostParts'
<1> DEFINE c == conversationID[s]
<1>1. /\ TypeOK /\ RegistryFilled /\ ListedAwaited /\ NamelessOnce /\ Leaving
      /\ c \in IDs /\ s \in Goroutines
      BY DEF GInv, GhostParts, IInv, TypeOK, Goroutines
<1>2. /\ pc[s] = "register" /\ pc' = [pc EXCEPT ![s] = "save"]
      /\ late' = IF TooLate(s) THEN late \cup {s} ELSE late
      /\ live' = live /\ returned' = returned /\ conversationID' = conversationID
      /\ argument' = argument /\ registrations' = registrations
      /\ AppendStream(c, s)
      BY DEF Register, Goto, clients
<1>3. Belongs(conversationID, c, s)
      BY DEF Belongs
<1>4. /\ Members(arrays', c, streams'[c]) \subseteq Members(arrays, c, streams[c]) \cup {s}
      /\ \A t \in Streams :
            /\ Single(arrays, c, streams[c], t)
            /\ t = s => s \notin Members(arrays, c, streams[c])
            => Single(arrays', c, streams'[c], t)
      /\ \A d \in IDs \ {c} : arrays'[d] = arrays[d] /\ streams'[d] = streams[d]
      BY <1>1, <1>2, <1>3, AppendStreamEffect
<1>5. ASSUME NEW d \in IDs, NEW t \in Streams, Listed(d, t)'
      PROVE  Listed(d, t) \/ (d = c /\ t = s)
      BY <1>4, <1>5 DEF Listed, Members
<1>6. ListedAwaited'
  <2> SUFFICES ASSUME NEW d \in IDs, NEW t \in Streams, Listed(d, t)'
               PROVE  registrations[t] > 0 /\ (Excused(d, t)' \/ Awaited(d, t)')
      BY <1>2 DEF ListedAwaited
  <2>1. CASE Listed(d, t)
    <3>1. registrations[t] > 0 /\ (Excused(d, t) \/ Awaited(d, t))
          BY <1>1, <2>1 DEF ListedAwaited
    <3>2. late \subseteq late'
          BY <1>2
    <3> QED
        BY <1>2, <3>1, <3>2 DEF Excused, Awaited
  <2>2. CASE d = c /\ t = s
    <3>1. registrations[s] > 0
          BY <1>1, <1>2 DEF Leaving
    <3>2. CASE TooLate(s)
          BY <1>2, <2>2, <3>1, <3>2 DEF Excused
    <3>3. CASE ~TooLate(s)
      <4>1. s \in live => s \notin returned /\ argument[s] = Nil
            BY <1>1 DEF TypeOK, Leaving
      <4> QED
          BY <1>2, <2>2, <3>1, <3>3, <4>1 DEF TooLate, Awaited
    <3> QED
        BY <3>2, <3>3
  <2> QED
      BY <1>5, <2>1, <2>2
<1>7. NamelessOnce'
  <2> SUFFICES ASSUME NEW t \in Streams, registrations[t] <= 1
               PROVE  /\ Single(arrays', NoID, streams'[NoID], t)
                      /\ pc'[t] = "register" => ~Listed(NoID, t)'
      BY <1>2 DEF NamelessOnce
  <2>1. /\ NoID \in IDs
        /\ Single(arrays, NoID, streams[NoID], t)
        /\ pc[t] = "register" => ~Listed(NoID, t)
        BY <1>1 DEF IDs, NamelessOnce
  <2>2. Single(arrays', NoID, streams'[NoID], t)
    <3>1. CASE c = NoID
      <4>1. t = s => s \notin Members(arrays, c, streams[c])
            BY <1>2, <2>1, <3>1 DEF Listed
      <4> QED
          BY <1>4, <2>1, <3>1, <4>1
    <3>2. CASE c # NoID
          BY <1>4, <2>1, <3>2 DEF Single
    <3> QED
        BY <3>1, <3>2
  <2>3. ASSUME pc'[t] = "register" PROVE ~Listed(NoID, t)'
    <3>1. t # s /\ pc[t] = "register"
          BY <1>1, <1>2, <2>3 DEF TypeOK, Goroutines
    <3> QED
        BY <1>5, <2>1, <3>1
  <2> QED
      BY <2>2, <2>3
<1>8. Leaving'
      BY <1>1, <1>2 DEF Leaving, TypeOK, Goroutines
<1> QED
    BY <1>6, <1>7, <1>8 DEF GhostParts

\* What StreamMessages reads is the conversation it is awaited to remove the
\* stream from.
LEMMA StreamMessagesWakesGhosts ==
    ASSUME GInv, NEW s \in Streams, StreamMessagesWakes(s)
    PROVE  GhostParts'
<1>1. TypeOK /\ ListedAwaited /\ NamelessOnce /\ Leaving
      BY DEF GInv, GhostParts, IInv
<1>2. /\ argument' = [argument EXCEPT ![s] = conversationID[s]]
      /\ argument[s] = Nil /\ s \notin live
      /\ arrays' = arrays /\ streams' = streams /\ live' = live /\ returned' = returned
      /\ conversationID' = conversationID /\ pc' = pc
      /\ registrations' = registrations /\ late' = late
      BY DEF StreamMessagesWakes, ReadConversation, registry, history
<1>3. /\ argument'[s] = conversationID[s]
      /\ \A t \in Streams \ {s} : argument'[t] = argument[t]
      BY <1>1, <1>2 DEF TypeOK
<1>4. ASSUME NEW d \in IDs, NEW t \in Streams
      PROVE  /\ Listed(d, t)' <=> Listed(d, t)
             /\ Excused(d, t)' <=> Excused(d, t)
             /\ Awaited(d, t) => Awaited(d, t)'
      BY <1>2, <1>3 DEF Listed, Excused, Awaited
<1>5. ListedAwaited'
      BY <1>1, <1>2, <1>4 DEF ListedAwaited
<1>6. NamelessOnce'
      BY <1>1, <1>2 DEF NamelessOnce, Listed
<1>7. Leaving'
      BY <1>1, <1>2, <1>3 DEF Leaving
<1> QED
    BY <1>5, <1>6, <1>7 DEF GhostParts

\* What a removal does to whom is listed.
LEMMA RemovalGhosts ==
    ASSUME GInv, NEW c \in IDs, NEW s \in Streams, RemoveStream(c, s)
    PROVE  /\ \A d \in IDs, t \in Streams : Listed(d, t)' => Listed(d, t)
           /\ \A t \in Streams : Single(arrays, NoID, streams[NoID], t)
                                   => Single(arrays', NoID, streams'[NoID], t)
           /\ Single(arrays, c, streams[c], s) => ~Listed(c, s)'
<1>1. TypeOK /\ RegistryFilled /\ NoID \in IDs
      BY DEF GInv, IInv, IDs
<1>2. /\ Members(arrays', c, streams'[c]) \subseteq Members(arrays, c, streams[c])
      /\ \A t \in Streams : Single(arrays, c, streams[c], t) =>
            /\ Single(arrays', c, streams'[c], t)
            /\ t = s => s \notin Members(arrays', c, streams'[c])
      /\ \A d \in IDs \ {c} : arrays'[d] = arrays[d] /\ streams'[d] = streams[d]
      BY <1>1, RemoveStreamEffect
<1>3. ASSUME NEW d \in IDs, NEW t \in Streams, Listed(d, t)' PROVE Listed(d, t)
      BY <1>2, <1>3 DEF Listed, Members
<1>4. ASSUME NEW t \in Streams, Single(arrays, NoID, streams[NoID], t)
      PROVE  Single(arrays', NoID, streams'[NoID], t)
  <2>1. CASE c = NoID
        BY <1>2, <1>4, <2>1
  <2>2. CASE c # NoID
        BY <1>1, <1>2, <1>4, <2>2 DEF Single
  <2> QED
      BY <2>1, <2>2
<1> QED
    BY <1>2, <1>3, <1>4 DEF Listed

\* A broadcast may remove whom it likes.
LEMMA PurgeGhosts ==
    ASSUME GInv, NEW h \in Goroutines, Purge(h)
    PROVE  GhostParts'
<1>1. /\ TypeOK /\ ListedAwaited /\ NamelessOnce /\ Leaving /\ Walking(h)
      /\ NoID \in IDs
      BY DEF GInv, GhostParts, IInv, IDs
<1>2. /\ pc[h] = "purge" /\ RemoveStream(to[h], walk[h].target)
      /\ pc' = [pc EXCEPT ![h] = "send"]
      /\ live' = live /\ returned' = returned /\ conversationID' = conversationID
      /\ argument' = argument /\ registrations' = registrations /\ late' = late
      BY DEF Purge, Goto, clients
<1>3. to[h] \in IDs /\ walk[h].target \in Streams
      BY <1>1, <1>2 DEF Walking, IDs
<1>4. \A t \in Streams : pc'[t] = "register" => pc[t] = "register"
      BY <1>1, <1>2 DEF TypeOK, Goroutines
<1>5. /\ \A d \in IDs, t \in Streams : Listed(d, t)' => Listed(d, t)
      /\ \A t \in Streams : Single(arrays, NoID, streams[NoID], t)
                              => Single(arrays', NoID, streams'[NoID], t)
      BY <1>2, <1>3, RemovalGhosts
<1>6. \A d \in IDs, t \in Streams :
         (Excused(d, t) => Excused(d, t)') /\ (Awaited(d, t) => Awaited(d, t)')
      BY <1>2 DEF Excused, Awaited
<1>7. ListedAwaited'
      BY <1>1, <1>2, <1>5, <1>6 DEF ListedAwaited
<1>8. NamelessOnce'
      BY <1>1, <1>2, <1>4, <1>5 DEF NamelessOnce
<1>9. Leaving'
      BY <1>1, <1>2, <1>4 DEF Leaving
<1> QED
    BY <1>7, <1>8, <1>9 DEF GhostParts

\* StreamMessages removes its stream from where it is awaited to, and there it
\* stood once.
LEMMA StreamMessagesReturnsGhosts ==
    ASSUME GInv, NEW s \in Streams, StreamMessagesReturns(s)
    PROVE  GhostParts'
<1> DEFINE c == argument[s]
<1>1. /\ TypeOK /\ RegisteredOnce /\ ListedAwaited /\ NamelessOnce /\ Leaving
      /\ NoID \in IDs /\ c \in IDs /\ c # Nil
      BY DEF GInv, GhostParts, IInv, TypeOK, IDs, StreamMessagesReturns
<1>2. /\ RemoveStream(c, s) /\ returned' = returned \cup {s}
      /\ live' = live /\ conversationID' = conversationID /\ pc' = pc
      /\ argument' = argument /\ registrations' = registrations /\ late' = late
      BY DEF StreamMessagesReturns
<1>3. /\ \A d \in IDs, t \in Streams : Listed(d, t)' => Listed(d, t)
      /\ \A t \in Streams : Single(arrays, NoID, streams[NoID], t)
                              => Single(arrays', NoID, streams'[NoID], t)
      /\ Single(arrays, c, streams[c], s) => ~Listed(c, s)'
      BY <1>1, <1>2, RemovalGhosts
<1>4. ASSUME NEW d \in IDs, Listed(d, s)' PROVE Excused(d, s)
  <2>1. SUFFICES ASSUME ~Excused(d, s) PROVE FALSE
        OBVIOUS
  <2>2. Awaited(d, s)
        BY <1>1, <1>3, <1>4, <2>1 DEF ListedAwaited
  <2>3. d = c
        BY <1>1, <2>2 DEF Awaited
  <2>4. Single(arrays, c, streams[c], s)
    <3>1. CASE c = NoID
      <4>1. registrations[s] <= 1
        <5>1. registrations[s] \in Nat
              BY <1>1 DEF TypeOK
        <5> QED
            BY <2>1, <2>3, <3>1, <5>1 DEF Excused
      <4> QED
          BY <1>1, <3>1, <4>1 DEF NamelessOnce
    <3>2. CASE c # NoID
          BY <1>1, <3>2 DEF RegisteredOnce, Once, Single, IDs
    <3> QED
        BY <3>1, <3>2
  <2>5. ~Listed(c, s)'
        BY <1>3, <2>4
  <2>6. ~Listed(d, s)'
        BY <1>2, <2>3, <2>5 DEF Listed
  <2> QED
      BY <1>4, <2>6
<1>5. ListedAwaited'
  <2> SUFFICES ASSUME NEW d \in IDs, NEW t \in Streams, Listed(d, t)'
               PROVE  registrations[t] > 0 /\ (Excused(d, t)' \/ Awaited(d, t)')
      BY <1>2 DEF ListedAwaited
  <2>1. registrations[t] > 0 /\ (Excused(d, t) \/ Awaited(d, t))
        BY <1>1, <1>3 DEF ListedAwaited
  <2>2. CASE t = s
        BY <1>2, <1>4, <2>1, <2>2 DEF Excused
  <2>3. CASE t # s
        BY <1>2, <2>1, <2>3 DEF Excused, Awaited
  <2> QED
      BY <2>2, <2>3
<1>6. NamelessOnce'
      BY <1>1, <1>2, <1>3 DEF NamelessOnce
<1>7. Leaving'
      BY <1>1, <1>2 DEF Leaving
<1> QED
    BY <1>5, <1>6, <1>7 DEF GhostParts

\* The invariant with what is said of those who leave is inductive.
LEMMA NextGInv == GInv /\ [Next]_vars => GInv'
<1> SUFFICES ASSUME GInv, [Next]_vars PROVE GInv'
    OBVIOUS
<1>1. IInv' /\ TypeOK
      BY NextIInv DEF GInv, IInv
<1>2. ASSUME NEW s \in Streams, NEW c \in Inputs, Recv(s, c) PROVE GhostParts'
      BY <1>2, RecvGhosts
<1>3. ASSUME NEW s \in Streams, Register(s) PROVE GhostParts'
      BY <1>3, RegisterGhosts
<1>4. ASSUME NEW s \in Streams, ContextDone(s) PROVE GhostParts'
  <2>1. /\ arrays' = arrays /\ streams' = streams /\ returned' = returned /\ argument' = argument
        /\ conversationID' = conversationID /\ pc' = pc /\ live' \subseteq live
        /\ registrations' = registrations /\ late' = late
        BY <1>4 DEF ContextDone, registry, history
  <2> QED
      BY <2>1, GhostsStay
<1>5. ASSUME NEW s \in Streams, StreamMessagesWakes(s) PROVE GhostParts'
      BY <1>5, StreamMessagesWakesGhosts
<1>6. ASSUME NEW s \in Streams, StreamMessagesReturns(s) PROVE GhostParts'
      BY <1>6, StreamMessagesReturnsGhosts
<1>7. ASSUME NEW g \in Goroutines, Purge(g) PROVE GhostParts'
      BY <1>7, PurgeGhosts
<1>8. ASSUME \/ \E call \in Calls, c \in Inputs : SendMessages(call, c)
             \/ \E g \in Goroutines : Save(g) \/ SaveFails(g) \/ Send(g) \/ BroadcastEnds(g)
      PROVE  GhostParts'
  <2>1. /\ arrays' = arrays /\ streams' = streams /\ live' = live /\ returned' = returned
        /\ argument' = argument /\ conversationID' = conversationID
        /\ registrations' = registrations /\ late' = late
        BY <1>8 DEF SendMessages, Save, SaveFails, Send, BroadcastEnds, registry, clients, history
  <2>2. \E g \in Goroutines, l \in {"recv", "save", "send", "purge", "done"} :
           pc' = [pc EXCEPT ![g] = l] \/ pc' = pc
        BY <1>8 DEF SendMessages, Save, BeginBroadcast, SaveFails, Send, BroadcastEnds, Resume,
                    Goto, Goroutines
  <2>3. \A s \in Streams : pc'[s] = "register" => pc[s] = "register"
        BY <1>1, <2>2 DEF TypeOK, Goroutines
  <2> QED
      BY <2>1, <2>3, GhostsStay
<1>9. ASSUME UNCHANGED vars PROVE GhostParts'
  <2>1. /\ arrays' = arrays /\ streams' = streams /\ live' = live /\ returned' = returned
        /\ argument' = argument /\ conversationID' = conversationID /\ pc' = pc
        /\ registrations' = registrations /\ late' = late
        BY <1>9 DEF vars, registry, clients, history
  <2>2. /\ live' \subseteq live
        /\ \A s \in Streams : pc'[s] = "register" => pc[s] = "register"
        BY <2>1
  <2> QED
      BY <2>1, <2>2, GhostsStay
<1>10. GhostParts'
       BY <1>2, <1>3, <1>4, <1>5, <1>6, <1>7, <1>8, <1>9 DEF Next
<1> QED
    BY <1>1, <1>10 DEF GInv

\* Whichever conversations a stream has named, and however its goroutine and
\* StreamMessages cross each other at the end: once StreamMessages has
\* returned, the stream stands in no slice, the one of "" included, unless it
\* registered when its client had gone and no removal from there was to come,
\* or set out to register again after a first message without a conversation.
THEOREM Ghosts == Spec => []NoGhosts
<1>1. GInv => NoGhosts
  <2> SUFFICES ASSUME GInv, NEW c \in IDs, NEW s \in Registered(c) \cap returned
               PROVE  s \in late \/ (c = NoID /\ registrations[s] > 1)
      BY DEF NoGhosts
  <2>1. s \in Streams /\ Listed(c, s)
        BY DEF GInv, IInv, TypeOK, Listed, Members, Registered, Element
  <2> QED
      BY <2>1 DEF GInv, GhostParts, ListedAwaited, Excused, Awaited
<1> QED
    BY <1>1, InitGInv, NextGInv, PTL DEF Spec

-----------------------------------------------------------------------------
(* What a broadcast owes                                                   *)

Accounts == [audience : SUBSET Streams, reached : [Streams -> Nat], removals : Nat]

\* The next place that a broadcast looks at: one whose stream could not be sent
\* to is behind it before it is removed.
Cursor(g) == IF pc[g] = "purge" THEN walk[g].next + 1 ELSE walk[g].next

\* For a broadcast with this slice, whose array reads v, at the place k, while
\* its conversation's slice is S: the streams it will still meet among those
\* that are registered, as far as the two slices share the array; the listeners
\* it will never meet; the places where it will meet s.
Pending(v, S, slice, k) ==
    {v[i] : i \in {i \in k..slice.len : S.array = slice.array => i <= S.len}}

Missed(v, S, L, slice, k, acc) ==
    {s \in acc.audience \cap L : acc.reached[s] = 0 /\ s \notin Pending(v, S, slice, k)}

Places(v, slice, k, s) == {i \in k..slice.len : v[i] = s}

\* Every removal has cost it one listener at most, and doubled one at most.
Balanced(v, S, L, slice, k, acc) ==
    /\ IsFiniteSet(Missed(v, S, L, slice, k, acc))
    /\ Cardinality(Missed(v, S, L, slice, k, acc)) <= acc.removals
    /\ \A s \in Streams :
          acc.reached[s] + Cardinality(Places(v, slice, k, s)) <= 1 + acc.removals

\* The places are finitely many.
LEMMA PlacesFinite ==
    ASSUME NEW v, NEW slice \in Slice, NEW k \in Nat, NEW s
    PROVE  /\ IsFiniteSet(Places(v, slice, k, s))
           /\ Cardinality(Places(v, slice, k, s)) \in Nat
<1>1. k \in Int /\ slice.len \in Int
      BY DEF Slice
<1>2. IsFiniteSet(k..slice.len)
      BY <1>1, FS_Interval
<1>3. Places(v, slice, k, s) \in SUBSET (k..slice.len)
      BY DEF Places
<1>4. IsFiniteSet(Places(v, slice, k, s))
      BY <1>2, <1>3, FS_Subset
<1> QED
    BY <1>4, FS_CardinalityType

\* A set that grows by one element at most.
LEMMA OneMore ==
    ASSUME NEW S, NEW T, NEW x, IsFiniteSet(S), T \subseteq S \cup {x}
    PROVE  IsFiniteSet(T) /\ Cardinality(T) \in Nat /\ Cardinality(T) <= Cardinality(S) + 1
<1>1. /\ IsFiniteSet(S \cup {x})
      /\ Cardinality(S \cup {x}) = IF x \in S THEN Cardinality(S) ELSE Cardinality(S) + 1
      BY FS_AddElement
<1>2. Cardinality(S) \in Nat
      BY FS_CardinalityType
<1>3. T \in SUBSET (S \cup {x})
      OBVIOUS
<1>4. IsFiniteSet(T) /\ Cardinality(T) <= Cardinality(S \cup {x})
      BY <1>1, <1>3, FS_Subset
<1>5. Cardinality(T) \in Nat
      BY <1>4, FS_CardinalityType
<1> QED
    BY <1>1, <1>2, <1>4, <1>5

\* A set that does not grow.
LEMMA NoMore ==
    ASSUME NEW S, NEW T, IsFiniteSet(S), T \subseteq S
    PROVE  /\ IsFiniteSet(T) /\ Cardinality(T) \in Nat /\ Cardinality(S) \in Nat
           /\ Cardinality(T) <= Cardinality(S)
<1>1. T \in SUBSET S
      OBVIOUS
<1>2. IsFiniteSet(T) /\ Cardinality(T) <= Cardinality(S)
      BY <1>1, FS_Subset
<1> QED
    BY <1>2, FS_CardinalityType

\* The first n places of w: those of v with s at j, and those of v with the
\* one at f closed up, m being the last that moves.
OneWritten(v, w, n, s, j)   == \A i \in 1..n : w[i] = IF i = j THEN s ELSE v[i]
OneClosedUp(v, w, n, f, m) ==
    \A i \in 1..n : w[i] = IF f <= i /\ i < m THEN v[i + 1] ELSE v[i]

\* append, which may write s behind the registered streams of the array that a
\* broadcast walks through, or moves the registry to another array.
LEMMA BalancedWritten ==
    ASSUME NEW v, NEW w, NEW S \in Slice, NEW S2 \in Slice, NEW L,
           NEW slice \in Slice, NEW k \in Nat \ {0}, NEW acc \in Accounts,
           NEW s \in Streams, NEW j \in Nat,
           Balanced(v, S, L, slice, k, acc),
           OneWritten(v, w, slice.len, s, j),
           S2.array = slice.array => S.array = slice.array /\ S2.len = j /\ j = S.len + 1,
           S2.array # slice.array => j = 0,
           j > 0 => acc.reached[s] = 0 /\ \A i \in 1..slice.len : v[i] # s
    PROVE  Balanced(w, S2, L, slice, k, acc)
<1>0. \A i \in 1..slice.len : w[i] = IF i = j THEN s ELSE v[i]
      BY DEF OneWritten
<1>1. /\ slice.len \in Nat /\ S.len \in Nat /\ S2.len \in Nat
      /\ acc.removals \in Nat /\ acc.reached \in [Streams -> Nat]
      BY DEF Slice, Accounts
<1>2. \A i \in k..slice.len : i \in 1..slice.len /\ i \in Nat
      BY <1>1
<1>3. Pending(v, S, slice, k) \subseteq Pending(w, S2, slice, k)
  <2>1. ASSUME NEW i \in k..slice.len, S.array = slice.array => i <= S.len
        PROVE  w[i] = v[i] /\ (S2.array = slice.array => i <= S2.len)
    <3>1. CASE S2.array = slice.array
          BY <1>0, <1>1, <1>2, <2>1, <3>1
    <3>2. CASE S2.array # slice.array
          BY <1>0, <1>1, <1>2, <2>1, <3>2
    <3> QED
        BY <3>1, <3>2
  <2> QED
      BY <2>1 DEF Pending
<1>4. Missed(w, S2, L, slice, k, acc) \subseteq Missed(v, S, L, slice, k, acc)
      BY <1>3 DEF Missed
<1>5. /\ IsFiniteSet(Missed(w, S2, L, slice, k, acc))
      /\ Cardinality(Missed(w, S2, L, slice, k, acc)) <= acc.removals
  <2>1. /\ IsFiniteSet(Missed(v, S, L, slice, k, acc))
        /\ Cardinality(Missed(v, S, L, slice, k, acc)) <= acc.removals
        BY DEF Balanced
  <2> DEFINE m1 == Missed(v, S, L, slice, k, acc)
             m2 == Missed(w, S2, L, slice, k, acc)
  <2>2. /\ IsFiniteSet(m2) /\ Cardinality(m2) \in Nat /\ Cardinality(m1) \in Nat
        /\ Cardinality(m2) <= Cardinality(m1)
        BY <1>4, <2>1, NoMore
  <2> HIDE DEF m1, m2
  <2>3. Cardinality(m1) <= acc.removals
        BY <2>1 DEF m1
  <2>4. Cardinality(m2) <= acc.removals
        BY <1>1, <2>2, <2>3
  <2> QED
      BY <2>2, <2>4 DEF m2
<1>6. ASSUME NEW t \in Streams
      PROVE  acc.reached[t] + Cardinality(Places(w, slice, k, t)) <= 1 + acc.removals
  <2> DEFINE p1 == Places(v, slice, k, t)
             p2 == Places(w, slice, k, t)
  <2>1. /\ IsFiniteSet(p1) /\ Cardinality(p1) \in Nat
        /\ IsFiniteSet(p2) /\ Cardinality(p2) \in Nat
        BY PlacesFinite
  <2>2. acc.reached[t] + Cardinality(p1) <= 1 + acc.removals /\ acc.reached[t] \in Nat
        BY <1>1 DEF Balanced
  <2>3. CASE t # s \/ j = 0
    <3>1. p2 \subseteq p1
          BY <1>0, <1>2, <2>3 DEF Places
    <3> HIDE DEF p1, p2
    <3>2. Cardinality(p2) <= Cardinality(p1)
          BY <2>1, <3>1, NoMore
    <3>3. acc.reached[t] + Cardinality(p2) <= 1 + acc.removals
          BY <1>1, <2>1, <2>2, <3>2
    <3> QED
        BY <3>3 DEF p2
  <2>4. CASE t = s /\ j # 0
    <3>1. acc.reached[t] = 0 /\ p2 \subseteq {} \cup {j}
          BY <1>0, <1>1, <1>2, <2>4 DEF Places
    <3> HIDE DEF p1, p2
    <3>2. IsFiniteSet({}) /\ Cardinality({}) = 0
          BY FS_EmptySet
    <3>3. Cardinality(p2) <= 0 + 1
          BY <3>1, <3>2, OneMore
    <3>4. acc.reached[t] + Cardinality(p2) <= 1 + acc.removals
          BY <1>1, <2>1, <3>1, <3>3
    <3> QED
        BY <3>4 DEF p2
  <2> QED
      BY <2>3, <2>4
<1> QED
    BY <1>5, <1>6 DEF Balanced

\* A removal: the streams behind the first place of the one removed, which
\* cannot be sent to, move down by one place.
LEMMA BalancedClosed ==
    ASSUME NEW v, NEW w, NEW S \in Slice, NEW S2 \in Slice, NEW L,
           NEW slice \in Slice, NEW k \in Nat \ {0}, NEW acc \in Accounts,
           NEW f \in 1..S.len, NEW acc2 \in Accounts,
           Balanced(v, S, L, slice, k, acc),
           acc2.audience = acc.audience, acc2.reached = acc.reached,
           acc2.removals = acc.removals + 1,
           S2.array = S.array, S2.len = S.len - 1,
           S.array = slice.array =>
              v[f] \notin L /\ OneClosedUp(v, w, slice.len, f, S.len),
           S.array # slice.array => \A i \in 1..slice.len : w[i] = v[i]
    PROVE  Balanced(w, S2, L, slice, k, acc2)
<1> DEFINE n  == slice.len
           m  == S.len
           m1 == Missed(v, S, L, slice, k, acc)
           m2 == Missed(w, S2, L, slice, k, acc2)
<1>0. S.array = slice.array =>
         /\ v[f] \notin L
         /\ \A i \in 1..slice.len : w[i] = IF f <= i /\ i < S.len THEN v[i + 1] ELSE v[i]
      BY DEF OneClosedUp
<1>1. /\ n \in Nat /\ m \in Nat /\ S2.len \in Nat /\ f \in Nat /\ f <= m /\ f > 0 /\ k \in Nat /\ k > 0
      /\ acc.removals \in Nat /\ acc.reached \in [Streams -> Nat]
      BY DEF Slice, Accounts
<1>2. \A i \in k..n : i \in 1..n /\ i \in Nat /\ i >= k /\ i <= n /\ i > 0
      BY <1>1
<1>3. m2 \subseteq m1 \cup {v[k]}
  <2> SUFFICES ASSUME NEW s \in m2, s # v[k] PROVE s \in m1
      OBVIOUS
  <2>1. /\ s \in acc.audience \cap L /\ acc.reached[s] = 0
        /\ s \notin Pending(w, S2, slice, k)
        BY DEF Missed
  <2>2. ASSUME NEW i \in k..n, S.array = slice.array => i <= m, s = v[i]
        PROVE  FALSE
    <3>1. CASE S.array # slice.array
      <4>1. w[i] = v[i] /\ S2.array # slice.array
            BY <1>2, <3>1
      <4> QED
          BY <2>1, <2>2, <3>1, <4>1 DEF Pending
    <3>2. CASE S.array = slice.array /\ i < f
      <4>1. w[i] = v[i] /\ i <= S2.len
            BY <1>0, <1>1, <1>2, <3>2
      <4> QED
          BY <2>1, <2>2, <4>1 DEF Pending
    <3>3. CASE S.array = slice.array /\ i = f
          BY <1>0, <2>1, <2>2, <3>3
    <3>4. CASE S.array = slice.array /\ i > f
      <4>1. i # k
            BY <2>2
      <4>2. i - 1 \in k..n /\ i - 1 \in 1..n /\ f <= i - 1 /\ i - 1 < m /\ i - 1 <= S2.len /\ (i - 1) + 1 = i
            BY <1>1, <1>2, <2>2, <3>4, <4>1
      <4>3. w[i - 1] = v[(i - 1) + 1]
            BY <1>0, <3>4, <4>2
      <4>4. w[i - 1] = s
            BY <2>2, <4>2, <4>3
      <4> QED
          BY <2>1, <4>2, <4>4 DEF Pending
    <3> QED
        BY <1>1, <1>2, <3>1, <3>2, <3>3, <3>4
  <2>3. s \notin Pending(v, S, slice, k)
        BY <2>2 DEF Pending
  <2> QED
      BY <2>1, <2>3 DEF Missed
<1>4. /\ IsFiniteSet(m2)
      /\ Cardinality(m2) <= acc2.removals
  <2>1. IsFiniteSet(m1) /\ Cardinality(m1) <= acc.removals
        BY DEF Balanced
  <2> HIDE DEF m1, m2
  <2>2. IsFiniteSet(m2) /\ Cardinality(m2) \in Nat /\ Cardinality(m2) <= Cardinality(m1) + 1
        BY <1>3, <2>1, OneMore
  <2>3. Cardinality(m1) \in Nat
        BY <2>1, FS_CardinalityType
  <2> QED
      BY <1>1, <2>1, <2>2, <2>3
<1>5. ASSUME NEW t \in Streams
      PROVE  acc2.reached[t] + Cardinality(Places(w, slice, k, t)) <= 1 + acc2.removals
  <2> DEFINE p1 == Places(v, slice, k, t)
             p2 == Places(w, slice, k, t)
             j  == IF m <= n THEN m ELSE n
             up == [i \in p2 \ {j} |->
                       IF S.array = slice.array /\ f <= i /\ i < m THEN i + 1 ELSE i]
  <2>1. /\ IsFiniteSet(p1) /\ Cardinality(p1) \in Nat
        /\ IsFiniteSet(p2) /\ Cardinality(p2) \in Nat
        BY PlacesFinite
  <2>2. acc.reached[t] + Cardinality(p1) <= 1 + acc.removals /\ acc.reached[t] \in Nat
        BY <1>1 DEF Balanced
  <2>3. ASSUME NEW i \in p2 \ {j} PROVE up[i] \in p1
    <3>1. i \in k..n /\ w[i] = t /\ i # j
          BY DEF Places
    <3>2. CASE S.array = slice.array /\ f <= i /\ i < m
      <4>1. w[i] = v[i + 1] /\ up[i] = i + 1
            BY <1>0, <1>2, <3>1, <3>2
      <4>2. i + 1 \in k..n
            BY <1>1, <1>2, <3>1, <3>2
      <4> QED
          BY <3>1, <4>1, <4>2 DEF Places
    <3>3. CASE ~(S.array = slice.array /\ f <= i /\ i < m)
      <4>1. w[i] = v[i] /\ up[i] = i
            BY <1>0, <1>2, <3>1, <3>3
      <4> QED
          BY <3>1, <4>1 DEF Places
    <3> QED
        BY <3>2, <3>3
  <2>4. ASSUME NEW a \in p2 \ {j}, NEW b \in p2 \ {j}, up[a] = up[b] PROVE a = b
    <3>1. a \in k..n /\ b \in k..n /\ a # j /\ b # j
          BY DEF Places
    <3>2. a \in Nat /\ b \in Nat /\ a <= n /\ b <= n
          BY <1>2, <3>1
    <3>3. CASE S.array # slice.array
          BY <2>4, <3>3
    <3>4. CASE S.array = slice.array
          BY <1>1, <2>4, <3>1, <3>2, <3>4
    <3> QED
        BY <3>3, <3>4
  <2>5. up \in Injection(p2 \ {j}, p1)
    <3>1. up \in [p2 \ {j} -> p1] /\ DOMAIN up = p2 \ {j}
          BY <2>3
    <3> HIDE DEF up
    <3> QED
        BY <2>4, <3>1 DEF Injection, IsInjective
  <2> HIDE DEF p1, p2, up, j
  <2>6. IsFiniteSet(p2 \ {j}) /\ Cardinality(p2 \ {j}) <= Cardinality(p1)
        BY <2>1, <2>5, FS_Injection
  <2>7. Cardinality(p2 \ {j}) \in Nat
        BY <2>6, FS_CardinalityType
  <2>8. p2 \subseteq (p2 \ {j}) \cup {j}
        OBVIOUS
  <2>9. Cardinality(p2) <= Cardinality(p2 \ {j}) + 1
        BY <2>6, <2>8, OneMore
  <2>10. acc2.reached[t] + Cardinality(p2) <= 1 + acc2.removals
         BY <1>1, <2>1, <2>2, <2>6, <2>7, <2>9
  <2> QED
      BY <2>10 DEF p2
<1> QED
    BY <1>4, <1>5 DEF Balanced

\* Fewer streams are missed and the places are the same.
LEMMA MissedFewer ==
    ASSUME NEW S, NEW T, NEW r \in Nat, IsFiniteSet(S), Cardinality(S) <= r, T \subseteq S
    PROVE  IsFiniteSet(T) /\ Cardinality(T) <= r
<1>1. /\ IsFiniteSet(T) /\ Cardinality(T) \in Nat /\ Cardinality(S) \in Nat
      /\ Cardinality(T) <= Cardinality(S)
      BY NoMore
<1> QED
    BY <1>1

\* A client that leaves.
LEMMA BalancedLeft ==
    ASSUME NEW v, NEW S, NEW L, NEW L2, L2 \subseteq L, NEW slice, NEW k, NEW acc \in Accounts,
           Balanced(v, S, L, slice, k, acc)
    PROVE  Balanced(v, S, L2, slice, k, acc)
<1>1. acc.removals \in Nat
      BY DEF Accounts
<1>2. Missed(v, S, L2, slice, k, acc) \subseteq Missed(v, S, L, slice, k, acc)
      BY DEF Missed
<1>3. /\ IsFiniteSet(Missed(v, S, L2, slice, k, acc))
      /\ Cardinality(Missed(v, S, L2, slice, k, acc)) <= acc.removals
      BY <1>1, <1>2, MissedFewer DEF Balanced
<1> QED
    BY <1>3 DEF Balanced

\* The place that a broadcast leaves behind is the only one it gives up.
LEMMA OnePlace ==
    ASSUME NEW v, NEW slice \in Slice, NEW k \in Nat \ {0}, k <= slice.len
    PROVE  /\ \A S : Pending(v, S, slice, k) \subseteq Pending(v, S, slice, k + 1) \cup {v[k]}
           /\ \A s : Places(v, slice, k, s) =
                       Places(v, slice, k + 1, s) \cup (IF v[k] = s THEN {k} ELSE {})
           /\ \A s : k \notin Places(v, slice, k + 1, s)
<1>1. k..slice.len = ((k + 1)..slice.len) \cup {k} /\ k \notin (k + 1)..slice.len
      BY DEF Slice
<1> QED
    BY <1>1 DEF Pending, Places

\* A message that is sent.
LEMMA BalancedSent ==
    ASSUME NEW v, NEW S \in Slice, NEW L, NEW slice \in Slice, NEW k \in Nat \ {0},
           k <= slice.len, NEW acc \in Accounts, NEW acc2 \in Accounts, v[k] \in Streams,
           Balanced(v, S, L, slice, k, acc),
           acc2.audience = acc.audience, acc2.removals = acc.removals,
           acc2.reached = [acc.reached EXCEPT ![v[k]] = @ + 1]
    PROVE  Balanced(v, S, L, slice, k + 1, acc2)
<1>1. acc.removals \in Nat /\ acc.reached \in [Streams -> Nat]
      BY DEF Accounts
<1>2. Missed(v, S, L, slice, k + 1, acc2) \subseteq Missed(v, S, L, slice, k, acc)
  <2> SUFFICES ASSUME NEW t \in Missed(v, S, L, slice, k + 1, acc2)
               PROVE  t \in Missed(v, S, L, slice, k, acc)
      OBVIOUS
  <2>1. /\ t \in acc.audience \cap L /\ acc2.reached[t] = 0
        /\ t \notin Pending(v, S, slice, k + 1)
        BY DEF Missed
  <2>2. t \in Streams
        BY <2>1 DEF Accounts
  <2>3. t # v[k] /\ acc.reached[t] = 0
        BY <1>1, <2>1, <2>2
  <2> QED
      BY <2>1, <2>3, OnePlace DEF Missed
<1>3. /\ IsFiniteSet(Missed(v, S, L, slice, k + 1, acc2))
      /\ Cardinality(Missed(v, S, L, slice, k + 1, acc2)) <= acc2.removals
      BY <1>1, <1>2, MissedFewer DEF Balanced
<1>4. ASSUME NEW t \in Streams
      PROVE  acc2.reached[t] + Cardinality(Places(v, slice, k + 1, t)) <= 1 + acc2.removals
  <2> DEFINE p1 == Places(v, slice, k, t)
             p2 == Places(v, slice, k + 1, t)
  <2>1. IsFiniteSet(p1) /\ Cardinality(p1) \in Nat /\ IsFiniteSet(p2) /\ Cardinality(p2) \in Nat
        BY PlacesFinite
  <2>2. acc.reached[t] + Cardinality(p1) <= 1 + acc.removals /\ acc.reached[t] \in Nat
        BY <1>1 DEF Balanced
  <2>3. p1 = p2 \cup (IF v[k] = t THEN {k} ELSE {}) /\ k \notin p2
        BY OnePlace
  <2> HIDE DEF p1, p2
  <2>4. CASE v[k] = t
    <3>1. Cardinality(p1) = Cardinality(p2) + 1
          BY <2>1, <2>3, <2>4, FS_AddElement
    <3>2. acc2.reached[t] = acc.reached[t] + 1
          BY <1>1, <2>4
    <3>3. acc2.reached[t] + Cardinality(p2) <= 1 + acc2.removals
          BY <1>1, <2>1, <2>2, <3>1, <3>2
    <3> QED
        BY <3>3 DEF p2
  <2>5. CASE v[k] # t
    <3>1. p1 = p2 /\ acc2.reached[t] = acc.reached[t]
          BY <1>1, <2>3, <2>5
    <3> QED
        BY <2>2, <3>1 DEF p2
  <2> QED
      BY <2>4, <2>5
<1> QED
    BY <1>3, <1>4 DEF Balanced

\* A stream that is passed over, which cannot be sent to.
LEMMA BalancedPassed ==
    ASSUME NEW v, NEW S \in Slice, NEW L, NEW slice \in Slice, NEW k \in Nat \ {0},
           k <= slice.len, NEW acc \in Accounts, v[k] \notin L,
           Balanced(v, S, L, slice, k, acc)
    PROVE  Balanced(v, S, L, slice, k + 1, acc)
<1>1. acc.removals \in Nat /\ acc.reached \in [Streams -> Nat]
      BY DEF Accounts
<1>2. Missed(v, S, L, slice, k + 1, acc) \subseteq Missed(v, S, L, slice, k, acc)
      BY OnePlace DEF Missed
<1>3. /\ IsFiniteSet(Missed(v, S, L, slice, k + 1, acc))
      /\ Cardinality(Missed(v, S, L, slice, k + 1, acc)) <= acc.removals
      BY <1>1, <1>2, MissedFewer DEF Balanced
<1>4. ASSUME NEW t \in Streams
      PROVE  acc.reached[t] + Cardinality(Places(v, slice, k + 1, t)) <= 1 + acc.removals
  <2> DEFINE p1 == Places(v, slice, k, t)
             p2 == Places(v, slice, k + 1, t)
  <2>1. IsFiniteSet(p1) /\ Cardinality(p1) \in Nat /\ IsFiniteSet(p2) /\ Cardinality(p2) \in Nat
        BY PlacesFinite
  <2>2. acc.reached[t] + Cardinality(p1) <= 1 + acc.removals /\ acc.reached[t] \in Nat
        BY <1>1 DEF Balanced
  <2>3. p2 \subseteq p1
        BY OnePlace
  <2> HIDE DEF p1, p2
  <2>4. Cardinality(p2) <= Cardinality(p1)
        BY <2>1, <2>3, NoMore
  <2>5. acc.reached[t] + Cardinality(p2) <= 1 + acc.removals
        BY <1>1, <2>1, <2>2, <2>4
  <2> QED
      BY <2>5 DEF p2
<1> QED
    BY <1>3, <1>4 DEF Balanced

\* A broadcast that begins has everyone before it, and everyone once.
LEMMA BalancedBegun ==
    ASSUME NEW v, NEW L, NEW slice \in Slice, NEW acc \in Accounts,
           \A i, j \in 1..slice.len : v[i] = v[j] => i = j,
           acc.audience \subseteq {v[i] : i \in 1..slice.len},
           \A s \in Streams : acc.reached[s] = 0, acc.removals = 0
    PROVE  Balanced(v, slice, L, slice, 1, acc)
<1>1. slice.len \in Nat /\ \A i \in 1..slice.len : i <= slice.len
      BY DEF Slice
<1>2. Missed(v, slice, L, slice, 1, acc) = {}
      BY <1>1 DEF Missed, Pending
<1>3. IsFiniteSet({}) /\ Cardinality({}) = 0
      BY FS_EmptySet
<1>4. ASSUME NEW t \in Streams
      PROVE  Cardinality(Places(v, slice, 1, t)) <= 1
  <2> DEFINE p == Places(v, slice, 1, t)
  <2>1. \A i, j \in p : i = j
        BY DEF Places
  <2> HIDE DEF p
  <2>2. PICK x : p \subseteq {} \cup {x}
        BY <2>1
  <2>3. Cardinality(p) <= 0 + 1
        BY <1>3, <2>2, OneMore
  <2> QED
      BY <2>3 DEF p
<1>5. \A t \in Streams : Cardinality(Places(v, slice, 1, t)) \in Nat
      BY PlacesFinite
<1> QED
    BY <1>2, <1>3, <1>4, <1>5 DEF Balanced

-----------------------------------------------------------------------------
(* What the steps do to a broadcast under way                              *)

\* x stands somewhere in an array of conversation c.
Written(A, c, x) == \E a \in 1..Len(A[c]) : \E i \in 1..Len(A[c][a]) : A[c][a][i] = x

\* append(h.streams[c], s) as the arrays show it: one place of the slice's
\* array, or a new array.
LEMMA AppendStreamView ==
    ASSUME TypeOK, RegistryFilled, NEW c \in IDs, NEW s \in Streams, AppendStream(c, s)
    PROVE  /\ \/ /\ streams[c].array > 0
                 /\ streams'[c] = [array |-> streams[c].array, len |-> streams[c].len + 1]
                 /\ \A a \in 1..Len(arrays[c]) : a # streams[c].array => arrays'[c][a] = arrays[c][a]
                 /\ \A i \in 1..Len(arrays[c][streams[c].array]) :
                       arrays'[c][streams[c].array][i] =
                          IF i = streams[c].len + 1 THEN s ELSE arrays[c][streams[c].array][i]
              \/ /\ streams'[c] = [array |-> Len(arrays[c]) + 1, len |-> streams[c].len + 1]
                 /\ \A a \in 1..Len(arrays[c]) : arrays'[c][a] = arrays[c][a]
           /\ \A x \in Streams : Written(arrays', c, x) => x = s \/ Written(arrays, c, x)
<1> DEFINE slice == streams[c]
           n     == slice.len
           old   == arrays[c][slice.array]
<1>1. /\ arrays \in Arrays /\ streams \in [IDs -> Slice]
      /\ Filled(arrays, conversationID, c, slice)
      BY DEF RegistryFilled, TypeOK
<1>2. /\ slice \in Slice /\ n \in Nat /\ slice.array \in Nat
      /\ slice = [array |-> slice.array, len |-> n]
      /\ arrays[c] \in Seq(Seq(Elements)) /\ Len(arrays[c]) \in Nat
      /\ slice.array \in 0..Len(arrays[c])
      /\ slice.array = 0 => n = 0
      BY <1>1 DEF Slice, Arrays, Filled
<1>3. ASSUME slice.array > 0
      PROVE  /\ slice.array \in 1..Len(arrays[c])
             /\ old \in Seq(Elements) /\ Len(old) \in Nat /\ n <= Len(old)
  <2>1. slice.array \in 1..Len(arrays[c])
        BY <1>2, <1>3
  <2> QED
      BY <1>1, <1>2, <1>3, <2>1, ElementOfSeq DEF Filled
<1>4. CASE n < Room(c)
  <2> DEFINE q == [old EXCEPT ![n + 1] = s]
             B == [arrays[c] EXCEPT ![slice.array] = q]
  <2>1. slice.array > 0 /\ n + 1 \in 1..Len(old)
        BY <1>2, <1>3, <1>4 DEF Room
  <2>2. s \in Elements
        BY DEF Elements
  <2>3. /\ q \in Seq(Elements) /\ Len(q) = Len(old)
        /\ \A i \in 1..Len(old) : q[i] = IF i = n + 1 THEN s ELSE old[i]
        BY <1>3, <2>1, <2>2, ExceptSeq
  <2>4. /\ arrays' = [arrays EXCEPT ![c] = B]
        /\ streams' = [streams EXCEPT ![c].len = @ + 1]
        BY <1>4 DEF AppendStream
  <2> HIDE DEF q
  <2>5. /\ Len(B) = Len(arrays[c])
        /\ \A b \in 1..Len(arrays[c]) : B[b] = IF b = slice.array THEN q ELSE arrays[c][b]
        BY <1>2, <1>3, <2>1, <2>3, ExceptSeq
  <2>6. arrays'[c] = B
        BY <1>1, <2>4 DEF Arrays
  <2> HIDE DEF B
  <2>7. streams'[c] = [array |-> slice.array, len |-> n + 1]
    <3>1. streams'[c] = [slice EXCEPT !.len = @ + 1]
          BY <1>1, <2>4
    <3> QED
        BY <1>2, <3>1
  <2>8. ASSUME NEW x \in Streams, Written(arrays', c, x), x # s
        PROVE  Written(arrays, c, x)
    <3>1. PICK a \in 1..Len(arrays[c]) : \E i \in 1..Len(B[a]) : B[a][i] = x
          BY <2>5, <2>6, <2>8 DEF Written
    <3>2. PICK i \in 1..Len(B[a]) : B[a][i] = x
          BY <3>1
    <3>3. CASE a = slice.array
      <4>1. i \in 1..Len(old) /\ q[i] = x
            BY <2>3, <2>5, <3>1, <3>2, <3>3
      <4>2. old[i] = x
            BY <2>3, <2>8, <4>1
      <4> QED
          BY <3>1, <3>3, <4>1, <4>2 DEF Written
    <3>4. CASE a # slice.array
          BY <2>5, <3>1, <3>2, <3>4 DEF Written
    <3> QED
        BY <3>3, <3>4
  <2> QED
      BY <1>3, <2>1, <2>3, <2>5, <2>6, <2>7, <2>8
<1>5. CASE ~(n < Room(c))
  <2> DEFINE size == IF n = 0 THEN 1 ELSE 2 * n
             q == [i \in 1..size |->
                      IF i <= n THEN arrays[c][slice.array][i]
                      ELSE IF i = n + 1 THEN s ELSE Nil]
  <2>1. size \in Nat
        BY <1>2
  <2>2. /\ arrays' = [arrays EXCEPT ![c] = Append(arrays[c], q)]
        /\ streams' = [streams EXCEPT ![c] = [array |-> Len(arrays[c]) + 1, len |-> n + 1]]
        BY <1>5, <1>1 DEF AppendStream, Element, Arrays
  <2>3. /\ arrays'[c] = Append(arrays[c], q)
        /\ streams'[c] = [array |-> Len(arrays[c]) + 1, len |-> n + 1]
        BY <1>1, <2>2 DEF Arrays
  <2>4. ASSUME NEW i \in 1..size
        PROVE  \/ q[i] = s \/ q[i] = Nil
               \/ slice.array > 0 /\ i \in 1..Len(old) /\ q[i] = old[i]
    <3>1. CASE i <= n
          BY <1>2, <1>3, <2>1, <3>1
    <3>2. CASE ~(i <= n)
          BY <3>2
    <3> QED
        BY <3>1, <3>2
  <2>5. q \in [1..size -> {q[i] : i \in 1..size}]
        OBVIOUS
  <2> HIDE DEF q, size
  <2>6. q \in Seq({q[i] : i \in 1..size}) /\ Len(q) = size
        BY <2>1, <2>5
  <2>7. /\ Len(arrays'[c]) = Len(arrays[c]) + 1
        /\ \A b \in 1..Len(arrays[c]) : arrays'[c][b] = arrays[c][b]
        /\ arrays'[c][Len(arrays[c]) + 1] = q
        BY <1>2, <2>3
  <2>8. ASSUME NEW x \in Streams, Written(arrays', c, x), x # s
        PROVE  Written(arrays, c, x)
    <3>1. PICK a \in 1..(Len(arrays[c]) + 1) : \E i \in 1..Len(arrays'[c][a]) : arrays'[c][a][i] = x
          BY <2>7, <2>8 DEF Written
    <3>2. CASE a = Len(arrays[c]) + 1
      <4>1. PICK i \in 1..size : q[i] = x
            BY <2>6, <2>7, <3>1, <3>2
      <4>2. slice.array > 0 /\ i \in 1..Len(old) /\ old[i] = x
            BY <2>4, <2>8, <4>1, HubAssumption
      <4> QED
          BY <1>3, <4>2 DEF Written
    <3>3. CASE a # Len(arrays[c]) + 1
      <4>1. a \in 1..Len(arrays[c])
            BY <1>2, <3>1, <3>3
      <4> QED
          BY <2>7, <3>1, <4>1 DEF Written
    <3> QED
        BY <3>2, <3>3
  <2> QED
      BY <2>3, <2>7, <2>8
<1> QED
    BY <1>4, <1>5

\* removeStream(c, s) as the arrays show it, where s is in the slice once at
\* most: the places from the one of s on take the next one's stream.
LEMMA RemoveStreamView ==
    ASSUME TypeOK, RegistryFilled, NEW c \in IDs, NEW s \in Streams, RemoveStream(c, s),
           Once(arrays, c, streams[c])
    PROVE  \/ arrays' = arrays /\ streams' = streams /\ account' = account
           \/ \E f \in 1..streams[c].len :
                 /\ streams[c].array > 0
                 /\ arrays[c][streams[c].array][f] = s
                 /\ streams'[c] = [array |-> streams[c].array, len |-> streams[c].len - 1]
                 /\ \A a \in 1..Len(arrays[c]) : a # streams[c].array => arrays'[c][a] = arrays[c][a]
                 /\ \A i \in 1..Len(arrays[c][streams[c].array]) :
                       arrays'[c][streams[c].array][i] =
                          IF f <= i /\ i < streams[c].len
                          THEN arrays[c][streams[c].array][i + 1]
                          ELSE arrays[c][streams[c].array][i]
                 /\ CountRemoval(c)
<1> DEFINE slice  == streams[c]
           n      == slice.len
           old    == arrays[c][slice.array]
           places == {i \in 1..n : old[i] = s}
           first  == CHOOSE i \in places : \A j \in places : i <= j
           q      == [i \in 1..Len(old) |-> IF first <= i /\ i < n THEN old[i + 1] ELSE old[i]]
           B      == [arrays[c] EXCEPT ![slice.array] = q]
<1>1. /\ arrays \in Arrays /\ streams \in [IDs -> Slice]
      /\ Filled(arrays, conversationID, c, slice)
      BY DEF RegistryFilled, TypeOK
<1>2. /\ slice \in Slice /\ n \in Nat /\ slice.array \in Nat
      /\ slice = [array |-> slice.array, len |-> n]
      /\ arrays[c] \in Seq(Seq(Elements)) /\ Len(arrays[c]) \in Nat
      /\ slice.array \in 0..Len(arrays[c])
      /\ slice.array = 0 => n = 0
      BY <1>1 DEF Slice, Arrays, Filled
<1>3. CASE places = {}
      BY <1>3 DEF RemoveStream, Element
<1>4. CASE places # {}
  <2>1. PICK f \in 1..n : old[f] = s
        BY <1>4
  <2>2. slice.array > 0 /\ slice.array \in 1..Len(arrays[c]) /\ f \in Nat
        BY <1>2, <2>1
  <2>3. old \in Seq(Elements) /\ Len(old) \in Nat /\ n <= Len(old)
        BY <1>1, <1>2, <2>2, ElementOfSeq DEF Filled
  <2>4. /\ arrays' = [arrays EXCEPT ![c] = B]
        /\ streams' = [streams EXCEPT ![c].len = @ - 1]
        /\ CountRemoval(c)
    <3>1. Room(c) = Len(old)
          BY <2>2 DEF Room
    <3> QED
        BY <1>4, <3>1 DEF RemoveStream, Element
  <2>5. first = f
    <3>1. places = {f}
          BY <2>1 DEF Once
    <3> QED
        BY <2>2, <3>1
  <2>6. \A i \in 1..Len(old) : q[i] = IF f <= i /\ i < n THEN old[i + 1] ELSE old[i]
    <3> HIDE DEF first
    <3> QED
        BY <2>5
  <2>7. q \in Seq(Elements)
    <3>1. ASSUME NEW i \in 1..Len(old) PROVE q[i] \in Elements
      <4>1. CASE f <= i /\ i < n
        <5>1. n \in Nat
              BY <1>2
        <5> HIDE DEF q, n, old
        <5>2. i + 1 \in 1..Len(old)
              BY <2>3, <4>1, <5>1
        <5> QED
            BY <2>3, <2>6, <4>1, <5>2
      <4>2. CASE ~(f <= i /\ i < n)
        <5> HIDE DEF q
        <5> QED
            BY <2>3, <2>6, <4>2
      <4> QED
          BY <4>1, <4>2
    <3>2. q \in [1..Len(old) -> Elements]
          BY <3>1
    <3> HIDE DEF q
    <3> QED
        BY <2>3, <3>2
  <2> HIDE DEF q, first
  <2>8. \A b \in 1..Len(arrays[c]) : B[b] = IF b = slice.array THEN q ELSE arrays[c][b]
        BY <1>2, <2>2, <2>7, ExceptSeq
  <2>9. arrays'[c] = B
        BY <1>1, <2>4 DEF Arrays
  <2> HIDE DEF B
  <2>10. streams'[c] = [array |-> slice.array, len |-> n - 1]
    <3>1. streams'[c] = [slice EXCEPT !.len = @ - 1]
          BY <1>1, <2>4
    <3> QED
        BY <1>2, <3>1
  <2> QED
      BY <2>1, <2>2, <2>4, <2>6, <2>8, <2>9, <2>10
<1> QED
    BY <1>3, <1>4

\* A broadcast under way is balanced; it has sent only to streams of its
\* conversation, which have been registered; the one it is about to remove
\* cannot be sent to.
Counted(g) ==
    /\ pc[g] \in {"send", "purge"} =>
          /\ Balanced(arrays[to[g]][walk[g].slice.array], streams[to[g]], live,
                      walk[g].slice, Cursor(g), account[g])
          /\ \A s \in Streams :
                account[g].reached[s] > 0 => conversationID[s] = to[g] /\ pc[s] # "register"
    /\ pc[g] \notin {"send", "purge"} => walk[g] = NoWalk /\ account[g] = NoAccount
    /\ pc[g] = "purge" => walk[g].target \notin live

\* Whoever stands in an array of a conversation has named it, and has been
\* registered.
ArraysKnown ==
    \A c \in Conversations, x \in Streams :
       Written(arrays, c, x) => conversationID[x] = c /\ pc[x] # "register"

CInv ==
    /\ IInv
    /\ ArraysKnown
    /\ \A g \in Goroutines : Counted(g)

\* What every lemma of this section needs to know of a broadcast under way.
LEMMA UnderWay ==
    ASSUME IInv, NEW g \in Goroutines, pc[g] \in {"send", "purge"}
    PROVE  /\ to[g] \in Conversations /\ to[g] \in IDs /\ to[g] # NoID
           /\ walk[g].slice \in Slice /\ walk[g].next \in Nat \ {0}
           /\ Cursor(g) \in Nat \ {0}
           /\ account[g] \in Accounts
           /\ streams[to[g]] \in Slice
           /\ Once(arrays, to[g], streams[to[g]])
           /\ Filled(arrays, conversationID, to[g], walk[g].slice)
           /\ Filled(arrays, conversationID, to[g], streams[to[g]])
           /\ Len(arrays[to[g]]) \in Nat
           /\ \A i \in 1..walk[g].slice.len :
                 /\ walk[g].slice.array \in 1..Len(arrays[to[g]])
                 /\ i \in 1..Len(arrays[to[g]][walk[g].slice.array])
<1>1. /\ TypeOK /\ RegistryFilled /\ RegisteredOnce /\ Walking(g)
      /\ to[g] \in Conversations
      BY DEF IInv, Walking
<1>2. to[g] \in IDs /\ to[g] # NoID
      BY <1>1, HubAssumption DEF IDs
<1>3. walk[g] \in [slice : Slice, next : Nat, target : Streams \cup {Nil}]
      BY <1>1 DEF TypeOK
<1>4. walk[g].slice \in Slice /\ walk[g].next \in Nat \ {0}
      BY <1>1, <1>3 DEF Walking
<1>5. Cursor(g) \in Nat \ {0}
      BY <1>4 DEF Cursor
<1>6. account[g] \in Accounts /\ streams[to[g]] \in Slice
      BY <1>1, <1>2 DEF TypeOK, Accounts
<1>7. /\ Once(arrays, to[g], streams[to[g]])
      /\ Filled(arrays, conversationID, to[g], walk[g].slice)
      /\ Filled(arrays, conversationID, to[g], streams[to[g]])
      BY <1>1, <1>2 DEF RegisteredOnce, Walking, RegistryFilled
<1>8. arrays[to[g]] \in Seq(Seq(Elements)) /\ Len(arrays[to[g]]) \in Nat
      BY <1>1, <1>2 DEF RegistryFilled, Arrays
<1>9. ASSUME NEW i \in 1..walk[g].slice.len
      PROVE  /\ walk[g].slice.array \in 1..Len(arrays[to[g]])
             /\ i \in 1..Len(arrays[to[g]][walk[g].slice.array])
  <2> DEFINE n == walk[g].slice.len
             m == Len(arrays[to[g]][walk[g].slice.array])
  <2>1. walk[g].slice.len \in Nat /\ walk[g].slice.array \in Nat
        BY <1>4 DEF Slice
  <2>2. walk[g].slice.array \in 1..Len(arrays[to[g]])
        BY <1>7, <1>8, <2>1 DEF Filled
  <2>3. arrays[to[g]][walk[g].slice.array] \in Seq(Elements)
        BY <1>8, <2>2, ElementOfSeq
  <2>4. walk[g].slice.len <= Len(arrays[to[g]][walk[g].slice.array])
        BY <1>7, <2>2 DEF Filled
  <2>5. Len(arrays[to[g]][walk[g].slice.array]) \in Nat
        BY <2>3, LenProperties
  <2>6. i \in 1..m
    <3>1. n \in Nat /\ m \in Nat /\ n <= m /\ i \in 1..n
          BY <2>1, <2>4, <2>5
    <3> HIDE DEF n, m
    <3> QED
        BY <3>1
  <2> QED
      BY <2>2, <2>6
<1> QED
    BY <1>1, <1>2, <1>4, <1>5, <1>6, <1>7, <1>8, <1>9

\* A registration, seen from a broadcast under way.
LEMMA RegistrationCounted ==
    ASSUME CInv, NEW s \in Streams, Register(s), NEW g \in Goroutines, pc[g] \in {"send", "purge"}
    PROVE  Balanced(arrays'[to[g]][walk[g].slice.array], streams'[to[g]], live,
                    walk[g].slice, Cursor(g), account[g])
<1> DEFINE c     == conversationID[s]
           d     == to[g]
           slice == walk[g].slice
           v     == arrays[d][slice.array]
           w     == arrays'[d][slice.array]
<1>1. /\ IInv /\ TypeOK /\ RegistryFilled /\ c \in IDs /\ pc[s] = "register" /\ AppendStream(c, s)
      /\ Belongs(conversationID, c, s)
      BY DEF CInv, IInv, TypeOK, Register, Belongs
<1>2. /\ Balanced(v, streams[d], live, slice, Cursor(g), account[g])
      /\ account[g].reached[s] > 0 => pc[s] # "register"
      BY DEF CInv, Counted
<1>3. /\ d \in Conversations /\ d \in IDs /\ slice \in Slice /\ Cursor(g) \in Nat \ {0}
      /\ account[g] \in Accounts /\ streams[d] \in Slice
      /\ Filled(arrays, conversationID, d, slice)
      /\ Filled(arrays, conversationID, d, streams[d])
      /\ Len(arrays[d]) \in Nat
      /\ \A i \in 1..slice.len :
            slice.array \in 1..Len(arrays[d]) /\ i \in 1..Len(arrays[d][slice.array])
      BY <1>1, UnderWay
<1>4. CASE d # c
  <2>1. arrays'[d] = arrays[d] /\ streams'[d] = streams[d]
        BY <1>1, <1>3, <1>4, AppendStreamEffect
  <2> QED
      BY <1>2, <2>1
<1>5. CASE d = c
  <2>1. streams'[d] \in Slice
        BY <1>1, <1>3, <1>5, AppendStreamEffect
  <2>2. account[g].reached[s] = 0
        BY <1>1, <1>2, <1>3 DEF Accounts
  <2>3. ASSUME NEW i \in 1..slice.len PROVE v[i] # s
    <3>1. slice.array \in 1..Len(arrays[d]) /\ i \in 1..Len(arrays[d][slice.array])
          BY <1>3
    <3>2. v[i] = s => Written(arrays, d, s)
          BY <3>1 DEF Written
    <3> QED
        BY <1>1, <1>3, <3>2 DEF CInv, ArraysKnown
  <2>4. /\ slice.len \in Nat /\ slice.array \in Nat /\ slice.array <= Len(arrays[d])
        /\ streams[d].len \in Nat /\ streams[d].array \in Nat
        BY <1>3 DEF Slice, Filled
  <2>5. \/ /\ streams[d].array > 0
           /\ streams'[d] = [array |-> streams[d].array, len |-> streams[d].len + 1]
           /\ \A a \in 1..Len(arrays[d]) : a # streams[d].array => arrays'[d][a] = arrays[d][a]
           /\ \A i \in 1..Len(arrays[d][streams[d].array]) :
                 arrays'[d][streams[d].array][i] =
                    IF i = streams[d].len + 1 THEN s ELSE arrays[d][streams[d].array][i]
        \/ /\ streams'[d] = [array |-> Len(arrays[d]) + 1, len |-> streams[d].len + 1]
           /\ \A a \in 1..Len(arrays[d]) : arrays'[d][a] = arrays[d][a]
        BY <1>1, <1>5, AppendStreamView
  <2>6. CASE streams'[d].array = slice.array
    <3>1. /\ streams[d].array = slice.array
          /\ streams'[d].len = streams[d].len + 1
          /\ \A i \in 1..Len(v) : w[i] = IF i = streams[d].len + 1 THEN s ELSE v[i]
      <4>1. CASE streams'[d].array = Len(arrays[d]) + 1
            BY <2>4, <2>6, <4>1
      <4>2. CASE streams'[d].array # Len(arrays[d]) + 1
        <5>1. /\ streams'[d] = [array |-> streams[d].array, len |-> streams[d].len + 1]
              /\ \A i \in 1..Len(arrays[d][streams[d].array]) :
                    arrays'[d][streams[d].array][i] =
                       IF i = streams[d].len + 1 THEN s ELSE arrays[d][streams[d].array][i]
              BY <2>5, <4>2
        <5>2. streams[d].array = slice.array /\ streams'[d].len = streams[d].len + 1
              BY <2>6, <5>1
        <5> QED
            BY <5>1, <5>2
      <4> QED
          BY <4>1, <4>2
    <3>4. \A i \in 1..slice.len : i \in 1..Len(v)
          BY <1>3
    <3> DEFINE j == streams[d].len + 1
    <3>2. /\ j \in Nat
          /\ OneWritten(v, w, slice.len, s, j)
          /\ streams'[d].array = slice.array =>
                streams[d].array = slice.array /\ streams'[d].len = j /\ j = streams[d].len + 1
          /\ streams'[d].array # slice.array => j = 0
          /\ j > 0 => account[g].reached[s] = 0 /\ \A i \in 1..slice.len : v[i] # s
          BY <2>2, <2>3, <2>4, <2>6, <3>1, <3>4 DEF OneWritten
    <3> HIDE DEF j, v, w, d, slice
    <3>3. Balanced(w, streams'[d], live, slice, Cursor(g), account[g])
          BY <1>2, <1>3, <2>1, <3>2, BalancedWritten
    <3> QED
        BY <3>3 DEF d, v, w, slice
  <2>7. CASE streams'[d].array # slice.array
    <3>1. ASSUME NEW i \in 1..slice.len PROVE w[i] = v[i]
      <4>1. slice.array \in 1..Len(arrays[d])
            BY <1>3
      <4>2. slice.array # streams[d].array \/ arrays'[d][slice.array] = arrays[d][slice.array]
            BY <2>5, <2>7, <4>1
      <4> QED
          BY <2>5, <4>1, <4>2
    <3> DEFINE j == 0
    <3>2. /\ j \in Nat
          /\ OneWritten(v, w, slice.len, s, j)
          /\ streams'[d].array = slice.array =>
                streams[d].array = slice.array /\ streams'[d].len = j /\ j = streams[d].len + 1
          /\ streams'[d].array # slice.array => j = 0
          /\ j > 0 => account[g].reached[s] = 0 /\ \A i \in 1..slice.len : v[i] # s
          BY <2>7, <3>1 DEF OneWritten
    <3> HIDE DEF j, v, w, d, slice
    <3>3. Balanced(w, streams'[d], live, slice, Cursor(g), account[g])
          BY <1>2, <1>3, <2>1, <3>2, BalancedWritten
    <3> QED
        BY <3>3 DEF d, v, w, slice
  <2> QED
      BY <2>6, <2>7
<1> QED
    BY <1>4, <1>5

\* A removal of a stream that cannot be sent to, seen from a broadcast under
\* way: it costs its conversation's broadcasts one removal, the others nothing.
LEMMA RemovalCounted ==
    ASSUME CInv, NEW c \in IDs, NEW s \in Streams, s \notin live, RemoveStream(c, s),
           NEW g \in Goroutines, pc[g] \in {"send", "purge"}
    PROVE  /\ Balanced(arrays'[to[g]][walk[g].slice.array], streams'[to[g]], live,
                       walk[g].slice, Cursor(g), account'[g])
           /\ account'[g].reached = account[g].reached
<1> DEFINE d     == to[g]
           slice == walk[g].slice
           v     == arrays[d][slice.array]
           w     == arrays'[d][slice.array]
           acc   == account[g]
           acc2  == account'[g]
           S     == streams[d]
           S2    == streams'[d]
<1>1. /\ IInv /\ TypeOK /\ RegistryFilled
      /\ \A h \in Goroutines : account[h] \in Accounts
      /\ DOMAIN account = Goroutines
      BY DEF CInv, IInv, TypeOK, Accounts
<1>2. Balanced(v, S, live, slice, Cursor(g), acc)
      BY DEF CInv, Counted
<1>3. /\ d \in Conversations /\ d \in IDs /\ slice \in Slice /\ Cursor(g) \in Nat \ {0}
      /\ acc \in Accounts /\ S \in Slice /\ Once(arrays, d, S)
      /\ Filled(arrays, conversationID, d, slice)
      /\ Filled(arrays, conversationID, d, S)
      /\ Len(arrays[d]) \in Nat
      /\ \A i \in 1..slice.len :
            slice.array \in 1..Len(arrays[d]) /\ i \in 1..Len(arrays[d][slice.array])
      BY <1>1, UnderWay
<1>4. CASE d # c
  <2>1. arrays'[d] = arrays[d] /\ streams'[d] = streams[d]
        BY <1>1, <1>3, <1>4, RemoveStreamEffect
  <2>2. acc2 = acc
    <3>1. account' = account \/ CountRemoval(c)
          BY DEF RemoveStream
    <3> QED
        BY <1>4, <3>1 DEF CountRemoval
  <2> QED
      BY <1>2, <2>1, <2>2
<1>5. CASE d = c
  <2>1. \/ arrays' = arrays /\ streams' = streams /\ account' = account
        \/ \E f \in 1..S.len :
              /\ S.array > 0
              /\ arrays[d][S.array][f] = s
              /\ S2 = [array |-> S.array, len |-> S.len - 1]
              /\ \A a \in 1..Len(arrays[d]) : a # S.array => arrays'[d][a] = arrays[d][a]
              /\ \A i \in 1..Len(arrays[d][S.array]) :
                    arrays'[d][S.array][i] =
                       IF f <= i /\ i < S.len
                       THEN arrays[d][S.array][i + 1]
                       ELSE arrays[d][S.array][i]
              /\ CountRemoval(d)
        BY <1>1, <1>3, <1>5, RemoveStreamView
  <2>2. CASE arrays' = arrays /\ streams' = streams /\ account' = account
        BY <1>2, <2>2
  <2>3. CASE ~(arrays' = arrays /\ streams' = streams /\ account' = account)
    <3>1. PICK f \in 1..S.len :
              /\ S.array > 0
              /\ arrays[d][S.array][f] = s
              /\ S2 = [array |-> S.array, len |-> S.len - 1]
              /\ \A a \in 1..Len(arrays[d]) : a # S.array => arrays'[d][a] = arrays[d][a]
              /\ \A i \in 1..Len(arrays[d][S.array]) :
                    arrays'[d][S.array][i] =
                       IF f <= i /\ i < S.len
                       THEN arrays[d][S.array][i + 1]
                       ELSE arrays[d][S.array][i]
              /\ CountRemoval(d)
          BY <2>1, <2>3
    <3>2. acc2 = [acc EXCEPT !.removals = @ + 1]
          BY <3>1 DEF CountRemoval
    <3>3. /\ acc2 \in Accounts /\ acc2.audience = acc.audience /\ acc2.reached = acc.reached
          /\ acc2.removals = acc.removals + 1
          BY <1>3, <3>2 DEF Accounts
    <3>4. S2 \in Slice /\ S2.array = S.array /\ S2.len = S.len - 1
      <4>1. S.array \in Nat /\ S.len \in Nat /\ S.len - 1 \in Nat
        <5>1. S.array \in Nat /\ S.len \in Nat
              BY <1>3 DEF Slice
        <5> HIDE DEF S
        <5> QED
            BY <5>1
      <4> QED
          BY <3>1, <4>1 DEF Slice
    <3>5. ASSUME S.array = slice.array
          PROVE  v[f] \notin live /\ OneClosedUp(v, w, slice.len, f, S.len)
      <4>1. v[f] = s
            BY <3>1, <3>5
      <4>2. \A i \in 1..slice.len : i \in 1..Len(v)
            BY <1>3
      <4>3. \A i \in 1..Len(v) : w[i] = IF f <= i /\ i < S.len THEN v[i + 1] ELSE v[i]
            BY <3>1, <3>5
      <4> QED
          BY <4>1, <4>2, <4>3 DEF OneClosedUp
    <3>6. ASSUME S.array # slice.array, NEW i \in 1..slice.len PROVE w[i] = v[i]
          BY <1>3, <3>1, <3>6
    <3> HIDE DEF d, v, w, slice, acc, acc2, S, S2
    <3>7. Balanced(w, S2, live, slice, Cursor(g), acc2)
          BY <1>2, <1>3, <3>3, <3>4, <3>5, <3>6, BalancedClosed
    <3> QED
        BY <3>3, <3>7 DEF d, w, slice, acc, acc2, S2
  <2> QED
      BY <2>2, <2>3
<1> QED
    BY <1>4, <1>5

\* A removal puts nobody into an array.
LEMMA RemovalKnown ==
    ASSUME IInv, NEW c \in IDs, NEW s \in Streams, RemoveStream(c, s),
           NEW d \in Conversations, NEW x \in Streams, Written(arrays', d, x)
    PROVE  Written(arrays, d, x)
<1>1. /\ TypeOK /\ RegistryFilled /\ d \in IDs /\ Once(arrays, d, streams[d])
      /\ arrays[d] \in Seq(Seq(Elements)) /\ Len(arrays[d]) \in Nat
      BY DEF IInv, RegisteredOnce, IDs, RegistryFilled, Arrays
<1>2. CASE d # c
  <2>1. arrays'[d] = arrays[d]
        BY <1>1, <1>2, RemoveStreamEffect
  <2> QED
      BY <2>1 DEF Written
<1>3. CASE d = c
  <2> DEFINE S   == streams[d]
             old == arrays[d][S.array]
  <2>1. /\ Kept(arrays, arrays', conversationID) /\ arrays' \in Arrays
        BY <1>1, RemoveStreamEffect
  <2>2. \/ arrays' = arrays /\ streams' = streams /\ account' = account
        \/ \E f \in 1..S.len :
              /\ S.array > 0
              /\ old[f] = s
              /\ streams'[d] = [array |-> S.array, len |-> S.len - 1]
              /\ \A a \in 1..Len(arrays[d]) : a # S.array => arrays'[d][a] = arrays[d][a]
              /\ \A i \in 1..Len(old) :
                    arrays'[d][S.array][i] = IF f <= i /\ i < S.len THEN old[i + 1] ELSE old[i]
              /\ CountRemoval(d)
        BY <1>1, <1>3, RemoveStreamView
  <2>3. Len(arrays'[d]) = Len(arrays[d])
    <3>1. \/ arrays' = arrays
          \/ \E q : arrays' = [arrays EXCEPT ![d][S.array] = q]
          BY <1>3 DEF RemoveStream
    <3>2. ASSUME NEW q, arrays' = [arrays EXCEPT ![d][S.array] = q]
          PROVE  Len(arrays'[d]) = Len(arrays[d])
      <4>1. arrays'[d] = [arrays[d] EXCEPT ![S.array] = q]
            BY <1>1, <3>2 DEF RegistryFilled, Arrays
      <4>2. DOMAIN arrays'[d] = 1..Len(arrays[d])
            BY <1>1, <4>1
      <4>3. arrays'[d] \in Seq(Seq(Elements))
            BY <1>1, <2>1 DEF Arrays
      <4> QED
          BY <1>1, <4>2, <4>3, LenProperties
    <3> QED
        BY <3>1, <3>2
  <2>4. PICK a \in 1..Len(arrays[d]) : \E i \in 1..Len(arrays'[d][a]) : arrays'[d][a][i] = x
        BY <2>3 DEF Written
  <2>5. Len(arrays'[d][a]) = Len(arrays[d][a])
        BY <1>1, <2>1, <2>4 DEF Kept
  <2>6. PICK i \in 1..Len(arrays[d][a]) : arrays'[d][a][i] = x
        BY <2>4, <2>5
  <2>7. CASE arrays' = arrays
        BY <2>7 DEF Written
  <2>8. CASE arrays' # arrays
    <3>1. PICK f \in 1..S.len :
              /\ S.array > 0
              /\ \A b \in 1..Len(arrays[d]) : b # S.array => arrays'[d][b] = arrays[d][b]
              /\ \A j \in 1..Len(old) :
                    arrays'[d][S.array][j] = IF f <= j /\ j < S.len THEN old[j + 1] ELSE old[j]
          BY <2>2, <2>8
    <3>2. CASE a # S.array
          BY <2>4, <2>6, <3>1, <3>2 DEF Written
    <3>3. CASE a = S.array
      <4>1. /\ S.len \in Nat /\ S.len <= Len(old) /\ Len(old) \in Nat
        <5>1. S \in Slice /\ Filled(arrays, conversationID, d, S)
              BY <1>1 DEF TypeOK, RegistryFilled
        <5>2. S.len \in Nat /\ S.len <= Len(old)
              BY <3>1, <5>1 DEF Slice, Filled
        <5>3. old \in Seq(Elements)
              BY <1>1, <2>4, <3>3, ElementOfSeq
        <5> QED
            BY <5>2, <5>3, LenProperties
      <4>2. i \in 1..Len(old) /\ (i < S.len => i + 1 \in 1..Len(old))
        <5>1. i \in 1..Len(old)
              BY <2>6, <3>3
        <5> HIDE DEF S, old
        <5> QED
            BY <4>1, <5>1
      <4>3. \/ i < S.len /\ old[i + 1] = x
            \/ old[i] = x
            BY <2>6, <3>1, <3>3, <4>2
      <4> QED
          BY <2>4, <3>3, <4>2, <4>3 DEF Written
    <3> QED
        BY <3>2, <3>3
  <2> QED
      BY <2>7, <2>8
<1> QED
    BY <1>2, <1>3

\* A stream that has a conversation keeps it, and does not register again.
NamesStay ==
    \A s \in Streams : conversationID[s] # NoID =>
       /\ conversationID'[s] = conversationID[s]
       /\ pc'[s] = "register" => pc[s] = "register"

\* The arrays are as known as before when nobody is put into them.
LEMMA KnownStays ==
    ASSUME CInv, NamesStay,
           \A c \in Conversations, x \in Streams : Written(arrays', c, x) => Written(arrays, c, x)
    PROVE  ArraysKnown'
<1> SUFFICES ASSUME NEW c \in Conversations, NEW x \in Streams, Written(arrays', c, x)
             PROVE  conversationID'[x] = c /\ pc'[x] # "register"
    BY DEF ArraysKnown, Written
<1>1. conversationID[x] = c /\ pc[x] # "register"
      BY DEF CInv, ArraysKnown
<1>2. conversationID[x] # NoID
      BY <1>1, HubAssumption
<1> QED
    BY <1>1, <1>2 DEF NamesStay

\* A goroutine outside its broadcast has nothing to account for.
LEMMA IdleStays ==
    ASSUME CInv, NEW g \in Goroutines, pc[g] \notin {"send", "purge"},
           pc'[g] \notin {"send", "purge"}, walk'[g] = walk[g], account'[g] = account[g]
    PROVE  Counted(g)'
BY DEF CInv, Counted

\* A broadcast that others do nothing to, but for clients that leave.
LEMMA CountedStays ==
    ASSUME CInv, NamesStay, arrays' = arrays, streams' = streams, live' \subseteq live,
           NEW g \in Goroutines, pc'[g] = pc[g], to'[g] = to[g], walk'[g] = walk[g],
           account'[g] = account[g]
    PROVE  Counted(g)'
<1>1. CASE pc[g] \notin {"send", "purge"}
      BY <1>1, IdleStays
<1>2. CASE pc[g] \in {"send", "purge"}
  <2> DEFINE v   == arrays[to[g]][walk[g].slice.array]
             S   == streams[to[g]]
             sl  == walk[g].slice
             k   == Cursor(g)
             acc == account[g]
  <2>1. /\ acc \in Accounts /\ to[g] # NoID
        BY <1>2, UnderWay DEF CInv
  <2>2. /\ Balanced(v, S, live, sl, k, acc)
        /\ \A s \in Streams : acc.reached[s] > 0 => conversationID[s] = to[g] /\ pc[s] # "register"
        /\ pc[g] = "purge" => walk[g].target \notin live
        BY <1>2 DEF CInv, Counted
  <2>3. Balanced(v, S, live', sl, k, acc)
    <3> HIDE DEF v, S, sl, k, acc
    <3> QED
        BY <2>1, <2>2, BalancedLeft
  <2>4. \A s \in Streams : acc.reached[s] > 0 => conversationID'[s] = to[g] /\ pc'[s] # "register"
        BY <2>1, <2>2 DEF NamesStay
  <2>5. Cursor(g)' = Cursor(g)
        BY DEF Cursor
  <2> QED
      BY <1>2, <2>2, <2>3, <2>4, <2>5 DEF Counted
<1> QED
    BY <1>1, <1>2

\* A broadcast that others do nothing to, but for a removal.
LEMMA CountedRemoval ==
    ASSUME CInv, NamesStay, NEW c \in IDs, NEW s \in Streams, s \notin live, RemoveStream(c, s),
           live' = live, NEW g \in Goroutines, pc'[g] = pc[g], to'[g] = to[g], walk'[g] = walk[g]
    PROVE  Counted(g)'
<1>1. CASE pc[g] \notin {"send", "purge"}
  <2>1. account'[g] = account[g]
    <3>1. account' = account \/ CountRemoval(c)
          BY DEF RemoveStream
    <3> QED
        BY <1>1, <3>1 DEF CountRemoval
  <2> QED
      BY <1>1, <2>1, IdleStays
<1>2. CASE pc[g] \in {"send", "purge"}
  <2>1. to[g] # NoID
        BY <1>2, UnderWay DEF CInv
  <2>2. /\ Balanced(arrays'[to[g]][walk[g].slice.array], streams'[to[g]], live,
                    walk[g].slice, Cursor(g), account'[g])
        /\ account'[g].reached = account[g].reached
        BY <1>2, RemovalCounted
  <2>3. /\ \A t \in Streams : account[g].reached[t] > 0 => conversationID[t] = to[g] /\ pc[t] # "register"
        /\ pc[g] = "purge" => walk[g].target \notin live
        BY <1>2 DEF CInv, Counted
  <2>4. \A t \in Streams : account[g].reached[t] > 0 => conversationID'[t] = to[g] /\ pc'[t] # "register"
        BY <2>1, <2>3 DEF NamesStay
  <2>5. Cursor(g)' = Cursor(g)
        BY DEF Cursor
  <2> QED
      BY <1>2, <2>2, <2>3, <2>4, <2>5 DEF Counted
<1> QED
    BY <1>1, <1>2

\* Nobody has begun.
LEMMA InitCInv == Init => CInv
<1> SUFFICES ASSUME Init PROVE CInv
    OBVIOUS
<1>1. IInv
      BY InitIInv
<1>2. ASSUME NEW c \in Conversations, NEW x \in Streams PROVE ~Written(arrays, c, x)
      BY DEF Init, Written, IDs
<1>3. ASSUME NEW g \in Goroutines PROVE Counted(g)
      BY DEF Init, Counted
<1> QED
    BY <1>1, <1>2, <1>3 DEF CInv, ArraysKnown

\* The steps of goroutines that are not in a broadcast.
LEMMA RecvCounted ==
    ASSUME CInv, NEW s \in Streams, NEW c \in Inputs, Recv(s, c)
    PROVE  ArraysKnown' /\ \A g \in Goroutines : Counted(g)'
<1>1. /\ TypeOK /\ s \in Goroutines
      /\ pc[s] = "recv" /\ to' = [to EXCEPT ![s] = c]
      /\ arrays' = arrays /\ streams' = streams /\ live' = live
      /\ walk' = walk /\ account' = account
      BY DEF CInv, IInv, Recv, Take, registry, clients, history, Goroutines
<1>2. \/ conversationID[s] = NoID /\ conversationID' = [conversationID EXCEPT ![s] = c]
         /\ pc' = [pc EXCEPT ![s] = "register"]
      \/ conversationID[s] # NoID /\ conversationID' = conversationID
         /\ pc' = [pc EXCEPT ![s] = "save"]
      BY DEF Recv, Goto
<1>3. NamesStay
      BY <1>1, <1>2 DEF NamesStay, TypeOK, Goroutines
<1>4. ASSUME NEW g \in Goroutines PROVE Counted(g)'
  <2>1. CASE g = s
    <3>1. pc'[s] \in {"register", "save"}
          BY <1>1, <1>2 DEF TypeOK
    <3> QED
        BY <1>1, <2>1, <3>1, IdleStays
  <2>2. CASE g # s
    <3>1. pc'[g] = pc[g] /\ to'[g] = to[g]
          BY <1>1, <1>2, <2>2 DEF TypeOK
    <3> QED
        BY <1>1, <1>3, <3>1, CountedStays
  <2> QED
      BY <2>1, <2>2
<1>5. ArraysKnown'
      BY <1>1, <1>3, KnownStays
<1> QED
    BY <1>4, <1>5

\* SendMessages takes its message.
LEMMA SendMessagesCounted ==
    ASSUME CInv, NEW call \in Calls, NEW c \in Inputs, SendMessages(call, c)
    PROVE  ArraysKnown' /\ \A g \in Goroutines : Counted(g)'
<1>1. /\ TypeOK /\ call \in Goroutines /\ call \notin Streams
      /\ pc[call] = "recv" /\ pc' = [pc EXCEPT ![call] = "save"] /\ to' = [to EXCEPT ![call] = c]
      /\ arrays' = arrays /\ streams' = streams /\ live' = live
      /\ conversationID' = conversationID /\ walk' = walk /\ account' = account
      BY HubAssumption
         DEF CInv, IInv, SendMessages, Take, Goto, registry, clients, history, Goroutines
<1>2. NamesStay
      BY <1>1 DEF NamesStay, TypeOK, Goroutines
<1>3. ASSUME NEW g \in Goroutines PROVE Counted(g)'
  <2>1. CASE g = call
    <3>1. pc'[call] = "save"
          BY <1>1 DEF TypeOK
    <3> QED
        BY <1>1, <2>1, <3>1, IdleStays
  <2>2. CASE g # call
    <3>1. pc'[g] = pc[g] /\ to'[g] = to[g]
          BY <1>1, <2>2 DEF TypeOK
    <3> QED
        BY <1>1, <1>2, <3>1, CountedStays
  <2> QED
      BY <2>1, <2>2
<1>4. ArraysKnown'
      BY <1>1, <1>2, KnownStays
<1> QED
    BY <1>3, <1>4

\* A message that is not stored.
LEMMA SaveFailsCounted ==
    ASSUME CInv, NEW h \in Goroutines, SaveFails(h)
    PROVE  ArraysKnown' /\ \A g \in Goroutines : Counted(g)'
<1>1. /\ TypeOK /\ pc[h] = "save"
      /\ pc' = [pc EXCEPT ![h] = IF h \in Streams THEN "recv" ELSE "done"]
      /\ to' = [to EXCEPT ![h] = NoID]
      /\ arrays' = arrays /\ streams' = streams /\ live' = live
      /\ conversationID' = conversationID /\ walk' = walk /\ account' = account
      BY DEF CInv, IInv, SaveFails, Resume, Goto, registry, clients, history
<1>2. pc'[h] \in {"recv", "done"}
      BY <1>1 DEF TypeOK
<1>3. NamesStay
      BY <1>1 DEF NamesStay, TypeOK, Goroutines
<1>4. ASSUME NEW g \in Goroutines PROVE Counted(g)'
  <2>1. CASE g = h
        BY <1>1, <1>2, <2>1, IdleStays
  <2>2. CASE g # h
    <3>1. pc'[g] = pc[g] /\ to'[g] = to[g]
          BY <1>1, <2>2 DEF TypeOK
    <3> QED
        BY <1>1, <1>3, <3>1, CountedStays
  <2> QED
      BY <2>1, <2>2
<1>5. ArraysKnown'
      BY <1>1, <1>3, KnownStays
<1> QED
    BY <1>4, <1>5

\* The end of a client's context.
LEMMA ContextDoneCounted ==
    ASSUME CInv, NEW s \in Streams, ContextDone(s)
    PROVE  ArraysKnown' /\ \A g \in Goroutines : Counted(g)'
<1>1. /\ live' \subseteq live
      /\ arrays' = arrays /\ streams' = streams
      /\ conversationID' = conversationID /\ pc' = pc /\ to' = to
      /\ walk' = walk /\ account' = account
      BY DEF ContextDone, registry, message, history
<1>2. NamesStay
      BY <1>1 DEF NamesStay
<1>3. ASSUME NEW g \in Goroutines PROVE Counted(g)'
      BY <1>1, <1>2, CountedStays
<1>4. ArraysKnown'
      BY <1>1, <1>2, KnownStays
<1> QED
    BY <1>3, <1>4

\* The end of a broadcast forgets what it owed.
LEMMA BroadcastEndsCounted ==
    ASSUME CInv, NEW h \in Goroutines, BroadcastEnds(h)
    PROVE  ArraysKnown' /\ \A g \in Goroutines : Counted(g)'
<1>1. /\ TypeOK
      /\ pc' = [pc EXCEPT ![h] = IF h \in Streams THEN "recv" ELSE "done"]
      /\ to' = [to EXCEPT ![h] = NoID]
      /\ walk' = [walk EXCEPT ![h] = NoWalk]
      /\ account' = [account EXCEPT ![h] = NoAccount]
      /\ arrays' = arrays /\ streams' = streams /\ live' = live
      /\ conversationID' = conversationID
      BY DEF CInv, IInv, BroadcastEnds, Resume, Goto, registry, clients
<1>2. pc'[h] \in {"recv", "done"} /\ walk'[h] = NoWalk /\ account'[h] = NoAccount
      BY <1>1 DEF TypeOK
<1>3. NamesStay
      BY <1>1 DEF NamesStay, TypeOK, Goroutines
<1>4. ASSUME NEW g \in Goroutines PROVE Counted(g)'
  <2>1. CASE g = h
        BY <1>2, <2>1 DEF Counted
  <2>2. CASE g # h
    <3>1. pc'[g] = pc[g] /\ to'[g] = to[g] /\ walk'[g] = walk[g] /\ account'[g] = account[g]
          BY <1>1, <2>2 DEF TypeOK
    <3> QED
        BY <1>1, <1>3, <3>1, CountedStays
  <2> QED
      BY <2>1, <2>2
<1>5. ArraysKnown'
      BY <1>1, <1>3, KnownStays
<1> QED
    BY <1>4, <1>5

\* A registration: the stream that is put into an array has named the
\* conversation.
LEMMA RegisterCounted ==
    ASSUME CInv, NEW s \in Streams, Register(s)
    PROVE  ArraysKnown' /\ \A g \in Goroutines : Counted(g)'
<1> DEFINE c == conversationID[s]
<1>1. /\ IInv /\ TypeOK /\ RegistryFilled /\ s \in Goroutines /\ c \in IDs
      /\ pc[s] = "register" /\ pc' = [pc EXCEPT ![s] = "save"] /\ AppendStream(c, s)
      /\ live' = live /\ conversationID' = conversationID /\ to' = to
      /\ walk' = walk /\ account' = account
      BY DEF CInv, IInv, TypeOK, Register, Goto, clients, message, Goroutines
<1>2. NamesStay /\ pc'[s] = "save"
      BY <1>1 DEF NamesStay, TypeOK, Goroutines
<1>3. ASSUME NEW g \in Goroutines PROVE Counted(g)'
  <2>1. CASE pc[g] \notin {"send", "purge"}
    <3>1. pc'[g] \notin {"send", "purge"}
          BY <1>1, <1>2, <2>1 DEF TypeOK
    <3> QED
        BY <1>1, <2>1, <3>1, IdleStays
  <2>2. CASE pc[g] \in {"send", "purge"}
    <3>1. pc'[g] = pc[g] /\ to[g] # NoID
          BY <1>1, <2>2, UnderWay DEF TypeOK
    <3>2. Balanced(arrays'[to[g]][walk[g].slice.array], streams'[to[g]], live,
                   walk[g].slice, Cursor(g), account[g])
          BY <2>2, RegistrationCounted
    <3>3. /\ \A t \in Streams : account[g].reached[t] > 0 => conversationID[t] = to[g] /\ pc[t] # "register"
          /\ pc[g] = "purge" => walk[g].target \notin live
          BY <2>2 DEF CInv, Counted
    <3>4. \A t \in Streams : account[g].reached[t] > 0 => conversationID'[t] = to[g] /\ pc'[t] # "register"
          BY <1>2, <3>1, <3>3 DEF NamesStay
    <3>5. Cursor(g)' = Cursor(g)
          BY <1>1, <3>1 DEF Cursor
    <3> QED
        BY <1>1, <2>2, <3>1, <3>2, <3>3, <3>4, <3>5 DEF Counted
  <2> QED
      BY <2>1, <2>2
<1>4. ASSUME NEW d \in Conversations, NEW x \in Streams, Written(arrays', d, x)
      PROVE  conversationID[x] = d /\ pc'[x] # "register"
  <2>1. d \in IDs /\ d # NoID
        BY HubAssumption DEF IDs
  <2>2. CASE Written(arrays, d, x)
    <3>1. conversationID[x] = d /\ pc[x] # "register"
          BY <2>2 DEF CInv, ArraysKnown
    <3> QED
        BY <1>2, <2>1, <3>1 DEF NamesStay
  <2>3. CASE ~Written(arrays, d, x)
    <3>1. d = c
      <4>1. d # c => arrays'[d] = arrays[d]
        <5>1. Belongs(conversationID, c, s)
              BY DEF Belongs
        <5> QED
            BY <1>1, <2>1, <5>1, AppendStreamEffect
      <4> QED
          BY <1>4, <2>3, <4>1 DEF Written
    <3>2. x = s
          BY <1>1, <1>4, <2>3, <3>1, AppendStreamView
    <3> QED
        BY <1>2, <3>1, <3>2
  <2> QED
      BY <2>2, <2>3
<1>5. ArraysKnown'
      BY <1>1, <1>4 DEF ArraysKnown, Written
<1> QED
    BY <1>3, <1>5

\* The broadcast begins with the listeners that are registered.
LEMMA SaveCounted ==
    ASSUME CInv, NEW h \in Goroutines, Save(h)
    PROVE  ArraysKnown' /\ \A g \in Goroutines : Counted(g)'
<1> DEFINE S   == streams[to[h]]
           v   == arrays[to[h]][S.array]
           acc == account'[h]
<1>1. /\ IInv /\ TypeOK /\ pc[h] = "save" /\ to[h] # NoID
      /\ walk' = [walk EXCEPT ![h].slice = S]
      /\ account' = [account EXCEPT ![h].audience = Registered(to[h]) \cap live]
      /\ pc' = [pc EXCEPT ![h] = "send"]
      /\ arrays' = arrays /\ streams' = streams /\ live' = live
      /\ conversationID' = conversationID /\ to' = to
      BY DEF CInv, IInv, Save, BeginBroadcast, Goto, registry, clients
<1>2. to[h] \in Conversations /\ to[h] \in IDs /\ S \in Slice
      BY <1>1 DEF TypeOK, IDs
<1>3. NamesStay
      BY <1>1 DEF NamesStay, TypeOK, Goroutines
<1>4. walk[h] = NoWalk /\ account[h] = NoAccount
      BY <1>1 DEF CInv, Counted
<1>5. /\ pc'[h] = "send" /\ walk'[h].slice = S /\ walk'[h].next = 1
      /\ acc.audience = Registered(to[h]) \cap live
      /\ acc.reached = [s \in Streams |-> 0] /\ acc.removals = 0
  <2>1. walk'[h] = [NoWalk EXCEPT !.slice = S]
        BY <1>1, <1>4 DEF TypeOK
  <2>2. acc = [NoAccount EXCEPT !.audience = Registered(to[h]) \cap live]
        BY <1>1, <1>4 DEF TypeOK
  <2>3. walk'[h].slice = S /\ walk'[h].next = 1
        BY <2>1 DEF NoWalk
  <2> QED
      BY <1>1, <2>2, <2>3 DEF NoAccount, TypeOK
<1>6. acc \in Accounts
  <2>1. account[h] \in Accounts /\ live \in SUBSET Streams
        BY <1>1 DEF TypeOK, Accounts
  <2> QED
      BY <1>1, <2>1 DEF Accounts, TypeOK
<1>7. Balanced(v, S, live, S, 1, acc)
  <2>1. \A i, j \in 1..S.len : v[i] = v[j] => i = j
        BY <1>1, <1>2 DEF IInv, RegisteredOnce, Once
  <2>2. acc.audience \subseteq {v[i] : i \in 1..S.len}
        BY <1>5 DEF Registered, Element
  <2>3. (\A s \in Streams : acc.reached[s] = 0) /\ acc.removals = 0
        BY <1>5
  <2> HIDE DEF v, S, acc
  <2> QED
      BY <1>2, <1>6, <2>1, <2>2, <2>3, BalancedBegun
<1>8. ASSUME NEW g \in Goroutines PROVE Counted(g)'
  <2>1. CASE g = h
    <3>1. Cursor(h)' = 1
          BY <1>5 DEF Cursor
    <3> QED
        BY <1>1, <1>5, <1>7, <2>1, <3>1 DEF Counted
  <2>2. CASE g # h
    <3>1. pc'[g] = pc[g] /\ to'[g] = to[g] /\ walk'[g] = walk[g] /\ account'[g] = account[g]
          BY <1>1, <2>2 DEF TypeOK
    <3> QED
        BY <1>1, <1>3, <3>1, CountedStays
  <2> QED
      BY <2>1, <2>2
<1>9. ArraysKnown'
      BY <1>1, <1>3, KnownStays
<1> QED
    BY <1>8, <1>9

\* One turn of the loop.
LEMMA SendCounted ==
    ASSUME CInv, NEW h \in Goroutines, Send(h)
    PROVE  ArraysKnown' /\ \A g \in Goroutines : Counted(g)'
<1> DEFINE sl  == walk[h].slice
           k   == walk[h].next
           v   == arrays[to[h]][sl.array]
           s   == Element(to[h], walk[h].slice, walk[h].next)
           acc == account[h]
           S   == streams[to[h]]
<1>1. /\ IInv /\ TypeOK /\ pc[h] = "send" /\ k <= sl.len
      /\ arrays' = arrays /\ streams' = streams /\ live' = live
      /\ conversationID' = conversationID /\ to' = to
      BY DEF CInv, IInv, Send, registry, clients, message
<1>2. \/ /\ s \in live
         /\ account' = [account EXCEPT ![h].reached[s] = @ + 1]
         /\ walk' = [walk EXCEPT ![h].next = @ + 1]
         /\ pc' = pc
      \/ /\ s \notin live
         /\ walk' = [walk EXCEPT ![h].target = s]
         /\ pc' = [pc EXCEPT ![h] = "purge"]
         /\ account' = account
      BY DEF Send, Goto
<1>0. s = v[k]
      BY DEF Element
<1> HIDE DEF s
<1>3. NamesStay
      BY <1>1, <1>2 DEF NamesStay, TypeOK, Goroutines
<1>4. /\ to[h] \in Conversations /\ sl \in Slice /\ k \in Nat \ {0} /\ acc \in Accounts
      /\ S \in Slice
      /\ Filled(arrays, conversationID, to[h], sl)
      /\ \A i \in 1..sl.len :
            sl.array \in 1..Len(arrays[to[h]]) /\ i \in 1..Len(arrays[to[h]][sl.array])
      BY <1>1, UnderWay
<1>5. /\ Balanced(v, S, live, sl, k, acc)
      /\ \A t \in Streams : acc.reached[t] > 0 => conversationID[t] = to[h] /\ pc[t] # "register"
      BY <1>1 DEF CInv, Counted, Cursor
<1>6. k \in 1..sl.len /\ sl.array \in 1..Len(arrays[to[h]]) /\ k \in 1..Len(v)
  <2>1. k \in 1..sl.len
        BY <1>1, <1>4 DEF Slice
  <2> QED
      BY <1>4, <2>1
<1>7. s \in Streams /\ conversationID[s] = to[h] /\ pc[s] # "register"
  <2>1. Written(arrays, to[h], s)
        BY <1>0, <1>6 DEF Written
  <2>2. s \in Streams
    <3>1. sl.array > 0
          BY <1>6
    <3>2. Belongs(conversationID, to[h], arrays[to[h]][sl.array][k])
          BY <1>4, <1>6, <3>1 DEF Filled
    <3> QED
        BY <1>0, <3>2 DEF Belongs
  <2> QED
      BY <1>4, <2>1, <2>2 DEF CInv, ArraysKnown
<1>8. ASSUME NEW g \in Goroutines, g # h PROVE Counted(g)'
  <2>1. pc'[g] = pc[g] /\ to'[g] = to[g] /\ walk'[g] = walk[g] /\ account'[g] = account[g]
        BY <1>1, <1>2, <1>8 DEF TypeOK
  <2> QED
      BY <1>1, <1>3, <2>1, CountedStays
<1>9. CASE s \in live
  <2>1. /\ account' = [account EXCEPT ![h].reached[s] = @ + 1]
        /\ walk' = [walk EXCEPT ![h].next = @ + 1]
        /\ pc' = pc
        BY <1>2, <1>9
  <2> DEFINE acc2 == account'[h]
  <2>2. acc2 = [acc EXCEPT !.reached = [acc.reached EXCEPT ![s] = @ + 1]]
        BY <1>1, <2>1 DEF TypeOK
  <2>3. acc.reached \in [Streams -> Nat]
        BY <1>4 DEF Accounts
  <2>4. /\ acc2 \in Accounts /\ acc2.audience = acc.audience /\ acc2.removals = acc.removals
        /\ acc2.reached = [acc.reached EXCEPT ![s] = @ + 1]
    <3> DEFINE r == [acc.reached EXCEPT ![s] = @ + 1]
    <3>1. r \in [Streams -> Nat]
          BY <1>7, <2>3
    <3>2. acc2 = [acc EXCEPT !.reached = r]
          BY <2>2
    <3> HIDE DEF acc, acc2, r
    <3>3. /\ acc2 \in Accounts /\ acc2.audience = acc.audience /\ acc2.removals = acc.removals
          /\ acc2.reached = r
          BY <1>4, <3>1, <3>2 DEF Accounts
    <3> QED
        BY <3>3 DEF r
  <2>5. Balanced(v, S, live, sl, k + 1, acc2)
    <3> HIDE DEF v, S, sl, k, acc, acc2
    <3> QED
        BY <1>0, <1>1, <1>4, <1>5, <1>7, <2>4, BalancedSent
  <2>6. ASSUME NEW t \in Streams, acc2.reached[t] > 0
        PROVE  conversationID[t] = to[h] /\ pc[t] # "register"
    <3>1. t = s \/ acc.reached[t] > 0
          BY <2>3, <2>4, <2>6
    <3> QED
        BY <1>5, <1>7, <3>1
  <2>7. walk'[h].slice = sl /\ walk'[h].next = k + 1
        BY <1>1, <2>1 DEF TypeOK
  <2>8. Cursor(h)' = k + 1
        BY <1>1, <2>1, <2>7 DEF Cursor
  <2>9. Counted(h)'
        BY <1>1, <2>1, <2>5, <2>6, <2>7, <2>8 DEF Counted
  <2>10. ArraysKnown'
         BY <1>1, <1>3, KnownStays
  <2> QED
      BY <1>8, <2>9, <2>10
<1>10. CASE s \notin live
  <2>1. /\ walk' = [walk EXCEPT ![h].target = s]
        /\ pc' = [pc EXCEPT ![h] = "purge"]
        /\ account' = account
        BY <1>2, <1>10
  <2>2. Balanced(v, S, live, sl, k + 1, acc)
    <3>1. v[k] \notin live
          BY <1>0, <1>10
    <3> HIDE DEF v, S, sl, k, acc
    <3> QED
        BY <1>1, <1>4, <1>5, <3>1, BalancedPassed
  <2>3. pc'[h] = "purge" /\ walk'[h].slice = sl /\ walk'[h].next = k /\ walk'[h].target = s
        BY <1>1, <2>1 DEF TypeOK
  <2>4. Cursor(h)' = k + 1
        BY <2>3 DEF Cursor
  <2>5. \A t \in Streams : acc.reached[t] > 0 => conversationID[t] = to[h] /\ pc'[t] # "register"
        BY <1>3, <1>4, <1>5, HubAssumption DEF NamesStay
  <2>6. Counted(h)'
        BY <1>1, <1>10, <2>1, <2>2, <2>3, <2>4, <2>5 DEF Counted
  <2>7. ArraysKnown'
        BY <1>1, <1>3, KnownStays
  <2> QED
      BY <1>8, <2>6, <2>7
<1> QED
    BY <1>9, <1>10

\* A broadcast that removes the stream it could not send to goes on behind it.
LEMMA PurgeCounted ==
    ASSUME CInv, NEW h \in Goroutines, Purge(h)
    PROVE  ArraysKnown' /\ \A g \in Goroutines : Counted(g)'
<1> DEFINE w == walk[h]
<1>1. /\ IInv /\ TypeOK /\ pc[h] = "purge" /\ RemoveStream(to[h], w.target)
      /\ walk' = [walk EXCEPT ![h].next = @ + 1, ![h].target = Nil]
      /\ pc' = [pc EXCEPT ![h] = "send"]
      /\ live' = live /\ conversationID' = conversationID /\ to' = to
      BY DEF CInv, IInv, Purge, Goto, clients, message
<1>2. NamesStay
      BY <1>1 DEF NamesStay, TypeOK, Goroutines
<1>3. /\ to[h] \in Conversations /\ to[h] \in IDs /\ to[h] # NoID
      BY <1>1, UnderWay
<1>4. /\ w.target \in Streams /\ w.target \notin live
      /\ \A t \in Streams : account[h].reached[t] > 0 => conversationID[t] = to[h] /\ pc[t] # "register"
      BY <1>1 DEF CInv, IInv, Walking, Counted
<1>5. /\ Balanced(arrays'[to[h]][w.slice.array], streams'[to[h]], live, w.slice, Cursor(h), account'[h])
      /\ account'[h].reached = account[h].reached
      BY <1>1, <1>3, <1>4, RemovalCounted
<1>6. pc'[h] = "send" /\ walk'[h].slice = w.slice /\ walk'[h].next = w.next + 1
      BY <1>1 DEF TypeOK
<1>7. Cursor(h)' = Cursor(h)
      BY <1>1, <1>6 DEF Cursor
<1>8. \A t \in Streams : account[h].reached[t] > 0 => conversationID[t] = to[h] /\ pc'[t] # "register"
      BY <1>2, <1>3, <1>4 DEF NamesStay
<1>9. Counted(h)'
      BY <1>1, <1>5, <1>6, <1>7, <1>8 DEF Counted
<1>10. ASSUME NEW g \in Goroutines, g # h PROVE Counted(g)'
  <2>1. pc'[g] = pc[g] /\ to'[g] = to[g] /\ walk'[g] = walk[g]
        BY <1>1, <1>10 DEF TypeOK
  <2> QED
      BY <1>1, <1>2, <1>3, <1>4, <2>1, CountedRemoval
<1>11. ArraysKnown'
  <2>1. ASSUME NEW d \in Conversations, NEW x \in Streams, Written(arrays', d, x)
        PROVE  Written(arrays, d, x)
        BY <1>1, <1>3, <1>4, <2>1, RemovalKnown
  <2> QED
      BY <1>2, <2>1, KnownStays
<1> QED
    BY <1>9, <1>10, <1>11

\* StreamMessages that returns removes its own stream, which is not live.
LEMMA StreamMessagesReturnsCounted ==
    ASSUME CInv, NEW s \in Streams, StreamMessagesReturns(s)
    PROVE  ArraysKnown' /\ \A g \in Goroutines : Counted(g)'
<1> DEFINE c == argument[s]
<1>1. /\ IInv /\ c \in IDs /\ s \notin live /\ RemoveStream(c, s)
      /\ live' = live /\ conversationID' = conversationID /\ pc' = pc /\ to' = to /\ walk' = walk
      BY DEF CInv, IInv, TypeOK, StreamMessagesReturns, message
<1>2. NamesStay
      BY <1>1 DEF NamesStay
<1>3. ASSUME NEW g \in Goroutines PROVE Counted(g)'
      BY <1>1, <1>2, CountedRemoval
<1>4. ArraysKnown'
  <2>1. ASSUME NEW d \in Conversations, NEW x \in Streams, Written(arrays', d, x)
        PROVE  Written(arrays, d, x)
        BY <1>1, <2>1, RemovalKnown
  <2> QED
      BY <1>2, <2>1, KnownStays
<1> QED
    BY <1>3, <1>4

\* StreamMessages that reads does nothing to any broadcast.
LEMMA StreamMessagesWakesCounted ==
    ASSUME CInv, NEW s \in Streams, StreamMessagesWakes(s)
    PROVE  ArraysKnown' /\ \A g \in Goroutines : Counted(g)'
<1>1. /\ arrays' = arrays /\ streams' = streams /\ live' \subseteq live
      /\ conversationID' = conversationID /\ pc' = pc /\ to' = to
      /\ walk' = walk /\ account' = account
      BY DEF StreamMessagesWakes, ReadConversation, registry, message, history
<1>2. NamesStay
      BY <1>1 DEF NamesStay
<1>3. ASSUME NEW g \in Goroutines PROVE Counted(g)'
      BY <1>1, <1>2, CountedStays
<1>4. ArraysKnown'
      BY <1>1, <1>2, KnownStays
<1> QED
    BY <1>3, <1>4

\* The strengthened invariant is inductive.
LEMMA NextCInv == CInv /\ [Next]_vars => CInv'
<1> SUFFICES ASSUME CInv, [Next]_vars PROVE CInv'
    OBVIOUS
<1>1. IInv'
      BY NextIInv DEF CInv
<1> DEFINE Goal == ArraysKnown' /\ \A g \in Goroutines : Counted(g)'
<1>2. ASSUME NEW s \in Streams, NEW c \in Inputs, Recv(s, c) PROVE Goal
      BY <1>2, RecvCounted
<1>3. ASSUME NEW s \in Streams, Register(s) PROVE Goal
      BY <1>3, RegisterCounted
<1>4. ASSUME NEW s \in Streams, ContextDone(s) PROVE Goal
      BY <1>4, ContextDoneCounted
<1>5. ASSUME NEW s \in Streams, StreamMessagesReturns(s) PROVE Goal
      BY <1>5, StreamMessagesReturnsCounted
<1>14. ASSUME NEW s \in Streams, StreamMessagesWakes(s) PROVE Goal
       BY <1>14, StreamMessagesWakesCounted
<1>6. ASSUME NEW call \in Calls, NEW c \in Inputs, SendMessages(call, c) PROVE Goal
      BY <1>6, SendMessagesCounted
<1>7. ASSUME NEW g \in Goroutines, Save(g) PROVE Goal
      BY <1>7, SaveCounted
<1>8. ASSUME NEW g \in Goroutines, SaveFails(g) PROVE Goal
      BY <1>8, SaveFailsCounted
<1>9. ASSUME NEW g \in Goroutines, Send(g) PROVE Goal
      BY <1>9, SendCounted
<1>10. ASSUME NEW g \in Goroutines, Purge(g) PROVE Goal
       BY <1>10, PurgeCounted
<1>11. ASSUME NEW g \in Goroutines, BroadcastEnds(g) PROVE Goal
       BY <1>11, BroadcastEndsCounted
<1>12. ASSUME UNCHANGED vars PROVE Goal
  <2>1. /\ arrays' = arrays /\ streams' = streams /\ live' \subseteq live
        /\ conversationID' = conversationID /\ pc' = pc /\ to' = to
        /\ walk' = walk /\ account' = account
        BY <1>12 DEF vars, registry, clients, message, history
  <2>2. NamesStay
        BY <2>1 DEF NamesStay
  <2>3. ASSUME NEW g \in Goroutines PROVE Counted(g)'
        BY <2>1, <2>2, CountedStays
  <2>4. ArraysKnown'
        BY <2>1, <2>2, KnownStays
  <2> QED
      BY <2>3, <2>4
<1> HIDE DEF Goal
<1>13. Goal
       BY <1>2, <1>3, <1>4, <1>5, <1>6, <1>7, <1>8, <1>9, <1>10, <1>11, <1>12,
          <1>14 DEF Next
<1> QED
    BY <1>1, <1>13 DEF Goal, CInv

\* However removals close up the arrays that broadcasts walk through without
\* the lock, and however appends fill them again, a broadcast that is over has
\* missed no more of its listeners, and sent to none more often beyond the
\* first time, than streams were removed from its conversation under way.
THEOREM Misses == Spec => []MissesBounded
<1>1. CInv => MissesBounded
  <2> SUFFICES ASSUME CInv, NEW g \in Goroutines, BroadcastOver(g)
               PROVE  /\ Cardinality({s \in account[g].audience \cap live : account[g].reached[s] = 0})
                            <= account[g].removals
                      /\ \A s \in Streams : account[g].reached[s] <= 1 + account[g].removals
      BY DEF MissesBounded
  <2> DEFINE sl  == walk[g].slice
             v   == arrays[to[g]][sl.array]
             k   == walk[g].next
             acc == account[g]
             S   == streams[to[g]]
  <2>1. pc[g] = "send" /\ k > sl.len
        BY DEF BroadcastOver
  <2>2. Balanced(v, S, live, sl, k, acc)
        BY <2>1 DEF CInv, Counted, Cursor
  <2>3. sl \in Slice /\ k \in Nat /\ acc \in Accounts
        BY <2>1, UnderWay DEF CInv
  <2> HIDE DEF sl, v, k, acc, S
  <2>4. k..sl.len = {}
        BY <2>1, <2>3 DEF Slice
  <2>5. Pending(v, S, sl, k) = {} /\ \A s : Places(v, sl, k, s) = {}
        BY <2>4 DEF Pending, Places
  <2>6. Missed(v, S, live, sl, k, acc) = {s \in acc.audience \cap live : acc.reached[s] = 0}
        BY <2>5 DEF Missed
  <2>7. Cardinality({s \in acc.audience \cap live : acc.reached[s] = 0}) <= acc.removals
        BY <2>2, <2>6 DEF Balanced
  <2>8. ASSUME NEW s \in Streams PROVE acc.reached[s] <= 1 + acc.removals
    <3>1. acc.reached[s] + Cardinality({}) <= 1 + acc.removals /\ acc.reached[s] \in Nat
          BY <2>2, <2>3, <2>5 DEF Balanced, Accounts
    <3>2. Cardinality({}) = 0
          BY FS_EmptySet
    <3> QED
        BY <3>1, <3>2
  <2> QED
      BY <2>7, <2>8 DEF acc
<1> QED
    BY <1>1, InitCInv, NextCInv, PTL DEF Spec
=============================================================================
