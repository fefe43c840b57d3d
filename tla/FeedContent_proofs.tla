------------------------- MODULE FeedContent_proofs -------------------------
(***************************************************************************)
(* The safety properties of FeedContent hold for any number of contents,   *)
(* calls, rounds of the cleaner and faults.                                *)
(***************************************************************************)
EXTENDS FeedContent, TLAPS

Creating == {"upload", "createRef", "create"}
Deleting == {"loadRef", "deleteFile", "deleteRef", "delete"}
Labels   == {"idle", "load"} \cup Creating \cup Deleting

Busy(g, c) == pc[g] # "idle" /\ on[g] = c

Kept(c) == c \notin Plain \cup blamed \cup silent

\* What goroutine g knows of its content.  The one that creates a content is
\* alone with it.
Working(g) ==
    /\ pc[g] \in Creating =>
          /\ row[on[g]] = "none"
          /\ \A h \in Goroutines : Busy(h, on[g]) => h = g
    /\ pc[g] = "upload" => on[g] \notin Plain /\ ref[on[g]] = "none" /\ ~file[on[g]]
    /\ pc[g] = "createRef" =>
          /\ on[g] \notin Plain
          /\ ref[on[g]] = "none"
          /\ file[on[g]] \/ on[g] \in silent
    /\ pc[g] = "create" /\ on[g] \notin Plain =>
          /\ ref[on[g]] = "active"
          /\ file[on[g]] \/ on[g] \in silent
    /\ pc[g] \in Deleting \cup {"load"} => row[on[g]] # "none"
    /\ pc[g] \in Deleting => on[g] \in unwanted
    /\ pc[g] \in {"loadRef", "deleteFile", "deleteRef"} => on[g] \notin Plain
    /\ pc[g] = "deleteRef" => ~file[on[g]]
    /\ pc[g] = "delete" /\ Kept(on[g]) => ~file[on[g]]

\* The media of content c.  A file that is gone before its media row is on the
\* mind of the goroutine that deleted it.
Media(c) ==
    /\ c \in Plain => ref[c] = "none" /\ ~file[c]
    /\ row[c] = "none" /\ c \notin blamed /\ (\A h \in Goroutines : ~Busy(h, c)) =>
          ref[c] = "none" /\ ~file[c]
    /\ row[c] = "present" /\ c \notin Plain \cup unwanted \cup silent =>
          ref[c] = "active" /\ file[c]
    /\ ref[c] = "deleted" => ~file[c]
    /\ Kept(c) /\ row[c] # "none" => ref[c] # "none"
    /\ Kept(c) /\ row[c] = "deleted" => ~file[c]
    /\ Kept(c) /\ ref[c] = "active" /\ ~file[c] =>
          \E h \in Goroutines : pc[h] = "deleteRef" /\ on[h] = c

IInv ==
    /\ TypeOK
    /\ \A g \in Goroutines : Working(g)
    /\ \A c \in Contents : Media(c)

-----------------------------------------------------------------------------

\* There is no content, and nobody works.
LEMMA InitIInv == Init => IInv
<1> SUFFICES ASSUME Init PROVE IInv
    OBVIOUS
<1>1. TypeOK
      BY FeedAssumption DEF Init, TypeOK
<1>2. ASSUME NEW g \in Goroutines PROVE Working(g)
      BY <1>2 DEF Init, Working, Creating, Deleting
<1>3. ASSUME NEW c \in Contents PROVE Media(c)
      BY <1>3 DEF Init, Media
<1> QED
    BY <1>1, <1>2, <1>3 DEF IInv

\* Nothing of content d has changed.
Same(d) ==
    /\ row'[d] = row[d] /\ ref'[d] = ref[d] /\ file'[d] = file[d]
    /\ d \in unwanted' <=> d \in unwanted
    /\ d \in silent' <=> d \in silent
    /\ d \in blamed' <=> d \in blamed

\* A goroutine that works on one content leaves the others and those who work on
\* them as they were.
LEMMA Frame ==
    ASSUME IInv, NEW g \in Goroutines, NEW c \in Contents, NEW label \in Labels,
           \/ on' = on /\ on[g] = c /\ pc[g] # "idle"
           \/ on' = [on EXCEPT ![g] = c] /\ pc[g] = "idle",
           pc' = [pc EXCEPT ![g] = label],
           \A d \in Contents \ {c} : Same(d),
           TypeOK',
           Media(c)',
           \A h \in Goroutines : Busy(h, c)' => Working(h)'
    PROVE  IInv'
<1>1. /\ pc \in [Goroutines -> Labels] /\ on \in [Goroutines -> Contents]
      /\ pc' \in [Goroutines -> Labels] /\ on' \in [Goroutines -> Contents]
      BY DEF IInv, TypeOK, Labels, Creating, Deleting
<1>2. ASSUME NEW h \in Goroutines, h # g PROVE pc'[h] = pc[h] /\ on'[h] = on[h]
      BY <1>1, <1>2
<1>3. ASSUME NEW h \in Goroutines, NEW d \in Contents, d # c
      PROVE  Busy(h, d)' <=> Busy(h, d)
      BY <1>1, <1>3 DEF Busy
<1>4. ASSUME NEW h \in Goroutines PROVE Working(h)'
  <2>1. CASE Busy(h, c)'
        BY <2>1
  <2>2. CASE pc'[h] = "idle"
        BY <2>2 DEF Working, Creating, Deleting
  <2>3. CASE pc'[h] # "idle" /\ on'[h] # c
    <3>1. h # g
          BY <1>1, <2>3
    <3>2. pc'[h] = pc[h] /\ on'[h] = on[h] /\ on[h] \in Contents \ {c} /\ Same(on[h])
          BY <1>1, <1>2, <2>3, <3>1
    <3>3. Working(h)
          BY DEF IInv
    <3>4. ASSUME NEW d \in Contents, d = on[h], NEW k \in Goroutines
          PROVE  Busy(k, d)' <=> Busy(k, d)
          BY <1>3, <3>2, <3>4
    <3>5. ASSUME NEW k \in Goroutines
          PROVE  (pc'[k] # "idle" /\ on'[k] = on'[h]) <=> (pc[k] # "idle" /\ on[k] = on[h])
          BY <3>2, <3>4 DEF Busy
    <3> QED
        BY <3>2, <3>3, <3>5 DEF Working, Same, Kept, Busy
  <2> QED
      BY <2>1, <2>2, <2>3 DEF Busy
<1>5. ASSUME NEW d \in Contents, d # c PROVE Media(d)'
  <2>1. Media(d) /\ Same(d)
        BY <1>5 DEF IInv
  <2>2. \A h \in Goroutines : Busy(h, d)' <=> Busy(h, d)
        BY <1>3, <1>5
  <2>3. ASSUME NEW h \in Goroutines, pc[h] = "deleteRef", on[h] = d
        PROVE  pc'[h] = "deleteRef" /\ on'[h] = d
    <3>1. h # g
          BY <1>5, <2>3
    <3> QED
        BY <1>2, <2>3, <3>1
  <2> QED
      BY <2>1, <2>2, <2>3 DEF Media, Same, Kept
<1> QED
    BY <1>4, <1>5 DEF IInv

-----------------------------------------------------------------------------
(* CreateContent *)

Upload(g) == UploadFile(g) \/ UploadFileLost(g) \/ UploadFileFails(g)
NewRef(g) == CreateMediaRef(g) \/ CreateMediaRefFails(g)
NewRow(g) == CreateRow(g) \/ CreateRowFails(g)

\* A goroutine that creates a content is alone with it, so its own view and the
\* content's are all there is to show.
LEMMA CreatorFrame ==
    ASSUME IInv, NEW g \in Goroutines, NEW c \in Contents, on[g] = c, pc[g] \in Creating,
           on' = on, NEW label \in Labels, pc' = [pc EXCEPT ![g] = label],
           \A d \in Contents \ {c} : Same(d),
           TypeOK', Media(c)', Working(g)'
    PROVE  IInv'
<1>1. pc[g] # "idle"
      BY DEF Creating
<1>2. Working(g)
      BY DEF IInv
<1>3. ASSUME NEW h \in Goroutines, Busy(h, c)' PROVE h = g
      BY <1>2, <1>3 DEF Working, Busy, IInv, TypeOK
<1>4. \A h \in Goroutines : Busy(h, c)' => Working(h)'
      BY <1>3
<1> QED
    BY <1>1, <1>4, Frame

\* A file that was not stored although the upload succeeded is on silent.
LEMMA UploadKeeps ==
    ASSUME IInv, NEW g \in Goroutines, NEW c \in Contents, on[g] = c, Upload(g)
    PROVE  IInv'
<1>1. /\ pc[g] = "upload"
      /\ pc \in [Goroutines -> Labels] /\ on \in [Goroutines -> Contents]
      /\ Working(g) /\ Media(c)
      BY DEF Upload, UploadFile, UploadFileLost, UploadFileFails, At, IInv, TypeOK, Labels,
             Creating, Deleting
<1>2. PICK label \in {"createRef", "idle"} :
         pc' = [pc EXCEPT ![g] = label] /\ on' = on /\ expired' = expired
      BY DEF Upload, UploadFile, UploadFileLost, UploadFileFails, Goto, Return
<1>3. /\ row' = row /\ ref' = ref /\ unwanted' = unwanted
      /\ \E there \in BOOLEAN : file' = [file EXCEPT ![c] = there]
      /\ faults' \in 0..MaxFaults
      /\ \/ /\ label = "createRef" /\ blamed' = blamed
            /\ \/ file'[c] /\ silent' = silent
               \/ silent' = silent \cup {c}
         \/ label = "idle" /\ blamed' = blamed \cup {c} /\ silent' = silent
  <2>1. CASE UploadFile(g)
        BY <1>1, <1>2, <2>1 DEF UploadFile, Goto, history, IInv, TypeOK
  <2>2. CASE UploadFileLost(g)
    <3>1. file = [file EXCEPT ![c] = file[c]] /\ file[c] \in BOOLEAN
          BY DEF IInv, TypeOK
    <3>2. label = "createRef" /\ UNCHANGED <<row, ref, file, unwanted, blamed>>
          BY <1>1, <1>2, <2>2 DEF UploadFileLost, Goto, store
    <3>3. \E there \in BOOLEAN : file' = [file EXCEPT ![c] = there]
          BY <3>1, <3>2
    <3>4. silent' = silent \cup {c} /\ faults' \in 0..MaxFaults
          BY <2>2, FeedAssumption DEF UploadFileLost, Fault, IInv, TypeOK
    <3> QED
        BY <3>2, <3>3, <3>4
  <2>3. CASE UploadFileFails(g)
    <3>1. label = "idle" /\ UNCHANGED <<row, ref, unwanted, silent>>
          BY <1>1, <1>2, <2>3 DEF UploadFileFails, Goto, Return, Blame
    <3>2. \E there \in BOOLEAN : file' = [file EXCEPT ![c] = there]
          BY <2>3 DEF UploadFileFails
    <3>3. blamed' = blamed \cup {c} /\ faults' \in 0..MaxFaults
          BY <2>3, FeedAssumption DEF UploadFileFails, Blame, Fault, IInv, TypeOK
    <3> QED
        BY <3>1, <3>2, <3>3
  <2> QED
      BY <2>1, <2>2, <2>3 DEF Upload
<1>4. TypeOK'
      BY <1>1, <1>2, <1>3 DEF IInv, TypeOK
<1>5. \A d \in Contents \ {c} : Same(d)
      BY <1>1, <1>3 DEF Same, IInv, TypeOK
<1>6. Working(g)' /\ Media(c)'
  <2>1. file' \in [Contents -> BOOLEAN] /\ pc'[g] = label /\ on'[g] = c
        BY <1>1, <1>2, <1>4 DEF TypeOK
  <2>2. \A h \in Goroutines : pc'[h] # "idle" /\ on'[h] = c => h = g
        BY <1>1, <1>2 DEF Working, Busy, Creating
  <2>3. row[c] = "none" /\ ref[c] = "none" /\ c \notin Plain
        BY <1>1 DEF Working, Creating
  <2>4. Working(g)'
        BY <1>3, <2>1, <2>2, <2>3 DEF Working, Busy, Creating, Deleting
  <2>5. label = "createRef" => Busy(g, c)'
        BY <2>1 DEF Busy
  <2>6. Media(c)'
        BY <1>1, <1>3, <2>3, <2>5 DEF Media, Kept
  <2> QED
      BY <2>4, <2>6
<1> QED
    BY <1>1, <1>2, <1>4, <1>5, <1>6, CreatorFrame DEF Creating, Labels

\* The media row is stored and the content row comes next, or a failure leaves it an orphan.
LEMMA NewRefKeeps ==
    ASSUME IInv, NEW g \in Goroutines, NEW c \in Contents, on[g] = c, NewRef(g)
    PROVE  IInv'
<1>1. /\ pc[g] = "createRef"
      /\ pc \in [Goroutines -> Labels] /\ on \in [Goroutines -> Contents]
      /\ Working(g) /\ Media(c)
      BY DEF NewRef, CreateMediaRef, CreateMediaRefFails, At, IInv, TypeOK, Labels,
             Creating, Deleting
<1>2. PICK label \in {"create", "idle"} :
         pc' = [pc EXCEPT ![g] = label] /\ on' = on /\ expired' = expired
      BY DEF NewRef, CreateMediaRef, CreateMediaRefFails, Goto, Return
<1>3. /\ row' = row /\ file' = file /\ unwanted' = unwanted /\ silent' = silent
      /\ ref' = ref \/ ref' = [ref EXCEPT ![c] = "active"]
      /\ faults' \in 0..MaxFaults
      /\ \/ label = "create" /\ ref'[c] = "active" /\ blamed' = blamed
         \/ label = "idle" /\ blamed' = blamed \cup {c}
  <2>1. CASE CreateMediaRef(g)
        BY <1>1, <1>2, <2>1 DEF CreateMediaRef, Goto, history, IInv, TypeOK
  <2>2. CASE CreateMediaRefFails(g)
        BY <1>1, <1>2, <2>2, FeedAssumption
           DEF CreateMediaRefFails, Goto, Return, Fault, Blame, IInv, TypeOK
  <2> QED
      BY <2>1, <2>2 DEF NewRef
<1>4. TypeOK'
      BY <1>1, <1>2, <1>3 DEF IInv, TypeOK
<1>5. \A d \in Contents \ {c} : Same(d)
      BY <1>1, <1>3 DEF Same, IInv, TypeOK
<1>6. Working(g)' /\ Media(c)'
  <2>1. pc'[g] = label /\ on'[g] = c
        BY <1>1, <1>2
  <2>2. \A h \in Goroutines : pc'[h] # "idle" /\ on'[h] = c => h = g
        BY <1>1, <1>2 DEF Working, Busy, Creating
  <2>3. row[c] = "none" /\ ref[c] = "none" /\ c \notin Plain /\ (file[c] \/ c \in silent)
        BY <1>1 DEF Working, Creating
  <2>4. Working(g)'
        BY <1>3, <2>1, <2>2, <2>3 DEF Working, Busy, Creating, Deleting
  <2>5. label = "create" => Busy(g, c)'
        BY <2>1 DEF Busy
  <2>6. ref'[c] \in {"none", "active"}
        BY <1>3, <2>3, <1>4 DEF TypeOK, IInv
  <2>7. Media(c)'
        BY <1>3, <2>3, <2>5, <2>6 DEF Media, Kept
  <2> QED
      BY <2>4, <2>7
<1> QED
    BY <1>1, <1>2, <1>4, <1>5, <1>6, CreatorFrame DEF Creating, Labels

\* The content row that ends a creation, or the failure that leaves its media alone.
LEMMA NewRowKeeps ==
    ASSUME IInv, NEW g \in Goroutines, NEW c \in Contents, on[g] = c, NewRow(g)
    PROVE  IInv'
<1>1. /\ pc[g] = "create"
      /\ pc \in [Goroutines -> Labels] /\ on \in [Goroutines -> Contents]
      /\ Working(g) /\ Media(c)
      BY DEF NewRow, CreateRow, CreateRowFails, At, IInv, TypeOK, Labels, Creating, Deleting
<1>2. pc' = [pc EXCEPT ![g] = "idle"] /\ on' = on /\ expired' = expired
      BY DEF NewRow, CreateRow, CreateRowFails, Goto, Return
<1>3. /\ ref' = ref /\ file' = file /\ unwanted' = unwanted /\ silent' = silent
      /\ row' = row \/ row' = [row EXCEPT ![c] = "present"]
      /\ faults' \in 0..MaxFaults
      /\ \/ row'[c] = "present" /\ blamed' = blamed
         \/ blamed' = blamed \cup {c}
  <2>1. CASE CreateRow(g)
        BY <1>1, <2>1 DEF CreateRow, history, IInv, TypeOK
  <2>2. CASE CreateRowFails(g)
        BY <1>1, <2>2, FeedAssumption DEF CreateRowFails, Fault, Blame, IInv, TypeOK
  <2> QED
      BY <2>1, <2>2 DEF NewRow
<1>4. TypeOK'
      BY <1>1, <1>2, <1>3 DEF IInv, TypeOK
<1>5. \A d \in Contents \ {c} : Same(d)
      BY <1>1, <1>3 DEF Same, IInv, TypeOK
<1>6. Working(g)' /\ Media(c)'
  <2>1. pc'[g] = "idle"
        BY <1>1, <1>2
  <2>2. /\ row'[c] \in {"none", "present"}
        /\ c \notin Plain => ref[c] = "active" /\ (file[c] \/ c \in silent)
        BY <1>1, <1>3, <1>4 DEF Working, Creating, IInv, TypeOK
  <2>3. Working(g)'
        BY <2>1 DEF Working, Creating, Deleting
  <2>4. Media(c)'
        BY <1>1, <1>3, <2>2 DEF Media, Kept
  <2> QED
      BY <2>3, <2>4
<1> QED
    BY <1>1, <1>2, <1>4, <1>5, <1>6, CreatorFrame DEF Creating, Labels

\* Only what nobody has used or works on is created.
LEMMA CreateKeeps ==
    ASSUME IInv, NEW g \in Goroutines, NEW c \in Contents, CreateContent(g, c), expired' = expired
    PROVE  IInv'
<1>1. /\ pc[g] = "idle" /\ row[c] = "none" /\ ref[c] = "none" /\ ~file[c]
      /\ \A h \in Goroutines : pc[h] # "idle" => on[h] # c
      /\ UNCHANGED <<row, ref, file, faults, unwanted, silent, blamed>>
      /\ pc \in [Goroutines -> Labels] /\ on \in [Goroutines -> Contents]
      /\ Media(c)
      BY DEF CreateContent, At, store, history, IInv, TypeOK, Labels, Creating, Deleting
<1>2. PICK label \in {"create", "upload"} :
         /\ pc' = [pc EXCEPT ![g] = label] /\ on' = [on EXCEPT ![g] = c]
         /\ label = "create" <=> c \in Plain
      BY DEF CreateContent, Begin
<1>3. TypeOK'
      BY <1>1, <1>2 DEF IInv, TypeOK
<1>4. \A d \in Contents \ {c} : Same(d)
      BY <1>1 DEF Same
<1>5. Media(c)'
      BY <1>1 DEF Media, Busy, Kept
<1>6. ASSUME NEW h \in Goroutines, Busy(h, c)' PROVE Working(h)'
  <2>1. \A k \in Goroutines : pc'[k] # "idle" /\ on'[k] = c => k = g
        BY <1>1, <1>2
  <2>2. h = g /\ pc'[g] = label /\ on'[g] = c
        BY <1>1, <1>2, <1>6, <2>1 DEF Busy
  <2> QED
      BY <1>1, <1>2, <2>1, <2>2 DEF Working, Busy, Creating, Deleting
<1> QED
    BY <1>1, <1>2, <1>3, <1>4, <1>5, <1>6, Frame DEF Labels, Creating

-----------------------------------------------------------------------------
(* DeleteContent *)

Load(g)       == GetContentByID(g) \/ GetContentByIDFails(g)
FindRef(g)    == LoadRef(g) \/ LoadRefFails(g)
DropFile(g)   == DeleteFile(g) \/ DeleteFileFails(g)
DropRef(g)    == DeleteRef(g) \/ DeleteRefFails(g)
DropRow(g)    == DeleteRow(g) \/ DeleteRowFails(g)

\* Several goroutines may delete a content, but none creates it any more.
LEMMA DeleterFrame ==
    ASSUME IInv, NEW g \in Goroutines, NEW c \in Contents, on[g] = c,
           pc[g] \in Deleting \cup {"load"},
           on' = on, NEW label \in Labels, pc' = [pc EXCEPT ![g] = label],
           \A d \in Contents \ {c} : Same(d),
           TypeOK', Media(c)', Working(g)',
           row'[c] # "none", unwanted \subseteq unwanted', file'[c] => file[c],
           Kept(c)' => Kept(c)
    PROVE  IInv'
<1>1. Working(g) /\ pc[g] # "idle"
      BY DEF IInv, Deleting
<1>2. ASSUME NEW h \in Goroutines, Busy(h, c)' PROVE Working(h)'
  <2>1. CASE h = g
        BY <2>1
  <2>2. CASE h # g
    <3>1. pc'[h] = pc[h] /\ on'[h] = on[h] /\ on[h] = c /\ pc[h] # "idle"
          BY <1>2, <2>2 DEF Busy, IInv, TypeOK
    <3>2. Working(h) /\ row[c] # "none"
          BY <1>1 DEF IInv, Working
    <3>3. pc[h] \notin Creating
          BY <3>1, <3>2 DEF Working
    <3> QED
        BY <3>1, <3>2, <3>3 DEF Working, Creating
  <2> QED
      BY <2>1, <2>2
<1> QED
    BY <1>1, <1>2, Frame

\* Reading the content decides which media the deletion goes after.
LEMMA LoadKeeps ==
    ASSUME IInv, NEW g \in Goroutines, NEW c \in Contents, on[g] = c, Load(g)
    PROVE  IInv'
<1>1. /\ pc[g] = "load"
      /\ pc \in [Goroutines -> Labels] /\ on \in [Goroutines -> Contents]
      /\ Working(g) /\ Media(c)
      BY DEF Load, GetContentByID, GetContentByIDFails, At, IInv, TypeOK, Labels, Creating,
             Deleting
<1>2. PICK label \in {"idle", "loadRef", "delete"} :
         /\ pc' = [pc EXCEPT ![g] = label] /\ on' = on /\ expired' = expired
         /\ UNCHANGED <<row, ref, file, silent, blamed>>
         /\ unwanted' = unwanted \/ unwanted' = unwanted \cup {c}
         /\ label # "idle" =>
               /\ row[c] = "present"
               /\ label = "delete" <=> c \in Plain
               /\ c \in unwanted'
      BY <1>1 DEF Load, GetContentByID, GetContentByIDFails, Goto, Return, store, history
<1>3. faults' \in 0..MaxFaults
      BY FeedAssumption DEF Load, GetContentByID, GetContentByIDFails, Fault, IInv, TypeOK
<1>4. TypeOK'
      BY <1>1, <1>2, <1>3 DEF IInv, TypeOK
<1>5. \A d \in Contents \ {c} : Same(d)
      BY <1>1, <1>2 DEF Same, IInv, TypeOK
<1>6. row[c] # "none"
      BY <1>1 DEF Working
<1>7. pc'[g] = label /\ on'[g] = c
      BY <1>1, <1>2
<1>8. Working(g)'
      BY <1>2, <1>6, <1>7 DEF Working, Creating, Deleting, Kept
<1>9. Media(c)'
  <2>1. ASSUME NEW h \in Goroutines, pc[h] = "deleteRef" PROVE pc'[h] = "deleteRef"
        BY <1>1, <1>2, <2>1
  <2> QED
      BY <1>1, <1>2, <1>6, <2>1 DEF Media, Kept
<1> QED
    BY <1>1, <1>2, <1>4, <1>5, <1>6, <1>8, <1>9, DeleterFrame
       DEF Labels, Creating, Deleting, Kept

\* A media row that is not active leads to no file.
LEMMA FindRefKeeps ==
    ASSUME IInv, NEW g \in Goroutines, NEW c \in Contents, on[g] = c, FindRef(g)
    PROVE  IInv'
<1>1. /\ pc[g] = "loadRef"
      /\ pc \in [Goroutines -> Labels] /\ on \in [Goroutines -> Contents]
      /\ Working(g) /\ Media(c)
      BY DEF FindRef, LoadRef, LoadRefFails, At, IInv, TypeOK, Labels, Creating, Deleting
<1>2. PICK label \in {"deleteFile", "delete"} :
         /\ pc' = [pc EXCEPT ![g] = label] /\ on' = on /\ expired' = expired
         /\ UNCHANGED <<row, ref, file, silent, unwanted>>
         /\ \/ blamed' = blamed /\ (label = "delete" => ref[c] # "active")
            \/ label = "delete" /\ blamed' = blamed \cup {c}
      BY <1>1 DEF FindRef, LoadRef, LoadRefFails, Goto, Blame, store, history
<1>3. faults' \in 0..MaxFaults
      BY FeedAssumption DEF FindRef, LoadRef, LoadRefFails, Fault, IInv, TypeOK
<1>4. TypeOK'
      BY <1>1, <1>2, <1>3 DEF IInv, TypeOK
<1>5. \A d \in Contents \ {c} : Same(d)
      BY <1>1, <1>2 DEF Same, IInv, TypeOK
<1>6. row[c] # "none" /\ c \in unwanted /\ c \notin Plain
      BY <1>1 DEF Working, Deleting
<1>7. pc'[g] = label /\ on'[g] = c
      BY <1>1, <1>2
<1>8. ref[c] \in {"none", "active", "deleted"}
      BY DEF IInv, TypeOK
<1>9. Working(g)'
      BY <1>1, <1>2, <1>6, <1>7, <1>8 DEF Working, Media, Creating, Deleting, Kept
<1>10. Media(c)'
  <2>1. ASSUME NEW h \in Goroutines, pc[h] = "deleteRef" PROVE pc'[h] = "deleteRef"
        BY <1>1, <1>2, <2>1
  <2> QED
      BY <1>1, <1>2, <1>6, <2>1 DEF Media, Kept
<1> QED
    BY <1>1, <1>2, <1>4, <1>5, <1>6, <1>9, <1>10, DeleterFrame
       DEF Labels, Creating, Deleting, Kept

\* The goroutine that finds the file deletes the media row next.
LEMMA DropFileKeeps ==
    ASSUME IInv, NEW g \in Goroutines, NEW c \in Contents, on[g] = c, DropFile(g)
    PROVE  IInv'
<1>1. /\ pc[g] = "deleteFile"
      /\ pc \in [Goroutines -> Labels] /\ on \in [Goroutines -> Contents]
      /\ file \in [Contents -> BOOLEAN]
      /\ Working(g) /\ Media(c)
      BY DEF DropFile, DeleteFile, DeleteFileFails, At, IInv, TypeOK, Labels, Creating, Deleting
<1>2. PICK label \in {"deleteRef", "delete"} :
         /\ pc' = [pc EXCEPT ![g] = label] /\ on' = on /\ expired' = expired
         /\ UNCHANGED <<row, ref, silent, unwanted>>
         /\ file' = file \/ file' = [file EXCEPT ![c] = FALSE]
         /\ \/ blamed' = blamed /\ ~file'[c] /\ (label = "deleteRef" <=> file[c])
            \/ label = "delete" /\ blamed' = blamed \cup {c}
  <2>1. CASE DeleteFile(g)
        BY <1>1, <2>1 DEF DeleteFile, Goto, history
  <2>2. CASE DeleteFileFails(g)
        BY <1>1, <2>2 DEF DeleteFileFails, Goto, Blame
  <2> QED
      BY <2>1, <2>2 DEF DropFile
<1>3. faults' \in 0..MaxFaults
      BY FeedAssumption DEF DropFile, DeleteFile, DeleteFileFails, Fault, IInv, TypeOK
<1>4. TypeOK'
      BY <1>1, <1>2, <1>3 DEF IInv, TypeOK
<1>5. \A d \in Contents \ {c} : Same(d)
      BY <1>1, <1>2 DEF Same, IInv, TypeOK
<1>6. row[c] # "none" /\ c \in unwanted /\ c \notin Plain
      BY <1>1 DEF Working, Deleting
<1>7. pc'[g] = label /\ on'[g] = c /\ (file'[c] => file[c])
      BY <1>1, <1>2
<1>8. Working(g)'
      BY <1>1, <1>2, <1>6, <1>7 DEF Working, Creating, Deleting, Kept
<1>9. Media(c)'
  <2>1. ASSUME NEW h \in Goroutines, pc[h] = "deleteRef" PROVE pc'[h] = "deleteRef"
        BY <1>1, <1>2, <2>1
  <2> QED
      BY <1>1, <1>2, <1>6, <1>7, <2>1 DEF Media, Kept
<1> QED
    BY <1>1, <1>2, <1>4, <1>5, <1>6, <1>7, <1>8, <1>9, DeleterFrame
       DEF Labels, Creating, Deleting, Kept

\* The media row goes after its file, or stays as an orphan that has its failure.
LEMMA DropRefKeeps ==
    ASSUME IInv, NEW g \in Goroutines, NEW c \in Contents, on[g] = c, DropRef(g)
    PROVE  IInv'
<1>1. /\ pc[g] = "deleteRef"
      /\ pc \in [Goroutines -> Labels] /\ on \in [Goroutines -> Contents]
      /\ Working(g) /\ Media(c)
      BY DEF DropRef, DeleteRef, DeleteRefFails, At, IInv, TypeOK, Labels, Creating, Deleting
<1>2. /\ pc' = [pc EXCEPT ![g] = "delete"] /\ on' = on /\ expired' = expired
      /\ UNCHANGED <<row, file, silent, unwanted>>
      /\ ref' = ref \/ ref' = [ref EXCEPT ![c] = "deleted"]
      /\ \/ blamed' = blamed /\ ref'[c] = "deleted"
         \/ blamed' = blamed \cup {c}
  <2>1. CASE DeleteRef(g)
        BY <1>1, <2>1 DEF DeleteRef, Goto, history, IInv, TypeOK
  <2>2. CASE DeleteRefFails(g)
        BY <1>1, <2>2 DEF DeleteRefFails, Goto, Blame
  <2> QED
      BY <2>1, <2>2 DEF DropRef
<1>3. faults' \in 0..MaxFaults
      BY FeedAssumption DEF DropRef, DeleteRef, DeleteRefFails, Fault, IInv, TypeOK
<1>4. TypeOK'
      BY <1>1, <1>2, <1>3 DEF IInv, TypeOK
<1>5. \A d \in Contents \ {c} : Same(d)
      BY <1>1, <1>2 DEF Same, IInv, TypeOK
<1>6. row[c] # "none" /\ c \in unwanted /\ c \notin Plain /\ ~file[c]
      BY <1>1 DEF Working, Deleting
<1>7. pc'[g] = "delete" /\ on'[g] = c
      BY <1>1, <1>2
<1>8. Working(g)'
      BY <1>1, <1>2, <1>6, <1>7 DEF Working, Creating, Deleting, Kept
<1>9. Media(c)'
      BY <1>1, <1>2, <1>6, <1>7 DEF Media, Kept
<1> QED
    BY <1>1, <1>2, <1>4, <1>5, <1>6, <1>8, <1>9, DeleterFrame
       DEF Labels, Creating, Deleting, Kept

\* The content row goes last, or stays for the next round of the cleaner.
LEMMA DropRowKeeps ==
    ASSUME IInv, NEW g \in Goroutines, NEW c \in Contents, on[g] = c, DropRow(g)
    PROVE  IInv'
<1>1. /\ pc[g] = "delete"
      /\ pc \in [Goroutines -> Labels] /\ on \in [Goroutines -> Contents]
      /\ row \in [Contents -> {"none", "present", "deleted"}]
      /\ Working(g) /\ Media(c)
      BY DEF DropRow, DeleteRow, DeleteRowFails, At, IInv, TypeOK, Labels, Creating, Deleting
<1>2. /\ pc' = [pc EXCEPT ![g] = "idle"] /\ on' = on /\ expired' = expired
      /\ UNCHANGED <<ref, file, silent, unwanted, blamed>>
      /\ row' = row \/ row' = [row EXCEPT ![c] = "deleted"]
      BY <1>1 DEF DropRow, DeleteRow, DeleteRowFails, Goto, Return, history
<1>3. faults' \in 0..MaxFaults
      BY FeedAssumption DEF DropRow, DeleteRow, DeleteRowFails, Fault, IInv, TypeOK
<1>4. TypeOK'
      BY <1>1, <1>2, <1>3 DEF IInv, TypeOK
<1>5. \A d \in Contents \ {c} : Same(d)
      BY <1>1, <1>2 DEF Same, IInv, TypeOK
<1>6. row[c] # "none" /\ c \in unwanted /\ (Kept(c) => ~file[c])
      BY <1>1 DEF Working, Deleting
<1>7. pc'[g] = "idle" /\ row'[c] # "none"
      BY <1>1, <1>2, <1>6
<1>8. Working(g)'
      BY <1>7 DEF Working, Creating, Deleting
<1>9. Media(c)'
  <2>1. ASSUME NEW h \in Goroutines, pc[h] = "deleteRef" PROVE pc'[h] = "deleteRef"
        BY <1>1, <1>2, <2>1
  <2> QED
      BY <1>1, <1>2, <1>6, <1>7, <2>1 DEF Media, Kept
<1> QED
    BY <1>1, <1>2, <1>4, <1>5, <1>6, <1>7, <1>8, <1>9, DeleterFrame
       DEF Labels, Creating, Deleting, Kept

\* A call or a round takes up a content for deletion.
LEMMA DeleteKeeps ==
    ASSUME IInv, NEW g \in Goroutines, NEW c \in Contents, DeleteContent(g, c),
           expired' \in [Rounds -> SUBSET Stories]
    PROVE  IInv'
<1>1. /\ pc[g] = "idle" /\ row[c] # "none"
      /\ pc' = [pc EXCEPT ![g] = "load"] /\ on' = [on EXCEPT ![g] = c]
      /\ UNCHANGED <<row, ref, file, faults, unwanted, silent, blamed>>
      /\ pc \in [Goroutines -> Labels] /\ on \in [Goroutines -> Contents]
      /\ Media(c)
      BY DEF DeleteContent, Begin, At, store, history, IInv, TypeOK, Labels, Creating, Deleting
<1>2. TypeOK'
      BY <1>1 DEF IInv, TypeOK
<1>3. \A d \in Contents \ {c} : Same(d)
      BY <1>1 DEF Same
<1>4. Media(c)'
  <2>1. ASSUME NEW h \in Goroutines, pc[h] = "deleteRef", on[h] = c
        PROVE  pc'[h] = "deleteRef" /\ on'[h] = c
        BY <1>1, <2>1
  <2> QED
      BY <1>1, <2>1 DEF Media, Kept
<1>5. ASSUME NEW h \in Goroutines, Busy(h, c)' PROVE Working(h)'
  <2>1. CASE h = g
        BY <1>1, <2>1 DEF Working, Creating, Deleting
  <2>2. CASE h # g
    <3>1. pc'[h] = pc[h] /\ on'[h] = on[h] /\ on[h] = c
          BY <1>1, <1>5, <2>2 DEF Busy
    <3>2. Working(h)
          BY DEF IInv
    <3>3. pc[h] \notin Creating
          BY <1>1, <3>1, <3>2 DEF Working
    <3> QED
        BY <1>1, <3>1, <3>2, <3>3 DEF Working, Kept
  <2> QED
      BY <2>1, <2>2
<1> QED
    BY <1>1, <1>2, <1>3, <1>4, <1>5, Frame DEF Labels

-----------------------------------------------------------------------------
(* The cleaner and the process *)

\* The list that a round has read is no more than a list.
LEMMA ListKeeps == ASSUME IInv, NEW k \in Rounds, ListExpiredStories(k) PROVE IInv'
<1>1. /\ UNCHANGED <<row, ref, file, pc, on, faults, unwanted, silent, blamed>>
      /\ expired' \in [Rounds -> SUBSET Stories]
      BY DEF ListExpiredStories, store, history, IInv, TypeOK
<1>2. TypeOK'
      BY <1>1 DEF IInv, TypeOK
<1>3. ASSUME NEW g \in Goroutines PROVE Working(g)'
      BY <1>1 DEF IInv, Working, Busy, Kept
<1>4. ASSUME NEW c \in Contents PROVE Media(c)'
      BY <1>1 DEF IInv, Media, Busy, Kept
<1> QED
    BY <1>2, <1>3, <1>4 DEF IInv

\* A crash is blamed for the contents whose media only the dead goroutine knew of.
LEMMA CrashKeeps == ASSUME IInv, Crash PROVE IInv'
<1>1. /\ UNCHANGED <<row, ref, file, on, unwanted, silent>>
      /\ pc' = [g \in Goroutines |-> "idle"]
      /\ expired' = [k \in Rounds |-> {}]
      /\ faults' \in 0..MaxFaults
      /\ blamed' = blamed \cup {on[g] : g \in {h \in Goroutines :
                      pc[h] \in {"createRef", "create", "deleteRef"}}}
      BY FeedAssumption DEF Crash, Fault, store, IInv, TypeOK
<1>2. blamed' \in SUBSET Contents
      BY <1>1 DEF IInv, TypeOK
<1>3. TypeOK'
      BY <1>1, <1>2 DEF IInv, TypeOK
<1>4. ASSUME NEW g \in Goroutines PROVE Working(g)'
      BY <1>1 DEF Working, Creating, Deleting
<1>5. ASSUME NEW c \in Contents PROVE Media(c)'
  <2>1. Media(c) /\ (c \in blamed => c \in blamed')
        BY <1>1 DEF IInv
  <2>2. ASSUME NEW h \in Goroutines, Busy(h, c), c \notin blamed'
        PROVE  pc[h] \notin {"createRef", "create", "deleteRef"}
        BY <1>1, <2>2 DEF Busy
  <2>3. ASSUME row[c] = "none", c \notin blamed' PROVE ref[c] = "none" /\ ~file[c]
    <3>1. CASE \A h \in Goroutines : ~Busy(h, c)
          BY <2>1, <2>3, <3>1 DEF Media
    <3>2. ASSUME NEW h \in Goroutines, Busy(h, c) PROVE ref[c] = "none" /\ ~file[c]
      <4>1. pc[h] = "upload"
            BY <2>2, <2>3, <3>2 DEF IInv, TypeOK, Working, Busy, Creating, Deleting
      <4> QED
          BY <3>2, <4>1 DEF IInv, Working, Busy
    <3> QED
        BY <3>1, <3>2
  <2>4. ASSUME Kept(c)', ref[c] = "active", ~file[c] PROVE FALSE
    <3>1. Kept(c)
          BY <1>1, <2>4 DEF Kept
    <3>2. PICK h \in Goroutines : pc[h] = "deleteRef" /\ on[h] = c
          BY <2>1, <2>4, <3>1 DEF Media
    <3> QED
        BY <2>2, <2>4, <3>2 DEF Busy, Kept
  <2>5. Kept(c)' => Kept(c)
        BY <1>1 DEF Kept
  <2> QED
      BY <1>1, <2>1, <2>3, <2>4, <2>5 DEF Media
<1> QED
    BY <1>3, <1>4, <1>5 DEF IInv

-----------------------------------------------------------------------------
(* The theorems *)

\* Every access of a goroutine is one of those above.
LEMMA AccessKeeps == ASSUME IInv, NEW g \in Goroutines, Access(g) PROVE IInv'
<1>1. PICK c \in Contents : on[g] = c
      BY DEF IInv, TypeOK
<1> QED
    BY <1>1, UploadKeeps, NewRefKeeps, NewRowKeeps, LoadKeeps, FindRefKeeps, DropFileKeeps,
       DropRefKeeps, DropRowKeeps
       DEF Access, Upload, NewRef, NewRow, Load, FindRef, DropFile, DropRef, DropRow

\* The invariant is inductive.
LEMMA NextIInv == IInv /\ [Next]_vars => IInv'
<1> SUFFICES ASSUME IInv, [Next]_vars PROVE IInv'
    OBVIOUS
<1>1. ASSUME NEW g \in Calls, NEW c \in Contents, CreatePost(g, c) \/ CreateStory(g, c)
      PROVE  IInv'
      BY <1>1, CreateKeeps DEF CreatePost, CreateStory, CreateContent, Goroutines
<1>2. ASSUME NEW g \in Calls, NEW c \in Contents, DeleteContent(g, c), UNCHANGED expired
      PROVE  IInv'
      BY <1>2, DeleteKeeps DEF Goroutines, IInv, TypeOK
<1>3. ASSUME NEW g \in Goroutines, Access(g) PROVE IInv'
      BY <1>3, AccessKeeps
<1>4. ASSUME NEW k \in Rounds, ListExpiredStories(k) PROVE IInv'
      BY <1>4, ListKeeps
<1>5. ASSUME NEW k \in Rounds, DeleteExpired(k) PROVE IInv'
  <2>1. PICK s \in expired[k] :
           DeleteContent(k, s) /\ expired' = [expired EXCEPT ![k] = expired[k] \ {s}]
        BY <1>5 DEF DeleteExpired
  <2>2. s \in Contents /\ k \in Goroutines /\ expired' \in [Rounds -> SUBSET Stories]
        BY <2>1, FeedAssumption DEF IInv, TypeOK, Goroutines
  <2> QED
      BY <2>1, <2>2, DeleteKeeps
<1>6. CASE Crash
      BY <1>6, CrashKeeps
<1>7. CASE UNCHANGED vars
  <2>1. TypeOK'
        BY <1>7 DEF vars, store, server, history, IInv, TypeOK
  <2>2. ASSUME NEW g \in Goroutines PROVE Working(g)'
        BY <1>7 DEF vars, store, server, history, IInv, Working, Busy, Kept
  <2>3. ASSUME NEW c \in Contents PROVE Media(c)'
        BY <1>7 DEF vars, store, server, history, IInv, Media, Busy, Kept
  <2> QED
      BY <2>1, <2>2, <2>3 DEF IInv
<1> QED
    BY <1>1, <1>2, <1>3, <1>4, <1>5, <1>6, <1>7 DEF Next

\* The rows, the files and the goroutines keep their types.
THEOREM TypeCorrect == Spec => []TypeOK
<1>1. IInv => TypeOK
      BY DEF IInv
<1> QED
    BY <1>1, InitIInv, NextIInv, PTL DEF Spec

\* A content that can be seen and that nobody has deleted has its media, unless
\* its upload was lost in silence.
THEOREM SeenIsWhole == Spec => []Whole
<1>1. IInv => Whole
      BY DEF IInv, Media, Whole
<1> QED
    BY <1>1, InitIInv, NextIInv, PTL DEF Spec

\* Orphaned media has been hit by a failure or a crash, or by a lost upload.
THEOREM OrphansAreBlamed == Spec => []OrphansBlamed
<1>1. ASSUME IInv PROVE OrphansBlamed
  <2> SUFFICES ASSUME NEW c \in Contents,
                      row[c] # "present",
                      file[c] \/ ref[c] = "active",
                      \A g \in Goroutines : ~At(g, "idle") => on[g] # c,
                      c \notin blamed \cup silent
               PROVE  FALSE
      BY DEF OrphansBlamed
  <2>1. Media(c) /\ row[c] \in {"none", "deleted"}
        BY <1>1 DEF IInv, TypeOK
  <2>2. \A h \in Goroutines : ~Busy(h, c) /\ ~(pc[h] = "deleteRef" /\ on[h] = c)
        BY DEF Busy, At
  <2> QED
      BY <2>1, <2>2 DEF Media, Kept
<1> QED
    BY <1>1, InitIInv, NextIInv, PTL DEF Spec

\* A media row is marked as deleted only after its file has gone.
THEOREM FileFirst == Spec => []FileGoesFirst
<1>1. IInv => FileGoesFirst
      BY DEF IInv, Media, FileGoesFirst
<1> QED
    BY <1>1, InitIInv, NextIInv, PTL DEF Spec
=============================================================================
