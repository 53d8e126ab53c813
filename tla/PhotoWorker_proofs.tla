------------------------- MODULE PhotoWorker_proofs --------------------------
(***************************************************************************)
(* Theorems about the album store and the photo worker beside it, for      *)
(* every number of albums, photos, deletes and messages, whichever calls   *)
(* fail, reads are stale or messages come again.                           *)
(***************************************************************************)
EXTENDS PhotoWorker, TLAPS

(* The ids with which the initial states fill what is not used yet. *)
LEMMA SomeIds ==
    /\ AnAlbum \in Albums /\ APhoto \in Photos
    /\ NoRow \in Row
BY StoreAssumption DEF AnAlbum, APhoto, NoRow, Row

(* A step of one request changes its phase to another of the handler's. *)
LEMMA UploadPhase ==
    ASSUME NEW up \in [Photos -> Upload], NEW p \in Photos,
           NEW to \in {"numbered", "stored", "accepted", "failed"}
    PROVE  [up EXCEPT ![p].phase = to] \in [Photos -> Upload]
<1>1. [up[p] EXCEPT !.phase = to] \in Upload
  <2>1. up[p] \in Upload
    OBVIOUS
  <2> QED
    BY <2>1 DEF Upload
<1> QED
  BY <1>1

(* The same for a delete. *)
LEMMA DeletePhase ==
    ASSUME NEW de \in [Deletes -> Delete], NEW d \in Deletes,
           NEW to \in {"done", "failed"}
    PROVE  [de EXCEPT ![d].phase = to] \in [Deletes -> Delete]
<1>1. [de[d] EXCEPT !.phase = to] \in Delete
  <2>1. de[d] \in Delete
    OBVIOUS
  <2> QED
    BY <2>1 DEF Delete
<1> QED
  BY <1>1

(* Completing a row the worker has made changes nothing. *)
LEMMA GhostCompleted == [GhostRow EXCEPT !.status = "completed"] = GhostRow
<1>1. GhostRow \in [status : {"completed"}, album : {"no album"}, seq : {0}]
  BY DEF GhostRow
<1> DEFINE g == GhostRow
<1>2. g.status = "completed"
  BY DEF GhostRow
<1> HIDE DEF g
<1>3. [g EXCEPT !.status = "completed"] = g
  BY <1>1, <1>2 DEF g
<1> QED
  BY <1>3 DEF g

-----------------------------------------------------------------------------
(* Types: the requests' part, which only the API's steps change. *)
LEMMA RequestsTyped ==
    RequestsTypeOK /\ [Next]_vars => RequestsTypeOK'
<1> SUFFICES ASSUME RequestsTypeOK, [Next]_vars PROVE RequestsTypeOK'
  OBVIOUS
<1> USE StoreAssumption DEF RequestsTypeOK
<1>1. ASSUME NEW u \in Puts,
             PutAlbumFails(u) \/ \E a \in Albums, s \in BodySeqs : PutAlbum(u, a, s)
      PROVE  RequestsTypeOK'
  <2>1. puts[u] \in Put
    OBVIOUS
  <2>2. ASSUME NEW a \in Albums, NEW s \in BodySeqs, PutAlbum(u, a, s)
        PROVE  RequestsTypeOK'
    <3> DEFINE applied(ph) == [phase |-> ph, album |-> a, seq |-> s,
                               attempts |-> puts[u].attempts + 1]
    <3>1. \A ph \in {"open", "answered"} : applied(ph) \in Put
      BY <2>1 DEF Put
    <3>2. \E ph \in {"open", "answered"} : puts' = [puts EXCEPT ![u] = applied(ph)]
      BY <2>2 DEF PutAlbum
    <3> HIDE DEF applied
    <3>3. puts' \in [Puts -> Put]
      BY <3>1, <3>2
    <3>4. epochs' \in [Albums -> Nat] /\ albums' \in [Albums -> Nat \cup {NoAlbum}]
      BY <2>2 DEF PutAlbum
    <3> QED
      BY <2>2, <3>3, <3>4 DEF PutAlbum
  <2>3. ASSUME PutAlbumFails(u) PROVE RequestsTypeOK'
    <3>1. [puts[u] EXCEPT !.phase = "answered"] \in Put
      BY <2>1 DEF Put
    <3> QED
      BY <2>3, <3>1 DEF PutAlbumFails
  <2> QED
    BY <1>1, <2>2, <2>3
<1>2. ASSUME NEW p \in Photos, NEW a \in Albums, UploadCheck(p, a)
      PROVE  RequestsTypeOK'
  BY <1>2 DEF UploadCheck, Upload
<1>3. \A a \in Albums : Counter(a) \in Nat
  BY DEF Counter, NoAlbum
<1>4. \A p \in Photos : uploads[p] \in Upload /\ uploads[p].album \in Albums
  BY DEF Upload
<1>5. ASSUME NEW p \in Photos, NEW i \in {1, 2}, UploadNumber(p, i)
      PROVE  RequestsTypeOK'
  <2> DEFINE c == Counter(uploads[p].album) + i
             e == epochs[uploads[p].album]
             u == [uploads[p] EXCEPT !.phase = "numbered", !.seq = c, !.epoch = e]
  <2>1. c \in Nat /\ e \in Nat
    BY <1>3, <1>4
  <2>2. u \in Upload
    <3> HIDE DEF c, e
    <3> QED
      BY <1>4, <2>1 DEF Upload
  <2>3. /\ albums' = [albums EXCEPT ![uploads[p].album] = c]
        /\ uploads' = [uploads EXCEPT ![p] = u]
    BY <1>5 DEF UploadNumber
  <2> HIDE DEF c, e, u
  <2>4. albums' \in [Albums -> Nat \cup {NoAlbum}] /\ uploads' \in [Photos -> Upload]
    BY <2>1, <2>2, <2>3
  <2> QED
    BY <1>5, <2>4 DEF UploadNumber
<1>6. ASSUME NEW p \in Photos, UploadNumberFails(p) PROVE RequestsTypeOK'
  <2>1. albums' \in [Albums -> Nat \cup {NoAlbum}]
    BY <1>3, <1>4, <1>6 DEF UploadNumberFails
  <2>2. uploads' \in [Photos -> Upload]
    BY <1>6, UploadPhase DEF UploadNumberFails, UploadStep
  <2> QED
    BY <1>6, <2>1, <2>2 DEF UploadNumberFails
<1>7. ASSUME NEW p \in Photos,
             \/ UploadObject(p) \/ UploadObjectFails(p)
             \/ UploadRow(p) \/ UploadRowFails(p)
      PROVE  RequestsTypeOK'
  <2>1. PICK to \in {"stored", "accepted", "failed"} :
           uploads' = [uploads EXCEPT ![p].phase = to]
    BY <1>7 DEF UploadObject, UploadObjectFails, UploadRow, UploadRowFails,
                UploadStep
  <2>2. objects' \in {objects, objects \cup {Key(p)}}
        /\ UNCHANGED <<albums, deletes, puts, epochs>>
    BY <1>7 DEF UploadObject, UploadObjectFails, UploadRow, UploadRowFails
  <2>3. Key(p) \in Albums \X Photos
    BY <1>4 DEF Key
  <2>4. uploads' \in [Photos -> Upload]
    BY <2>1, UploadPhase
  <2> QED
    BY <2>2, <2>3, <2>4
<1>8. ASSUME NEW d \in Deletes, NEW p \in Photos, NEW a \in Albums,
             DeleteCheck(d, p, a)
      PROVE  RequestsTypeOK'
  BY <1>8 DEF DeleteCheck, Delete
<1>9. ASSUME NEW d \in Deletes, DeleteObject(d) PROVE RequestsTypeOK'
  <2>1. PICK kept \in BOOLEAN :
           /\ deletes' = [deletes EXCEPT ![d].phase = "unlinked", ![d].kept = kept]
           /\ objects' \subseteq objects
    BY <1>9 DEF DeleteObject
  <2>2. [deletes[d] EXCEPT !.phase = "unlinked", !.kept = kept] \in Delete
    <3>1. deletes[d] \in Delete
      OBVIOUS
    <3> QED
      BY <3>1 DEF Delete
  <2>3. deletes' \in [Deletes -> Delete]
    BY <2>1, <2>2
  <2> QED
    BY <1>9, <2>1, <2>3 DEF DeleteObject
<1>10. ASSUME NEW d \in Deletes, DeleteRow(d) \/ DeleteRowFails(d)
       PROVE  RequestsTypeOK'
  <2>1. PICK to \in {"done", "failed"} :
           deletes' = [deletes EXCEPT ![d].phase = to]
    BY <1>10 DEF DeleteRow, DeleteRowFails, DeleteStep
  <2>2. deletes' \in [Deletes -> Delete]
    BY <2>1, DeletePhase
  <2> QED
    BY <1>10, <2>2 DEF DeleteRow, DeleteRowFails
<1>11. CASE UNCHANGED vars
  BY <1>11 DEF vars
<1> QED
  BY <1>1, <1>2, <1>5, <1>6, <1>7, <1>8, <1>9, <1>10, <1>11 DEF Next

(* What the steps do to the table of photos: a row is saved by its upload, *)
(* removed by a delete, or completed by the worker.                        *)
LEMMA RowCases ==
    ASSUME photos \in [Photos -> Row \cup {GhostRow}], deletes \in [Deletes -> Delete],
           work.photo \in Photos, [WorkerNext]_workerVars, NEW p \in Photos
    PROVE  \/ photos'[p] = photos[p]
           \/ /\ UploadRow(p) \/ UploadRowFails(p)
              /\ photos'[p] = UploadedRow(p)
           \/ \E d \in Deletes : /\ DeleteRow(d) \/ DeleteRowFails(d)
                                 /\ deletes[d].photo = p
                                 /\ photos'[p] = NoRow
           \/ /\ work.phase = "found" /\ work.photo = p
              /\ photos'[p] = UpdatedRow(p)
<1>1. ASSUME NEW q \in Photos, UploadRow(q) \/ UploadRowFails(q)
      PROVE  \/ photos'[p] = photos[p]
             \/ q = p /\ photos'[p] = UploadedRow(p)
  BY <1>1 DEF UploadRow, UploadRowFails
<1>2. ASSUME NEW d \in Deletes, DeleteRow(d) \/ DeleteRowFails(d)
      PROVE  \/ photos'[p] = photos[p]
             \/ deletes[d].photo = p /\ photos'[p] = NoRow
  <2>1. deletes[d].photo \in Photos
    BY DEF Delete
  <2> QED
    BY <1>2, <2>1 DEF DeleteRow, DeleteRowFails
<1>3. ASSUME Complete \/ CompleteFails
      PROVE  \/ photos'[p] = photos[p]
             \/ /\ work.phase = "found" /\ work.photo = p
                /\ photos'[p] = UpdatedRow(p)
  BY <1>3 DEF Complete, CompleteFails, WorkStep
<1>4. ASSUME Next
      PROVE  \/ photos' = photos
             \/ \E q \in Photos : UploadRow(q) \/ UploadRowFails(q)
             \/ \E d \in Deletes : DeleteRow(d) \/ DeleteRowFails(d)
  BY <1>4 DEF Next, PutAlbum, PutAlbumFails, UploadCheck, UploadNumber,
              UploadNumberFails,
              UploadObject, UploadObjectFails, DeleteCheck, DeleteObject
<1>5. ASSUME CleanUp PROVE photos' = photos
  BY <1>5 DEF CleanUp
<1> QED
  BY <1>1, <1>2, <1>3, <1>4, <1>5 DEF WorkerNext, workerVars, vars

(* The steps of the worker that leave the store alone. *)
WorkerOnly ==
    \/ \E p \in Announced :
          \/ Announce(p) \/ VisibilityExpires(p)
          \/ ProcessCheck(p) \/ ProcessCheckFails(p)
    \/ \E msgs \in SUBSET Announced : Poll(msgs)
    \/ DeleteMessage

(* Every step is one of the API, one of the worker alone, or one with      *)
(* which the worker changes the bucket or the table of photos.             *)
LEMMA WorkerCases ==
    [WorkerNext]_workerVars =>
        \/ [Next]_vars /\ UNCHANGED worker
        \/ WorkerOnly /\ UNCHANGED vars
        \/ CleanUp \/ Complete \/ CompleteFails
BY DEF WorkerNext, workerVars, vars, WorkerOnly

(* The worker changes none of the requests. *)
LEMMA RequestsOwn ==
    ASSUME [WorkerNext]_workerVars
    PROVE  \/ [Next]_vars
           \/ UNCHANGED <<albums, uploads, deletes, puts, epochs>>
BY WorkerCases DEF CleanUp, Complete, CompleteFails, vars

(* Types are kept: the worker's rows belong to no album, every other row   *)
(* to one.                                                                 *)
THEOREM WorkerTyped == WorkerSpec => []WorkerTypeOK
<1> USE StoreAssumption, WorkerAssumption
<1>1. WorkerInit => WorkerTypeOK
  <2> SUFFICES ASSUME WorkerInit PROVE WorkerTypeOK
    OBVIOUS
  <2>1. RequestsTypeOK
    <3>1. \A p \in Photos : uploads[p] \in Upload
      BY SomeIds DEF WorkerInit, Init, Upload
    <3>2. \A d \in Deletes : deletes[d] \in Delete
      BY SomeIds DEF WorkerInit, Init, Delete
    <3>3. /\ uploads \in [Photos -> Upload] /\ deletes \in [Deletes -> Delete]
          /\ objects = {}
      BY <3>1, <3>2 DEF WorkerInit, Init
    <3>4. albums \in [Albums -> Nat \cup {NoAlbum}] /\ epochs \in [Albums -> Nat]
      BY DEF WorkerInit, Init
    <3>5. puts \in [Puts -> Put]
      BY SomeIds DEF WorkerInit, Init, Put
    <3> QED
      BY <3>3, <3>4, <3>5 DEF RequestsTypeOK
  <2>2. photos \in [Photos -> Row \cup {GhostRow}]
    BY SomeIds DEF WorkerInit, Init
  <2> QED
    <3>1. work \in [phase : {"none", "found", "absent", "handled"}, photo : Photos]
      BY SomeIds DEF WorkerInit, NoWork
    <3>2. receives \in [Announced -> 0..MaxReceives]
      <4>1. 0 \in 0..MaxReceives
        OBVIOUS
      <4>2. receives = [p \in Announced |-> 0]
        BY DEF WorkerInit
      <4> QED
        BY <4>1, <4>2
    <3>3. /\ queue \in [Announced -> {"not sent", "visible", "hidden", "deleted"}]
          /\ started \in BOOLEAN /\ batch = {} /\ missed = {}
      BY DEF WorkerInit
    <3> QED
      BY <2>1, <2>2, <3>1, <3>2, <3>3 DEF WorkerTypeOK
<1>2. WorkerTypeOK /\ [WorkerNext]_workerVars => WorkerTypeOK'
  <2> SUFFICES ASSUME WorkerTypeOK, [WorkerNext]_workerVars PROVE WorkerTypeOK'
    OBVIOUS
  <2>1. RequestsTypeOK'
    <3>1. CASE [Next]_vars
      BY <3>1, RequestsTyped DEF WorkerTypeOK
    <3>2. CASE CleanUp \/ Complete \/ CompleteFails
      <4>1. /\ objects' \subseteq objects
            /\ UNCHANGED <<albums, uploads, deletes, puts, epochs>>
        BY <3>2 DEF CleanUp, Complete, CompleteFails
      <4> QED
        BY <4>1 DEF WorkerTypeOK, RequestsTypeOK
    <3> QED
      BY <3>1, <3>2, WorkerCases DEF vars
  <2>2. photos' \in [Photos -> Row \cup {GhostRow}]
    <3>1. DOMAIN photos' = Photos /\ photos' = [p \in Photos |-> photos'[p]]
      <4>1. photos' = photos \/ \E q, row : photos' = [photos EXCEPT ![q] = row]
        BY WorkerCases
           DEF Next, PutAlbum, PutAlbumFails, UploadCheck, UploadNumber,
               UploadNumberFails,
               UploadObject, UploadObjectFails, UploadRow, UploadRowFails,
               DeleteCheck, DeleteObject, DeleteRow, DeleteRowFails,
               CleanUp, Complete, CompleteFails, vars
      <4> QED
        BY <4>1 DEF WorkerTypeOK
    <3>2. ASSUME NEW p \in Photos PROVE photos'[p] \in Row \cup {GhostRow}
      <4>1. UploadedRow(p) \in Row
        BY DEF WorkerTypeOK, RequestsTypeOK, UploadedRow, Upload, Row
      <4>2. photos[p] \in Row \cup {GhostRow}
        BY DEF WorkerTypeOK
      <4>3. UpdatedRow(p) \in Row \cup {GhostRow}
        <5>1. ASSUME photos[p] \in Row
              PROVE  [photos[p] EXCEPT !.status = "completed"] \in Row
          BY <5>1 DEF Row
        <5>2. [GhostRow EXCEPT !.status = "completed"] = GhostRow
          BY GhostCompleted
        <5> QED
          BY <4>2, <5>1, <5>2 DEF UpdatedRow
      <4>4. deletes \in [Deletes -> Delete] /\ work.photo \in Photos
        BY DEF WorkerTypeOK, RequestsTypeOK
      <4> QED
        BY <4>1, <4>2, <4>3, <4>4, RowCases, SomeIds DEF WorkerTypeOK
    <3> QED
      BY <3>1, <3>2
  <2>3. CASE UNCHANGED worker
    BY <2>1, <2>2, <2>3 DEF WorkerTypeOK, worker
  <2>4. ASSUME NEW p \in Announced,
               \/ Announce(p) \/ VisibilityExpires(p)
               \/ ProcessCheck(p) \/ ProcessCheckFails(p)
        PROVE  WorkerTypeOK'
    <3>1. queue' \in [Announced -> {"not sent", "visible", "hidden", "deleted"}]
      BY <2>4 DEF WorkerTypeOK, Announce, VisibilityExpires, ProcessCheck,
                  ProcessCheckFails
    <3>2. /\ batch' \subseteq batch
          /\ UNCHANGED <<started, receives>>
      BY <2>4 DEF Announce, VisibilityExpires, ProcessCheck, ProcessCheckFails
    <3>3. /\ missed' \in {missed, missed \cup {p}}
          /\ \/ work' = work
             \/ \E ph \in {"found", "absent"} : work' = [phase |-> ph, photo |-> p]
      BY <2>4 DEF Announce, VisibilityExpires, ProcessCheck, ProcessCheckFails
    <3>4. missed' \subseteq Announced
      BY <3>3 DEF WorkerTypeOK
    <3>5. work' \in [phase : {"none", "found", "absent", "handled"}, photo : Photos]
      <4>1. p \in Photos
        OBVIOUS
      <4>2. CASE work' = work
        BY <4>2 DEF WorkerTypeOK
      <4>3. ASSUME NEW ph \in {"found", "absent"}, work' = [phase |-> ph, photo |-> p]
            PROVE  work' \in [phase : {"none", "found", "absent", "handled"},
                              photo : Photos]
        BY <4>1, <4>3
      <4> QED
        BY <3>3, <4>2, <4>3
    <3> QED
      BY <2>1, <2>2, <3>1, <3>2, <3>4, <3>5 DEF WorkerTypeOK
  <2>5. ASSUME NEW msgs \in SUBSET Announced, Poll(msgs) PROVE WorkerTypeOK'
    <3>1. \A p \in msgs : receives[p] + 1 \in 0..MaxReceives
      <4> SUFFICES ASSUME NEW p \in msgs PROVE receives[p] + 1 \in 0..MaxReceives
        OBVIOUS
      <4>1. receives[p] \in 0..MaxReceives /\ receives[p] < MaxReceives
        BY <2>5 DEF Poll, WorkerTypeOK
      <4> QED
        BY <4>1
    <3>2. receives' \in [Announced -> 0..MaxReceives]
      BY <2>5, <3>1 DEF Poll, WorkerTypeOK
    <3>3. queue' \in [Announced -> {"not sent", "visible", "hidden", "deleted"}]
      BY <2>5 DEF Poll, WorkerTypeOK
    <3> QED
      BY <2>1, <2>2, <2>5, <3>2, <3>3 DEF WorkerTypeOK, Poll
  <2>6. ASSUME DeleteMessage PROVE WorkerTypeOK'
    BY <2>1, <2>2, <2>6, SomeIds DEF WorkerTypeOK, DeleteMessage, NoWork
  <2>7. ASSUME CleanUp \/ Complete \/ CompleteFails PROVE WorkerTypeOK'
    <3>1. work' = NoWork \/ work' = [work EXCEPT !.phase = "handled"]
      BY <2>7 DEF CleanUp, Complete, CompleteFails, WorkStep
    <3>2. work' \in [phase : {"none", "found", "absent", "handled"}, photo : Photos]
      <4>1. work \in [phase : {"none", "found", "absent", "handled"}, photo : Photos]
        BY DEF WorkerTypeOK
      <4> QED
        BY <3>1, <4>1, SomeIds DEF NoWork
    <3> QED
      BY <2>1, <2>2, <2>7, <3>2
         DEF WorkerTypeOK, CleanUp, Complete, CompleteFails, WorkStep
  <2> QED
    BY <2>3, <2>4, <2>5, <2>6, <2>7, WorkerCases DEF WorkerOnly
<1> QED
  BY <1>1, <1>2, PTL DEF WorkerSpec

-----------------------------------------------------------------------------
(* The inductive invariants *)

(* A photo has a row only when its upload has come to that, and it is the  *)
(* row of the upload or one the worker made.                               *)
RowInv ==
    \A p \in Photos :
        /\ uploads[p].phase \notin {"accepted", "failed"} => photos[p] = NoRow
        /\ photos[p] \in {NoRow, GhostRow, UploadedRow(p)}

(* Clients delete what they were told the id of, and the worker hears of   *)
(* photos whose upload was answered.                                       *)
KnownInv ==
    /\ \A d \in Deletes :
          deletes[d].phase # "new" => uploads[deletes[d].photo].phase = "accepted"
    /\ \A p \in Announced :
          queue[p] # "not sent" \/ receives[p] > 0 =>
              uploads[p].phase = "accepted"
    /\ \A p \in batch : receives[p] > 0
    /\ work.phase # "none" => work.photo \in Announced /\ receives[work.photo] > 0

(* The worker removes an object only when its row is gone for good, or it  *)
(* missed the row.                                                         *)
AbsentInv ==
    work.phase = "absent" =>
        photos[work.photo] \in {NoRow, GhostRow} \/ work.photo \in missed

(* Objects are those of uploads that got that far, and what a delete has   *)
(* removed does not come back.                                             *)
ObjectInv ==
    /\ \A o \in objects : /\ o[1] = uploads[o[2]].album
                          /\ uploads[o[2]].phase \in {"stored", "accepted", "failed"}
    /\ \A p \in Photos : uploads[p].phase = "stored" => Key(p) \in objects
    /\ \A d \in Deletes :
          deletes[d].phase \in {"unlinked", "done", "failed"} /\ ~deletes[d].kept
            => <<deletes[d].album, deletes[d].photo>> \notin objects

(* An upload that has a number checked an album that was PUT, and unless   *)
(* the album's item was replaced since, the counter has got as far as that *)
(* number.                                                                 *)
SeqInv ==
    /\ \A p \in Photos :
          /\ uploads[p].phase = "checked" \/ Numbered(p) =>
                albums[uploads[p].album] # NoAlbum
          /\ Numbered(p) => uploads[p].epoch <= epochs[uploads[p].album]
          /\ Numbered(p) /\ uploads[p].epoch = epochs[uploads[p].album] =>
                uploads[p].seq <= albums[uploads[p].album]
    /\ SeqUnique

-----------------------------------------------------------------------------
(* Which step changes what.  A request's state changes only by its own     *)
(* steps.                                                                  *)
UploadMoves(p) ==
    \/ \E a \in Albums : UploadCheck(p, a)
    \/ \E i \in {1, 2} : UploadNumber(p, i)
    \/ UploadNumberFails(p)
    \/ UploadObject(p) \/ UploadObjectFails(p)
    \/ UploadRow(p)    \/ UploadRowFails(p)

DeleteMoves(d) ==
    \/ \E p \in Photos, a \in Albums : DeleteCheck(d, p, a)
    \/ DeleteObject(d)
    \/ DeleteRow(d) \/ DeleteRowFails(d)

LEMMA UploadCases ==
    ASSUME RequestsTypeOK, [WorkerNext]_workerVars, NEW p \in Photos
    PROVE  uploads'[p] = uploads[p] \/ UploadMoves(p)
<1>1. ASSUME NEW q \in Photos, UploadMoves(q), q # p
      PROVE  uploads'[p] = uploads[p]
  BY <1>1 DEF UploadMoves, UploadCheck, UploadNumber, UploadNumberFails,
              UploadObject, UploadObjectFails, UploadRow, UploadRowFails,
              UploadStep, RequestsTypeOK
<1>2. ASSUME Next PROVE uploads' = uploads \/ \E q \in Photos : UploadMoves(q)
  BY <1>2 DEF Next, UploadMoves, PutAlbum, PutAlbumFails, DeleteCheck, DeleteObject,
              DeleteRow, DeleteRowFails
<1> QED
  BY <1>1, <1>2, RequestsOwn DEF vars

(* The same for a delete. *)
LEMMA DeleteCases ==
    ASSUME RequestsTypeOK, [WorkerNext]_workerVars, NEW d \in Deletes
    PROVE  deletes'[d] = deletes[d] \/ DeleteMoves(d)
<1>1. ASSUME NEW e \in Deletes, DeleteMoves(e), e # d
      PROVE  deletes'[d] = deletes[d]
  BY <1>1 DEF DeleteMoves, DeleteCheck, DeleteObject, DeleteRow, DeleteRowFails,
              DeleteStep, RequestsTypeOK
<1>2. ASSUME Next PROVE deletes' = deletes \/ \E e \in Deletes : DeleteMoves(e)
  BY <1>2 DEF Next, DeleteMoves, PutAlbum, PutAlbumFails, UploadCheck, UploadNumber,
              UploadNumberFails, UploadObject, UploadObjectFails, UploadRow,
              UploadRowFails
<1> QED
  BY <1>1, <1>2, RequestsOwn DEF vars

(* An upload that was answered does not move; one that is past its check   *)
(* stays with its album, and one past IncrementPhotoSeq with its number.   *)
LEMMA UploadProgress ==
    ASSUME RequestsTypeOK, NEW p \in Photos, UploadMoves(p)
    PROVE  /\ uploads[p].phase \in {"new", "checked", "numbered", "stored"}
           /\ uploads'[p].phase # "new"
           /\ uploads[p].phase # "new" =>
                 /\ uploads'[p].album = uploads[p].album
                 /\ uploads'[p].phase \in {"numbered", "stored", "accepted", "failed"}
           /\ uploads[p].phase \in {"numbered", "stored"} =>
                 /\ uploads'[p].seq = uploads[p].seq
                 /\ uploads'[p].epoch = uploads[p].epoch
<1>1. uploads[p] \in Upload
  BY DEF RequestsTypeOK
<1>2. ASSUME NEW a \in Albums, UploadCheck(p, a)
      PROVE  uploads[p].phase = "new" /\ uploads'[p].phase \in {"checked", "notfound"}
  BY <1>2 DEF UploadCheck, RequestsTypeOK
<1>3. ASSUME NEW i \in {1, 2}, UploadNumber(p, i)
      PROVE  /\ uploads[p].phase = "checked" /\ uploads'[p].phase = "numbered"
             /\ uploads'[p].album = uploads[p].album
  BY <1>1, <1>3 DEF UploadNumber, RequestsTypeOK, Upload
<1>4. ASSUME NEW from \in {"checked", "numbered", "stored"},
             NEW to \in {"numbered", "stored", "accepted", "failed"},
             UploadStep(p, from, to)
      PROVE  /\ uploads[p].phase = from /\ uploads'[p].phase = to
             /\ uploads'[p].album = uploads[p].album
             /\ uploads'[p].seq = uploads[p].seq
             /\ uploads'[p].epoch = uploads[p].epoch
  BY <1>1, <1>4 DEF UploadStep, RequestsTypeOK, Upload
<1>5. ASSUME \/ UploadNumberFails(p)
             \/ UploadObject(p) \/ UploadObjectFails(p)
             \/ UploadRow(p) \/ UploadRowFails(p)
      PROVE  \E from \in {"checked", "numbered", "stored"},
                to \in {"stored", "accepted", "failed"} : UploadStep(p, from, to)
  BY <1>5 DEF UploadNumberFails, UploadObject, UploadObjectFails, UploadRow,
              UploadRowFails
<1> QED
  BY <1>2, <1>3, <1>4, <1>5 DEF UploadMoves

(* An answer 202 is final. *)
LEMMA AcceptedFinal ==
    ASSUME RequestsTypeOK, [WorkerNext]_workerVars, NEW p \in Photos,
           uploads[p].phase \in {"accepted", "failed", "notfound"}
    PROVE  uploads'[p] = uploads[p]
BY UploadCases, UploadProgress

(* A delete past its check stays with its album and its photo, and whether *)
(* it left the object is settled once the object's call has been made.     *)
LEMMA DeleteProgress ==
    ASSUME RequestsTypeOK, NEW d \in Deletes, DeleteMoves(d)
    PROVE  \/ \E p \in Photos, a \in Albums :
                 /\ deletes[d].phase = "new" /\ uploads[p].phase = "accepted"
                 /\ deletes'[d].phase \in {"found", "notfound"}
                 /\ deletes'[d].photo = p
           \/ /\ DeleteObject(d)
              /\ deletes[d].phase = "found" /\ deletes'[d].phase = "unlinked"
              /\ deletes'[d].photo = deletes[d].photo
              /\ deletes'[d].album = deletes[d].album
           \/ /\ DeleteRow(d) \/ DeleteRowFails(d)
              /\ deletes[d].phase = "unlinked"
              /\ deletes'[d].phase \in {"done", "failed"}
              /\ deletes'[d].photo = deletes[d].photo
              /\ deletes'[d].album = deletes[d].album
              /\ deletes'[d].kept = deletes[d].kept
<1>1. deletes[d] \in Delete
  BY DEF RequestsTypeOK
<1>2. ASSUME NEW p \in Photos, NEW a \in Albums, DeleteCheck(d, p, a)
      PROVE  /\ deletes[d].phase = "new" /\ uploads[p].phase = "accepted"
             /\ deletes'[d].phase \in {"found", "notfound"}
             /\ deletes'[d].photo = p
  BY <1>2 DEF DeleteCheck, RequestsTypeOK
<1>3. ASSUME DeleteObject(d)
      PROVE  /\ deletes[d].phase = "found" /\ deletes'[d].phase = "unlinked"
             /\ deletes'[d].photo = deletes[d].photo
             /\ deletes'[d].album = deletes[d].album
  BY <1>1, <1>3 DEF DeleteObject, RequestsTypeOK, Delete
<1>4. ASSUME DeleteRow(d) \/ DeleteRowFails(d)
      PROVE  /\ deletes[d].phase = "unlinked"
             /\ deletes'[d].phase \in {"done", "failed"}
             /\ deletes'[d].photo = deletes[d].photo
             /\ deletes'[d].album = deletes[d].album
             /\ deletes'[d].kept = deletes[d].kept
  <2>1. PICK to \in {"done", "failed"} : DeleteStep(d, "unlinked", to)
    BY <1>4 DEF DeleteRow, DeleteRowFails
  <2> QED
    BY <1>1, <2>1 DEF DeleteStep, RequestsTypeOK, Delete
<1> QED
  BY <1>2, <1>3, <1>4 DEF DeleteMoves

(* The bucket changes by PutObject and DeleteObject of a request, and by   *)
(* the worker's DeleteObject.                                              *)
LEMMA ObjectCases ==
    ASSUME [WorkerNext]_workerVars
    PROVE  \/ objects' = objects
           \/ \E p \in Photos : /\ UploadObject(p) \/ UploadObjectFails(p)
                                /\ objects' = objects \cup {Key(p)}
           \/ \E d \in Deletes :
                 /\ DeleteObject(d)
                 /\ objects' = objects \ {<<deletes[d].album, deletes[d].photo>>}
           \/ CleanUp /\ objects' = objects \ {Key(work.photo)}
<1>1. ASSUME Next
      PROVE  \/ objects' = objects
             \/ \E p \in Photos : UploadObject(p) \/ UploadObjectFails(p)
             \/ \E d \in Deletes : DeleteObject(d)
  BY <1>1 DEF Next, PutAlbum, PutAlbumFails, UploadCheck, UploadNumber,
              UploadNumberFails,
              UploadRow, UploadRowFails, DeleteCheck, DeleteRow, DeleteRowFails
<1>2. ASSUME NEW p \in Photos, UploadObject(p) \/ UploadObjectFails(p)
      PROVE  objects' = objects \/ objects' = objects \cup {Key(p)}
  BY <1>2 DEF UploadObject, UploadObjectFails
<1>3. ASSUME NEW d \in Deletes, DeleteObject(d)
      PROVE  \/ objects' = objects
             \/ objects' = objects \ {<<deletes[d].album, deletes[d].photo>>}
  BY <1>3 DEF DeleteObject
<1>4. ASSUME CleanUp
      PROVE  objects' = objects \/ objects' = objects \ {Key(work.photo)}
  BY <1>4 DEF CleanUp
<1>5. ASSUME Complete \/ CompleteFails PROVE objects' = objects
  BY <1>5 DEF Complete, CompleteFails
<1> QED
  BY <1>1, <1>2, <1>3, <1>4, <1>5, WorkerCases DEF vars

-----------------------------------------------------------------------------
(* Deliveries are counted. *)
LEMMA ReceivesCounted ==
    ASSUME WorkerTypeOK, NEW p \in Announced
    PROVE  receives[p] \in Nat
<1>1. receives[p] \in 0..MaxReceives
  BY DEF WorkerTypeOK
<1> QED
  BY <1>1

(* At first no request has begun and the worker has no message. *)
LEMMA InitialPhases ==
    ASSUME WorkerInit
    PROVE  /\ \A p \in Photos : uploads[p].phase = "new"
           /\ \A d \in Deletes : deletes[d].phase = "new"
           /\ work.phase = "none"
<1>1. \A p \in Photos : uploads[p].phase = "new"
  BY DEF WorkerInit, Init
<1>2. \A d \in Deletes : deletes[d].phase = "new"
  BY DEF WorkerInit, Init
<1>3. work = NoWork
  BY DEF WorkerInit
<1>4. NoWork.phase = "none"
  BY DEF NoWork
<1> QED
  BY <1>1, <1>2, <1>3, <1>4

(* What the worker's own steps do to the deliveries and to its message. *)
LEMMA WorkCases ==
    ASSUME WorkerTypeOK, [WorkerNext]_workerVars
    PROVE  /\ \A p \in Announced : receives'[p] >= receives[p]
           /\ batch' \subseteq batch \/ \E msgs \in SUBSET Announced : Poll(msgs)
           /\ missed \subseteq missed'
           /\ \/ work' = work
              \/ work' = NoWork
              \/ work' = [work EXCEPT !.phase = "handled"] /\ work.phase # "none"
              \/ \E p \in batch : ProcessCheck(p)
<1>0. \A p \in Announced : receives[p] \in Nat
  BY ReceivesCounted
<1>1. CASE UNCHANGED worker
  BY <1>0, <1>1 DEF worker
<1>2. ASSUME NEW p \in Announced,
             \/ Announce(p) \/ VisibilityExpires(p)
             \/ ProcessCheck(p) \/ ProcessCheckFails(p)
      PROVE  /\ UNCHANGED receives /\ batch' \subseteq batch /\ missed \subseteq missed'
             /\ work' = work \/ \E q \in batch : ProcessCheck(q)
  <2>1. CASE ProcessCheck(p)
    BY <2>1 DEF ProcessCheck
  <2>2. CASE Announce(p) \/ VisibilityExpires(p) \/ ProcessCheckFails(p)
    BY <2>2 DEF Announce, VisibilityExpires, ProcessCheckFails
  <2> QED
    BY <1>2, <2>1, <2>2
<1>3. ASSUME NEW msgs \in SUBSET Announced, Poll(msgs)
      PROVE  /\ \A p \in Announced : receives'[p] >= receives[p]
             /\ UNCHANGED <<missed, work>>
  <2>1. ASSUME NEW p \in Announced
        PROVE  receives'[p] \in {receives[p], receives[p] + 1}
    BY <1>3 DEF Poll
  <2> QED
    BY <1>0, <1>3, <2>1 DEF Poll
<1>4. ASSUME DeleteMessage
      PROVE  UNCHANGED <<receives, batch, missed>> /\ work' = NoWork
  BY <1>4 DEF DeleteMessage
<1>5. ASSUME CleanUp \/ Complete \/ CompleteFails
      PROVE  /\ UNCHANGED <<receives, batch, missed>>
             /\ \/ work' = NoWork
                \/ work' = [work EXCEPT !.phase = "handled"] /\ work.phase # "none"
  BY <1>5 DEF CleanUp, Complete, CompleteFails, WorkStep
<1> QED
  BY <1>0, <1>1, <1>2, <1>3, <1>4, <1>5, WorkerCases DEF WorkerOnly

(* Nobody deletes or announces a photo before its upload was answered. *)
LEMMA KnownInvariant == WorkerSpec => []KnownInv
<1> USE WorkerAssumption
<1>1. WorkerInit => KnownInv
  <2> SUFFICES ASSUME WorkerInit PROVE KnownInv
    OBVIOUS
  <2>1. \A d \in Deletes : deletes[d].phase = "new"
    BY InitialPhases
  <2>2. ASSUME NEW p \in Announced
        PROVE  queue[p] = "not sent" /\ ~(receives[p] > 0)
    <3>1. receives[p] = 0
      BY DEF WorkerInit
    <3>2. queue[p] = "not sent"
      BY DEF WorkerInit
    <3>3. ~(receives[p] > 0)
      BY <3>1
    <3> QED
      BY <3>2, <3>3
  <2>3. batch = {} /\ work.phase = "none"
    BY InitialPhases DEF WorkerInit
  <2> QED
    BY <2>1, <2>2, <2>3, Zenon DEF KnownInv
<1>2. WorkerTypeOK /\ KnownInv /\ [WorkerNext]_workerVars => KnownInv'
  <2> SUFFICES ASSUME WorkerTypeOK, KnownInv, [WorkerNext]_workerVars PROVE KnownInv'
    OBVIOUS
  <2>0. RequestsTypeOK
    BY DEF WorkerTypeOK
  <2>1. \A p \in Photos :
           uploads[p].phase = "accepted" => uploads'[p].phase = "accepted"
    BY <2>0, AcceptedFinal
  <2>2. ASSUME NEW d \in Deletes, deletes'[d].phase # "new"
        PROVE  uploads'[deletes'[d].photo].phase = "accepted"
    <3>1. deletes[d].photo \in Photos
      BY <2>0 DEF RequestsTypeOK, Delete
    <3>2. deletes[d].phase # "new" => uploads[deletes[d].photo].phase = "accepted"
      BY DEF KnownInv
    <3>3. CASE deletes'[d] = deletes[d]
      BY <2>1, <2>2, <3>1, <3>2, <3>3
    <3>4. CASE DeleteMoves(d)
      BY <2>0, <2>1, <3>1, <3>2, <3>4, DeleteProgress
    <3> QED
      BY <2>0, <3>3, <3>4, DeleteCases
  <2>3. ASSUME NEW p \in Announced PROVE receives'[p] > 0 \/ receives'[p] = receives[p]
    <3>1. receives'[p] >= receives[p]
      BY WorkCases
    <3>2. receives[p] \in Nat
      BY ReceivesCounted
    <3>3. receives'[p] = receives[p] \/ \E msgs \in SUBSET Announced : Poll(msgs)
      BY WorkerCases
         DEF worker, WorkerOnly, Announce, VisibilityExpires, ProcessCheck,
             ProcessCheckFails, DeleteMessage, CleanUp, Complete, CompleteFails,
             WorkStep
    <3>4. ASSUME NEW msgs \in SUBSET Announced, Poll(msgs)
          PROVE  receives'[p] \in {receives[p], receives[p] + 1}
      BY <3>4 DEF Poll
    <3> QED
      BY <3>2, <3>3, <3>4
  <2>4. ASSUME NEW p \in Announced, queue'[p] # "not sent" \/ receives'[p] > 0
        PROVE  uploads'[p].phase = "accepted"
    <3> SUFFICES uploads[p].phase = "accepted"
      BY <2>1
    <3>1. queue[p] # "not sent" \/ receives[p] > 0 => uploads[p].phase = "accepted"
      BY DEF KnownInv
    <3>2. work.phase # "none" => work.photo \in Announced
      BY DEF KnownInv
    <3>3. ASSUME NEW q \in Announced, Announce(q) PROVE uploads[p].phase = "accepted"
      BY <2>4, <3>1, <3>3 DEF Announce, WorkerTypeOK
    <3>4. ASSUME NEW q \in Announced, VisibilityExpires(q)
          PROVE  uploads[p].phase = "accepted"
      BY <2>4, <3>1, <3>4 DEF VisibilityExpires, WorkerTypeOK
    <3>5. ASSUME NEW q \in Announced, ProcessCheck(q) \/ ProcessCheckFails(q)
          PROVE  uploads[p].phase = "accepted"
      BY <2>4, <3>1, <3>5 DEF ProcessCheck, ProcessCheckFails
    <3>6. ASSUME NEW msgs \in SUBSET Announced, Poll(msgs)
          PROVE  uploads[p].phase = "accepted"
      BY <2>4, <3>1, <3>6 DEF Poll
    <3>7. ASSUME DeleteMessage PROVE uploads[p].phase = "accepted"
      <4>1. work.phase # "none" /\ UNCHANGED receives
        BY <3>7 DEF DeleteMessage
      <4>2. receives[work.photo] > 0
        BY <4>1 DEF KnownInv
      <4>3. queue'[p] = queue[p] \/ p = work.photo
        BY <3>7 DEF DeleteMessage, WorkerTypeOK
      <4> QED
        BY <2>4, <3>1, <4>1, <4>2, <4>3
    <3>8. CASE UNCHANGED worker \/ CleanUp \/ Complete \/ CompleteFails
      BY <2>4, <3>1, <3>8 DEF worker, CleanUp, Complete, CompleteFails, WorkStep
    <3> QED
      BY <3>3, <3>4, <3>5, <3>6, <3>7, <3>8, WorkerCases DEF WorkerOnly
  <2>5. \A p \in batch : p \in Announced /\ receives[p] > 0
    BY DEF KnownInv, WorkerTypeOK
  <2>6. ASSUME NEW p \in batch' PROVE receives'[p] > 0
    <3>1. CASE batch' \subseteq batch
      BY <2>3, <2>5, <3>1
    <3>2. ASSUME NEW msgs \in SUBSET Announced, Poll(msgs) PROVE receives'[p] > 0
      <4>1. p \in msgs /\ receives'[p] = receives[p] + 1
        BY <3>2 DEF Poll
      <4>2. receives[p] \in Nat
        BY <4>1, ReceivesCounted
      <4> QED
        BY <4>1, <4>2
    <3> QED
      BY <3>1, <3>2, WorkCases
  <2>7. ASSUME work'.phase # "none"
        PROVE  work'.photo \in Announced /\ receives'[work'.photo] > 0
    <3>1. work.phase # "none" => work.photo \in Announced /\ receives[work.photo] > 0
      BY DEF KnownInv
    <3>2. CASE work' = work
      BY <2>3, <2>7, <3>1, <3>2
    <3>3. CASE work' = NoWork
      BY <2>7, <3>3 DEF NoWork
    <3>4. CASE work' = [work EXCEPT !.phase = "handled"] /\ work.phase # "none"
      <4>1. work'.photo = work.photo
        BY <3>4 DEF WorkerTypeOK
      <4> QED
        BY <2>3, <3>1, <3>4, <4>1
    <3>5. ASSUME NEW p \in batch, ProcessCheck(p)
          PROVE  work'.photo \in Announced /\ receives'[work'.photo] > 0
      <4>1. work'.photo = p
        BY <3>5 DEF ProcessCheck
      <4> QED
        BY <2>3, <2>5, <4>1
    <3> QED
      BY <3>2, <3>3, <3>4, <3>5, WorkCases
  <2> QED
    BY <2>2, <2>4, <2>6, <2>7 DEF KnownInv
<1> QED
  BY <1>1, <1>2, WorkerTyped, PTL DEF WorkerSpec

(* Every row is that of its upload, or the worker's. *)
LEMMA RowInvariant == WorkerSpec => []RowInv
<1> USE WorkerAssumption
<1>1. WorkerInit => RowInv
  BY DEF WorkerInit, Init, RowInv
<1>2. /\ WorkerTypeOK /\ KnownInv
      /\ RowInv /\ [WorkerNext]_workerVars
      => RowInv'
  <2> SUFFICES ASSUME WorkerTypeOK, KnownInv, RowInv, [WorkerNext]_workerVars,
                      NEW p \in Photos
               PROVE  /\ uploads'[p].phase \notin {"accepted", "failed"} =>
                            photos'[p] = NoRow
                      /\ photos'[p] \in {NoRow, GhostRow, UploadedRow(p)'}
    BY DEF RowInv
  <2>0. RequestsTypeOK
    BY DEF WorkerTypeOK
  <2>1. /\ uploads[p].phase \notin {"accepted", "failed"} => photos[p] = NoRow
        /\ photos[p] \in {NoRow, GhostRow, UploadedRow(p)}
    BY DEF RowInv
  <2>2. /\ photos \in [Photos -> Row \cup {GhostRow}]
        /\ deletes \in [Deletes -> Delete]
        /\ work.photo \in Photos
    BY DEF WorkerTypeOK, RequestsTypeOK
  <2>3. CASE UploadRow(p) \/ UploadRowFails(p)
    <3>1. uploads[p].phase = "stored" /\ uploads'[p].phase \in {"accepted", "failed"}
      BY <2>0, <2>3 DEF UploadRow, UploadRowFails, UploadStep, RequestsTypeOK, Upload
    <3>2. photos'[p] \in {photos[p], UploadedRow(p)}
      BY <2>2, <2>3 DEF UploadRow, UploadRowFails
    <3>3. UploadedRow(p)' = UploadedRow(p)
      BY <2>0, <2>3, <3>1, UploadProgress DEF UploadMoves, UploadedRow
    <3> QED
      BY <2>1, <3>1, <3>2, <3>3
  <2>4. CASE UploadMoves(p) /\ ~(UploadRow(p) \/ UploadRowFails(p))
    <3>1. uploads[p].phase \in {"new", "checked", "numbered"}
      BY <2>4 DEF UploadMoves, UploadCheck, UploadNumber, UploadNumberFails,
                  UploadObject, UploadObjectFails, UploadStep
    <3>2. photos' = photos
      BY <2>4 DEF UploadMoves, UploadCheck, UploadNumber, UploadNumberFails,
                  UploadObject, UploadObjectFails
    <3> QED
      BY <2>1, <3>1, <3>2
  <2>5. CASE uploads'[p] = uploads[p] /\ ~(UploadRow(p) \/ UploadRowFails(p))
    <3>1. UploadedRow(p)' = UploadedRow(p)
      BY <2>5 DEF UploadedRow
    <3>2. CASE photos'[p] = photos[p]
      BY <2>1, <2>5, <3>1, <3>2
    <3>3. CASE photos'[p] = NoRow
      BY <3>3
    <3>4. CASE work.phase = "found" /\ work.photo = p /\ photos'[p] = UpdatedRow(p)
      <4>1. uploads[p].phase = "accepted"
        BY <3>4 DEF KnownInv
      <4>2. UpdatedRow(p) \in {GhostRow, UploadedRow(p)}
        <5>1. [UploadedRow(p) EXCEPT !.status = "completed"] = UploadedRow(p)
          BY DEF UploadedRow
        <5> QED
          BY <2>1, <5>1, GhostCompleted DEF UpdatedRow
      <4> QED
        BY <2>5, <3>1, <3>4, <4>1, <4>2
    <3> QED
      BY <2>2, <2>5, <3>2, <3>3, <3>4, RowCases
  <2> QED
    BY <2>0, <2>3, <2>4, <2>5, UploadCases
<1> QED
  BY <1>1, <1>2, WorkerTyped, KnownInvariant, PTL DEF WorkerSpec

(* The worker takes a photo for deleted only when its row is gone for      *)
(* good, or when a stale read misses the row.                              *)
LEMMA AbsentInvariant == WorkerSpec => []AbsentInv
<1>1. WorkerInit => AbsentInv
  BY InitialPhases DEF AbsentInv
<1>2. WorkerTypeOK /\ KnownInv /\ AbsentInv /\ [WorkerNext]_workerVars => AbsentInv'
  <2> SUFFICES ASSUME WorkerTypeOK, KnownInv, AbsentInv, [WorkerNext]_workerVars,
                      work'.phase = "absent"
               PROVE  \/ photos'[work'.photo] \in {NoRow, GhostRow}
                      \/ work'.photo \in missed'
    BY DEF AbsentInv
  <2>1. CASE work' = work
    <3> DEFINE p == work.photo
    <3>1. work.phase = "absent"
      BY <2>1
    <3>2. photos[p] \in {NoRow, GhostRow} \/ p \in missed
      BY <3>1 DEF AbsentInv
    <3>3. missed \subseteq missed'
      BY WorkCases
    <3>4. uploads[p].phase = "accepted"
      BY <3>1 DEF KnownInv
    <3>5. ~UploadRow(p) /\ ~UploadRowFails(p)
      BY <3>4 DEF UploadRow, UploadRowFails, UploadStep
    <3>6. photos'[p] = photos[p] \/ photos'[p] = NoRow
      <4>1. /\ photos \in [Photos -> Row \cup {GhostRow}]
            /\ deletes \in [Deletes -> Delete]
            /\ p \in Photos
        BY DEF WorkerTypeOK, RequestsTypeOK
      <4> QED
        BY <3>1, <3>5, <4>1, RowCases
    <3> QED
      BY <2>1, <3>2, <3>3, <3>6
  <2>2. ASSUME NEW p \in batch, ProcessCheck(p)
        PROVE  photos'[p] = NoRow \/ p \in missed'
    <3>1. photos' = photos
      <4>1. ~(CleanUp \/ Complete \/ CompleteFails)
        BY <2>2 DEF ProcessCheck, NoWork, CleanUp, Complete, CompleteFails, WorkStep
      <4>2. work' # work
        BY <2>2 DEF ProcessCheck, NoWork
      <4> QED
        BY <4>1, <4>2, WorkerCases DEF vars, worker
    <3>2. PICK found \in BOOLEAN :
             /\ work' = [phase |-> IF found THEN "found" ELSE "absent", photo |-> p]
             /\ missed' = IF photos[p] # NoRow /\ ~found THEN missed \cup {p}
                          ELSE missed
      BY <2>2 DEF ProcessCheck
    <3>3. ~found
      BY <3>2
    <3> QED
      BY <3>1, <3>2, <3>3
  <2>3. ASSUME NEW p \in batch, ProcessCheck(p) PROVE work'.photo = p
    BY <2>3 DEF ProcessCheck
  <2>4. CASE work' = NoWork \/ work' = [work EXCEPT !.phase = "handled"]
    <3>1. NoWork.phase = "none"
      BY DEF NoWork
    <3>2. work \in [phase : {"none", "found", "absent", "handled"}, photo : Photos]
      BY DEF WorkerTypeOK
    <3> QED
      BY <2>4, <3>1, <3>2
  <2> QED
    BY <2>1, <2>2, <2>3, <2>4, WorkCases
<1> QED
  BY <1>1, <1>2, WorkerTyped, KnownInvariant, PTL DEF WorkerSpec

(* A photo answered 202 keeps its row and its number until somebody        *)
(* deletes it, the worker's updates of the row notwithstanding.            *)
THEOREM AcceptedKeepsRow == WorkerSpec => []AcceptedHasRow
<1>1. WorkerInit => AcceptedHasRow
  BY InitialPhases DEF AcceptedHasRow
<1>2. /\ WorkerTypeOK /\ AcceptedHasRow /\ [WorkerNext]_workerVars
      => AcceptedHasRow'
  <2> SUFFICES ASSUME WorkerTypeOK, AcceptedHasRow, [WorkerNext]_workerVars,
                      NEW p \in Photos, uploads'[p].phase = "accepted"
               PROVE  \/ photos'[p] = UploadedRow(p)'
                      \/ \E d \in Deletes : /\ deletes'[d].photo = p
                                            /\ deletes'[d].phase \in {"done", "failed"}
    BY DEF AcceptedHasRow
  <2>0. RequestsTypeOK
    BY DEF WorkerTypeOK
  <2>1. /\ photos \in [Photos -> Row \cup {GhostRow}]
        /\ deletes \in [Deletes -> Delete]
        /\ work.photo \in Photos
    BY DEF WorkerTypeOK, RequestsTypeOK
  <2>2. CASE uploads[p].phase # "accepted"
    <3>1. UploadMoves(p)
      BY <2>0, <2>2, UploadCases
    <3>2. UploadRow(p)
      <4>1. uploads[p] \in Upload
        BY <2>0 DEF RequestsTypeOK
      <4> QED
        BY <2>0, <3>1, <4>1
           DEF UploadMoves, UploadCheck, UploadNumber, UploadNumberFails,
               UploadObject, UploadObjectFails, UploadRowFails, UploadStep,
               RequestsTypeOK, Upload
    <3>3. photos'[p] = UploadedRow(p) /\ uploads[p].phase = "stored"
      BY <2>1, <3>2 DEF UploadRow, UploadStep
    <3>4. UploadedRow(p)' = UploadedRow(p)
      BY <2>0, <3>1, <3>3, UploadProgress DEF UploadedRow
    <3> QED
      BY <3>3, <3>4
  <2>3. CASE uploads[p].phase = "accepted"
    <3>1. uploads'[p] = uploads[p]
      BY <2>0, <2>3, AcceptedFinal
    <3>2. UploadedRow(p)' = UploadedRow(p)
      BY <3>1 DEF UploadedRow
    <3>3. ASSUME NEW d \in Deletes, deletes[d].photo = p,
                 deletes[d].phase \in {"done", "failed"}
          PROVE  deletes'[d].photo = p /\ deletes'[d].phase \in {"done", "failed"}
      BY <2>0, <3>3, DeleteCases, DeleteProgress
    <3>4. CASE photos[p] = UploadedRow(p)
      <4>1. ASSUME NEW d \in Deletes, DeleteRow(d) \/ DeleteRowFails(d),
                   deletes[d].photo = p
            PROVE  /\ deletes'[d].photo = p
                   /\ deletes'[d].phase \in {"done", "failed"}
        BY <2>0, <4>1, DeleteProgress
           DEF DeleteMoves, DeleteRow, DeleteRowFails, DeleteStep
      <4>2. UpdatedRow(p) = UploadedRow(p)
        <5>1. UploadedRow(p) # NoRow
          BY DEF UploadedRow, NoRow
        <5>2. [UploadedRow(p) EXCEPT !.status = "completed"] = UploadedRow(p)
          BY DEF UploadedRow
        <5> QED
          BY <3>4, <5>1, <5>2 DEF UpdatedRow
      <4> QED
        BY <2>1, <3>2, <3>4, <4>1, <4>2, RowCases
    <3> QED
      BY <2>3, <3>3, <3>4 DEF AcceptedHasRow
  <2> QED
    BY <2>2, <2>3
<1> QED
  BY <1>1, <1>2, WorkerTyped, PTL DEF WorkerSpec

(* What a delete has removed does not come back, because objects are       *)
(* written only before the upload is answered.                             *)
LEMMA ObjectInvariant == WorkerSpec => []ObjectInv
<1>1. WorkerInit => ObjectInv
  <2> SUFFICES ASSUME WorkerInit PROVE ObjectInv
    OBVIOUS
  <2>1. objects = {}
    BY DEF WorkerInit, Init
  <2> QED
    BY <2>1, InitialPhases DEF ObjectInv
<1>2. WorkerTypeOK /\ KnownInv /\ ObjectInv /\ [WorkerNext]_workerVars => ObjectInv'
  <2> SUFFICES ASSUME WorkerTypeOK, KnownInv, ObjectInv, [WorkerNext]_workerVars
               PROVE  ObjectInv'
    OBVIOUS
  <2>0. RequestsTypeOK
    BY DEF WorkerTypeOK
  <2>1. \A o \in objects : /\ o[2] \in Photos /\ o = <<o[1], o[2]>>
                           /\ o[1] = uploads[o[2]].album
                           /\ uploads[o[2]].phase \in {"stored", "accepted", "failed"}
    BY <2>0 DEF ObjectInv, RequestsTypeOK
  <2>2. ASSUME NEW p \in Photos, UploadObject(p) \/ UploadObjectFails(p)
        PROVE  /\ uploads[p].phase = "numbered"
               /\ uploads'[p].phase \in {"stored", "failed"}
               /\ Key(p) = <<uploads'[p].album, p>>
               /\ UNCHANGED deletes
    <3>1. \/ UploadStep(p, "numbered", "stored")
          \/ UploadStep(p, "numbered", "failed")
      BY <2>2 DEF UploadObject, UploadObjectFails
    <3>2. uploads[p] \in Upload
      BY <2>0 DEF RequestsTypeOK
    <3>3. UNCHANGED deletes
      BY <2>2 DEF UploadObject, UploadObjectFails
    <3> QED
      BY <2>0, <3>1, <3>2, <3>3 DEF UploadStep, Key, RequestsTypeOK, Upload
  <2>3. ASSUME NEW p \in Photos, uploads[p].phase \in {"stored", "accepted", "failed"}
        PROVE  /\ uploads'[p].album = uploads[p].album
               /\ uploads'[p].phase \in {"stored", "accepted", "failed"}
               /\ uploads'[p].phase = "stored" => uploads[p].phase = "stored"
    <3>1. CASE uploads'[p] = uploads[p]
      BY <2>3, <3>1
    <3>2. CASE UploadMoves(p)
      <4>1. uploads[p].phase = "stored" /\ uploads'[p].album = uploads[p].album
        BY <2>0, <2>3, <3>2, UploadProgress
      <4>2. UploadRow(p) \/ UploadRowFails(p)
        BY <3>2, <4>1 DEF UploadMoves, UploadCheck, UploadNumber,
             UploadNumberFails, UploadObject, UploadObjectFails, UploadStep
      <4>3. uploads'[p].phase \in {"accepted", "failed"}
        <5>1. PICK to \in {"accepted", "failed"} :
                 uploads' = [uploads EXCEPT ![p].phase = to]
          BY <4>2 DEF UploadRow, UploadRowFails, UploadStep
        <5>2. uploads[p] \in Upload /\ p \in DOMAIN uploads
          BY <2>0 DEF RequestsTypeOK
        <5> QED
          BY <5>1, <5>2 DEF Upload
      <4> QED
        BY <4>1, <4>3
    <3> QED
      BY <2>0, <3>1, <3>2, UploadCases
  <2>4. ASSUME NEW o \in objects'
        PROVE  /\ o[1] = uploads'[o[2]].album
               /\ uploads'[o[2]].phase \in {"stored", "accepted", "failed"}
    <3>1. CASE o \in objects
      BY <2>1, <2>3, <3>1
    <3>2. ASSUME NEW p \in Photos, UploadObject(p) \/ UploadObjectFails(p), o = Key(p)
          PROVE  /\ o[1] = uploads'[o[2]].album
                 /\ uploads'[o[2]].phase \in {"stored", "accepted", "failed"}
      <4>1. o = <<uploads'[p].album, p>>
        BY <2>2, <3>2
      <4> QED
        BY <2>2, <3>2, <4>1
    <3> QED
      BY <2>4, <3>1, <3>2, ObjectCases
  <2>5. \A d \in Deletes : /\ deletes[d].photo \in Photos
                           /\ deletes[d].phase # "new" =>
                                 uploads[deletes[d].photo].phase = "accepted"
    BY <2>0 DEF RequestsTypeOK, Delete, KnownInv
  <2>6. ASSUME NEW p \in Photos, uploads'[p].phase = "stored"
        PROVE  Key(p)' \in objects'
    <3>1. CASE uploads[p].phase = "stored"
      <4>1. Key(p)' = Key(p) /\ Key(p) \in objects
        BY <2>3, <3>1 DEF Key, ObjectInv
      <4>2. ASSUME NEW q \in Photos, uploads[q].phase = "accepted", NEW a
            PROVE  Key(p) # <<a, q>>
        BY <3>1, <4>2 DEF Key
      <4>3. ASSUME NEW d \in Deletes, DeleteObject(d)
            PROVE  Key(p) # <<deletes[d].album, deletes[d].photo>>
        BY <2>5, <4>2, <4>3 DEF DeleteObject
      <4>4. ASSUME CleanUp PROVE Key(p) # Key(work.photo)
        <5>1. uploads[work.photo].phase = "accepted" /\ work.photo \in Photos
          BY <4>4, WorkerAssumption DEF CleanUp, WorkStep, KnownInv
        <5> QED
          BY <4>2, <5>1 DEF Key
      <4> QED
        BY <4>1, <4>3, <4>4, ObjectCases
    <3>2. CASE uploads[p].phase # "stored"
      <4>1. UploadMoves(p)
        BY <2>0, <2>6, <3>2, UploadCases
      <4>2. UploadObject(p)
        BY <2>0, <2>6, <4>1
           DEF UploadMoves, UploadCheck, UploadNumber, UploadNumberFails,
               UploadObjectFails, UploadRow, UploadRowFails, UploadStep,
               RequestsTypeOK, Upload
      <4>3. Key(p)' = Key(p)
        BY <2>2, <4>2 DEF Key
      <4> QED
        BY <4>2, <4>3 DEF UploadObject
    <3> QED
      BY <3>1, <3>2
  <2>7. ASSUME NEW d \in Deletes,
               deletes'[d].phase \in {"unlinked", "done", "failed"}, ~deletes'[d].kept
        PROVE  <<deletes'[d].album, deletes'[d].photo>> \notin objects'
    <3>1. CASE DeleteObject(d)
      <4>1. /\ deletes'[d].album = deletes[d].album
            /\ deletes'[d].photo = deletes[d].photo
        BY <2>0, <3>1, DeleteProgress DEF DeleteMoves, DeleteRow, DeleteRowFails,
             DeleteStep, DeleteObject
      <4>2. objects' = objects \ {<<deletes[d].album, deletes[d].photo>>}
        BY <2>0, <2>7, <3>1 DEF DeleteObject, RequestsTypeOK, Delete
      <4> QED
        BY <4>1, <4>2
    <3>2. CASE ~DeleteObject(d)
      <4>1. /\ deletes[d].phase \in {"unlinked", "done", "failed"} /\ ~deletes[d].kept
            /\ deletes'[d].album = deletes[d].album
            /\ deletes'[d].photo = deletes[d].photo
        BY <2>0, <2>7, <3>2, DeleteCases, DeleteProgress
      <4>2. <<deletes[d].album, deletes[d].photo>> \notin objects
        BY <4>1 DEF ObjectInv
      <4>3. uploads[deletes[d].photo].phase = "accepted"
        BY <2>5, <4>1
      <4>4. ASSUME NEW p \in Photos, UploadObject(p) \/ UploadObjectFails(p)
            PROVE  Key(p) # <<deletes[d].album, deletes[d].photo>>
        BY <2>2, <4>3, <4>4 DEF Key
      <4> QED
        BY <4>1, <4>2, <4>4, ObjectCases
    <3> QED
      BY <3>1, <3>2
  <2> QED
    BY <2>4, <2>6, <2>7 DEF ObjectInv
<1> QED
  BY <1>1, <1>2, WorkerTyped, KnownInvariant, PTL DEF WorkerSpec

(* An object without a row is that of an upload that did not come to its   *)
(* row, or was left behind by a delete under another album's id or with an *)
(* error of S3 that DeletePhoto does not look at.                          *)
THEOREM OrphansKnown == WorkerSpec => []OrphansExplained
<1>1. WorkerTypeOK /\ AcceptedHasRow /\ ObjectInv => OrphansExplained
  <2> SUFFICES ASSUME WorkerTypeOK, AcceptedHasRow, ObjectInv, NEW o \in objects,
                      photos[o[2]] = NoRow,
                      uploads[o[2]].phase \notin {"stored", "failed"}
               PROVE  \E d \in Deletes :
                         /\ deletes[d].photo = o[2]
                         /\ deletes[d].phase \in {"done", "failed"}
                         /\ deletes[d].album # o[1] \/ deletes[d].kept
    BY DEF OrphansExplained
  <2>1. o[2] \in Photos /\ o = <<o[1], o[2]>>
    <3>1. objects \subseteq Albums \X Photos
      BY DEF WorkerTypeOK, RequestsTypeOK
    <3> QED
      BY <3>1
  <2>2. uploads[o[2]].phase = "accepted"
    BY DEF ObjectInv
  <2>3. UploadedRow(o[2]) # NoRow
    BY DEF UploadedRow, NoRow
  <2>4. PICK d \in Deletes : /\ deletes[d].photo = o[2]
                             /\ deletes[d].phase \in {"done", "failed"}
    BY <2>1, <2>2, <2>3 DEF AcceptedHasRow
  <2>5. ~deletes[d].kept => <<deletes[d].album, deletes[d].photo>> \notin objects
    BY <2>4 DEF ObjectInv
  <2> QED
    BY <2>1, <2>4, <2>5
<1> QED
  BY <1>1, WorkerTyped, AcceptedKeepsRow, ObjectInvariant, PTL

(* A row that says completed has its object, unless a delete of that photo *)
(* has got past the object or the worker missed the row: CleanUp never     *)
(* takes the object of a photo whose row it could have seen.               *)
THEOREM RowHasObject == WorkerSpec => []CompletedHasObject
<1>1. WorkerInit => CompletedHasObject
  BY DEF WorkerInit, Init, CompletedHasObject
<1>2. /\ WorkerTypeOK /\ KnownInv /\ RowInv /\ AbsentInv /\ ObjectInv
      /\ CompletedHasObject /\ [WorkerNext]_workerVars
      => CompletedHasObject'
  <2> SUFFICES ASSUME WorkerTypeOK, KnownInv, RowInv, AbsentInv, ObjectInv,
                      CompletedHasObject, [WorkerNext]_workerVars,
                      NEW p \in Photos, photos'[p] \notin {NoRow, GhostRow}
               PROVE  \/ <<photos'[p].album, p>> \in objects'
                      \/ Unlinked(photos[p].album, p)'
                      \/ p \in missed'
    BY DEF CompletedHasObject
  <2>0. RequestsTypeOK
    BY DEF WorkerTypeOK
  <2>1. /\ photos \in [Photos -> Row \cup {GhostRow}]
        /\ deletes \in [Deletes -> Delete]
        /\ work.photo \in Photos
    BY DEF WorkerTypeOK, RequestsTypeOK
  <2>2. missed \subseteq missed'
    BY WorkCases
  <2>3. CASE UploadRow(p) \/ UploadRowFails(p)
    <3>1. uploads[p].phase = "stored" /\ objects' = objects
      BY <2>3 DEF UploadRow, UploadRowFails, UploadStep
    <3>2. photos[p] = NoRow /\ Key(p) \in objects
      BY <3>1 DEF RowInv, ObjectInv
    <3>3. photos'[p] = UploadedRow(p)
      BY <2>1, <2>3, <3>2 DEF UploadRow, UploadRowFails
    <3>4. photos'[p].album = uploads[p].album
      BY <3>3 DEF UploadedRow
    <3> QED
      BY <3>1, <3>2, <3>4 DEF Key
  <2>4. CASE ~UploadRow(p) /\ ~UploadRowFails(p)
    <3> DEFINE a == uploads[p].album
    <3>1. photos[p] = UploadedRow(p) /\ photos[p] \notin {NoRow, GhostRow}
          /\ photos'[p].album = a /\ photos[p].album = a
      <4>1. UpdatedRow(p) \in {GhostRow, UploadedRow(p)}
            /\ (photos[p] = GhostRow => UpdatedRow(p) = GhostRow)
            /\ (photos[p] = NoRow => UpdatedRow(p) = GhostRow)
        <5>1. [UploadedRow(p) EXCEPT !.status = "completed"] = UploadedRow(p)
          BY DEF UploadedRow
        <5>2. GhostRow # NoRow
          BY DEF GhostRow, NoRow
        <5> QED
          BY <5>1, <5>2, GhostCompleted DEF UpdatedRow, RowInv
      <4>2. photos'[p] \in {photos[p], NoRow, UpdatedRow(p)}
        BY <2>1, <2>4, RowCases
      <4>3. photos[p] \in {NoRow, GhostRow, UploadedRow(p)}
        BY DEF RowInv
      <4>4. photos'[p] = UploadedRow(p) /\ photos[p] = UploadedRow(p)
            /\ photos[p] \notin {NoRow, GhostRow}
        BY <4>1, <4>2, <4>3
      <4> QED
        BY <4>4 DEF UploadedRow
    <3>2. \/ <<a, p>> \in objects
          \/ Unlinked(a, p)
          \/ p \in missed
      BY <3>1 DEF CompletedHasObject
    <3>3. ASSUME Unlinked(a, p) PROVE Unlinked(photos[p].album, p)'
      <4>1. PICK d \in Deletes : /\ deletes[d].photo = p
                                 /\ deletes[d].album = a
                                 /\ deletes[d].phase \in {"unlinked", "done", "failed"}
        BY <3>3 DEF Unlinked
      <4>2. /\ deletes'[d].photo = p
            /\ deletes'[d].album = a
            /\ deletes'[d].phase \in {"unlinked", "done", "failed"}
        BY <2>0, <4>1, DeleteCases, DeleteProgress
      <4> QED
        BY <3>1, <4>2 DEF Unlinked
    <3>4. ASSUME <<a, p>> \in objects, <<a, p>> \notin objects'
          PROVE  Unlinked(photos[p].album, p)' \/ p \in missed
      <4>1. ASSUME NEW d \in Deletes, DeleteObject(d),
                   <<deletes[d].album, deletes[d].photo>> = <<a, p>>
            PROVE  Unlinked(photos[p].album, p)'
        <5>1. /\ deletes'[d].photo = p
              /\ deletes'[d].album = a
              /\ deletes'[d].phase = "unlinked"
          BY <2>0, <4>1, DeleteProgress DEF DeleteMoves, DeleteRow, DeleteRowFails,
               DeleteStep, DeleteObject
        <5> QED
          BY <3>1, <5>1 DEF Unlinked
      <4>2. ASSUME CleanUp, Key(work.photo) = <<a, p>> PROVE p \in missed
        <5>1. work.photo = p /\ work.phase = "absent"
          BY <4>2 DEF CleanUp, WorkStep, Key
        <5> QED
          BY <3>1, <5>1 DEF AbsentInv
      <4> QED
        BY <3>4, <4>1, <4>2, ObjectCases
    <3> QED
      BY <2>2, <3>1, <3>2, <3>3, <3>4
  <2> QED
    BY <2>3, <2>4
<1> QED
  BY <1>1, <1>2, WorkerTyped, KnownInvariant, RowInvariant, AbsentInvariant,
     ObjectInvariant, PTL DEF WorkerSpec

(* A deleted photo does not come back with its album and number.  The      *)
(* worker's check and update are two calls, and the update creates a row   *)
(* of its own when the delete came between them.                           *)
THEOREM DeletedStays == WorkerSpec => []DeletedStaysDeleted
<1>1. WorkerInit => DeletedStaysDeleted
  BY InitialPhases DEF DeletedStaysDeleted
<1>2. /\ WorkerTypeOK /\ KnownInv
      /\ DeletedStaysDeleted /\ [WorkerNext]_workerVars
      => DeletedStaysDeleted'
  <2> SUFFICES ASSUME WorkerTypeOK, KnownInv, DeletedStaysDeleted,
                      [WorkerNext]_workerVars,
                      NEW d \in Deletes, deletes'[d].phase = "done"
               PROVE  LET p == deletes'[d].photo
                      IN  \/ photos'[p] = NoRow
                          \/ photos'[p] = GhostRow /\ p \in Announced /\ receives'[p] > 0
    BY DEF DeletedStaysDeleted
  <2> DEFINE p == deletes[d].photo
  <2>0. RequestsTypeOK
    BY DEF WorkerTypeOK
  <2>1. /\ photos \in [Photos -> Row \cup {GhostRow}]
        /\ deletes \in [Deletes -> Delete]
        /\ work.photo \in Photos
        /\ p \in Photos
    BY DEF WorkerTypeOK, RequestsTypeOK, Delete
  <2>2. ASSUME NEW q \in Announced, receives[q] > 0 PROVE receives'[q] > 0
    <3>1. receives[q] \in Nat /\ receives'[q] >= receives[q]
      BY ReceivesCounted, WorkCases
    <3>2. CASE receives'[q] = receives[q]
      BY <2>2, <3>2
    <3>3. CASE \E msgs \in SUBSET Announced : Poll(msgs)
      <4>1. receives'[q] \in {receives[q], receives[q] + 1}
        BY <3>3 DEF Poll
      <4> QED
        BY <2>2, <3>1, <4>1
    <3>4. receives' = receives \/ \E msgs \in SUBSET Announced : Poll(msgs)
      BY WorkerCases
         DEF worker, WorkerOnly, Announce, VisibilityExpires, ProcessCheck,
             ProcessCheckFails, DeleteMessage, CleanUp, Complete, CompleteFails,
             WorkStep
    <3> QED
      BY <3>2, <3>3, <3>4
  <2>3. CASE deletes[d].phase = "done"
    <3>1. deletes'[d] = deletes[d]
      BY <2>0, <2>3, DeleteCases, DeleteProgress
    <3>2. uploads[p].phase = "accepted"
      BY <2>3 DEF KnownInv
    <3>3. ~UploadRow(p) /\ ~UploadRowFails(p)
      BY <3>2 DEF UploadRow, UploadRowFails, UploadStep
    <3>4. \/ photos[p] = NoRow
          \/ photos[p] = GhostRow /\ p \in Announced /\ receives[p] > 0
      BY <2>3 DEF DeletedStaysDeleted
    <3>5. CASE photos'[p] = photos[p] \/ photos'[p] = NoRow
      BY <2>2, <3>1, <3>4, <3>5
    <3>6. CASE work.phase = "found" /\ work.photo = p /\ photos'[p] = UpdatedRow(p)
      <4>1. p \in Announced /\ receives[p] > 0
        BY <3>6 DEF KnownInv
      <4>2. photos'[p] = GhostRow
        BY <3>4, <3>6, GhostCompleted DEF UpdatedRow
      <4> QED
        BY <2>2, <3>1, <4>1, <4>2
    <3> QED
      BY <2>1, <3>3, <3>5, <3>6, RowCases
  <2>4. CASE deletes[d].phase # "done"
    <3>1. DeleteMoves(d)
      BY <2>0, <2>4, DeleteCases
    <3>2. DeleteRow(d)
      <4>1. DeleteRow(d) \/ DeleteRowFails(d)
        BY <2>0, <3>1, DeleteProgress
      <4>2. DeleteRowFails(d) => deletes'[d].phase = "failed"
        BY <2>1 DEF DeleteRowFails, DeleteStep, Delete
      <4> QED
        BY <4>1, <4>2
    <3>3. photos'[p] = NoRow
      BY <2>1, <3>2 DEF DeleteRow
    <3>4. deletes'[d].photo = p
      BY <2>0, <3>1, <3>2, DeleteProgress DEF DeleteRow, DeleteStep
    <3> QED
      BY <3>3, <3>4
  <2> QED
    BY <2>3, <2>4
<1> QED
  BY <1>1, <1>2, WorkerTyped, KnownInvariant, PTL DEF WorkerSpec

-----------------------------------------------------------------------------
(* What the steps do to the albums' counters: the item is replaced, or the *)
(* counter grows and every number taken is above what it was.              *)
LEMMA CounterCases ==
    ASSUME RequestsTypeOK, [WorkerNext]_workerVars
    PROVE  \/ /\ albums' = albums /\ epochs' = epochs
           \/ \E a \in Albums, s \in Nat :
                 /\ epochs' = [epochs EXCEPT ![a] = @ + 1]
                 /\ albums' = [albums EXCEPT ![a] = s]
                 /\ uploads' = uploads
           \/ \E p \in Photos, n \in Nat :
                 /\ epochs' = epochs
                 /\ uploads[p].phase = "checked"
                 /\ albums' = [albums EXCEPT ![uploads[p].album] = n]
                 /\ n > albums[uploads[p].album]
                 /\ uploads'[p].album = uploads[p].album
                 /\ Numbered(p)' => /\ uploads'[p].seq = n
                                    /\ uploads'[p].epoch = epochs[uploads[p].album]
                 /\ \A q \in Photos \ {p} : uploads'[q] = uploads[q]
<1>1. \A a \in Albums : /\ Counter(a) \in Nat /\ Counter(a) >= albums[a]
                        /\ albums[a] \in Nat \cup {NoAlbum}
  BY DEF Counter, NoAlbum, RequestsTypeOK
<1>2. ASSUME NEW u \in Puts, NEW a \in Albums, NEW s \in BodySeqs, PutAlbum(u, a, s)
      PROVE  /\ s \in Nat
             /\ epochs' = [epochs EXCEPT ![a] = @ + 1]
             /\ albums' = [albums EXCEPT ![a] = s]
             /\ uploads' = uploads
  BY <1>2, StoreAssumption DEF PutAlbum
<1>3. ASSUME NEW p \in Photos, NEW i \in {1, 2}, UploadNumber(p, i)
      PROVE  \E n \in Nat :
                /\ epochs' = epochs
                /\ uploads[p].phase = "checked"
                /\ albums' = [albums EXCEPT ![uploads[p].album] = n]
                /\ n > albums[uploads[p].album]
                /\ uploads'[p].album = uploads[p].album
                /\ Numbered(p)' => /\ uploads'[p].seq = n
                                   /\ uploads'[p].epoch = epochs[uploads[p].album]
                /\ \A q \in Photos \ {p} : uploads'[q] = uploads[q]
  <2> DEFINE n == Counter(uploads[p].album) + i
  <2>1. uploads[p] \in Upload /\ uploads[p].album \in Albums
    BY DEF RequestsTypeOK, Upload
  <2>2. n \in Nat /\ n > albums[uploads[p].album]
    BY <1>1, <2>1 DEF NoAlbum
  <2>3. /\ epochs' = epochs /\ uploads[p].phase = "checked"
        /\ albums' = [albums EXCEPT ![uploads[p].album] = n]
        /\ uploads' = [uploads EXCEPT ![p].phase = "numbered", ![p].seq = n,
                                      ![p].epoch = epochs[uploads[p].album]]
    BY <1>3 DEF UploadNumber
  <2> HIDE DEF n
  <2>4. /\ uploads'[p].album = uploads[p].album /\ uploads'[p].seq = n
        /\ uploads'[p].epoch = epochs[uploads[p].album]
    BY <2>1, <2>3 DEF RequestsTypeOK, Upload
  <2>5. \A q \in Photos \ {p} : uploads'[q] = uploads[q]
    BY <2>3 DEF RequestsTypeOK
  <2> QED
    BY <2>2, <2>3, <2>4, <2>5
<1>4. ASSUME NEW p \in Photos, UploadNumberFails(p)
      PROVE  \/ albums' = albums /\ epochs' = epochs
             \/ \E n \in Nat :
                   /\ epochs' = epochs
                   /\ uploads[p].phase = "checked"
                   /\ albums' = [albums EXCEPT ![uploads[p].album] = n]
                   /\ n > albums[uploads[p].album]
                   /\ uploads'[p].album = uploads[p].album
                   /\ Numbered(p)' => /\ uploads'[p].seq = n
                                      /\ uploads'[p].epoch = epochs[uploads[p].album]
                   /\ \A q \in Photos \ {p} : uploads'[q] = uploads[q]
  <2> DEFINE n == Counter(uploads[p].album) + 1
  <2>1. uploads[p] \in Upload /\ uploads[p].album \in Albums
    BY DEF RequestsTypeOK, Upload
  <2>2. n \in Nat /\ n > albums[uploads[p].album]
    BY <1>1, <2>1 DEF NoAlbum
  <2>3. /\ epochs' = epochs /\ uploads[p].phase = "checked"
        /\ \/ albums' = albums
           \/ albums' = [albums EXCEPT ![uploads[p].album] = n]
        /\ uploads' = [uploads EXCEPT ![p].phase = "failed"]
    BY <1>4 DEF UploadNumberFails, UploadStep
  <2> HIDE DEF n
  <2>4. uploads'[p].album = uploads[p].album /\ uploads'[p].phase = "failed"
    BY <2>1, <2>3 DEF RequestsTypeOK, Upload
  <2>5. \A q \in Photos \ {p} : uploads'[q] = uploads[q]
    BY <2>3 DEF RequestsTypeOK
  <2>6. ~Numbered(p)'
    BY <2>4 DEF Numbered
  <2> QED
    BY <2>2, <2>3, <2>4, <2>5, <2>6
<1>5. ASSUME Next
      PROVE  \/ albums' = albums /\ epochs' = epochs
             \/ \E u \in Puts, a \in Albums, s \in BodySeqs : PutAlbum(u, a, s)
             \/ \E p \in Photos, i \in {1, 2} : UploadNumber(p, i)
             \/ \E p \in Photos : UploadNumberFails(p)
  BY <1>5 DEF Next, PutAlbumFails, UploadCheck, UploadObject, UploadObjectFails,
              UploadRow, UploadRowFails, DeleteCheck, DeleteObject, DeleteRow, DeleteRowFails
<1> QED
  BY <1>2, <1>3, <1>4, <1>5, RequestsOwn DEF vars

(* "No race conditions, no duplicate seq numbers": for every number of     *)
(* uploads, of PUTs, of calls that fail and of calls that are repeated, a  *)
(* number is given twice only if the album's item was replaced between.    *)
THEOREM NumbersUnique == WorkerSpec => []SeqUnique
<1>1. WorkerInit => SeqInv
  <2> SUFFICES ASSUME WorkerInit PROVE SeqInv
    OBVIOUS
  <2>1. \A p \in Photos : ~(uploads[p].phase = "checked" \/ Numbered(p))
    BY InitialPhases DEF Numbered
  <2> QED
    BY <2>1 DEF SeqInv, SeqUnique, Duplicate
<1>2. WorkerTypeOK /\ SeqInv /\ [WorkerNext]_workerVars => SeqInv'
  <2> SUFFICES ASSUME WorkerTypeOK, SeqInv, [WorkerNext]_workerVars PROVE SeqInv'
    OBVIOUS
  <2>0. RequestsTypeOK
    BY DEF WorkerTypeOK
  <2> DEFINE Above(p) == uploads[p].phase = "checked" \/ Numbered(p)
  <2>1. /\ \A a \in Albums : /\ albums[a] \in Nat \cup {NoAlbum}
                             /\ epochs[a] \in Nat
        /\ \A p \in Photos : /\ uploads[p].album \in Albums
                             /\ uploads[p].seq \in Nat
                             /\ uploads[p].epoch \in Nat
    BY <2>0 DEF RequestsTypeOK, Upload
  <2>2. \A p \in Photos :
           /\ Above(p) => albums[uploads[p].album] # NoAlbum
           /\ Numbered(p) => uploads[p].epoch <= epochs[uploads[p].album]
           /\ Numbered(p) /\ uploads[p].epoch = epochs[uploads[p].album] =>
                 uploads[p].seq <= albums[uploads[p].album]
    BY DEF SeqInv
  <2>3. SeqUnique
    BY DEF SeqInv
  <2>4. CASE albums' = albums /\ epochs' = epochs
    <3>1. ASSUME NEW p \in Photos
          PROVE  /\ Above(p)' => albums[uploads'[p].album] # NoAlbum
                 /\ Numbered(p)' => /\ Numbered(p)
                                    /\ uploads'[p].album = uploads[p].album
                                    /\ uploads'[p].seq = uploads[p].seq
                                    /\ uploads'[p].epoch = uploads[p].epoch
      <4>1. CASE uploads'[p] = uploads[p]
        BY <2>2, <4>1 DEF Numbered
      <4>2. ASSUME NEW a \in Albums, UploadCheck(p, a)
            PROVE  /\ ~Numbered(p)'
                   /\ uploads'[p].phase = "checked" =>
                         albums[uploads'[p].album] # NoAlbum
        <5>1. PICK found \in BOOLEAN :
                 /\ found => albums[a] # NoAlbum
                 /\ uploads' = [uploads EXCEPT ![p] =
                                  [phase |-> IF found THEN "checked" ELSE "notfound",
                                   album |-> a, seq |-> 0, epoch |-> 0]]
          BY <4>2 DEF UploadCheck
        <5>2. /\ uploads'[p].phase = IF found THEN "checked" ELSE "notfound"
              /\ uploads'[p].album = a
          BY <2>0, <5>1 DEF RequestsTypeOK
        <5> QED
          BY <5>1, <5>2 DEF Numbered
      <4>3. ASSUME NEW i \in {1, 2}, UploadNumber(p, i) PROVE FALSE
        <5>1. Counter(uploads[p].album) + i > albums[uploads[p].album]
          BY <2>1 DEF Counter, NoAlbum
        <5>2. albums'[uploads[p].album] = Counter(uploads[p].album) + i
          BY <2>0, <2>1, <4>3 DEF UploadNumber, RequestsTypeOK
        <5> QED
          BY <2>1, <2>4, <5>1, <5>2 DEF NoAlbum
      <4>4. ASSUME UploadNumberFails(p) PROVE ~Above(p)'
        BY <2>0, <4>4 DEF UploadNumberFails, UploadStep, Numbered, RequestsTypeOK
      <4>5. ASSUME \/ UploadObject(p) \/ UploadObjectFails(p)
                   \/ UploadRow(p) \/ UploadRowFails(p)
            PROVE  /\ Numbered(p)
                   /\ uploads'[p].album = uploads[p].album
                   /\ uploads'[p].seq = uploads[p].seq
                   /\ uploads'[p].epoch = uploads[p].epoch
        <5>1. uploads[p].phase \in {"numbered", "stored"}
          BY <4>5 DEF UploadObject, UploadObjectFails, UploadRow, UploadRowFails,
                      UploadStep
        <5> QED
          BY <2>0, <4>5, <5>1, UploadProgress DEF UploadMoves, Numbered
      <4> QED
        BY <2>0, <2>2, <4>1, <4>2, <4>3, <4>4, <4>5, UploadCases DEF UploadMoves
    <3> QED
      BY <2>2, <2>3, <2>4, <3>1 DEF SeqInv, SeqUnique, Duplicate
  <2>5. ASSUME NEW a \in Albums, NEW s \in Nat,
               epochs' = [epochs EXCEPT ![a] = @ + 1],
               albums' = [albums EXCEPT ![a] = s], uploads' = uploads
        PROVE  SeqInv'
    <3>1. /\ albums'[a] = s /\ epochs'[a] = epochs[a] + 1 /\ s # NoAlbum
          /\ \A b \in Albums \ {a} : albums'[b] = albums[b] /\ epochs'[b] = epochs[b]
      BY <2>0, <2>5 DEF RequestsTypeOK, NoAlbum
    <3>2. ASSUME NEW p \in Photos
          PROVE  /\ Above(p)' => albums'[uploads'[p].album] # NoAlbum
                 /\ Numbered(p)' => uploads'[p].epoch <= epochs'[uploads'[p].album]
                 /\ Numbered(p)' /\ uploads'[p].epoch = epochs'[uploads'[p].album] =>
                       uploads'[p].seq <= albums'[uploads'[p].album]
      <4>1. /\ uploads'[p] = uploads[p] /\ Above(p)' = Above(p)
            /\ Numbered(p)' = Numbered(p)
        BY <2>5 DEF Numbered
      <4>2. CASE uploads[p].album = a
        BY <2>1, <2>2, <3>1, <4>1, <4>2
      <4>3. CASE uploads[p].album # a
        BY <2>1, <2>2, <3>1, <4>1, <4>3
      <4> QED
        BY <4>2, <4>3
    <3>3. SeqUnique'
      BY <2>3, <2>5 DEF SeqUnique, Duplicate, Numbered
    <3> QED
      BY <3>2, <3>3 DEF SeqInv
  <2>6. ASSUME NEW p \in Photos, NEW n \in Nat,
               epochs' = epochs, uploads[p].phase = "checked",
               albums' = [albums EXCEPT ![uploads[p].album] = n],
               n > albums[uploads[p].album],
               uploads'[p].album = uploads[p].album,
               Numbered(p)' => /\ uploads'[p].seq = n
                               /\ uploads'[p].epoch = epochs[uploads[p].album],
               \A q \in Photos \ {p} : uploads'[q] = uploads[q]
        PROVE  SeqInv'
    <3> DEFINE a == uploads[p].album
    <3>1. a \in Albums /\ albums[a] # NoAlbum /\ albums[a] \in Nat
      BY <2>1, <2>2, <2>6
    <3>2. albums'[a] = n /\ \A b \in Albums \ {a} : albums'[b] = albums[b]
      BY <2>0, <2>6, <3>1 DEF RequestsTypeOK
    <3>3. n # NoAlbum
      BY DEF NoAlbum
    <3>5. ASSUME NEW q \in Photos \ {p}
          PROVE  /\ uploads'[q] = uploads[q]
                 /\ Above(q)' = Above(q) /\ Numbered(q)' = Numbered(q)
      BY <2>6 DEF Numbered
    <3>6. ASSUME NEW q \in Photos \ {p}, Numbered(q), uploads[q].album = a,
                 uploads[q].epoch = epochs[a]
          PROVE  uploads[q].seq < n
      <4>1. uploads[q].seq <= albums[a] /\ uploads[q].seq \in Nat
        BY <2>1, <2>2, <3>6
      <4> QED
        BY <2>6, <3>1, <4>1
    <3>7. ASSUME NEW q \in Photos \ {p}
          PROVE  /\ Above(q)' => albums'[uploads'[q].album] # NoAlbum
                 /\ Numbered(q)' => uploads'[q].epoch <= epochs'[uploads'[q].album]
                 /\ Numbered(q)' /\ uploads'[q].epoch = epochs'[uploads'[q].album] =>
                       uploads'[q].seq <= albums'[uploads'[q].album]
      <4>1. CASE uploads[q].album = a
        BY <2>1, <2>2, <2>6, <3>2, <3>3, <3>5, <3>6, <4>1
      <4>2. CASE uploads[q].album # a
        BY <2>1, <2>2, <2>6, <3>2, <3>5, <4>2
      <4> QED
        BY <4>1, <4>2
    <3>8. /\ albums'[uploads'[p].album] # NoAlbum
          /\ Numbered(p)' => /\ uploads'[p].seq <= albums'[uploads'[p].album]
                             /\ uploads'[p].epoch <= epochs'[uploads'[p].album]
      BY <2>1, <2>6, <3>1, <3>2, <3>3
    <3>9. SeqUnique'
      <4> SUFFICES ASSUME NEW q \in Photos, NEW r \in Photos, Duplicate(q, r)'
                   PROVE  uploads'[q].epoch # uploads'[r].epoch
        BY DEF SeqUnique
      <4>1. CASE q # p /\ r # p
        BY <2>3, <3>5, <4>1 DEF SeqUnique, Duplicate
      <4>2. ASSUME NEW t \in Photos \ {p}, Numbered(t)', Numbered(p)',
                   uploads'[t].album = uploads'[p].album,
                   uploads'[t].epoch = uploads'[p].epoch
            PROVE  uploads'[t].seq # uploads'[p].seq
        <5>1. uploads[t].seq < n /\ uploads'[t].seq = uploads[t].seq
          BY <2>6, <3>5, <3>6, <4>2
        <5>2. uploads'[p].seq = n
          BY <2>6, <4>2
        <5> QED
          BY <2>1, <5>1, <5>2
      <4> QED
        BY <4>1, <4>2 DEF Duplicate
    <3> QED
      BY <3>5, <3>7, <3>8, <3>9 DEF SeqInv
  <2> QED
    BY <2>0, <2>4, <2>5, <2>6, CounterCases
<1> QED
  BY <1>1, <1>2, WorkerTyped, PTL DEF WorkerSpec, SeqInv
=============================================================================
