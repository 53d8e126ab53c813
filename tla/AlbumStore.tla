----------------------------- MODULE AlbumStore -----------------------------
(***************************************************************************)
(* The album store (Final Mastery): two identical API tasks over DynamoDB  *)
(* and S3.  A handler is a sequence of calls to the two services and keeps *)
(* nothing of its own, so requests interleave at every call, whichever     *)
(* task serves them.  A call that returns an error may have taken effect.  *)
(* A photo's identity is the uuid its upload draws; clients learn it from  *)
(* the 202.                                                                *)
(***************************************************************************)
EXTENDS Integers, FiniteSets

CONSTANTS Albums,      \* album ids
          Photos,      \* photo ids, one for each upload request
          Deletes,     \* identities of DELETE requests
          Puts,        \* identities of PUT requests
          MaxAttempts, \* bound on the SDK's attempts at a PutItem that apply
          BodySeqs,    \* photo_seq a PUT body may carry, 0 when it has none
          Failures,    \* whether calls to DynamoDB and S3 may fail
          StaleReads   \* whether GetItem may miss the latest write

ASSUME StoreAssumption == /\ Albums # {} /\ Photos # {}
                          /\ MaxAttempts \in Nat
                          /\ BodySeqs \subseteq Nat
                          /\ Failures \in BOOLEAN
                          /\ StaleReads \in BOOLEAN

VARIABLES albums,    \* table Albums: photo_seq, or NoAlbum
          photos,    \* table Photos: photo -> its row, or NoRow
          objects,   \* keys in the bucket: photos/<album>/<photo>
          uploads,   \* photo -> local state of UploadPhoto and its answer
          deletes,   \* delete -> local state of DeletePhoto and its answer
          puts,      \* put -> local state of CreateOrUpdateAlbum
          epochs     \* history: album -> PutItems applied to it

vars == <<albums, photos, objects, uploads, deletes, puts, epochs>>

(* What fills a field that is not used yet. *)
AnAlbum == CHOOSE a \in Albums : TRUE
APhoto == CHOOSE p \in Photos : TRUE

NoAlbum == -1
NoRow == [status |-> "absent", album |-> AnAlbum, seq |-> 0]

Row == [status : {"absent", "completed"}, album : Albums, seq : Nat]

Upload == [phase : {"new", "checked", "numbered", "stored",
                    "accepted", "notfound", "failed"},
           album : Albums, seq : Nat,
           epoch : Nat]   \* history: epochs[album] when it got its number

Put == [phase : {"open", "answered"}, album : Albums, seq : Nat,
        attempts : Nat]   \* attempts at its PutItem that were applied

Delete == [phase : {"new", "found", "unlinked", "done", "notfound", "failed"},
           album : Albums, photo : Photos,
           kept : BOOLEAN]   \* history: S3 failed to delete the object

(* All but the table of photos, where the worker may put rows of its own. *)
RequestsTypeOK ==
    /\ albums \in [Albums -> Nat \cup {NoAlbum}]
    /\ objects \subseteq Albums \X Photos
    /\ uploads \in [Photos -> Upload]
    /\ deletes \in [Deletes -> Delete]
    /\ puts \in [Puts -> Put]
    /\ epochs \in [Albums -> Nat]

TypeOK == RequestsTypeOK /\ photos \in [Photos -> Row]

Init ==
    /\ albums = [a \in Albums |-> NoAlbum]
    /\ photos = [p \in Photos |-> NoRow]
    /\ objects = {}
    /\ uploads = [p \in Photos |-> [phase |-> "new", album |-> AnAlbum,
                                    seq |-> 0, epoch |-> 0]]
    /\ deletes = [d \in Deletes |-> [phase |-> "new", album |-> AnAlbum,
                                     photo |-> APhoto, kept |-> FALSE]]
    /\ puts = [u \in Puts |-> [phase |-> "open", album |-> AnAlbum, seq |-> 0,
                              attempts |-> 0]]
    /\ epochs = [a \in Albums |-> 0]

-----------------------------------------------------------------------------
(* CreateOrUpdateAlbum *)

(* One attempt at PutItem is applied and replaces the whole item, with its *)
(* photo_seq.  Then the handler answers, 200 or 500; or the answer to this *)
(* attempt is lost and the SDK sends the same item again.                  *)
PutAlbum(u, a, s) ==
    LET put == puts[u]
        applied(phase) == [phase |-> phase, album |-> a, seq |-> s,
                           attempts |-> put.attempts + 1]
    IN  /\ put.phase = "open"
        /\ put.attempts < MaxAttempts
        /\ put.attempts = 0 \/ (put.album = a /\ put.seq = s)
        /\ \/ puts' = [puts EXCEPT ![u] = applied("answered")]
           \/ Failures /\ puts' = [puts EXCEPT ![u] = applied("open")]
        /\ albums' = [albums EXCEPT ![a] = s]
        /\ epochs' = [epochs EXCEPT ![a] = @ + 1]
        /\ UNCHANGED <<photos, objects, uploads, deletes>>

(* The SDK gives up after an attempt that changed nothing: 500. *)
PutAlbumFails(u) ==
    /\ Failures
    /\ puts[u].phase = "open"
    /\ puts' = [puts EXCEPT ![u].phase = "answered"]
    /\ UNCHANGED <<albums, photos, objects, uploads, deletes, epochs>>

-----------------------------------------------------------------------------
(* UploadPhoto *)

UploadStep(p, from, to) ==
    /\ uploads[p].phase = from
    /\ uploads' = [uploads EXCEPT ![p].phase = to]

(* GetAlbum: 404 when there is no such album, or a stale read shows none. *)
UploadCheck(p, a) ==
    /\ uploads[p].phase = "new"
    /\ \E found \in {albums[a] # NoAlbum, albums[a] # NoAlbum /\ ~StaleReads} :
          uploads' = [uploads EXCEPT ![p] =
                        [phase |-> IF found THEN "checked" ELSE "notfound",
                         album |-> a, seq |-> 0, epoch |-> 0]]
    /\ UNCHANGED <<albums, photos, objects, deletes, puts, epochs>>

(* The counter of an album item that UpdateItem would create is 0. *)
Counter(a) == IF albums[a] = NoAlbum THEN 0 ELSE albums[a]

(* Mutant: the counter is read and written back in two calls, so another   *)
(* upload may read the same number between them.                           *)
UploadNumberTwoCalls(p, i) ==
    /\ uploads[p].phase = "checked"
    /\ i \in {1, 2}
    /\ \E lost \in BOOLEAN :
          albums' = [albums EXCEPT ![uploads[p].album] =
                       IF lost THEN @ ELSE Counter(uploads[p].album) + 1]
    /\ uploads' = [uploads EXCEPT ![p].phase = "numbered",
                                  ![p].seq = Counter(uploads[p].album) + 1,
                                  ![p].epoch = epochs[uploads[p].album]]
    /\ UNCHANGED <<photos, objects, deletes, puts, epochs>>

(* IncrementPhotoSeq: ADD.  The SDK repeats a call whose answer was lost,  *)
(* so the counter may move by i = 2; the handler gets the latest value.    *)
(* Calls between the two attempts find what they find after a failed call. *)
UploadNumber(p, i) ==
    /\ uploads[p].phase = "checked"
    /\ i = 1 \/ (Failures /\ i = 2)
    /\ LET a == uploads[p].album
       IN  /\ albums' = [albums EXCEPT ![a] = Counter(a) + i]
           /\ uploads' = [uploads EXCEPT ![p].phase = "numbered",
                                         ![p].seq = Counter(a) + i,
                                         ![p].epoch = epochs[a]]
    /\ UNCHANGED <<photos, objects, deletes, puts, epochs>>

UploadNumberFails(p) ==
    /\ Failures
    /\ UploadStep(p, "checked", "failed")
    /\ LET a == uploads[p].album
       IN  albums' \in {albums, [albums EXCEPT ![a] = Counter(a) + 1]}
    /\ UNCHANGED <<photos, objects, deletes, puts, epochs>>

Key(p) == <<uploads[p].album, p>>

(* Mutant: the object is uploaded once more after the answer. *)
UploadObjectAgain(p) ==
    /\ \/ UploadStep(p, "numbered", "stored")
       \/ uploads[p].phase = "accepted" /\ UNCHANGED uploads
    /\ objects' = objects \cup {Key(p)}
    /\ UNCHANGED <<albums, photos, deletes, puts, epochs>>

(* PutObject, under the album's and the photo's id. *)
UploadObject(p) ==
    /\ UploadStep(p, "numbered", "stored")
    /\ objects' = objects \cup {Key(p)}
    /\ UNCHANGED <<albums, photos, deletes, puts, epochs>>

UploadObjectFails(p) ==
    /\ Failures
    /\ UploadStep(p, "numbered", "failed")
    /\ objects' \in {objects, objects \cup {Key(p)}}
    /\ UNCHANGED <<albums, photos, deletes, puts, epochs>>

UploadedRow(p) == [status |-> "completed", album |-> uploads[p].album,
                   seq |-> uploads[p].seq]

(* Mutants: the row is saved before the object is uploaded; the error of   *)
(* PutPhoto is not looked at; the row is saved once more after the answer. *)
UploadRowFirst(p) ==
    /\ uploads[p].phase \in {"numbered", "stored"}
    /\ uploads' = [uploads EXCEPT ![p].phase = "accepted"]
    /\ photos' = [photos EXCEPT ![p] = UploadedRow(p)]
    /\ UNCHANGED <<albums, objects, deletes, puts, epochs>>

UploadRowUnchecked(p) ==
    /\ UploadStep(p, "stored", "accepted")
    /\ photos' \in {photos, [photos EXCEPT ![p] = UploadedRow(p)]}
    /\ UNCHANGED <<albums, objects, deletes, puts, epochs>>

UploadRowRetried(p) ==
    /\ uploads[p].phase \in {"stored", "accepted"}
    /\ uploads' = [uploads EXCEPT ![p].phase = "accepted"]
    /\ photos' = [photos EXCEPT ![p] = UploadedRow(p)]
    /\ UNCHANGED <<albums, objects, deletes, puts, epochs>>

(* PutPhoto, status completed, and 202. *)
UploadRow(p) ==
    /\ UploadStep(p, "stored", "accepted")
    /\ photos' = [photos EXCEPT ![p] = UploadedRow(p)]
    /\ UNCHANGED <<albums, objects, deletes, puts, epochs>>

UploadRowFails(p) ==
    /\ Failures
    /\ UploadStep(p, "stored", "failed")
    /\ photos' \in {photos, [photos EXCEPT ![p] = UploadedRow(p)]}
    /\ UNCHANGED <<albums, objects, deletes, puts, epochs>>

-----------------------------------------------------------------------------
(* DeletePhoto *)

(* GetPhoto, of a photo whose id the client knows.  The album id in the    *)
(* path is any.  A stale read may show the row before it was saved or      *)
(* after it was deleted.                                                   *)
DeleteCheck(d, p, a) ==
    /\ deletes[d].phase = "new"
    /\ uploads[p].phase = "accepted"
    /\ \E found \in {photos[p] # NoRow} \cup (IF StaleReads THEN BOOLEAN ELSE {}) :
          deletes' = [deletes EXCEPT ![d] =
                        [phase |-> IF found THEN "found" ELSE "notfound",
                         album |-> a, photo |-> p, kept |-> FALSE]]
    /\ UNCHANGED <<albums, photos, objects, uploads, puts, epochs>>

DeleteStep(d, from, to) ==
    /\ deletes[d].phase = from
    /\ deletes' = [deletes EXCEPT ![d].phase = to]

(* DeleteObject, under the album id of the path; its error is ignored. *)
DeleteObject(d) ==
    /\ deletes[d].phase = "found"
    /\ \E kept \in IF Failures THEN BOOLEAN ELSE {FALSE} :
          /\ deletes' = [deletes EXCEPT ![d].phase = "unlinked", ![d].kept = kept]
          /\ objects' = IF kept THEN objects
                        ELSE objects \ {<<deletes[d].album, deletes[d].photo>>}
    /\ UNCHANGED <<albums, photos, uploads, puts, epochs>>

DeleteRow(d) ==
    /\ DeleteStep(d, "unlinked", "done")
    /\ photos' = [photos EXCEPT ![deletes[d].photo] = NoRow]
    /\ UNCHANGED <<albums, objects, uploads, puts, epochs>>

DeleteRowFails(d) ==
    /\ Failures
    /\ DeleteStep(d, "unlinked", "failed")
    /\ photos' \in {photos, [photos EXCEPT ![deletes[d].photo] = NoRow]}
    /\ UNCHANGED <<albums, objects, uploads, puts, epochs>>

Next ==
    \/ \E u \in Puts :
          \/ \E a \in Albums, s \in BodySeqs : PutAlbum(u, a, s)
          \/ PutAlbumFails(u)
    \/ \E p \in Photos :
          \/ \E a \in Albums : UploadCheck(p, a)
          \/ \E i \in {1, 2} : UploadNumber(p, i)
          \/ UploadNumberFails(p)
          \/ UploadObject(p) \/ UploadObjectFails(p)
          \/ UploadRow(p)    \/ UploadRowFails(p)
    \/ \E d \in Deletes :
          \/ \E p \in Photos, a \in Albums : DeleteCheck(d, p, a)
          \/ DeleteObject(d)
          \/ DeleteRow(d) \/ DeleteRowFails(d)

Spec == Init /\ [][Next]_vars

-----------------------------------------------------------------------------
(* Properties *)

Numbered(p) == uploads[p].phase \in {"numbered", "stored", "accepted"}

Duplicate(p, q) ==
    /\ p # q
    /\ Numbered(p) /\ Numbered(q)
    /\ uploads[p].album = uploads[q].album
    /\ uploads[p].seq = uploads[q].seq

(* Two uploads to an album get the same number only if the album's item    *)
(* was replaced between the two, by another PUT or the SDK's repeat of     *)
(* one: not because they overlap, nor because a call fails or is repeated. *)
SeqUnique ==
    \A p, q \in Photos :
        Duplicate(p, q) => uploads[p].epoch # uploads[q].epoch

(* "No race conditions, no duplicate seq numbers" (store/dynamo.go:111),   *)
(* whatever happens to the album between two uploads.                      *)
NoDuplicateSeq == \A p, q \in Photos : ~Duplicate(p, q)

(* A photo answered 202 has its row, with the number in the answer, until  *)
(* somebody deletes it.                                                    *)
AcceptedHasRow ==
    \A p \in Photos :
        uploads[p].phase = "accepted" =>
            \/ photos[p] = UploadedRow(p)
            \/ \E d \in Deletes : /\ deletes[d].photo = p
                                  /\ deletes[d].phase \in {"done", "failed"}

(* A delete of photo p under album a has got past the object. *)
Unlinked(a, p) ==
    \E d \in Deletes : /\ deletes[d].photo = p
                       /\ deletes[d].album = a
                       /\ deletes[d].phase \in {"unlinked", "done", "failed"}

(* An object without a row is that of an upload that has not saved its row *)
(* and perhaps never will, or was left behind by a delete that got past it *)
(* under another album's id, or with an error from S3 that nobody saw.     *)
OrphansExplained ==
    \A o \in objects :
        LET a == o[1]  p == o[2]
        IN  \/ photos[p] # NoRow
            \/ uploads[p].phase \in {"stored", "failed"}
            \/ \E d \in Deletes : /\ deletes[d].photo = p
                                  /\ deletes[d].phase \in {"done", "failed"}
                                  /\ deletes[d].album # a \/ deletes[d].kept
=============================================================================
