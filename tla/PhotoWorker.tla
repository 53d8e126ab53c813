---------------------------- MODULE PhotoWorker -----------------------------
(***************************************************************************)
(* The photo worker (Final Mastery/worker) beside the album store's API.   *)
(* It polls a queue for messages about uploaded photos and completes their *)
(* rows.  main never starts it and no handler of this commit sends it      *)
(* messages; the queue and what arrives there are external, and started    *)
(* tells the deployments with and without a worker apart.                  *)
(***************************************************************************)
EXTENDS AlbumStore

CONSTANTS Announced,    \* photos somebody may send the worker a message about
          MaxReceives   \* bound on the deliveries of a message

ASSUME WorkerAssumption == Announced \subseteq Photos /\ MaxReceives \in Nat

VARIABLES started,    \* worker.Start was called
          queue,      \* photo -> whether its message is in the queue
          receives,   \* photo -> deliveries of its message
          batch,      \* out.Messages that pollAndProcess has not come to
          work,       \* the message it is at
          missed      \* history: photos whose row a read of the worker missed

worker == <<started, queue, receives, batch, work, missed>>
workerVars == <<vars, worker>>

NoWork == [phase |-> "none", photo |-> APhoto]

(* UpdateItem on a key without an item creates one: it has a status and a  *)
(* URL, and belongs to no album.                                           *)
GhostRow == [status |-> "completed", album |-> "no album", seq |-> 0]

WorkerTypeOK ==
    /\ RequestsTypeOK
    /\ photos \in [Photos -> Row \cup {GhostRow}]
    /\ started \in BOOLEAN
    /\ queue \in [Announced -> {"not sent", "visible", "hidden", "deleted"}]
    /\ receives \in [Announced -> 0..MaxReceives]
    /\ batch \subseteq Announced
    /\ work \in [phase : {"none", "found", "absent", "handled"}, photo : Photos]
    /\ missed \subseteq Announced

WorkerInit ==
    /\ Init
    /\ started \in BOOLEAN
    /\ queue = [p \in Announced |-> "not sent"]
    /\ receives = [p \in Announced |-> 0]
    /\ batch = {}
    /\ work = NoWork
    /\ missed = {}

-----------------------------------------------------------------------------
(* The queue: a message about an uploaded photo comes, and comes back when *)
(* it has not been deleted in time.                                        *)
Announce(p) ==
    /\ started
    /\ uploads[p].phase = "accepted"
    /\ queue[p] = "not sent"
    /\ queue' = [queue EXCEPT ![p] = "visible"]
    /\ UNCHANGED <<started, receives, batch, work, missed>>

VisibilityExpires(p) ==
    /\ queue[p] = "hidden"
    /\ receives[p] < MaxReceives
    /\ queue' = [queue EXCEPT ![p] = "visible"]
    /\ UNCHANGED <<started, receives, batch, work, missed>>

-----------------------------------------------------------------------------
(* pollAndProcess *)

Poll(msgs) ==
    /\ batch = {} /\ work = NoWork
    /\ msgs # {}
    /\ \A p \in msgs : queue[p] = "visible" /\ receives[p] < MaxReceives
    /\ batch' = msgs
    /\ queue' = [p \in Announced |-> IF p \in msgs THEN "hidden" ELSE queue[p]]
    /\ receives' = [p \in Announced |->
                      IF p \in msgs THEN receives[p] + 1 ELSE receives[p]]
    /\ UNCHANGED <<started, work, missed>>

(* GetPhoto finds the row or not; a stale read may miss a row or show one  *)
(* that was deleted.                                                       *)
ProcessCheck(p) ==
    /\ p \in batch /\ work = NoWork
    /\ batch' = batch \ {p}
    /\ \E found \in {photos[p] # NoRow} \cup (IF StaleReads THEN BOOLEAN ELSE {}) :
          /\ work' = [phase |-> IF found THEN "found" ELSE "absent", photo |-> p]
          /\ missed' = IF photos[p] # NoRow /\ ~found THEN missed \cup {p}
                       ELSE missed
    /\ UNCHANGED <<started, queue, receives>>

(* GetPhoto's error: the message is left to come back. *)
ProcessCheckFails(p) ==
    /\ Failures
    /\ p \in batch /\ work = NoWork
    /\ batch' = batch \ {p}
    /\ UNCHANGED <<started, queue, receives, work, missed>>

WorkStep(from, to) ==
    /\ work.phase = from
    /\ work' = [work EXCEPT !.phase = to]
    /\ UNCHANGED <<started, queue, receives, batch, missed>>

(* "Photo was deleted": its object is removed, an error is ignored. *)
CleanUp ==
    /\ WorkStep("absent", "handled")
    /\ \/ objects' = objects \ {Key(work.photo)}
       \/ Failures /\ objects' = objects
    /\ UNCHANGED <<albums, photos, uploads, deletes, puts, epochs>>

(* Mutant: the whole row is written again, from the message. *)
UpdatedRowWhole(p) == UploadedRow(p)

UpdatedRow(p) == IF photos[p] = NoRow THEN GhostRow
                 ELSE [photos[p] EXCEPT !.status = "completed"]

(* UpdatePhotoStatus. *)
Complete ==
    /\ WorkStep("found", "handled")
    /\ photos' = [photos EXCEPT ![work.photo] = UpdatedRow(work.photo)]
    /\ UNCHANGED <<albums, objects, uploads, deletes, puts, epochs>>

(* It returned an error, and the message is left to come back. *)
CompleteFails ==
    /\ Failures
    /\ work.phase = "found"
    /\ work' = NoWork
    /\ photos' \in {photos, [photos EXCEPT ![work.photo] = UpdatedRow(work.photo)]}
    /\ UNCHANGED <<started, queue, receives, batch, missed>>
    /\ UNCHANGED <<albums, objects, uploads, deletes, puts, epochs>>

(* deleteMessage, whose error is logged. *)
DeleteMessage ==
    /\ work.phase = "handled"
    /\ work' = NoWork
    /\ \/ queue' = [queue EXCEPT ![work.photo] = "deleted"]
       \/ Failures /\ UNCHANGED queue
    /\ UNCHANGED <<started, receives, batch, missed>>

WorkerNext ==
    \/ Next /\ UNCHANGED worker
    \/ /\ UNCHANGED vars
       /\ \/ \E p \in Announced :
                \/ Announce(p) \/ VisibilityExpires(p)
                \/ ProcessCheck(p) \/ ProcessCheckFails(p)
          \/ \E msgs \in SUBSET Announced : Poll(msgs)
          \/ DeleteMessage
    \/ CleanUp
    \/ Complete \/ CompleteFails

WorkerSpec == WorkerInit /\ [][WorkerNext]_workerVars

-----------------------------------------------------------------------------
(* Properties *)

(* A row says completed and gives a URL, so its object is there, unless a  *)
(* delete of that photo has got past the object, whether or not it then    *)
(* removed the row, or the worker missed the row and took the photo for    *)
(* deleted.  Without stale reads the worker never harms a photo.           *)
CompletedHasObject ==
    \A p \in Photos :
        photos[p] \notin {NoRow, GhostRow} =>
            \/ <<photos[p].album, p>> \in objects
            \/ Unlinked(photos[p].album, p)
            \/ p \in missed

(* A deleted photo does not come back with its album and number: no upload *)
(* saves its row after a delete was answered 204.  The worker, whose check *)
(* and update are two calls, may leave a row that belongs to no album.     *)
DeletedStaysDeleted ==
    \A d \in Deletes :
        LET p == deletes[d].photo
        IN  deletes[d].phase = "done" =>
                \/ photos[p] = NoRow
                \/ photos[p] = GhostRow /\ p \in Announced /\ receives[p] > 0
=============================================================================
