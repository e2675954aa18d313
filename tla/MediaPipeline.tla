--------------------------- MODULE MediaPipeline ----------------------------
(***************************************************************************)
(* One uploaded image: the upload, the processing jobs and their retries,  *)
(* the cleanup sweeps, the dead-letter replay, and the saves and deletes   *)
(* that refer to the image (MediaService, MediaProcessingService,          *)
(* MediaCleanupService, MediaDeadLetterReplayService, MediaRepository).    *)
(*                                                                         *)
(* The media row, the quarantined upload, the published image and the job  *)
(* queue are four stores that no transaction spans.  Every write to the    *)
(* row is one conditional update, and moves updated_at.                    *)
(***************************************************************************)
EXTENDS Integers, FiniteSets

CONSTANTS
    Workers,      \* media processing workers
    MaxAttempts,  \* workers.mediaProcessing.maxAttempts
    MaxRequeues,  \* workers.mediaCleanup.maxRequeues
    MaxWrites,    \* bound: how often the client writes the upload
    MaxEvents     \* bound: rewrites, saves, deletes, reopenings, crashes, jobs that fail

CLEANER == "cleaner"
CLIENT == "client"
OPERATOR == "operator"
Processes == Workers \cup {CLEANER, CLIENT, OPERATOR}

ASSUME MediaAssumption ==
    /\ {CLEANER, CLIENT, OPERATOR} \cap Workers = {}
    /\ MaxAttempts \in Nat \ {0} /\ MaxRequeues \in Nat
    /\ MaxWrites \in Nat /\ MaxEvents \in Nat

VARIABLES
    row,       \* the media row
    upload,    \* the quarantined blob: which of the client's writes, its etag
    image,     \* the processed image with its renditions: of which bytes
    attached,  \* a posting, profile, organization or blog refers to the image
    queue,     \* jobs waiting in the main queue or a retry tier, by attempt
    dead,      \* a job was dead-lettered and the row has not moved since
    job,       \* what each process is doing
    unmoved,   \* the row has not moved since the cleaner's cutoff
    late,      \* history: the item was reopened while an attempt discarded its output
    purged,    \* history: a purge began to delete the item's blobs
    writes,    \* how often the client wrote the upload
    events     \* how many of the bounded events happened

vars == <<row, upload, image, attached, queue, dead, job, unmoved, late, purged,
          writes, events>>
blobs == <<upload, image>>
jobs == <<queue, dead>>
bounds == <<writes, events>>
history == <<late, purged>>

Codes == {"none", "processing_failed", "final", "abandoned", "unattached"}
Row == [status : {"pending_upload", "uploaded", "processing", "ready", "rejected", "gone"},
        code : Codes,                      \* final: every other rejection of the content
        etag : 0 .. MaxWrites,
        attempts : Nat, requeues : 0 .. MaxRequeues,
        checks : {"none", "infected", "scanned", "allowed"},   \* scan and moderation results
        processed : BOOLEAN,               \* processedBlobName is set
        aged : BOOLEAN]                    \* unmoved for longer than the sweeps' thresholds
NONE == 0
PARTIAL == -1

Idle == [at |-> "idle", delivery |-> 0, attempt |-> 0, bytes |-> NONE, code |-> "none"]
Job == [at : {"idle", "claim", "download", "scan", "moderate", "render", "mark", "discard", "erase",
              "reject", "unlink", "handOn", "failed", "ack",
              "complete", "enqueue", "replaced", "deleteBlobs", "deleteUpload", "deleteImage",
              "abandoned", "stuck", "purge", "unattached", "purgeUpload", "deleteRow",
              "reopen", "requeue"},
        delivery : 0 .. MaxAttempts, attempt : Nat, bytes : 0 .. MaxWrites, code : Codes]

NewRow == [status |-> "pending_upload", code |-> "none", etag |-> 0, attempts |-> 0,
           requeues |-> 0, checks |-> "none", processed |-> FALSE,
           aged |-> FALSE]
Gone == [NewRow EXCEPT !.status = "gone"]

Init ==
    /\ row = NewRow
    /\ upload = NONE /\ image = NONE
    /\ attached = FALSE
    /\ queue = [n \in 0 .. MaxAttempts - 1 |-> 0]
    /\ dead = FALSE
    /\ job = [p \in Processes |-> Idle]
    /\ unmoved = FALSE /\ late = FALSE /\ purged = FALSE
    /\ writes = 0 /\ events = 0

-----------------------------------------------------------------------------
Goto(p, at) == job' = [job EXCEPT ![p].at = at]
Done(p, at) == job' = [job EXCEPT ![p] = [Idle EXCEPT !.at = at, !.delivery = job[p].delivery]]
Finish(p) == job' = [job EXCEPT ![p] = Idle]
Event == events < MaxEvents /\ events' = events + 1 /\ UNCHANGED writes     \* bound
EventIf(cond) == IF cond THEN Event ELSE UNCHANGED bounds    \* else bounded by an earlier event

Unfinished == row.status \in {"uploaded", "processing"}

(* A conditional update that applied: updated_at is now.                    *)
Moved(new) ==
    /\ row' = [new EXCEPT !.aged = FALSE]
    /\ unmoved' = FALSE
    /\ dead' = FALSE

Unchanged == UNCHANGED <<row, unmoved, dead>>

Publish(n) == queue' = [queue EXCEPT ![n] = @ + 1]
Waiting == {n \in DOMAIN queue : queue[n] > 0}

-----------------------------------------------------------------------------
(* The client.                                                              *)

(* The upload credential stays valid after completion.                      *)
PutBytes ==
    /\ writes < MaxWrites                                           \* bound
    /\ row.status # "gone"                       \* after that nothing reads the upload
    /\ writes' = writes + 1
    /\ upload' = writes + 1
    /\ IF writes = 0 THEN UNCHANGED events ELSE events < MaxEvents /\ events' = events + 1
    /\ UNCHANGED <<row, image, attached, jobs, job, unmoved, history>>

(* completeMediaUpload reads the blob's properties first; an item left in
   uploaded for a minute is queued again.                                   *)
BeginComplete ==
    /\ job[CLIENT] = Idle
    /\ \/ /\ row.status = "pending_upload" /\ upload # NONE
          /\ job' = [job EXCEPT ![CLIENT].at = "complete", ![CLIENT].bytes = upload]
          /\ UNCHANGED bounds
       \/ /\ row.status = "uploaded" /\ row.aged /\ Waiting = {}       \* bound: one job waits
          /\ Event
          /\ Goto(CLIENT, "enqueue")
    /\ UNCHANGED <<row, blobs, attached, jobs, unmoved, history>>

(* markUploaded with that etag; or the upload is over the size limit.       *)
CompleteUpload ==
    /\ job[CLIENT].at = "complete"
    /\ \/ /\ row.status = "pending_upload"
          /\ Moved([row EXCEPT !.status = "uploaded", !.etag = job[CLIENT].bytes])
          /\ Done(CLIENT, "enqueue")
       \/ /\ row.status = "pending_upload"
          /\ Moved([row EXCEPT !.status = "rejected", !.code = "final"])
          /\ Done(CLIENT, "unlink")
       \/ row.status # "pending_upload" /\ Finish(CLIENT) /\ Unchanged
    /\ UNCHANGED <<blobs, attached, queue, history, bounds>>

(* enqueueMediaProcessingJob, after the client or a sweep changed the row.  *)
Enqueue(p) ==
    /\ job[p].at = "enqueue"
    /\ Publish(0)
    /\ Finish(p)
    /\ UNCHANGED <<row, blobs, attached, dead, unmoved, history, bounds>>

(* guardImageAttachments: the row is locked and must be ready.              *)
MayAttach == row.processed /\ row.status = "ready"

SaveReference ==
    /\ ~attached
    /\ MayAttach
    /\ Event
    /\ Moved(row)
    /\ attached' = TRUE
    /\ UNCHANGED <<blobs, queue, job, history>>

(* A feature replaces the image; then deleteReplacedImageByBlobName, unless
   something such as a restorable audit entry still needs the old one.      *)
ReplaceReference ==
    /\ attached /\ job[CLIENT] = Idle
    /\ Moved(row)
    /\ attached' = FALSE
    /\ Goto(CLIENT, "replaced")
    /\ UNCHANGED <<blobs, queue, history, bounds>>

DeleteReplaced ==
    /\ job[CLIENT].at = "replaced"
    /\ \/ Finish(CLIENT) /\ Unchanged                     \* attached again, or still needed
       \/ /\ ~attached
          /\ Moved(Gone)
          /\ Goto(CLIENT, "deleteImage")
    /\ UNCHANGED <<blobs, attached, queue, history, bounds>>

(* deleteMediaById: the row goes under the lock that saves take.            *)
DeleteMedia ==
    /\ job[CLIENT] = Idle
    /\ row.status # "gone" /\ ~attached
    /\ Event
    /\ Moved(Gone)
    /\ Goto(CLIENT, IF row.processed THEN "deleteBlobs" ELSE "deleteUpload")
    /\ UNCHANGED <<blobs, attached, queue, history>>

(* deleteMediaBlobs: the upload, and the image of a processed item.         *)
DeleteBlobs(p) ==
    /\ job[p].at \in {"deleteBlobs", "deleteUpload", "deleteImage"}
    /\ upload' = IF job[p].at = "deleteImage" THEN upload ELSE NONE
    /\ image' = IF job[p].at = "deleteUpload" THEN image ELSE NONE
    /\ Finish(p)
    /\ UNCHANGED <<row, attached, jobs, unmoved, history, bounds>>

-----------------------------------------------------------------------------
(* A worker.                                                                *)

Take(w, n) ==
    /\ job[w] = Idle /\ queue[n] > 0
    /\ queue' = [queue EXCEPT ![n] = @ - 1]
    /\ job' = [job EXCEPT ![w] = [Idle EXCEPT !.at = "claim", !.delivery = n]]
    /\ UNCHANGED <<row, blobs, attached, dead, unmoved, history, bounds>>

(* findById and claimForProcessing.  The claim applies only while no other
   attempt claimed the item since it was read, so the two are one step.     *)
Claim(w) ==
    /\ job[w].at = "claim"
    /\ \/ /\ Unfinished
          /\ Moved([row EXCEPT !.status = "processing", !.attempts = @ + 1,
                               !.checks = "none"])
          /\ job' = [job EXCEPT ![w].at = "download", ![w].attempt = row.attempts + 1]
       \/ ~Unfinished /\ Finish(w) /\ Unchanged
    /\ UNCHANGED <<blobs, attached, queue, history, bounds>>

(* recordProcessingProgress.                                                *)
Progress == IF row.status = "processing" THEN Moved(row) ELSE Unchanged

Reject(w, code) == job' = [job EXCEPT ![w].at = "reject", ![w].code = code]

(* The etag recorded at completion.                                         *)
SameBytes == upload = row.etag

(* downloadOriginal: the bytes that completion saw, or none.                *)
Download(w) ==
    /\ job[w].at = "download"
    /\ \/ /\ upload # NONE /\ SameBytes
          /\ job' = [job EXCEPT ![w].at = "scan", ![w].bytes = upload]
          /\ Progress
       \/ /\ upload = NONE \/ ~SameBytes
          /\ Reject(w, "final") /\ Unchanged
    /\ UNCHANGED <<blobs, attached, queue, history, bounds>>

(* The item is still this attempt's.                                        *)
Latest(j) == row.status = "processing" /\ row.attempts = j.attempt

Scan(w) ==
    LET j == job[w] IN
    /\ j.at = "scan"
    /\ \/ /\ Latest(j)
          /\ Moved([row EXCEPT !.checks = "scanned"]) /\ Goto(w, "moderate")
       \/ /\ Latest(j)
          /\ Moved([row EXCEPT !.checks = "infected"]) /\ Reject(w, "final")
       \/ ~Latest(j) /\ Finish(w) /\ Unchanged
    /\ UNCHANGED <<blobs, attached, queue, history, bounds>>

(* inspect, render and moderate.  A body that is no acceptable image, or that
   the provider refuses, is rejected without a moderation record.           *)
Moderate(w) ==
    LET j == job[w] IN
    /\ j.at = "moderate"
    /\ \/ /\ Latest(j)
          /\ Moved([row EXCEPT !.checks = "allowed"])
          /\ Goto(w, "render")
       \/ Reject(w, "final") /\ Progress
       \/ ~Latest(j) /\ Finish(w) /\ Unchanged
    /\ UNCHANGED <<blobs, attached, queue, history, bounds>>

(* The processed image and its renditions, under names every attempt uses.  *)
UploadRenditions(w) ==
    /\ job[w].at = "render"
    /\ image' = job[w].bytes
    /\ Goto(w, "mark")
    /\ UNCHANGED <<row, upload, attached, jobs, unmoved, history, bounds>>

(* markReady, by the latest attempt on its own checks.                      *)
MarkReady(w) ==
    LET j == job[w] IN
    /\ j.at = "mark"
    /\ \/ /\ Latest(j) /\ row.checks = "allowed"
          /\ Moved([row EXCEPT !.status = "ready", !.code = "none", !.processed = TRUE])
          /\ Done(w, "unlink")
       \/ /\ ~(Latest(j) /\ row.checks = "allowed")
          /\ Done(w, "discard") /\ Unchanged
    /\ UNCHANGED <<blobs, attached, queue, history, bounds>>

(* Mutant: what was not marked ready is nobody's.                           *)
OutputIsNobodysElse == row.status # "ready"

(* Nothing refers to the renditions.                                        *)
OutputIsNobodys == row.status \in {"gone", "rejected"}

(* discardOutput: what happens to the renditions depends on who has the item.
   What is read here is acted on in the next step.                          *)
DiscardOutput(w) ==
    /\ job[w].at = "discard"
    /\ CASE OutputIsNobodys -> Goto(w, "erase")
         [] row.status = "ready" -> Goto(w, "unlink")
         [] OTHER -> Finish(w)
    /\ UNCHANGED <<row, blobs, attached, jobs, unmoved, history, bounds>>

EraseOutput(w) ==
    /\ job[w].at = "erase"
    /\ image' = NONE
    /\ Finish(w)
    /\ UNCHANGED <<row, upload, attached, jobs, unmoved, history, bounds>>

(* deleteQuarantinedUpload, which may fail and is then left.                *)
Unlink(p) ==
    /\ job[p].at = "unlink"
    /\ upload' \in {NONE, upload}
    /\ Finish(p)
    /\ UNCHANGED <<row, image, attached, jobs, unmoved, history, bounds>>

(* Mutant: every rejection deletes the upload.                              *)
KeepsNoUpload(code) == FALSE

KeepsQuarantinedUpload(code) == code = "processing_failed"

(* rejectMedia: any item that has not finished, whichever attempt has it.   *)
RejectMedia(w, after) ==
    LET code == job[w].code IN
    \/ /\ row.status \in {"pending_upload", "uploaded", "processing"}
       /\ Moved([row EXCEPT !.status = "rejected", !.code = code])
       /\ Done(w, IF KeepsQuarantinedUpload(code) THEN after ELSE "unlink")
    \/ /\ row.status \notin {"pending_upload", "uploaded", "processing"}
       /\ Done(w, after) /\ Unchanged

RejectItem(w) ==
    /\ job[w].at = "reject"
    /\ RejectMedia(w, "ack")
    /\ UNCHANGED <<blobs, attached, queue, history, bounds>>

-----------------------------------------------------------------------------
(* Failures of a job (createMediaProcessingJobHandler).                     *)

(* A step throws: storage, the scanner, the provider or the database is
   unavailable.  Some renditions may have been written; the failure is
   recorded on an unfinished item if that works.                            *)
StepFails(w) ==
    /\ job[w].at \in {"download", "scan", "moderate", "render", "mark"}
    /\ EventIf(job[w].delivery = 0)
    /\ image' \in {image} \cup {x \in {PARTIAL} : job[w].at = "render" /\ image = NONE}
    /\ \/ Unfinished /\ Moved(row)
       \/ Unchanged
    /\ Done(w, "handOn")
    /\ UNCHANGED <<upload, attached, queue, history>>

(* The job is published to a retry tier or to the dead-letter queue.        *)
HandOn(w) ==
    LET n == job[w].delivery + 1 IN
    /\ job[w].at = "handOn"
    /\ \/ n < MaxAttempts /\ Publish(n) /\ Done(w, "ack") /\ UNCHANGED dead
       \/ /\ n >= MaxAttempts
          /\ dead' = TRUE
          /\ job' = [job EXCEPT ![w].at = "failed", ![w].code = "processing_failed"]
          /\ UNCHANGED queue
    /\ UNCHANGED <<row, blobs, attached, unmoved, history, bounds>>

(* markProcessingFailed, best effort.                                       *)
MarkFailed(w) ==
    /\ job[w].at = "failed"
    /\ \/ RejectMedia(w, "ack")
       \/ Done(w, "ack") /\ Unchanged
    /\ UNCHANGED <<blobs, attached, queue, history, bounds>>

Ack(w) ==
    /\ job[w].at = "ack"
    /\ Finish(w)
    /\ UNCHANGED <<row, blobs, attached, jobs, unmoved, history, bounds>>

(* A worker dies and its message is delivered again, one that it had already
   handed on included.                                                      *)
WorkerCrashes(w) ==
    /\ job[w] # Idle
    /\ Event
    /\ Publish(job[w].delivery)
    /\ Finish(w)
    /\ UNCHANGED <<row, blobs, attached, dead, unmoved, history>>

(* Another process dies, or its next call fails.                            *)
ProcessCrashes(p) ==
    /\ job[p] # Idle
    /\ Event
    /\ Finish(p)
    /\ UNCHANGED <<row, blobs, attached, jobs, unmoved, history>>

-----------------------------------------------------------------------------
(* The cleanup: a sweep lists the items that are past a threshold, then acts
   on each while it has not moved.                                          *)

(* Mutant: only items in processing are listed.                             *)
StuckProcessing == row.status = "processing"

(* listStuck, when no job waits and a worker consumes.                      *)
Stuck == Unfinished

List(at, due) ==
    /\ job[CLEANER] = Idle
    /\ due /\ row.aged
    /\ unmoved' = TRUE
    /\ Goto(CLEANER, at)
    /\ UNCHANGED <<row, blobs, attached, jobs, history, bounds>>

ListAbandoned == List("abandoned", row.status = "pending_upload")
ListStuck == List("stuck", Stuck /\ Waiting = {})
ListRejected == List("purge", row.status = "rejected")
ListUnattached == List("unattached", row.status = "ready" /\ ~attached)

(* deferUnattached: an attached item goes to the back.                      *)
DeferAttached ==
    /\ job[CLEANER] = Idle
    /\ row.status = "ready" /\ row.aged /\ attached
    /\ Moved(row)
    /\ UNCHANGED <<blobs, attached, queue, job, history, bounds>>

(* rejectAbandonedUpload, then the bytes, then the row.                     *)
ClaimAbandoned ==
    /\ job[CLEANER].at = "abandoned"
    /\ \/ /\ row.status = "pending_upload"
          /\ Moved([row EXCEPT !.status = "rejected", !.code = "abandoned"])
          /\ Goto(CLEANER, "purgeUpload")
       \/ row.status # "pending_upload" /\ Finish(CLEANER) /\ Unchanged
    /\ UNCHANGED <<blobs, attached, queue, history, bounds>>

(* Mutant: one re-queue too many.                                           *)
MayRequeueOnce == row.requeues <= MaxRequeues

MayRequeue == row.requeues < MaxRequeues

(* claimStuckForRequeue or rejectStuck.                                     *)
ClaimStuck ==
    /\ job[CLEANER].at = "stuck"
    /\ \/ /\ Unfinished /\ unmoved /\ MayRequeue
          /\ Moved([row EXCEPT !.requeues = @ + 1])
          /\ Goto(CLEANER, "enqueue")
       \/ /\ Unfinished /\ unmoved /\ ~MayRequeue
          /\ Moved([row EXCEPT !.status = "rejected", !.code = "processing_failed"])
          /\ Finish(CLEANER)
       \/ ~(Unfinished /\ unmoved) /\ Finish(CLEANER) /\ Unchanged
    /\ UNCHANGED <<blobs, attached, queue, history, bounds>>

(* purgeRejectedMedia deletes the blobs, unconditionally, or puts the item
   off; then the row, if it is still rejected.                              *)
PurgeBlobs ==
    /\ job[CLEANER].at \in {"purge", "purgeUpload"}
    /\ purged' = TRUE
    /\ \/ /\ upload' = NONE
          /\ image' = IF job[CLEANER].at = "purge" /\ row.processed THEN NONE ELSE image
          /\ Goto(CLEANER, "deleteRow") /\ Unchanged
          /\ UNCHANGED bounds
       \/ /\ Event
          /\ upload' \in {upload, NONE} /\ UNCHANGED image
          /\ IF job[CLEANER].at = "purge" /\ row.status = "rejected" /\ unmoved
             THEN Moved(row) ELSE Unchanged
          /\ Finish(CLEANER)
    /\ UNCHANGED <<attached, queue, late>>

(* deleteByIdIfStatus.                                                      *)
DeleteRow ==
    /\ job[CLEANER].at = "deleteRow"
    /\ IF row.status = "rejected" THEN Moved(Gone) ELSE Unchanged
    /\ Finish(CLEANER)
    /\ UNCHANGED <<blobs, attached, queue, history, bounds>>

(* Mutant: the item is claimed although it moved since it was listed.       *)
MayClaimReady == row.status = "ready"

(* claimUnattached: ready and unmoved.                                      *)
MayClaimUnattached == row.status = "ready" /\ unmoved

ClaimUnattached ==
    /\ job[CLEANER].at = "unattached"
    /\ \/ /\ MayClaimUnattached
          /\ Moved([row EXCEPT !.status = "rejected", !.code = "unattached"])
          /\ Goto(CLEANER, "deleteBlobs")
       \/ ~MayClaimUnattached /\ Finish(CLEANER) /\ Unchanged
    /\ UNCHANGED <<blobs, attached, queue, history, bounds>>

-----------------------------------------------------------------------------
(* An operator's replay, from the dead-letter queue or from the database.   *)

(* Mutant: any rejection whose upload is left is reopened.                  *)
MayReopenAny == row.status = "rejected" /\ ~row.aged

(* reopenForReplay applies to processing failures within the retention.     *)
MayReopen == row.status = "rejected" /\ row.code = "processing_failed" /\ ~row.aged

BeginReplay ==
    /\ job[OPERATOR] = Idle
    /\ \/ MayReopen /\ upload # NONE /\ Event /\ Goto(OPERATOR, "reopen")
       \/ Unfinished /\ dead /\ UNCHANGED bounds /\ Goto(OPERATOR, "requeue")
    /\ UNCHANGED <<row, blobs, attached, jobs, unmoved, history>>

(* The claim, then a fresh job.                                             *)
ClaimReplay ==
    /\ job[OPERATOR].at \in {"reopen", "requeue"}
    /\ \/ /\ job[OPERATOR].at = "reopen" /\ MayReopen
          /\ Moved([row EXCEPT !.status = "uploaded", !.code = "none", !.requeues = 0])
          /\ late' = (late \/ \E w \in Workers : job[w].at = "erase")
          /\ Goto(OPERATOR, "enqueue")
       \/ /\ job[OPERATOR].at = "requeue" /\ Unfinished /\ dead
          /\ Moved(row)
          /\ Goto(OPERATOR, "enqueue") /\ UNCHANGED late
       \/ /\ IF job[OPERATOR].at = "reopen" THEN ~MayReopen
             ELSE ~(Unfinished /\ dead)
          /\ Finish(OPERATOR) /\ Unchanged /\ UNCHANGED late
    /\ UNCHANGED <<blobs, attached, queue, purged, bounds>>

(* The thresholds pass.                                                     *)
TimePasses ==
    /\ ~row.aged /\ row.status # "gone"
    /\ row' = [row EXCEPT !.aged = TRUE]
    /\ UNCHANGED <<blobs, attached, jobs, job, unmoved, history, bounds>>

-----------------------------------------------------------------------------
WorkerStep(w) ==
    \/ \E n \in DOMAIN queue : Take(w, n)
    \/ Claim(w) \/ Download(w) \/ Scan(w) \/ Moderate(w) \/ UploadRenditions(w) \/ MarkReady(w)
    \/ DiscardOutput(w) \/ EraseOutput(w) \/ Unlink(w) \/ RejectItem(w)
    \/ HandOn(w) \/ MarkFailed(w) \/ Ack(w)

Sweep ==
    \/ ListAbandoned \/ ListStuck \/ ListRejected \/ ListUnattached \/ DeferAttached
    \/ ClaimAbandoned \/ ClaimStuck \/ PurgeBlobs \/ DeleteRow \/ ClaimUnattached
    \/ DeleteBlobs(CLEANER) \/ Enqueue(CLEANER)

Next ==
    \/ PutBytes
    \/ BeginComplete \/ CompleteUpload \/ Enqueue(CLIENT) \/ Unlink(CLIENT)
    \/ SaveReference \/ ReplaceReference \/ DeleteReplaced \/ DeleteMedia \/ DeleteBlobs(CLIENT)
    \/ \E w \in Workers : WorkerStep(w) \/ StepFails(w) \/ WorkerCrashes(w)
    \/ Sweep
    \/ BeginReplay \/ ClaimReplay \/ Enqueue(OPERATOR)
    \/ \E p \in {CLEANER, CLIENT, OPERATOR} : ProcessCrashes(p)
    \/ TimePasses

(* Workers consume and the cleanup sweeps as long as they run, and time passes. *)
Fairness ==
    /\ \A w \in Workers : WF_vars(WorkerStep(w))
    /\ WF_vars(Sweep)
    /\ WF_vars(TimePasses)

Spec == Init /\ [][Next]_vars /\ Fairness

-----------------------------------------------------------------------------
(* Every record keeps its type, and the item is queued again at most
   MaxRequeues times.                                                       *)
TypeOK ==
    /\ row \in Row
    /\ upload \in 0 .. MaxWrites /\ image \in -1 .. MaxWrites
    /\ attached \in BOOLEAN
    /\ queue \in [0 .. MaxAttempts - 1 -> Nat]
    /\ dead \in BOOLEAN
    /\ job \in [Processes -> Job]
    /\ unmoved \in BOOLEAN /\ late \in BOOLEAN /\ purged \in BOOLEAN
    /\ writes \in 0 .. MaxWrites /\ events \in 0 .. MaxEvents

(* "A ready image always has them": a ready item has its image with every
   rendition, made of the bytes that completion saw, although the client may
   write the upload again and attempts overtake each other, fail half way and
   discard what they wrote.                                                 *)
ReadyHasImage == row.status = "ready" => image = row.etag

(* The same, but for an item reopened while an overtaken attempt had decided
   to delete the renditions.                                                *)
ReadyHasImageUnlessLate == ~late => ReadyHasImage

(* "A reference to a deleted image is never stored", nor does a sweep or a
   delete take an image that something refers to.                           *)
AttachedIsReady == attached => row.status = "ready" /\ row.processed

(* A processing failure keeps the upload for a replay, until the purge.     *)
KeptForReplay ==
    row.status = "rejected" /\ row.code = "processing_failed" /\ ~purged => upload # NONE

(* An item whose content was refused is never published: it stays rejected or
   is deleted, whatever is replayed or still running.                       *)
RefusalIsFinal ==
    [][row.status = "rejected" /\ row.code # "processing_failed" =>
          row'.status \in {"rejected", "gone"}]_vars

(* An upload that was completed is processed or rejected in the end: jobs that
   were never published, lost with a worker or given up are made up for.    *)
UploadIsSettled == row.status \in {"uploaded", "processing"} ~> ~Unfinished
=============================================================================
