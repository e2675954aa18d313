------------------------ MODULE MediaPipeline_proofs ------------------------
(***************************************************************************)
(* Proofs about MediaPipeline, for any number of workers, attempts,        *)
(* re-queues, writes of the upload and events.                             *)
(***************************************************************************)
EXTENDS MediaPipeline, TLAPS

-----------------------------------------------------------------------------
(* The inductive invariant.                                                 *)

(* The item can never be published again.                                   *)
Refused ==
    \/ row.status = "gone"
    \/ row.status = "rejected" /\ row.code # "processing_failed"

(* Before the upload is completed there is no job for the item, and a
   completion under way has seen an upload that is still there.             *)
NoJobBeforeCompletion ==
    row.status = "pending_upload" =>
        /\ \A n \in DOMAIN queue : queue[n] = 0
        /\ \A w \in Workers : job[w] = Idle
        /\ \A p \in Processes : job[p].at # "enqueue"
        /\ job[CLIENT].at = "complete" /\ ~purged => upload # NONE

(* What a completed item records is an upload that was there.               *)
CompletedHasEtag ==
    /\ job[CLIENT].at = "complete" => job[CLIENT].bytes # NONE
    /\ row.status \in {"uploaded", "processing", "ready"} => row.etag # NONE
    /\ row.status = "rejected" /\ row.code = "processing_failed" => row.etag # NONE

(* Only a published or refused item loses its upload to a process that
   deletes blobs, and only a refused one its image.                         *)
DeletesOnlyFinished ==
    \A p \in Processes :
        /\ job[p].at = "unlink" => row.status = "ready" \/ Refused
        /\ job[p].at \in {"deleteBlobs", "deleteUpload", "deleteImage"} => Refused

(* The upload is there as long as a worker may need it.                     *)
UploadKept ==
    ~purged /\ (Unfinished \/ (row.status = "rejected" /\ row.code = "processing_failed"))
        => upload # NONE

(* An item that was published is never reopened.                            *)
ProcessedIsFinished == row.processed => row.status = "ready" \/ Refused

(* An item being purged is past the retention: no replay reopens it.        *)
PurgedIsRetired ==
    job[CLEANER].at = "purge" =>
        Refused \/ (row.status = "rejected" /\ row.aged)

(* A save after the sweep listed the item is seen by the sweep's claim.     *)
ListedIsUnattached == job[CLEANER].at = "unattached" /\ unmoved => ~attached

(* Attempts work on the bytes that completion saw, in the order of claims.  *)
AttemptsAgree ==
    row.status # "gone" =>
        \A w \in Workers :
            /\ job[w].attempt <= row.attempts
            /\ job[w].at \in {"scan", "moderate", "render", "mark"} => job[w].bytes = row.etag

(* An attempt erases only what nobody refers to, and the latest attempt's
   renditions are in place before it marks the item ready.                  *)
RenditionsInPlace ==
    ~late =>
        /\ \A w \in Workers : job[w].at = "erase" => row.status \in {"gone", "rejected"}
        /\ \A w \in Workers : job[w].at = "mark" /\ Latest(job[w]) => image = row.etag
        /\ row.status = "ready" => image = row.etag

MediaInv ==
    /\ TypeOK /\ NoJobBeforeCompletion /\ CompletedHasEtag /\ DeletesOnlyFinished
    /\ UploadKept /\ ProcessedIsFinished /\ PurgedIsRetired /\ ListedIsUnattached
    /\ AttachedIsReady /\ AttemptsAgree /\ RenditionsInPlace

-----------------------------------------------------------------------------
(* Type correctness.                                                        *)

(* The fixed processes are processes.                                       *)
LEMMA FixedProcesses ==
  /\ CLEANER \in Processes /\ CLIENT \in Processes /\ OPERATOR \in Processes
  /\ \A w \in Workers : w \in Processes /\ w \notin {CLEANER, CLIENT, OPERATOR}
  /\ CLEANER # CLIENT /\ CLIENT # OPERATOR /\ OPERATOR # CLEANER
  BY MediaAssumption DEF Processes, CLEANER, CLIENT, OPERATOR

(* The empty stores have their types.                                       *)
LEMMA InitType == Init => TypeOK
<1> SUFFICES ASSUME Init PROVE TypeOK
  OBVIOUS
<1>1. row \in Row
  BY MediaAssumption DEF Init, NewRow, Row, Codes
<1>2. job \in [Processes -> Job]
  BY MediaAssumption DEF Init, Idle, Job, NONE, Codes
<1>3. queue \in [0 .. MaxAttempts - 1 -> Nat]
  BY DEF Init
<1>4. upload \in 0 .. MaxWrites /\ image \in -1 .. MaxWrites
  BY MediaAssumption DEF Init, NONE
<1>5. writes \in 0 .. MaxWrites /\ events \in 0 .. MaxEvents
  BY MediaAssumption DEF Init
<1> QED
  BY <1>1, <1>2, <1>3, <1>4, <1>5, Zenon DEF Init, TypeOK

(* The updates of the row keep its type.                                    *)
LEMMA MovedType ==
  ASSUME TypeOK, NEW new \in Row, Moved(new)
  PROVE  row' \in Row /\ unmoved' \in BOOLEAN /\ dead' \in BOOLEAN
  BY DEF Moved, Row

(* So does leaving the row alone.                                           *)
LEMMA UnchangedType ==
  ASSUME TypeOK, Unchanged
  PROVE  row' \in Row /\ unmoved' \in BOOLEAN /\ dead' \in BOOLEAN
  BY DEF Unchanged, TypeOK

(* A process that does nothing has a job record.                            *)
LEMMA IdleType == Idle \in Job
  BY MediaAssumption DEF Job, Idle, NONE, Codes

(* The places of a process's job.                                           *)
Places ==
    {"idle", "claim", "download", "scan", "moderate", "render", "mark", "discard", "erase",
     "reject", "unlink", "handOn", "failed", "ack", "complete", "enqueue", "replaced",
     "deleteBlobs", "deleteUpload", "deleteImage", "abandoned", "stuck", "purge", "unattached",
     "purgeUpload", "deleteRow", "reopen", "requeue"}

(* A job that goes to another place, with another value of one field, is a job. *)
LEMMA JobMoves ==
  ASSUME NEW j \in Job, NEW at \in Places
  PROVE  /\ [j EXCEPT !.at = at] \in Job
         /\ \A n \in Nat : [j EXCEPT !.at = at, !.attempt = n] \in Job
         /\ \A b \in 0 .. MaxWrites : [j EXCEPT !.at = at, !.bytes = b] \in Job
         /\ \A c \in Codes : [j EXCEPT !.at = at, !.code = c] \in Job
<1>1. Job = [at : Places, delivery : 0 .. MaxAttempts, attempt : Nat, bytes : 0 .. MaxWrites,
             code : Codes]
  BY DEF Job, Places
<1> QED
  BY <1>1

(* The jobs of processes, and the values their steps store.                 *)
LEMMA JobKnown ==
  ASSUME TypeOK, NEW p \in Processes
  PROVE  job[p] \in Job /\ job[p].bytes \in 0 .. MaxWrites /\ job[p].delivery \in 0 .. MaxAttempts
<1>1. job[p] \in Job
  BY DEF TypeOK
<1> QED
  BY <1>1 DEF Job

(* So do the updates of a process's job.                                    *)
LEMMA JobType ==
  ASSUME TypeOK, NEW p \in Processes, NEW at,
         at \in {"idle", "claim", "download", "scan", "moderate", "render", "mark", "discard",
                 "erase", "reject", "unlink", "handOn", "failed", "ack", "complete", "enqueue",
                 "replaced", "deleteBlobs", "deleteUpload", "deleteImage", "abandoned", "stuck",
                 "purge", "unattached", "purgeUpload", "deleteRow", "reopen", "requeue"},
         Goto(p, at) \/ Done(p, at) \/ Finish(p)
  PROVE  job' \in [Processes -> Job]
<1>1. CASE Goto(p, at)
  <2>1. [job[p] EXCEPT !.at = at] \in Job
    <3>1. at \in Places
      BY DEF Places
    <3> QED
      BY <3>1, JobKnown, JobMoves
  <2> QED
    BY <1>1, <2>1 DEF Goto, TypeOK
<1>2. CASE Done(p, at)
  <2>1. [Idle EXCEPT !.at = at, !.delivery = job[p].delivery] \in Job
    <3>1. job[p].delivery \in 0 .. MaxAttempts
      BY DEF TypeOK, Job
    <3> QED
      BY <3>1, IdleType DEF Job
  <2> QED
    BY <1>2, <2>1 DEF Done, TypeOK
<1>3. CASE Finish(p)
  BY <1>3, IdleType DEF Finish, TypeOK
<1> QED
  BY <1>1, <1>2, <1>3

(* A job that is waiting is counted.                                        *)
LEMMA PublishType ==
  ASSUME TypeOK, NEW n, Publish(n)
  PROVE  queue' \in [0 .. MaxAttempts - 1 -> Nat]
<1>1. CASE n \in 0 .. MaxAttempts - 1
  <2>1. queue[n] + 1 \in Nat
    BY <1>1 DEF TypeOK
  <2> QED
    BY <2>1 DEF Publish, TypeOK
<1>2. CASE n \notin 0 .. MaxAttempts - 1
  <2>1. queue' = queue
    BY <1>2 DEF Publish, TypeOK
  <2> QED
    BY <2>1 DEF TypeOK
<1> QED
  BY <1>1, <1>2

(* An event is one of a bounded number.                                     *)
LEMMA EventType ==
  ASSUME TypeOK, Event \/ UNCHANGED bounds
  PROVE  writes' \in 0 .. MaxWrites /\ events' \in 0 .. MaxEvents
  BY MediaAssumption DEF TypeOK, Event, bounds

(* A deleted row is a row.                                                  *)
LEMMA GoneType == Gone \in Row
<1>1. NewRow \in Row
  BY MediaAssumption DEF NewRow, Row, Codes
<1> QED
  BY <1>1 DEF Gone, Row

(* What a client, a save or a delete does keeps the types.                  *)
LEMMA ClientType ==
  ASSUME TypeOK,
         \/ PutBytes \/ BeginComplete \/ CompleteUpload \/ SaveReference
         \/ ReplaceReference \/ DeleteReplaced \/ DeleteMedia
  PROVE  TypeOK'
<1> USE FixedProcesses
<1>1. CASE PutBytes
  BY <1>1, MediaAssumption DEF PutBytes, TypeOK, jobs, history
<1>2. CASE BeginComplete
  <2>1. job' \in [Processes -> Job]
    <3>1. CASE Goto(CLIENT, "enqueue")
      BY <3>1, JobType
    <3>2. CASE job' = [job EXCEPT ![CLIENT].at = "complete", ![CLIENT].bytes = upload]
      <4>1. [job[CLIENT] EXCEPT !.at = "complete", !.bytes = upload] \in Job
        BY JobKnown, JobMoves DEF TypeOK, Places
      <4>2. job' = [job EXCEPT ![CLIENT] = [job[CLIENT] EXCEPT !.at = "complete", !.bytes = upload]]
        BY <3>2 DEF TypeOK
      <4> QED
        BY <4>1, <4>2 DEF TypeOK
    <3> QED
      BY <1>2, <3>1, <3>2 DEF BeginComplete
  <2>2. Event \/ UNCHANGED bounds
    BY <1>2 DEF BeginComplete
  <2> QED
    BY <1>2, <2>1, <2>2, EventType DEF BeginComplete, TypeOK, blobs, jobs, history
<1>3. CASE CompleteUpload
  <2>1. job' \in [Processes -> Job]
    BY <1>3, JobType DEF CompleteUpload
  <2>2. row' \in Row /\ unmoved' \in BOOLEAN /\ dead' \in BOOLEAN
    <3>1. [row EXCEPT !.status = "uploaded", !.etag = job[CLIENT].bytes] \in Row
      BY DEF TypeOK, Row, Job
    <3>2. [row EXCEPT !.status = "rejected", !.code = "final"] \in Row
      BY DEF TypeOK, Row, Codes
    <3> QED
      BY <1>3, <3>1, <3>2, MovedType, UnchangedType DEF CompleteUpload
  <2> QED
    BY <1>3, <2>1, <2>2 DEF CompleteUpload, TypeOK, blobs, history, bounds
<1>4. CASE SaveReference
  BY <1>4, MovedType, EventType DEF SaveReference, TypeOK, blobs, history
<1>5. CASE ReplaceReference
  BY <1>5, MovedType, JobType DEF ReplaceReference, TypeOK, blobs, history, bounds
<1>7. CASE DeleteReplaced
  BY <1>7, GoneType, MovedType, UnchangedType, JobType
     DEF DeleteReplaced, TypeOK, blobs, history, bounds
<1>8. CASE DeleteMedia
  BY <1>8, GoneType, MovedType, JobType, EventType DEF DeleteMedia, TypeOK, blobs, history
<1> QED
  BY <1>1, <1>2, <1>3, <1>4, <1>5, <1>7, <1>8

(* The steps that several processes take keep the types.                    *)
LEMMA SharedType ==
  ASSUME TypeOK, NEW p \in Processes, Enqueue(p) \/ DeleteBlobs(p) \/ Unlink(p)
  PROVE  TypeOK'
<1>1. job' \in [Processes -> Job]
  BY JobType DEF Enqueue, DeleteBlobs, Unlink
<1>2. CASE Enqueue(p)
  BY <1>1, <1>2, PublishType DEF Enqueue, TypeOK, blobs, history, bounds
<1>3. CASE DeleteBlobs(p)
  BY <1>1, <1>3, MediaAssumption DEF DeleteBlobs, TypeOK, jobs, history, bounds, NONE
<1>4. CASE Unlink(p)
  BY <1>1, <1>4, MediaAssumption DEF Unlink, TypeOK, jobs, history, bounds, NONE
<1> QED
  BY <1>2, <1>3, <1>4

(* The steps of an attempt keep the types.                                  *)
LEMMA AttemptType ==
  ASSUME TypeOK, NEW w \in Workers,
         \/ \E n \in DOMAIN queue : Take(w, n)
         \/ Claim(w) \/ Download(w) \/ Scan(w) \/ Moderate(w) \/ UploadRenditions(w)
         \/ MarkReady(w) \/ DiscardOutput(w) \/ EraseOutput(w)
  PROVE  TypeOK'
<1> USE FixedProcesses
<1>1. ASSUME NEW n \in DOMAIN queue, Take(w, n) PROVE TypeOK'
  <2>1. job' \in [Processes -> Job]
    <3>1. [Idle EXCEPT !.at = "claim", !.delivery = n] \in Job
      <4>1. n \in 0 .. MaxAttempts
        BY MediaAssumption DEF TypeOK
      <4> QED
        BY <4>1, IdleType DEF Job
    <3> QED
      BY <1>1, <3>1 DEF Take, TypeOK
  <2>2. queue' \in [0 .. MaxAttempts - 1 -> Nat]
    <3>1. queue[n] \in Nat /\ queue[n] > 0
      BY <1>1 DEF Take, TypeOK
    <3>2. queue[n] - 1 \in Nat
      BY <3>1
    <3> QED
      BY <1>1, <3>2 DEF Take, TypeOK
  <2> QED
    BY <1>1, <2>1, <2>2 DEF Take, TypeOK, blobs, history, bounds
<1>2. \A c \in {"none", "scanned", "infected", "allowed"} : [row EXCEPT !.checks = c] \in Row
  BY DEF TypeOK, Row
<1>3. ASSUME NEW code \in Codes, Reject(w, code) PROVE job' \in [Processes -> Job]
  <2>1. [job[w] EXCEPT !.at = "reject", !.code = code] \in Job
    BY JobKnown, JobMoves DEF Places
  <2>2. job' = [job EXCEPT ![w] = [job[w] EXCEPT !.at = "reject", !.code = code]]
    BY <1>3 DEF Reject, TypeOK
  <2> QED
    BY <2>1, <2>2 DEF TypeOK
<1>4. CASE Claim(w)
  <2>1. job' \in [Processes -> Job]
    <3>1. CASE job' = [job EXCEPT ![w].at = "download", ![w].attempt = row.attempts + 1]
      <4> DEFINE j == [job[w] EXCEPT !.at = "download", !.attempt = row.attempts + 1]
      <4>1. row.attempts + 1 \in Nat
        BY DEF TypeOK, Row
      <4>2. j \in Job
        BY <4>1, JobKnown, JobMoves DEF Places
      <4>3. job' = [job EXCEPT ![w] = j]
        BY <3>1 DEF TypeOK
      <4> QED
        BY <4>2, <4>3 DEF TypeOK
    <3> QED
      BY <1>4, <3>1, JobType DEF Claim
  <2>2. [row EXCEPT !.status = "processing", !.attempts = @ + 1, !.checks = "none"] \in Row
    <3>1. row.attempts + 1 \in Nat
      BY DEF TypeOK, Row
    <3> QED
      BY <3>1 DEF TypeOK, Row
  <2> QED
    BY <1>4, <2>1, <2>2, MovedType, UnchangedType DEF Claim, TypeOK, blobs, history, bounds
<1>5. Progress => row' \in Row /\ unmoved' \in BOOLEAN /\ dead' \in BOOLEAN
  BY MovedType, UnchangedType DEF Progress, TypeOK
<1>6. CASE Download(w)
  <2>1. job' \in [Processes -> Job]
    <3>1. CASE job' = [job EXCEPT ![w].at = "scan", ![w].bytes = upload]
      <4>1. [job[w] EXCEPT !.at = "scan", !.bytes = upload] \in Job
        BY JobKnown, JobMoves DEF TypeOK, Places
      <4>2. job' = [job EXCEPT ![w] = [job[w] EXCEPT !.at = "scan", !.bytes = upload]]
        BY <3>1 DEF TypeOK
      <4> QED
        BY <4>1, <4>2 DEF TypeOK
    <3> QED
      BY <1>3, <1>6, <3>1 DEF Download, Codes
  <2> QED
    BY <1>5, <1>6, <2>1, UnchangedType DEF Download, TypeOK, blobs, history, bounds
<1>7. CASE Scan(w)
  <2>1. job' \in [Processes -> Job]
    BY <1>3, <1>7, JobType DEF Scan, Codes
  <2> QED
    BY <1>2, <1>7, <2>1, MovedType, UnchangedType DEF Scan, TypeOK, blobs, history, bounds
<1>8. CASE Moderate(w)
  <2>1. job' \in [Processes -> Job]
    BY <1>3, <1>8, JobType DEF Moderate, Codes
  <2> QED
    BY <1>2, <1>5, <1>8, <2>1, MovedType, UnchangedType
       DEF Moderate, TypeOK, blobs, history, bounds
<1>9. CASE UploadRenditions(w)
  <2>1. job' \in [Processes -> Job]
    BY <1>9, JobType DEF UploadRenditions
  <2>2. image' \in -1 .. MaxWrites
    <3>1. image' = job[w].bytes /\ job[w].bytes \in 0 .. MaxWrites
      BY <1>9, JobKnown DEF UploadRenditions
    <3> QED
      BY <3>1, MediaAssumption
  <2> QED
    BY <1>9, <2>1, <2>2 DEF UploadRenditions, TypeOK, jobs, history, bounds
<1>10. CASE MarkReady(w)
  <2>1. [row EXCEPT !.status = "ready", !.code = "none", !.processed = TRUE] \in Row
    BY DEF TypeOK, Row, Codes
  <2> QED
    BY <1>10, <2>1, JobType, MovedType, UnchangedType
       DEF MarkReady, TypeOK, blobs, history, bounds
<1>11. CASE DiscardOutput(w)
  <2>1. job' \in [Processes -> Job]
    BY <1>11, JobType DEF DiscardOutput
  <2> QED
    BY <1>11, <2>1 DEF DiscardOutput, TypeOK, blobs, jobs, history, bounds
<1>12. CASE EraseOutput(w)
  <2>1. job' \in [Processes -> Job] /\ image' \in -1 .. MaxWrites
    BY <1>12, IdleType, MediaAssumption DEF EraseOutput, Finish, TypeOK, NONE
  <2> QED
    BY <1>12, <2>1 DEF EraseOutput, TypeOK, jobs, history, bounds
<1> QED
  BY <1>1, <1>4, <1>6, <1>7, <1>8, <1>9, <1>10, <1>11, <1>12

(* The steps of a job that fails or ends keep the types.                    *)
LEMMA FailureType ==
  ASSUME TypeOK, NEW w \in Workers,
         \/ RejectItem(w) \/ StepFails(w) \/ HandOn(w) \/ MarkFailed(w) \/ Ack(w)
         \/ WorkerCrashes(w)
  PROVE  TypeOK'
<1> USE FixedProcesses
<1>1. ASSUME RejectMedia(w, "ack")
      PROVE  /\ job' \in [Processes -> Job]
             /\ row' \in Row /\ unmoved' \in BOOLEAN /\ dead' \in BOOLEAN
  <2>1. [row EXCEPT !.status = "rejected", !.code = job[w].code] \in Row
    BY DEF TypeOK, Row, Job
  <2>2. \/ Done(w, "ack") \/ Done(w, "unlink")
    BY <1>1 DEF RejectMedia
  <2> QED
    BY <1>1, <2>1, <2>2, JobType, MovedType, UnchangedType DEF RejectMedia
<1>2. CASE RejectItem(w)
  BY <1>1, <1>2 DEF RejectItem, TypeOK, blobs, history, bounds
<1>3. CASE StepFails(w)
  <2>1. job' \in [Processes -> Job]
    BY <1>3, JobType DEF StepFails
  <2>2. row' \in Row /\ unmoved' \in BOOLEAN /\ dead' \in BOOLEAN
    BY <1>3, MovedType, UnchangedType DEF StepFails, TypeOK
  <2>3. writes' \in 0 .. MaxWrites /\ events' \in 0 .. MaxEvents
    BY <1>3, EventType DEF StepFails, EventIf
  <2>4. image' \in -1 .. MaxWrites
    BY <1>3, MediaAssumption DEF StepFails, TypeOK, PARTIAL
  <2> QED
    BY <1>3, <2>1, <2>2, <2>3, <2>4 DEF StepFails, TypeOK, history
<1>4. CASE HandOn(w)
  <2>1. job' \in [Processes -> Job]
    <3>1. CASE job' = [job EXCEPT ![w].at = "failed", ![w].code = "processing_failed"]
      <4> DEFINE j == [job[w] EXCEPT !.at = "failed", !.code = "processing_failed"]
      <4>1. j \in Job
        BY JobKnown, JobMoves DEF Places, Codes
      <4>2. job' = [job EXCEPT ![w] = j]
        BY <3>1 DEF TypeOK
      <4> QED
        BY <4>1, <4>2 DEF TypeOK
    <3> QED
      BY <1>4, <3>1, JobType DEF HandOn
  <2>2. queue' \in [0 .. MaxAttempts - 1 -> Nat]
    BY <1>4, PublishType DEF HandOn, TypeOK
  <2>3. dead' \in BOOLEAN
    BY <1>4 DEF HandOn, TypeOK
  <2> QED
    BY <1>4, <2>1, <2>2, <2>3 DEF HandOn, TypeOK, blobs, history, bounds
<1>5. CASE MarkFailed(w)
  BY <1>1, <1>5, JobType, UnchangedType DEF MarkFailed, TypeOK, blobs, history, bounds
<1>6. CASE Ack(w)
  BY <1>6, JobType DEF Ack, TypeOK, blobs, jobs, history, bounds
<1>7. CASE WorkerCrashes(w)
  BY <1>7, JobType, PublishType, EventType DEF WorkerCrashes, TypeOK, blobs, history
<1> QED
  BY <1>2, <1>3, <1>4, <1>5, <1>6, <1>7

(* The sweeps keep the types.                                               *)
LEMMA SweepType ==
  ASSUME TypeOK, Sweep
  PROVE  TypeOK'
<1> USE FixedProcesses
<1>1. ASSUME NEW at \in {"abandoned", "stuck", "purge", "unattached"},
             NEW due, List(at, due)
      PROVE  TypeOK'
  <2>1. job' \in [Processes -> Job]
    BY <1>1, JobType DEF List
  <2> QED
    BY <1>1, <2>1 DEF List, TypeOK, blobs, jobs, history, bounds
<1>2. CASE ListAbandoned \/ ListStuck \/ ListRejected \/ ListUnattached
  BY <1>1, <1>2 DEF ListAbandoned, ListStuck, ListRejected, ListUnattached
<1>3. CASE DeferAttached
  BY <1>3, MovedType DEF DeferAttached, TypeOK, blobs, history, bounds
<1>4. \A code \in Codes : [row EXCEPT !.status = "rejected", !.code = code] \in Row
  BY DEF TypeOK, Row
<1>5. CASE ClaimAbandoned
  BY <1>4, <1>5, JobType, MovedType, UnchangedType
     DEF ClaimAbandoned, TypeOK, Codes, blobs, history, bounds
<1>6. CASE ClaimStuck
  <2>1. ASSUME MayRequeue PROVE [row EXCEPT !.requeues = @ + 1] \in Row
    <3>1. row.requeues + 1 \in 0 .. MaxRequeues
      BY <2>1, MediaAssumption DEF MayRequeue, TypeOK, Row
    <3> QED
      BY <3>1 DEF TypeOK, Row
  <2>2. job' \in [Processes -> Job]
    BY <1>6, JobType DEF ClaimStuck
  <2>3. row' \in Row /\ unmoved' \in BOOLEAN /\ dead' \in BOOLEAN
    BY <1>4, <1>6, <2>1, MovedType, UnchangedType DEF ClaimStuck, Codes
  <2> QED
    BY <1>6, <2>2, <2>3 DEF ClaimStuck, TypeOK, blobs, history, bounds
<1>7. CASE PurgeBlobs
  <2>1. job' \in [Processes -> Job]
    BY <1>7, JobType DEF PurgeBlobs
  <2>2. row' \in Row /\ unmoved' \in BOOLEAN /\ dead' \in BOOLEAN
    BY <1>7, MovedType, UnchangedType DEF PurgeBlobs, TypeOK
  <2>3. writes' \in 0 .. MaxWrites /\ events' \in 0 .. MaxEvents
    BY <1>7, EventType DEF PurgeBlobs
  <2>4. upload' \in 0 .. MaxWrites /\ image' \in -1 .. MaxWrites
    BY <1>7, MediaAssumption DEF PurgeBlobs, TypeOK, NONE
  <2> QED
    BY <1>7, <2>1, <2>2, <2>3, <2>4 DEF PurgeBlobs, TypeOK
<1>8. CASE DeleteRow
  BY <1>8, GoneType, JobType, MovedType, UnchangedType
     DEF DeleteRow, TypeOK, blobs, history, bounds
<1>9. CASE ClaimUnattached
  BY <1>4, <1>9, JobType, MovedType, UnchangedType
     DEF ClaimUnattached, TypeOK, Codes, blobs, history, bounds
<1>10. CASE DeleteBlobs(CLEANER) \/ Enqueue(CLEANER)
  BY <1>10, SharedType
<1> QED
  BY <1>2, <1>3, <1>5, <1>6, <1>7, <1>8, <1>9, <1>10 DEF Sweep

(* An operator's replay, a crash and the passing of time keep the types.    *)
LEMMA OtherType ==
  ASSUME TypeOK,
         \/ BeginReplay \/ ClaimReplay \/ TimePasses
         \/ \E p \in {CLEANER, CLIENT, OPERATOR} : ProcessCrashes(p)
  PROVE  TypeOK'
<1> USE FixedProcesses
<1>1. CASE BeginReplay
  <2>1. job' \in [Processes -> Job]
    BY <1>1, JobType DEF BeginReplay
  <2>2. writes' \in 0 .. MaxWrites /\ events' \in 0 .. MaxEvents
    BY <1>1, EventType DEF BeginReplay
  <2> QED
    BY <1>1, <2>1, <2>2 DEF BeginReplay, TypeOK, blobs, jobs, history
<1>2. CASE ClaimReplay
  <2>1. job' \in [Processes -> Job]
    BY <1>2, JobType DEF ClaimReplay
  <2>2. [row EXCEPT !.status = "uploaded", !.code = "none", !.requeues = 0] \in Row
    <3>1. 0 \in 0 .. MaxRequeues
      BY MediaAssumption
    <3>2. row \in Row
      BY DEF TypeOK
    <3> QED
      BY <3>1, <3>2 DEF Row, Codes
  <2>3. row' \in Row /\ unmoved' \in BOOLEAN /\ dead' \in BOOLEAN
    BY <1>2, <2>2, MovedType, UnchangedType DEF ClaimReplay, TypeOK
  <2>4. late' \in BOOLEAN
    <3>1. \/ late' = (late \/ \E w \in Workers : job[w].at = "erase")
          \/ late' = late
      BY <1>2 DEF ClaimReplay
    <3>2. late \in BOOLEAN
      BY DEF TypeOK
    <3> QED
      BY <3>1, <3>2, Zenon
  <2> QED
    BY <1>2, <2>1, <2>3, <2>4 DEF ClaimReplay, TypeOK, blobs, bounds
<1>3. CASE TimePasses
  BY <1>3 DEF TimePasses, TypeOK, Row, blobs, jobs, history, bounds
<1>4. ASSUME NEW p \in {CLEANER, CLIENT, OPERATOR}, ProcessCrashes(p) PROVE TypeOK'
  <2>1. job' \in [Processes -> Job]
    BY <1>4, JobType DEF ProcessCrashes
  <2> QED
    BY <1>4, <2>1, EventType DEF ProcessCrashes, TypeOK, blobs, jobs, history
<1> QED
  BY <1>1, <1>2, <1>3, <1>4

(* Every step keeps the types.                                              *)
LEMMA NextType == TypeOK /\ [Next]_vars => TypeOK'
<1> SUFFICES ASSUME TypeOK, [Next]_vars PROVE TypeOK'
  OBVIOUS
<1>1. CASE UNCHANGED vars
  BY <1>1 DEF vars, TypeOK
<1>2. ASSUME NEW w \in Workers, WorkerStep(w) \/ StepFails(w) \/ WorkerCrashes(w)
      PROVE  TypeOK'
  BY <1>2, FixedProcesses, AttemptType, FailureType, SharedType DEF WorkerStep
<1> QED
  BY <1>1, <1>2, FixedProcesses, ClientType, SharedType, SweepType, OtherType DEF Next

(* Type correctness, the bound on re-queues included.                       *)
THEOREM TypeCorrect == Spec => []TypeOK
  BY InitType, NextType, PTL DEF Spec

-----------------------------------------------------------------------------
(* The invariant is inductive.                                              *)

(* What a process that moves on, gives a result up or ends leaves of its job;
   every other process's job is untouched.                                  *)
OthersKept(p) == \A q \in Processes : q # p => job'[q] = job[q]

(* Going on keeps what the process has read.                                *)
LEMMA JobGoto ==
  ASSUME TypeOK, NEW p \in Processes, NEW at, Goto(p, at)
  PROVE  /\ OthersKept(p)
         /\ job'[p].at = at /\ job'[p].bytes = job[p].bytes
         /\ job'[p].attempt = job[p].attempt /\ job'[p].code = job[p].code
  BY DEF TypeOK, Goto, Job, OthersKept

(* A worker that is done with the item forgets what it read.                *)
LEMMA JobDone ==
  ASSUME TypeOK, NEW p \in Processes, NEW at, Done(p, at)
  PROVE  /\ OthersKept(p)
         /\ job'[p].at = at /\ job'[p].bytes = NONE /\ job'[p].attempt = 0
  BY DEF TypeOK, Done, Idle, OthersKept

(* A finished process is idle.                                              *)
LEMMA JobFinish ==
  ASSUME TypeOK, NEW p \in Processes, Finish(p)
  PROVE  /\ OthersKept(p) /\ job'[p] = Idle
         /\ job'[p].at = "idle" /\ job'[p].bytes = NONE /\ job'[p].attempt = 0
  BY DEF TypeOK, Finish, Idle, OthersKept

(* A worker that refuses the item keeps its attempt.                        *)
LEMMA JobReject ==
  ASSUME TypeOK, NEW p \in Processes, NEW code, Reject(p, code)
  PROVE  /\ OthersKept(p)
         /\ job'[p].at = "reject" /\ job'[p].attempt = job[p].attempt
  BY DEF TypeOK, Reject, Job, OthersKept

(* A claim gives the worker its attempt.                                    *)
LEMMA JobClaim ==
  ASSUME TypeOK, NEW p \in Processes, NEW n,
         job' = [job EXCEPT ![p].at = "download", ![p].attempt = n]
  PROVE  OthersKept(p) /\ job'[p].at = "download" /\ job'[p].attempt = n
<1>1. job' = [job EXCEPT ![p] = [job[p] EXCEPT !.at = "download", !.attempt = n]]
  BY DEF TypeOK
<1> QED
  BY <1>1 DEF TypeOK, Job, OthersKept

(* A download gives the worker the bytes.                                   *)
LEMMA JobRead ==
  ASSUME TypeOK, NEW p \in Processes, NEW b,
         job' = [job EXCEPT ![p].at = "scan", ![p].bytes = b]
  PROVE  /\ OthersKept(p)
         /\ job'[p].at = "scan" /\ job'[p].bytes = b /\ job'[p].attempt = job[p].attempt
<1>1. job' = [job EXCEPT ![p] = [job[p] EXCEPT !.at = "scan", !.bytes = b]]
  BY DEF TypeOK
<1> QED
  BY <1>1 DEF TypeOK, Job, OthersKept

(* A failed worker keeps its attempt.                                       *)
LEMMA JobFailed ==
  ASSUME TypeOK, NEW p \in Processes,
         job' = [job EXCEPT ![p].at = "failed", ![p].code = "processing_failed"]
  PROVE  OthersKept(p) /\ job'[p].at = "failed" /\ job'[p].attempt = job[p].attempt
<1>1. job' = [job EXCEPT ![p] = [job[p] EXCEPT !.at = "failed", !.code = "processing_failed"]]
  BY DEF TypeOK
<1> QED
  BY <1>1 DEF TypeOK, Job, OthersKept

(* What the other parts of the invariant read of the row.                   *)
SameItem ==
    /\ row'.status = row.status /\ row'.code = row.code /\ row'.etag = row.etag
    /\ row'.attempts = row.attempts /\ row'.processed = row.processed
    /\ row.status = "rejected" /\ row.aged => row'.aged

(* Recording progress, or nothing, leaves the item as it is.                *)
LEMMA MovedItem ==
  ASSUME TypeOK, Unchanged \/ (Moved(row) /\ row.status # "rejected")
  PROVE  SameItem /\ (unmoved' => unmoved)
  BY DEF TypeOK, Row, Moved, Unchanged, SameItem

(* A step of one process that deletes and publishes nothing and takes no claim
   keeps the invariant.                                                     *)
LEMMA QuietStep ==
  ASSUME MediaInv, TypeOK', NEW p \in Processes, OthersKept(p), SameItem,
         UNCHANGED <<blobs, attached, history>>, unmoved' => unmoved,
         \/ row.status # "pending_upload"
         \/ queue' = queue /\ p \notin Workers /\ job'[p].at \notin {"enqueue", "complete"},
         job'[p].at \notin {"unlink", "deleteBlobs", "deleteUpload", "deleteImage", "erase",
                            "mark", "complete", "purge", "unattached"},
         job'[p].attempt \in {0, job[p].attempt},
         job'[p].at \in {"scan", "moderate", "render"} /\ row.status # "gone"
            => job'[p].bytes = row.etag
  PROVE  MediaInv'
<1> USE FixedProcesses DEF OthersKept, SameItem, blobs, history
<1>1. NoJobBeforeCompletion'
  BY DEF MediaInv, NoJobBeforeCompletion
<1>2. CompletedHasEtag' /\ DeletesOnlyFinished'
  BY DEF MediaInv, CompletedHasEtag, DeletesOnlyFinished, Refused
<1>3. UploadKept' /\ ProcessedIsFinished' /\ AttachedIsReady'
  BY DEF MediaInv, UploadKept, ProcessedIsFinished, AttachedIsReady, Refused, Unfinished
<1>4. PurgedIsRetired' /\ ListedIsUnattached'
  BY DEF MediaInv, PurgedIsRetired, ListedIsUnattached, Refused
<1>5. AttemptsAgree'
  <2>1. row.attempts \in Nat
    BY DEF MediaInv, TypeOK, Row
  <2> QED
    BY <2>1 DEF MediaInv, AttemptsAgree
<1>6. RenditionsInPlace'
  BY DEF MediaInv, RenditionsInPlace, Latest
<1> QED
  BY <1>1, <1>2, <1>3, <1>4, <1>5, <1>6 DEF MediaInv

(* What the client does, and the saves and deletes, keep the invariant.     *)
LEMMA ClientInv ==
  ASSUME MediaInv, TypeOK',
         \/ PutBytes \/ BeginComplete \/ CompleteUpload \/ SaveReference
         \/ ReplaceReference \/ DeleteReplaced \/ DeleteMedia
  PROVE  MediaInv'
<1> USE FixedProcesses
<1>1. TypeOK /\ row.attempts \in Nat /\ \A q \in Processes : job[q].attempt \in Nat
  BY DEF MediaInv, TypeOK, Row, Job
<1>2. CASE PutBytes \/ BeginComplete \/ SaveReference \/ ReplaceReference \/ DeleteMedia
  <2> USE DEF MediaInv, NoJobBeforeCompletion, CompletedHasEtag, DeletesOnlyFinished, UploadKept,
              ProcessedIsFinished, PurgedIsRetired, ListedIsUnattached, AttachedIsReady,
              AttemptsAgree, RenditionsInPlace, Refused, Unfinished, TypeOK, Latest
  <2>1. CASE PutBytes
    BY <2>1 DEF PutBytes, history, jobs, NONE
  <2>2. CASE BeginComplete
    BY <2>2 DEF BeginComplete, blobs, history, jobs, Goto, Idle
  <2>3. CASE SaveReference
    BY <2>3 DEF SaveReference, MayAttach, Moved, blobs, history
  <2>4. CASE ReplaceReference
    BY <2>4 DEF ReplaceReference, Moved, Goto, blobs, history
  <2>5. CASE DeleteMedia
    BY <2>5 DEF DeleteMedia, Moved, Goto, Gone, NewRow, blobs, history
  <2> QED
    BY <1>2, <2>1, <2>2, <2>3, <2>4, <2>5
<1>3. ASSUME Finish(CLIENT), Unchanged, UNCHANGED <<blobs, attached, queue, history>>
      PROVE  MediaInv'
  BY <1>1, <1>3, JobFinish, MovedItem, QuietStep
<1>4. CASE CompleteUpload
  <2>1. CASE row.status # "pending_upload"
    BY <1>3, <1>4, <2>1 DEF CompleteUpload
  <2>2. CASE row.status = "pending_upload"
    <3>1. /\ OthersKept(CLIENT) /\ job[CLIENT].at = "complete"
          /\ UNCHANGED <<blobs, attached, queue, history>>
          /\ row'.attempts = row.attempts /\ row'.processed = row.processed /\ ~unmoved'
      BY <1>1, <1>4, <2>2, JobDone DEF CompleteUpload, Moved, TypeOK, Row
    <3>2. \/ row'.status = "uploaded" /\ row'.etag = job[CLIENT].bytes
             /\ job'[CLIENT].at = "enqueue"
          \/ row'.status = "rejected" /\ row'.code = "final" /\ job'[CLIENT].at = "unlink"
      <4>1. CASE /\ Moved([row EXCEPT !.status = "uploaded", !.etag = job[CLIENT].bytes])
                 /\ Done(CLIENT, "enqueue")
        <5>1. /\ row \in Row
              /\ row' = [[row EXCEPT !.status = "uploaded", !.etag = job[CLIENT].bytes]
                            EXCEPT !.aged = FALSE]
          BY <1>1, <4>1 DEF Moved, TypeOK
        <5>2. row'.status = "uploaded" /\ row'.etag = job[CLIENT].bytes
          BY <5>1 DEF Row
        <5> QED
          BY <1>1, <4>1, <5>2, JobDone
      <4>2. CASE /\ Moved([row EXCEPT !.status = "rejected", !.code = "final"])
                 /\ Done(CLIENT, "unlink")
        <5>1. /\ row \in Row
              /\ row' = [[row EXCEPT !.status = "rejected", !.code = "final"]
                            EXCEPT !.aged = FALSE]
          BY <1>1, <4>2 DEF Moved, TypeOK
        <5>2. row'.status = "rejected" /\ row'.code = "final"
          BY <5>1 DEF Row
        <5> QED
          BY <1>1, <4>2, <5>2, JobDone
      <4> QED
        BY <1>4, <2>2, <4>1, <4>2 DEF CompleteUpload
    <3>11. NoJobBeforeCompletion'
      BY <1>1, <2>2, <3>1, <3>2
         DEF MediaInv, NoJobBeforeCompletion, Unfinished, Idle, OthersKept, blobs, history
    <3>12. CompletedHasEtag' /\ DeletesOnlyFinished'
      BY <1>1, <2>2, <3>1, <3>2
         DEF MediaInv, CompletedHasEtag, DeletesOnlyFinished, Refused, Unfinished,
             OthersKept, blobs, history
    <3>13. UploadKept' /\ ProcessedIsFinished' /\ AttachedIsReady'
      BY <1>1, <2>2, <3>1, <3>2
         DEF MediaInv, UploadKept, ProcessedIsFinished, AttachedIsReady, Refused,
             Unfinished, NoJobBeforeCompletion, OthersKept, blobs, history
    <3>14. PurgedIsRetired' /\ ListedIsUnattached'
      BY <1>1, <2>2, <3>1, <3>2
         DEF MediaInv, PurgedIsRetired, ListedIsUnattached, Refused, Unfinished,
             OthersKept, blobs, history
    <3>15. AttemptsAgree'
      BY <1>1, <2>2, <3>1, <3>2
         DEF MediaInv, AttemptsAgree, NoJobBeforeCompletion, Unfinished, Idle, OthersKept,
             blobs, history
    <3>16. RenditionsInPlace'
      BY <1>1, <2>2, <3>1, <3>2
         DEF MediaInv, RenditionsInPlace, AttemptsAgree, NoJobBeforeCompletion, Idle,
             Unfinished, Latest, OthersKept, blobs, history
    <3> QED
      BY <3>11, <3>12, <3>13, <3>14, <3>15, <3>16 DEF MediaInv
  <2> QED
    BY <2>1, <2>2
<1>5. CASE DeleteReplaced
  <2>1. CASE Finish(CLIENT) /\ Unchanged
    BY <1>3, <1>5, <2>1 DEF DeleteReplaced
  <2>2. CASE ~(Finish(CLIENT) /\ Unchanged)
    <3>1. /\ ~attached /\ OthersKept(CLIENT) /\ job'[CLIENT].at = "deleteImage"
          /\ UNCHANGED <<blobs, attached, queue, history>>
          /\ row'.status = "gone" /\ ~row'.processed
      BY <1>1, <1>5, <2>2, JobGoto DEF DeleteReplaced, Moved, Gone, NewRow
    <3>11. NoJobBeforeCompletion'
      BY <1>1, <3>1
         DEF MediaInv, NoJobBeforeCompletion, Unfinished, Idle, OthersKept, blobs, history
    <3>12. CompletedHasEtag' /\ DeletesOnlyFinished'
      BY <1>1, <3>1
         DEF MediaInv, CompletedHasEtag, DeletesOnlyFinished, Refused, Unfinished,
             OthersKept, blobs, history
    <3>13. UploadKept' /\ ProcessedIsFinished' /\ AttachedIsReady'
      BY <1>1, <3>1
         DEF MediaInv, UploadKept, ProcessedIsFinished, AttachedIsReady, Refused,
             Unfinished, OthersKept, blobs, history
    <3>14. PurgedIsRetired' /\ ListedIsUnattached'
      BY <1>1, <3>1
         DEF MediaInv, PurgedIsRetired, ListedIsUnattached, Refused, Unfinished,
             OthersKept, blobs, history
    <3>15. AttemptsAgree'
      BY <1>1, <3>1
         DEF MediaInv, AttemptsAgree, NoJobBeforeCompletion, Unfinished, Idle, OthersKept,
             blobs, history
    <3>16. RenditionsInPlace'
      BY <1>1, <3>1
         DEF MediaInv, RenditionsInPlace, AttemptsAgree, NoJobBeforeCompletion, Idle,
             Unfinished, Latest, OthersKept, blobs, history
    <3> QED
      BY <3>11, <3>12, <3>13, <3>14, <3>15, <3>16 DEF MediaInv
  <2> QED
    BY <2>1, <2>2
<1> QED
  BY <1>2, <1>4, <1>5

(* So do the steps that several processes take.                             *)
LEMMA SharedInv ==
  ASSUME MediaInv, TypeOK', NEW p \in Processes, Enqueue(p) \/ DeleteBlobs(p) \/ Unlink(p)
  PROVE  MediaInv'
<1> USE FixedProcesses
<1>1. TypeOK /\ row.attempts \in Nat /\ \A q \in Processes : job[q].attempt \in Nat
  BY DEF MediaInv, TypeOK, Row, Job
<1>2. /\ OthersKept(p) /\ job'[p].at = "idle" /\ job'[p].attempt = 0
      /\ UNCHANGED <<row, attached, unmoved, history>>
  BY <1>1, JobFinish DEF Enqueue, DeleteBlobs, Unlink
<1>3. CASE Enqueue(p)
  <2>1. row.status # "pending_upload"
    BY <1>3 DEF Enqueue, MediaInv, NoJobBeforeCompletion
  <2>2. SameItem
    BY <1>2 DEF SameItem
  <2> QED
    BY <1>2, <1>3, <2>1, <2>2, QuietStep DEF Enqueue
<1>4. CASE DeleteBlobs(p)
  <2>1. Refused /\ UNCHANGED queue
    BY <1>4 DEF DeleteBlobs, MediaInv, DeletesOnlyFinished, jobs
  <2>11. NoJobBeforeCompletion'
    BY <1>1, <1>2, <2>1
       DEF MediaInv, NoJobBeforeCompletion, Unfinished, Idle, OthersKept, Refused, history
  <2>12. CompletedHasEtag' /\ DeletesOnlyFinished'
    BY <1>1, <1>2, <2>1
       DEF MediaInv, CompletedHasEtag, DeletesOnlyFinished, Refused, Unfinished,
           OthersKept, Refused, history
  <2>13. UploadKept' /\ ProcessedIsFinished' /\ AttachedIsReady'
    BY <1>1, <1>2, <2>1
       DEF MediaInv, UploadKept, ProcessedIsFinished, AttachedIsReady, Refused, Unfinished,
           OthersKept, Refused, history
  <2>14. PurgedIsRetired' /\ ListedIsUnattached'
    BY <1>1, <1>2, <2>1
       DEF MediaInv, PurgedIsRetired, ListedIsUnattached, Refused, Unfinished, OthersKept,
           Refused, history
  <2>15. AttemptsAgree'
    BY <1>1, <1>2, <2>1
       DEF MediaInv, AttemptsAgree, NoJobBeforeCompletion, Unfinished, Idle, OthersKept,
           Refused, history
  <2>16. RenditionsInPlace'
    BY <1>1, <1>2, <2>1
       DEF MediaInv, RenditionsInPlace, AttemptsAgree, NoJobBeforeCompletion, Idle,
           Unfinished, Latest, OthersKept, Refused, history
  <2> QED
    BY <2>11, <2>12, <2>13, <2>14, <2>15, <2>16 DEF MediaInv
<1>5. CASE Unlink(p)
  <2>1. (row.status = "ready" \/ Refused) /\ UNCHANGED <<queue, image>>
    BY <1>5 DEF Unlink, MediaInv, DeletesOnlyFinished, jobs
  <2>11. NoJobBeforeCompletion'
    BY <1>1, <1>2, <2>1
       DEF MediaInv, NoJobBeforeCompletion, Unfinished, Idle, OthersKept, Refused, history
  <2>12. CompletedHasEtag' /\ DeletesOnlyFinished'
    BY <1>1, <1>2, <2>1
       DEF MediaInv, CompletedHasEtag, DeletesOnlyFinished, Refused, Unfinished,
           OthersKept, Refused, history
  <2>13. UploadKept' /\ ProcessedIsFinished' /\ AttachedIsReady'
    BY <1>1, <1>2, <2>1
       DEF MediaInv, UploadKept, ProcessedIsFinished, AttachedIsReady, Refused, Unfinished,
           OthersKept, Refused, history
  <2>14. PurgedIsRetired' /\ ListedIsUnattached'
    BY <1>1, <1>2, <2>1
       DEF MediaInv, PurgedIsRetired, ListedIsUnattached, Refused, Unfinished, OthersKept,
           Refused, history
  <2>15. AttemptsAgree'
    BY <1>1, <1>2, <2>1
       DEF MediaInv, AttemptsAgree, NoJobBeforeCompletion, Unfinished, Idle, OthersKept,
           Refused, history
  <2>16. RenditionsInPlace'
    BY <1>1, <1>2, <2>1
       DEF MediaInv, RenditionsInPlace, AttemptsAgree, NoJobBeforeCompletion, Idle,
           Unfinished, Latest, OthersKept, Refused, history
  <2> QED
    BY <2>11, <2>12, <2>13, <2>14, <2>15, <2>16 DEF MediaInv
<1> QED
  BY <1>3, <1>4, <1>5

(* So do the steps of an attempt.                                           *)
LEMMA AttemptInv ==
  ASSUME MediaInv, TypeOK', NEW w \in Workers,
         \/ \E n \in DOMAIN queue : Take(w, n)
         \/ Claim(w) \/ Download(w) \/ Scan(w) \/ Moderate(w) \/ UploadRenditions(w)
         \/ MarkReady(w) \/ DiscardOutput(w) \/ EraseOutput(w)
  PROVE  MediaInv'
<1> USE FixedProcesses
<1>1. TypeOK /\ row.attempts \in Nat /\ \A q \in Processes : job[q].attempt \in Nat
  BY DEF MediaInv, TypeOK, Row, Job
<1>2. job[w].at # "idle" => row.status # "pending_upload"
  BY DEF MediaInv, NoJobBeforeCompletion, Idle
<1>3. ASSUME NEW n \in DOMAIN queue, Take(w, n) PROVE MediaInv'
  <2>1. /\ OthersKept(w) /\ job'[w].at = "claim" /\ job'[w].attempt = 0
        /\ UNCHANGED <<row, blobs, attached, unmoved, history>>
    BY <1>1, <1>3 DEF Take, TypeOK, Idle, OthersKept
  <2>2. row.status # "pending_upload"
    <3>1. queue[n] > 0
      BY <1>3 DEF Take
    <3>2. row.status = "pending_upload" => queue[n] = 0
      BY DEF MediaInv, NoJobBeforeCompletion
    <3> QED
      BY <3>1, <3>2
  <2> QED
    BY <2>1, <2>2, QuietStep DEF SameItem
<1>4. ASSUME job[w].at # "idle", Finish(w), Unchanged, UNCHANGED <<blobs, attached, history>>
      PROVE  MediaInv'
  BY <1>1, <1>2, <1>4, JobFinish, MovedItem, QuietStep
<1>5. ASSUME job[w].at # "idle", Reject(w, "final"), Unchanged \/ Progress,
             UNCHANGED <<blobs, attached, history>>
      PROVE  MediaInv'
  BY <1>1, <1>2, <1>5, JobReject, MovedItem, QuietStep DEF Progress
<1>6. CASE Claim(w)
  <2>1. CASE ~Unfinished
    BY <1>4, <1>6, <2>1 DEF Claim
  <2>2. CASE Unfinished
    <3>1. /\ OthersKept(w) /\ job'[w].at = "download" /\ job'[w].attempt = row.attempts + 1
          /\ UNCHANGED <<blobs, attached, queue, history>> /\ ~unmoved'
      BY <1>1, <1>6, <2>2, JobClaim DEF Claim, Moved
    <3>2. /\ row'.status = "processing" /\ row'.attempts = row.attempts + 1
          /\ row'.etag = row.etag /\ row'.processed = row.processed /\ row'.code = row.code
      BY <1>1, <1>6, <2>2 DEF Claim, Moved, TypeOK, Row
    <3>3. row.status \in {"uploaded", "processing"}
      BY <2>2 DEF Unfinished
    <3>11. NoJobBeforeCompletion'
      BY <1>1, <3>1, <3>2, <3>3
         DEF MediaInv, NoJobBeforeCompletion, Unfinished, Idle, OthersKept, blobs, history
    <3>12. CompletedHasEtag' /\ DeletesOnlyFinished'
      BY <1>1, <3>1, <3>2, <3>3
         DEF MediaInv, CompletedHasEtag, DeletesOnlyFinished, Refused, Unfinished,
             OthersKept, blobs, history
    <3>13. UploadKept' /\ ProcessedIsFinished' /\ AttachedIsReady'
      BY <1>1, <3>1, <3>2, <3>3
         DEF MediaInv, UploadKept, ProcessedIsFinished, AttachedIsReady, Refused,
             Unfinished, OthersKept, blobs, history
    <3>14. PurgedIsRetired' /\ ListedIsUnattached'
      BY <1>1, <3>1, <3>2, <3>3
         DEF MediaInv, PurgedIsRetired, ListedIsUnattached, Refused, Unfinished,
             OthersKept, blobs, history
    <3>15. AttemptsAgree'
      BY <1>1, <3>1, <3>2, <3>3
         DEF MediaInv, AttemptsAgree, NoJobBeforeCompletion, Unfinished, Idle, OthersKept,
             blobs, history
    <3>16. RenditionsInPlace'
      BY <1>1, <3>1, <3>2, <3>3
         DEF MediaInv, RenditionsInPlace, AttemptsAgree, NoJobBeforeCompletion, Idle,
             Unfinished, Latest, OthersKept, blobs, history
    <3> QED
      BY <3>11, <3>12, <3>13, <3>14, <3>15, <3>16 DEF MediaInv
  <2> QED
    BY <2>1, <2>2
<1>7. CASE Download(w)
  <2>1. CASE Reject(w, "final") /\ Unchanged
    BY <1>5, <1>7, <2>1 DEF Download
  <2>2. CASE ~(Reject(w, "final") /\ Unchanged)
    <3>1. /\ OthersKept(w) /\ job'[w].at = "scan" /\ job'[w].attempt = job[w].attempt
          /\ job'[w].bytes = row.etag
          /\ UNCHANGED <<blobs, attached, history>> /\ Progress /\ job[w].at = "download"
      BY <1>1, <1>7, <2>2, JobRead DEF Download, SameBytes
    <3> QED
      BY <1>1, <1>2, <3>1, MovedItem, QuietStep DEF Progress
  <2> QED
    BY <2>1, <2>2
<1>8. CASE Scan(w)
  <2>1. CASE ~Latest(job[w])
    BY <1>4, <1>8, <2>1 DEF Scan
  <2>2. CASE Latest(job[w])
    <3>1. /\ UNCHANGED <<blobs, attached, history>> /\ job[w].at = "scan"
          /\ SameItem /\ ~unmoved' /\ row.status = "processing"
      BY <1>1, <1>8, <2>2 DEF Scan, Moved, Latest, SameItem, TypeOK, Row
    <3>2. Goto(w, "moderate") \/ Reject(w, "final")
      BY <1>8, <2>2 DEF Scan
    <3>3. row.status # "gone" => job[w].bytes = row.etag
      BY <3>1 DEF MediaInv, AttemptsAgree
    <3> QED
      BY <1>1, <3>1, <3>2, <3>3, JobGoto, JobReject, QuietStep
  <2> QED
    BY <2>1, <2>2
<1>9. CASE Moderate(w)
  <2>1. CASE Finish(w) /\ Unchanged
    BY <1>4, <1>9, <2>1 DEF Moderate
  <2>2. CASE Reject(w, "final") /\ Progress
    BY <1>5, <1>9, <2>2 DEF Moderate
  <2>3. CASE Latest(job[w]) /\ Moved([row EXCEPT !.checks = "allowed"]) /\ Goto(w, "render")
    <3>1. SameItem /\ ~unmoved' /\ row.status = "processing"
      BY <1>1, <2>3 DEF Moved, Latest, SameItem, TypeOK, Row
    <3>2. UNCHANGED <<blobs, attached, history>> /\ job[w].at = "moderate"
      BY <1>9 DEF Moderate
    <3>3. row.status # "gone" => job[w].bytes = row.etag
      BY <3>2 DEF MediaInv, AttemptsAgree
    <3> QED
      BY <1>1, <2>3, <3>1, <3>2, <3>3, JobGoto, QuietStep
  <2> QED
    BY <1>9, <2>1, <2>2, <2>3 DEF Moderate
<1>10. CASE UploadRenditions(w)
  <2>1. /\ OthersKept(w) /\ job'[w].at = "mark" /\ job'[w].attempt = job[w].attempt
        /\ job'[w].bytes = job[w].bytes /\ image' = job[w].bytes /\ job[w].at = "render"
        /\ UNCHANGED <<row, upload, attached, jobs, unmoved, history>>
    BY <1>1, <1>10, JobGoto DEF UploadRenditions
  <2>2. row.status # "gone" => job[w].bytes = row.etag
    BY <2>1 DEF MediaInv, AttemptsAgree
  <2>11. NoJobBeforeCompletion'
    BY <1>1, <1>2, <2>1, <2>2
       DEF MediaInv, NoJobBeforeCompletion, Unfinished, Idle, OthersKept, jobs, history
  <2>12. CompletedHasEtag' /\ DeletesOnlyFinished'
    BY <1>1, <1>2, <2>1, <2>2
       DEF MediaInv, CompletedHasEtag, DeletesOnlyFinished, Refused, Unfinished,
           OthersKept, jobs, history
  <2>13. UploadKept' /\ ProcessedIsFinished' /\ AttachedIsReady'
    BY <1>1, <1>2, <2>1, <2>2
       DEF MediaInv, UploadKept, ProcessedIsFinished, AttachedIsReady, Refused, Unfinished,
           OthersKept, jobs, history
  <2>14. PurgedIsRetired' /\ ListedIsUnattached'
    BY <1>1, <1>2, <2>1, <2>2
       DEF MediaInv, PurgedIsRetired, ListedIsUnattached, Refused, Unfinished, OthersKept,
           jobs, history
  <2>15. AttemptsAgree'
    BY <1>1, <1>2, <2>1, <2>2
       DEF MediaInv, AttemptsAgree, NoJobBeforeCompletion, Unfinished, Idle, OthersKept,
           jobs, history
  <2>16. RenditionsInPlace'
    BY <1>1, <1>2, <2>1, <2>2
       DEF MediaInv, RenditionsInPlace, AttemptsAgree, NoJobBeforeCompletion, Idle,
           Unfinished, Latest, OthersKept, jobs, history
  <2> QED
    BY <2>11, <2>12, <2>13, <2>14, <2>15, <2>16 DEF MediaInv
<1>11. CASE MarkReady(w)
  <2>1. CASE ~(Latest(job[w]) /\ row.checks = "allowed")
    BY <1>1, <1>2, <1>11, <2>1, JobDone, MovedItem, QuietStep DEF MarkReady
  <2>2. CASE Latest(job[w]) /\ row.checks = "allowed"
    <3>1. /\ OthersKept(w) /\ job'[w].at = "unlink" /\ job'[w].attempt = 0
          /\ UNCHANGED <<blobs, attached, queue, history>> /\ ~unmoved' /\ job[w].at = "mark"
      BY <1>1, <1>11, <2>2, JobDone DEF MarkReady, Moved
    <3>2. /\ row'.status = "ready" /\ row'.attempts = row.attempts /\ row'.processed
          /\ row'.etag = row.etag /\ row.status = "processing" /\ Latest(job[w])
      BY <1>1, <1>11, <2>2 DEF MarkReady, Moved, Latest, TypeOK, Row
    <3>11. NoJobBeforeCompletion'
      BY <1>1, <3>1, <3>2
         DEF MediaInv, NoJobBeforeCompletion, Unfinished, Idle, OthersKept, blobs, history
    <3>12. CompletedHasEtag' /\ DeletesOnlyFinished'
      BY <1>1, <3>1, <3>2
         DEF MediaInv, CompletedHasEtag, DeletesOnlyFinished, Refused, Unfinished,
             OthersKept, blobs, history
    <3>13. UploadKept' /\ ProcessedIsFinished' /\ AttachedIsReady'
      BY <1>1, <3>1, <3>2
         DEF MediaInv, UploadKept, ProcessedIsFinished, AttachedIsReady, Refused,
             Unfinished, OthersKept, blobs, history
    <3>14. PurgedIsRetired' /\ ListedIsUnattached'
      BY <1>1, <3>1, <3>2
         DEF MediaInv, PurgedIsRetired, ListedIsUnattached, Refused, Unfinished,
             OthersKept, blobs, history
    <3>15. AttemptsAgree'
      BY <1>1, <3>1, <3>2
         DEF MediaInv, AttemptsAgree, NoJobBeforeCompletion, Unfinished, Idle, OthersKept,
             blobs, history
    <3>16. RenditionsInPlace'
      BY <1>1, <3>1, <3>2
         DEF MediaInv, RenditionsInPlace, AttemptsAgree, NoJobBeforeCompletion, Idle,
             Unfinished, Latest, OthersKept, blobs, history
    <3> QED
      BY <3>11, <3>12, <3>13, <3>14, <3>15, <3>16 DEF MediaInv
  <2> QED
    BY <2>1, <2>2
<1>12. CASE DiscardOutput(w)
  <2>1. /\ OthersKept(w) /\ job'[w].at \in {"erase", "unlink", "idle"}
        /\ job'[w].at = "erase" => row.status \in {"gone", "rejected"}
        /\ job'[w].at = "unlink" => row.status = "ready"
        /\ job'[w].attempt \in {0, job[w].attempt}
    BY <1>1, <1>12, JobGoto, JobFinish DEF DiscardOutput, OutputIsNobodys
  <2>2. /\ UNCHANGED <<row, blobs, attached, jobs, unmoved, history>>
        /\ job[w].at = "discard"
    BY <1>12 DEF DiscardOutput
  <2>11. NoJobBeforeCompletion'
    BY <1>1, <1>2, <2>1, <2>2
       DEF MediaInv, NoJobBeforeCompletion, Unfinished, Idle, OthersKept, blobs, jobs,
           history
  <2>12. CompletedHasEtag' /\ DeletesOnlyFinished'
    BY <1>1, <1>2, <2>1, <2>2
       DEF MediaInv, CompletedHasEtag, DeletesOnlyFinished, Refused, Unfinished,
           OthersKept, blobs, jobs, history
  <2>13. UploadKept' /\ ProcessedIsFinished' /\ AttachedIsReady'
    BY <1>1, <1>2, <2>1, <2>2
       DEF MediaInv, UploadKept, ProcessedIsFinished, AttachedIsReady, Refused, Unfinished,
           OthersKept, blobs, jobs, history
  <2>14. PurgedIsRetired' /\ ListedIsUnattached'
    BY <1>1, <1>2, <2>1, <2>2
       DEF MediaInv, PurgedIsRetired, ListedIsUnattached, Refused, Unfinished, OthersKept,
           blobs, jobs, history
  <2>15. AttemptsAgree'
    BY <1>1, <1>2, <2>1, <2>2
       DEF MediaInv, AttemptsAgree, NoJobBeforeCompletion, Unfinished, Idle, OthersKept,
           blobs, jobs, history
  <2>16. RenditionsInPlace'
    BY <1>1, <1>2, <2>1, <2>2
       DEF MediaInv, RenditionsInPlace, AttemptsAgree, NoJobBeforeCompletion, Idle,
           Unfinished, Latest, OthersKept, blobs, jobs, history
  <2> QED
    BY <2>11, <2>12, <2>13, <2>14, <2>15, <2>16 DEF MediaInv
<1>13. CASE EraseOutput(w)
  <2>1. /\ OthersKept(w) /\ job'[w].at = "idle" /\ job'[w].attempt = 0
        /\ job[w].at = "erase"
        /\ UNCHANGED <<row, upload, attached, jobs, unmoved, history>>
    BY <1>1, <1>13, JobFinish DEF EraseOutput
  <2>11. NoJobBeforeCompletion'
    BY <1>1, <1>2, <2>1
       DEF MediaInv, NoJobBeforeCompletion, Unfinished, Idle, OthersKept, jobs, history
  <2>12. CompletedHasEtag' /\ DeletesOnlyFinished'
    BY <1>1, <1>2, <2>1
       DEF MediaInv, CompletedHasEtag, DeletesOnlyFinished, Refused, Unfinished,
           OthersKept, jobs, history
  <2>13. UploadKept' /\ ProcessedIsFinished' /\ AttachedIsReady'
    BY <1>1, <1>2, <2>1
       DEF MediaInv, UploadKept, ProcessedIsFinished, AttachedIsReady, Refused, Unfinished,
           OthersKept, jobs, history
  <2>14. PurgedIsRetired' /\ ListedIsUnattached'
    BY <1>1, <1>2, <2>1
       DEF MediaInv, PurgedIsRetired, ListedIsUnattached, Refused, Unfinished, OthersKept,
           jobs, history
  <2>15. AttemptsAgree'
    BY <1>1, <1>2, <2>1
       DEF MediaInv, AttemptsAgree, NoJobBeforeCompletion, Unfinished, Idle, OthersKept,
           jobs, history
  <2>16. RenditionsInPlace'
    BY <1>1, <1>2, <2>1
       DEF MediaInv, RenditionsInPlace, AttemptsAgree, NoJobBeforeCompletion, Idle,
           Unfinished, Latest, OthersKept, jobs, history
  <2> QED
    BY <2>11, <2>12, <2>13, <2>14, <2>15, <2>16 DEF MediaInv
<1> QED
  BY <1>3, <1>6, <1>7, <1>8, <1>9, <1>10, <1>11, <1>12, <1>13

(* So do the failures and the end of a job.                                 *)
LEMMA FailureInv ==
  ASSUME MediaInv, TypeOK', NEW w \in Workers,
         \/ RejectItem(w) \/ StepFails(w) \/ HandOn(w) \/ MarkFailed(w) \/ Ack(w)
         \/ WorkerCrashes(w)
  PROVE  MediaInv'
<1> USE FixedProcesses
<1>1. TypeOK /\ row.attempts \in Nat /\ \A q \in Processes : job[q].attempt \in Nat
  BY DEF MediaInv, TypeOK, Row, Job
<1>2. row.status # "pending_upload"
  <2>1. job[w] # Idle
    BY DEF RejectItem, StepFails, HandOn, MarkFailed, Ack, WorkerCrashes, Idle
  <2> QED
    BY <2>1 DEF MediaInv, NoJobBeforeCompletion
<1>3. ASSUME Done(w, "ack"), Unchanged, UNCHANGED <<blobs, attached, history>>
      PROVE  MediaInv'
  BY <1>1, <1>2, <1>3, JobDone, MovedItem, QuietStep
<1>4. ASSUME RejectMedia(w, "ack"), UNCHANGED <<blobs, attached, queue, history>>
      PROVE  MediaInv'
  <2>1. CASE ~Unfinished
    BY <1>2, <1>3, <1>4, <2>1 DEF RejectMedia, Unfinished
  <2>2. CASE Unfinished
    <3>1. /\ OthersKept(w) /\ job'[w].at \in {"ack", "unlink"} /\ job'[w].attempt = 0
          /\ job'[w].at = "unlink" => job[w].code # "processing_failed"
      BY <1>1, <1>4, <2>2, JobDone DEF RejectMedia, KeepsQuarantinedUpload, Unfinished
    <3>2. Unfinished /\ Moved([row EXCEPT !.status = "rejected", !.code = job[w].code])
      BY <1>2, <1>4, <2>2 DEF RejectMedia, Unfinished
    <3>3. /\ row'.status = "rejected" /\ row'.code = job[w].code /\ row'.etag = row.etag
          /\ row'.attempts = row.attempts /\ row'.processed = row.processed /\ ~unmoved'
      BY <1>1, <3>2 DEF Moved, TypeOK, Row
    <3>11. NoJobBeforeCompletion'
      BY <1>1, <1>4, <3>1, <3>2, <3>3
         DEF MediaInv, NoJobBeforeCompletion, Unfinished, Idle, OthersKept, blobs, history
    <3>12. CompletedHasEtag' /\ DeletesOnlyFinished'
      BY <1>1, <1>4, <3>1, <3>2, <3>3
         DEF MediaInv, CompletedHasEtag, DeletesOnlyFinished, Refused, Unfinished,
             OthersKept, blobs, history
    <3>13. UploadKept' /\ ProcessedIsFinished' /\ AttachedIsReady'
      BY <1>1, <1>4, <3>1, <3>2, <3>3
         DEF MediaInv, UploadKept, ProcessedIsFinished, AttachedIsReady, Refused,
             Unfinished, OthersKept, blobs, history
    <3>14. PurgedIsRetired' /\ ListedIsUnattached'
      BY <1>1, <1>4, <3>1, <3>2, <3>3
         DEF MediaInv, PurgedIsRetired, ListedIsUnattached, Refused, Unfinished,
             OthersKept, blobs, history
    <3>15. AttemptsAgree'
      BY <1>1, <1>4, <3>1, <3>2, <3>3
         DEF MediaInv, AttemptsAgree, NoJobBeforeCompletion, Unfinished, Idle, OthersKept,
             blobs, history
    <3>16. RenditionsInPlace'
      BY <1>1, <1>4, <3>1, <3>2, <3>3
         DEF MediaInv, RenditionsInPlace, AttemptsAgree, NoJobBeforeCompletion, Idle,
             Unfinished, Latest, OthersKept, blobs, history
    <3> QED
      BY <3>11, <3>12, <3>13, <3>14, <3>15, <3>16 DEF MediaInv
  <2> QED
    BY <2>1, <2>2
<1>5. CASE RejectItem(w)
  BY <1>4, <1>5 DEF RejectItem
<1>6. CASE StepFails(w)
  <2>1. /\ OthersKept(w) /\ job'[w].at = "handOn" /\ job'[w].attempt = 0
        /\ UNCHANGED <<upload, attached, queue, history>>
    BY <1>1, <1>6, JobDone DEF StepFails
  <2>2. SameItem /\ (unmoved' => unmoved)
    BY <1>1, <1>6, MovedItem DEF StepFails, Unfinished
  <2>3. image # NONE => image' = image
    BY <1>6 DEF StepFails
  <2>11. NoJobBeforeCompletion'
    BY <1>1, <1>2, <2>1, <2>2, <2>3
       DEF MediaInv, NoJobBeforeCompletion, Unfinished, Idle, OthersKept, SameItem, history
  <2>12. CompletedHasEtag' /\ DeletesOnlyFinished'
    BY <1>1, <1>2, <2>1, <2>2, <2>3
       DEF MediaInv, CompletedHasEtag, DeletesOnlyFinished, Refused, Unfinished,
           OthersKept, SameItem, history
  <2>13. UploadKept' /\ ProcessedIsFinished' /\ AttachedIsReady'
    BY <1>1, <1>2, <2>1, <2>2, <2>3
       DEF MediaInv, UploadKept, ProcessedIsFinished, AttachedIsReady, Refused, Unfinished,
           OthersKept, SameItem, history
  <2>14. PurgedIsRetired' /\ ListedIsUnattached'
    BY <1>1, <1>2, <2>1, <2>2, <2>3
       DEF MediaInv, PurgedIsRetired, ListedIsUnattached, Refused, Unfinished, OthersKept,
           SameItem, history
  <2>15. AttemptsAgree'
    BY <1>1, <1>2, <2>1, <2>2, <2>3
       DEF MediaInv, AttemptsAgree, NoJobBeforeCompletion, Unfinished, Idle, OthersKept,
           SameItem, history
  <2>16. RenditionsInPlace'
    BY <1>1, <1>2, <2>1, <2>2, <2>3
       DEF MediaInv, RenditionsInPlace, AttemptsAgree, NoJobBeforeCompletion, Idle,
           Unfinished, Latest, CompletedHasEtag, OthersKept, SameItem, history
  <2> QED
    BY <2>11, <2>12, <2>13, <2>14, <2>15, <2>16 DEF MediaInv
<1>7. CASE HandOn(w)
  <2>1. /\ OthersKept(w) /\ job'[w].at \in {"ack", "failed"}
        /\ job'[w].attempt \in {0, job[w].attempt}
    <3>1. CASE Done(w, "ack")
      BY <1>1, <3>1, JobDone
    <3>2. CASE job' = [job EXCEPT ![w].at = "failed", ![w].code = "processing_failed"]
      BY <1>1, <3>2, JobFailed
    <3> QED
      BY <1>7, <3>1, <3>2 DEF HandOn
  <2>2. UNCHANGED <<row, blobs, attached, unmoved, history>>
    BY <1>7 DEF HandOn
  <2> QED
    BY <1>2, <2>1, <2>2, QuietStep DEF SameItem
<1>8. CASE MarkFailed(w)
  BY <1>3, <1>4, <1>8 DEF MarkFailed
<1>9. CASE Ack(w)
  BY <1>1, <1>2, <1>9, JobFinish, QuietStep DEF Ack, SameItem
<1>10. CASE WorkerCrashes(w)
  BY <1>1, <1>2, <1>10, JobFinish, QuietStep DEF WorkerCrashes, SameItem
<1> QED
  BY <1>5, <1>6, <1>7, <1>8, <1>9, <1>10

(* So do the sweeps.                                                        *)
LEMMA SweepInv ==
  ASSUME MediaInv, TypeOK', Sweep
  PROVE  MediaInv'
<1> USE FixedProcesses
<1>1. TypeOK /\ row.attempts \in Nat /\ \A q \in Processes : job[q].attempt \in Nat
  BY DEF MediaInv, TypeOK, Row, Job
<1>2. CASE ListAbandoned \/ ListStuck \/ ListRejected \/ ListUnattached
  <2>1. /\ OthersKept(CLEANER) /\ job'[CLEANER].attempt = job[CLEANER].attempt
        /\ job'[CLEANER].at \in {"abandoned", "stuck", "purge", "unattached"}
        /\ job'[CLEANER].at = "purge" => row.status = "rejected" /\ row.aged
        /\ job'[CLEANER].at = "unattached" => ~attached
    BY <1>1, <1>2, JobGoto DEF ListAbandoned, ListStuck, ListRejected, ListUnattached, List
  <2>2. UNCHANGED <<row, blobs, attached, jobs, history>>
    BY <1>2 DEF ListAbandoned, ListStuck, ListRejected, ListUnattached, List
  <2>11. NoJobBeforeCompletion'
    BY <1>1, <2>1, <2>2
       DEF MediaInv, NoJobBeforeCompletion, Unfinished, Idle, OthersKept, blobs, jobs,
           history
  <2>12. CompletedHasEtag' /\ DeletesOnlyFinished'
    BY <1>1, <2>1, <2>2
       DEF MediaInv, CompletedHasEtag, DeletesOnlyFinished, Refused, Unfinished,
           OthersKept, blobs, jobs, history
  <2>13. UploadKept' /\ ProcessedIsFinished' /\ AttachedIsReady'
    BY <1>1, <2>1, <2>2
       DEF MediaInv, UploadKept, ProcessedIsFinished, AttachedIsReady, Refused, Unfinished,
           OthersKept, blobs, jobs, history
  <2>14. PurgedIsRetired' /\ ListedIsUnattached'
    BY <1>1, <2>1, <2>2
       DEF MediaInv, PurgedIsRetired, ListedIsUnattached, Refused, Unfinished, OthersKept,
           blobs, jobs, history
  <2>15. AttemptsAgree'
    BY <1>1, <2>1, <2>2
       DEF MediaInv, AttemptsAgree, NoJobBeforeCompletion, Unfinished, Idle, OthersKept,
           blobs, jobs, history
  <2>16. RenditionsInPlace'
    BY <1>1, <2>1, <2>2
       DEF MediaInv, RenditionsInPlace, AttemptsAgree, NoJobBeforeCompletion, Idle,
           Unfinished, Latest, OthersKept, blobs, jobs, history
  <2> QED
    BY <2>11, <2>12, <2>13, <2>14, <2>15, <2>16 DEF MediaInv
<1>3. CASE DeferAttached
  <2>1. UNCHANGED <<blobs, attached, queue, job, history>> /\ row.status = "ready"
    BY <1>3 DEF DeferAttached
  <2>2. SameItem /\ ~unmoved'
    BY <1>1, <1>3 DEF DeferAttached, Moved, SameItem, TypeOK, Row
  <2>11. NoJobBeforeCompletion'
    BY <1>1, <2>1, <2>2
       DEF MediaInv, NoJobBeforeCompletion, Unfinished, Idle, SameItem, blobs, history
  <2>12. CompletedHasEtag' /\ DeletesOnlyFinished'
    BY <1>1, <2>1, <2>2
       DEF MediaInv, CompletedHasEtag, DeletesOnlyFinished, Refused, Unfinished, SameItem,
           blobs, history
  <2>13. UploadKept' /\ ProcessedIsFinished' /\ AttachedIsReady'
    BY <1>1, <2>1, <2>2
       DEF MediaInv, UploadKept, ProcessedIsFinished, AttachedIsReady, Refused, Unfinished,
           SameItem, blobs, history
  <2>14. PurgedIsRetired' /\ ListedIsUnattached'
    BY <1>1, <2>1, <2>2
       DEF MediaInv, PurgedIsRetired, ListedIsUnattached, Refused, Unfinished, SameItem,
           blobs, history
  <2>15. AttemptsAgree'
    BY <1>1, <2>1, <2>2
       DEF MediaInv, AttemptsAgree, NoJobBeforeCompletion, Unfinished, Idle, SameItem,
           blobs, history
  <2>16. RenditionsInPlace'
    BY <1>1, <2>1, <2>2
       DEF MediaInv, RenditionsInPlace, AttemptsAgree, NoJobBeforeCompletion, Idle,
           Unfinished, Latest, SameItem, blobs, history
  <2> QED
    BY <2>11, <2>12, <2>13, <2>14, <2>15, <2>16 DEF MediaInv
<1>4. ASSUME Finish(CLEANER), Unchanged, UNCHANGED <<blobs, attached, queue, history>>
      PROVE  MediaInv'
  BY <1>1, <1>4, JobFinish, MovedItem, QuietStep
<1>5. CASE ClaimAbandoned
  <2>1. CASE row.status # "pending_upload"
    BY <1>4, <1>5, <2>1 DEF ClaimAbandoned
  <2>2. CASE row.status = "pending_upload"
    <3>1. /\ OthersKept(CLEANER) /\ job'[CLEANER].at = "purgeUpload"
          /\ UNCHANGED <<blobs, attached, queue, history>> /\ ~unmoved'
      BY <1>1, <1>5, <2>2, JobGoto DEF ClaimAbandoned, Moved
    <3>2. /\ row'.status = "rejected" /\ row'.code = "abandoned" /\ row'.etag = row.etag
          /\ row'.attempts = row.attempts /\ row'.processed = row.processed
      BY <1>1, <1>5, <2>2 DEF ClaimAbandoned, Moved, TypeOK, Row
    <3>11. NoJobBeforeCompletion'
      BY <1>1, <2>2, <3>1, <3>2
         DEF MediaInv, NoJobBeforeCompletion, Unfinished, Idle, OthersKept, blobs, history
    <3>12. CompletedHasEtag' /\ DeletesOnlyFinished'
      BY <1>1, <2>2, <3>1, <3>2
         DEF MediaInv, CompletedHasEtag, DeletesOnlyFinished, Refused, Unfinished,
             OthersKept, blobs, history
    <3>13. UploadKept' /\ ProcessedIsFinished' /\ AttachedIsReady'
      BY <1>1, <2>2, <3>1, <3>2
         DEF MediaInv, UploadKept, ProcessedIsFinished, AttachedIsReady, Refused,
             Unfinished, OthersKept, blobs, history
    <3>14. PurgedIsRetired' /\ ListedIsUnattached'
      BY <1>1, <2>2, <3>1, <3>2
         DEF MediaInv, PurgedIsRetired, ListedIsUnattached, Refused, Unfinished,
             OthersKept, blobs, history
    <3>15. AttemptsAgree'
      BY <1>1, <2>2, <3>1, <3>2
         DEF MediaInv, AttemptsAgree, NoJobBeforeCompletion, Unfinished, Idle, OthersKept,
             blobs, history
    <3>16. RenditionsInPlace'
      BY <1>1, <2>2, <3>1, <3>2
         DEF MediaInv, RenditionsInPlace, AttemptsAgree, NoJobBeforeCompletion, Idle,
             Unfinished, Latest, OthersKept, blobs, history
    <3> QED
      BY <3>11, <3>12, <3>13, <3>14, <3>15, <3>16 DEF MediaInv
  <2> QED
    BY <2>1, <2>2
<1>6. CASE ClaimStuck
  <2>1. CASE ~(Unfinished /\ unmoved)
    BY <1>4, <1>6, <2>1 DEF ClaimStuck
  <2>2. CASE Unfinished /\ unmoved /\ MayRequeue
    <3>1. /\ OthersKept(CLEANER) /\ job'[CLEANER].at = "enqueue"
          /\ job'[CLEANER].attempt = job[CLEANER].attempt
          /\ UNCHANGED <<blobs, attached, queue, history>>
      BY <1>1, <1>6, <2>2, JobGoto DEF ClaimStuck
    <3>2. SameItem /\ ~unmoved' /\ row.status # "pending_upload"
      BY <1>1, <1>6, <2>2 DEF ClaimStuck, Moved, SameItem, Unfinished, TypeOK, Row
    <3> QED
      BY <3>1, <3>2, QuietStep
  <2>3. CASE Unfinished /\ unmoved /\ ~MayRequeue
    <3>1. /\ OthersKept(CLEANER) /\ job'[CLEANER].at = "idle"
          /\ UNCHANGED <<blobs, attached, queue, history>> /\ ~unmoved'
      BY <1>1, <1>6, <2>3, JobFinish DEF ClaimStuck, Moved
    <3>2. /\ row'.status = "rejected" /\ row'.code = "processing_failed" /\ row'.etag = row.etag
          /\ row'.attempts = row.attempts /\ row'.processed = row.processed
      BY <1>1, <1>6, <2>3 DEF ClaimStuck, Moved, TypeOK, Row
    <3>3. Unfinished
      BY <2>3
    <3>11. NoJobBeforeCompletion'
      BY <1>1, <3>1, <3>2, <3>3
         DEF MediaInv, NoJobBeforeCompletion, Unfinished, Idle, OthersKept, blobs, history
    <3>12. CompletedHasEtag' /\ DeletesOnlyFinished'
      BY <1>1, <3>1, <3>2, <3>3
         DEF MediaInv, CompletedHasEtag, DeletesOnlyFinished, Refused, Unfinished,
             OthersKept, blobs, history
    <3>13. UploadKept' /\ ProcessedIsFinished' /\ AttachedIsReady'
      BY <1>1, <3>1, <3>2, <3>3
         DEF MediaInv, UploadKept, ProcessedIsFinished, AttachedIsReady, Refused,
             Unfinished, OthersKept, blobs, history
    <3>14. PurgedIsRetired' /\ ListedIsUnattached'
      BY <1>1, <3>1, <3>2, <3>3
         DEF MediaInv, PurgedIsRetired, ListedIsUnattached, Refused, Unfinished,
             OthersKept, blobs, history
    <3>15. AttemptsAgree'
      BY <1>1, <3>1, <3>2, <3>3
         DEF MediaInv, AttemptsAgree, NoJobBeforeCompletion, Unfinished, Idle, OthersKept,
             blobs, history
    <3>16. RenditionsInPlace'
      BY <1>1, <3>1, <3>2, <3>3
         DEF MediaInv, RenditionsInPlace, AttemptsAgree, NoJobBeforeCompletion, Idle,
             Unfinished, Latest, OthersKept, blobs, history
    <3> QED
      BY <3>11, <3>12, <3>13, <3>14, <3>15, <3>16 DEF MediaInv
  <2> QED
    BY <2>1, <2>2, <2>3
<1>7. CASE PurgeBlobs
  <2>1. /\ OthersKept(CLEANER) /\ job'[CLEANER].at \in {"deleteRow", "idle"}
        /\ UNCHANGED <<attached, queue, late>> /\ purged'
    BY <1>1, <1>7, JobGoto, JobFinish DEF PurgeBlobs
  <2>2. /\ row'.status = row.status /\ row'.code = row.code /\ row'.etag = row.etag
        /\ row'.attempts = row.attempts /\ row'.processed = row.processed
        /\ unmoved' => unmoved
    BY <1>1, <1>7 DEF PurgeBlobs, Moved, Unchanged, TypeOK, Row
  <2>3. image' = image \/ (job[CLEANER].at = "purge" /\ row.processed)
    BY <1>7 DEF PurgeBlobs
  <2>4. image' = image \/ row.status \in {"gone", "rejected"}
    BY <2>3 DEF MediaInv, PurgedIsRetired, Refused
  <2>11. NoJobBeforeCompletion'
    BY <1>1, <2>1, <2>2, <2>4
       DEF MediaInv, NoJobBeforeCompletion, Unfinished, Idle, OthersKept
  <2>12. CompletedHasEtag' /\ DeletesOnlyFinished'
    BY <1>1, <2>1, <2>2, <2>4
       DEF MediaInv, CompletedHasEtag, DeletesOnlyFinished, Refused, Unfinished, OthersKept
  <2>13. UploadKept' /\ ProcessedIsFinished' /\ AttachedIsReady'
    BY <1>1, <2>1, <2>2, <2>4
       DEF MediaInv, UploadKept, ProcessedIsFinished, AttachedIsReady, Refused, Unfinished,
           OthersKept
  <2>14. PurgedIsRetired' /\ ListedIsUnattached'
    BY <1>1, <2>1, <2>2, <2>4
       DEF MediaInv, PurgedIsRetired, ListedIsUnattached, Refused, Unfinished, OthersKept
  <2>15. AttemptsAgree'
    BY <1>1, <2>1, <2>2, <2>4
       DEF MediaInv, AttemptsAgree, NoJobBeforeCompletion, Unfinished, Idle, OthersKept
  <2>16. RenditionsInPlace'
    BY <1>1, <2>1, <2>2, <2>4
       DEF MediaInv, RenditionsInPlace, AttemptsAgree, NoJobBeforeCompletion, Idle,
           Unfinished, Latest, OthersKept
  <2> QED
    BY <2>11, <2>12, <2>13, <2>14, <2>15, <2>16 DEF MediaInv
<1>8. CASE DeleteRow
  <2>1. CASE row.status # "rejected"
    BY <1>4, <1>8, <2>1 DEF DeleteRow
  <2>2. CASE row.status = "rejected"
    <3>1. /\ OthersKept(CLEANER) /\ job'[CLEANER].at = "idle" /\ ~unmoved'
          /\ UNCHANGED <<blobs, attached, queue, history>>
          /\ row'.status = "gone" /\ ~row'.processed
      BY <1>1, <1>8, <2>2, JobFinish DEF DeleteRow, Moved, Gone, NewRow
    <3>11. NoJobBeforeCompletion'
      BY <1>1, <2>2, <3>1
         DEF MediaInv, NoJobBeforeCompletion, Unfinished, Idle, OthersKept, blobs, history
    <3>12. CompletedHasEtag' /\ DeletesOnlyFinished'
      BY <1>1, <2>2, <3>1
         DEF MediaInv, CompletedHasEtag, DeletesOnlyFinished, Refused, Unfinished,
             OthersKept, blobs, history
    <3>13. UploadKept' /\ ProcessedIsFinished' /\ AttachedIsReady'
      BY <1>1, <2>2, <3>1
         DEF MediaInv, UploadKept, ProcessedIsFinished, AttachedIsReady, Refused,
             Unfinished, OthersKept, blobs, history
    <3>14. PurgedIsRetired' /\ ListedIsUnattached'
      BY <1>1, <2>2, <3>1
         DEF MediaInv, PurgedIsRetired, ListedIsUnattached, Refused, Unfinished,
             OthersKept, blobs, history
    <3>15. AttemptsAgree'
      BY <1>1, <2>2, <3>1
         DEF MediaInv, AttemptsAgree, NoJobBeforeCompletion, Unfinished, Idle, OthersKept,
             blobs, history
    <3>16. RenditionsInPlace'
      BY <1>1, <2>2, <3>1
         DEF MediaInv, RenditionsInPlace, AttemptsAgree, NoJobBeforeCompletion, Idle,
             Unfinished, Latest, OthersKept, blobs, history
    <3> QED
      BY <3>11, <3>12, <3>13, <3>14, <3>15, <3>16 DEF MediaInv
  <2> QED
    BY <2>1, <2>2
<1>9. CASE ClaimUnattached
  <2>1. CASE ~MayClaimUnattached
    BY <1>4, <1>9, <2>1 DEF ClaimUnattached
  <2>2. CASE MayClaimUnattached
    <3>1. /\ OthersKept(CLEANER) /\ job'[CLEANER].at = "deleteBlobs"
          /\ UNCHANGED <<blobs, attached, queue, history>> /\ ~unmoved'
      BY <1>1, <1>9, <2>2, JobGoto DEF ClaimUnattached, Moved
    <3>2. /\ row'.status = "rejected" /\ row'.code = "unattached" /\ row'.etag = row.etag
          /\ row'.attempts = row.attempts /\ row'.processed = row.processed
          /\ row.status = "ready"
      BY <1>1, <1>9, <2>2 DEF ClaimUnattached, MayClaimUnattached, Moved, TypeOK, Row
    <3>3. ~attached
      BY <1>9, <2>2 DEF ClaimUnattached, MayClaimUnattached, MediaInv, ListedIsUnattached
    <3>11. NoJobBeforeCompletion'
      BY <1>1, <3>1, <3>2, <3>3
         DEF MediaInv, NoJobBeforeCompletion, Unfinished, Idle, OthersKept, blobs, history
    <3>12. CompletedHasEtag' /\ DeletesOnlyFinished'
      BY <1>1, <3>1, <3>2, <3>3
         DEF MediaInv, CompletedHasEtag, DeletesOnlyFinished, Refused, Unfinished,
             OthersKept, blobs, history
    <3>13. UploadKept' /\ ProcessedIsFinished' /\ AttachedIsReady'
      BY <1>1, <3>1, <3>2, <3>3
         DEF MediaInv, UploadKept, ProcessedIsFinished, AttachedIsReady, Refused,
             Unfinished, OthersKept, blobs, history
    <3>14. PurgedIsRetired' /\ ListedIsUnattached'
      BY <1>1, <3>1, <3>2, <3>3
         DEF MediaInv, PurgedIsRetired, ListedIsUnattached, Refused, Unfinished,
             OthersKept, blobs, history
    <3>15. AttemptsAgree'
      BY <1>1, <3>1, <3>2, <3>3
         DEF MediaInv, AttemptsAgree, NoJobBeforeCompletion, Unfinished, Idle, OthersKept,
             blobs, history
    <3>16. RenditionsInPlace'
      BY <1>1, <3>1, <3>2, <3>3
         DEF MediaInv, RenditionsInPlace, AttemptsAgree, NoJobBeforeCompletion, Idle,
             Unfinished, Latest, OthersKept, blobs, history
    <3> QED
      BY <3>11, <3>12, <3>13, <3>14, <3>15, <3>16 DEF MediaInv
  <2> QED
    BY <2>1, <2>2
<1>10. CASE DeleteBlobs(CLEANER) \/ Enqueue(CLEANER)
  BY <1>10, SharedInv
<1> QED
  BY <1>2, <1>3, <1>5, <1>6, <1>7, <1>8, <1>9, <1>10 DEF Sweep

(* So do an operator's replay, the crash of a process and the passing of time. *)
LEMMA OtherInv ==
  ASSUME MediaInv, TypeOK',
         \/ BeginReplay \/ ClaimReplay \/ TimePasses
         \/ \E p \in {CLEANER, CLIENT, OPERATOR} : ProcessCrashes(p)
  PROVE  MediaInv'
<1> USE FixedProcesses
<1>1. TypeOK /\ row.attempts \in Nat /\ \A q \in Processes : job[q].attempt \in Nat
  BY DEF MediaInv, TypeOK, Row, Job
<1>2. CASE BeginReplay
  BY <1>1, <1>2, JobGoto, QuietStep DEF BeginReplay, SameItem, jobs
<1>3. CASE ClaimReplay
  <2>1. UNCHANGED <<blobs, attached, queue, purged>>
    BY <1>3 DEF ClaimReplay
  <2>2. CASE Finish(OPERATOR) /\ Unchanged /\ UNCHANGED late
    BY <1>1, <2>1, <2>2, JobFinish, MovedItem, QuietStep DEF history
  <2>3. CASE Unfinished /\ Moved(row) /\ Goto(OPERATOR, "enqueue") /\ UNCHANGED late
    BY <1>1, <2>1, <2>3, JobGoto, MovedItem, QuietStep DEF history, Unfinished
  <2>4. CASE /\ MayReopen /\ Goto(OPERATOR, "enqueue")
             /\ Moved([row EXCEPT !.status = "uploaded", !.code = "none", !.requeues = 0])
             /\ late' = (late \/ \E w \in Workers : job[w].at = "erase")
    <3>1. /\ OthersKept(OPERATOR) /\ job'[OPERATOR].at = "enqueue" /\ ~unmoved'
          /\ ~late' => ~late /\ \A w \in Workers : job[w].at # "erase"
      BY <1>1, <2>4, JobGoto DEF Moved
    <3>2. /\ row.status = "rejected" /\ row.code = "processing_failed" /\ ~row.aged
          /\ row'.status = "uploaded" /\ row'.etag = row.etag
          /\ row'.attempts = row.attempts /\ row'.processed = row.processed
      BY <1>1, <2>4 DEF MayReopen, Moved, TypeOK, Row
    <3>11. NoJobBeforeCompletion'
      BY <1>1, <2>1, <3>1, <3>2
         DEF MediaInv, NoJobBeforeCompletion, Unfinished, Idle, OthersKept, blobs
    <3>12. CompletedHasEtag' /\ DeletesOnlyFinished'
      BY <1>1, <2>1, <3>1, <3>2
         DEF MediaInv, CompletedHasEtag, DeletesOnlyFinished, Refused, Unfinished,
             OthersKept, blobs
    <3>13. UploadKept' /\ ProcessedIsFinished' /\ AttachedIsReady'
      BY <1>1, <2>1, <3>1, <3>2
         DEF MediaInv, UploadKept, ProcessedIsFinished, AttachedIsReady, Refused,
             Unfinished, OthersKept, blobs
    <3>14. PurgedIsRetired' /\ ListedIsUnattached'
      BY <1>1, <2>1, <3>1, <3>2
         DEF MediaInv, PurgedIsRetired, ListedIsUnattached, Refused, Unfinished,
             OthersKept, blobs
    <3>15. AttemptsAgree'
      BY <1>1, <2>1, <3>1, <3>2
         DEF MediaInv, AttemptsAgree, NoJobBeforeCompletion, Unfinished, Idle, OthersKept,
             blobs
    <3>16. RenditionsInPlace'
      BY <1>1, <2>1, <3>1, <3>2
         DEF MediaInv, RenditionsInPlace, AttemptsAgree, NoJobBeforeCompletion, Idle,
             Unfinished, Latest, OthersKept, blobs
    <3> QED
      BY <3>11, <3>12, <3>13, <3>14, <3>15, <3>16 DEF MediaInv
  <2> QED
    BY <1>3, <2>2, <2>3, <2>4 DEF ClaimReplay
<1>4. CASE TimePasses
  <2>1. /\ UNCHANGED <<blobs, attached, jobs, job, unmoved, history>> /\ SameItem
    BY <1>1, <1>4 DEF TimePasses, SameItem, TypeOK, Row
  <2>11. NoJobBeforeCompletion'
    BY <1>1, <2>1
       DEF MediaInv, NoJobBeforeCompletion, Unfinished, Idle, SameItem, blobs, jobs,
           history
  <2>12. CompletedHasEtag' /\ DeletesOnlyFinished'
    BY <1>1, <2>1
       DEF MediaInv, CompletedHasEtag, DeletesOnlyFinished, Refused, Unfinished, SameItem,
           blobs, jobs, history
  <2>13. UploadKept' /\ ProcessedIsFinished' /\ AttachedIsReady'
    BY <1>1, <2>1
       DEF MediaInv, UploadKept, ProcessedIsFinished, AttachedIsReady, Refused, Unfinished,
           SameItem, blobs, jobs, history
  <2>14. PurgedIsRetired' /\ ListedIsUnattached'
    BY <1>1, <2>1
       DEF MediaInv, PurgedIsRetired, ListedIsUnattached, Refused, Unfinished, SameItem,
           blobs, jobs, history
  <2>15. AttemptsAgree'
    BY <1>1, <2>1
       DEF MediaInv, AttemptsAgree, NoJobBeforeCompletion, Unfinished, Idle, SameItem,
           blobs, jobs, history
  <2>16. RenditionsInPlace'
    BY <1>1, <2>1
       DEF MediaInv, RenditionsInPlace, AttemptsAgree, NoJobBeforeCompletion, Idle,
           Unfinished, Latest, SameItem, blobs, jobs, history
  <2> QED
    BY <2>11, <2>12, <2>13, <2>14, <2>15, <2>16 DEF MediaInv
<1>5. ASSUME NEW p \in {CLEANER, CLIENT, OPERATOR}, ProcessCrashes(p) PROVE MediaInv'
  BY <1>1, <1>5, JobFinish, QuietStep DEF ProcessCrashes, SameItem, jobs
<1> QED
  BY <1>2, <1>3, <1>4, <1>5

(* The invariant holds at the start and every step keeps it.                *)
LEMMA MediaInvHolds == Spec => []MediaInv
<1>1. Init => MediaInv
  <2> SUFFICES ASSUME Init PROVE MediaInv
    OBVIOUS
  <2>1. TypeOK
    BY InitType
  <2>2. NoJobBeforeCompletion
    BY DEF Init, NoJobBeforeCompletion, Idle, Processes, CLIENT
  <2>3. CompletedHasEtag /\ DeletesOnlyFinished /\ UploadKept /\ ProcessedIsFinished
    BY FixedProcesses DEF Init, CompletedHasEtag, DeletesOnlyFinished, UploadKept,
          ProcessedIsFinished, Unfinished, Idle, NewRow
  <2>4. PurgedIsRetired /\ ListedIsUnattached /\ AttachedIsReady
    BY FixedProcesses DEF Init, PurgedIsRetired, ListedIsUnattached, AttachedIsReady, Idle
  <2>5. AttemptsAgree /\ RenditionsInPlace
    BY FixedProcesses DEF Init, AttemptsAgree, RenditionsInPlace, Idle, NewRow
  <2> QED
    BY <2>1, <2>2, <2>3, <2>4, <2>5 DEF MediaInv
<1>2. MediaInv /\ [Next]_vars => MediaInv'
  <2> SUFFICES ASSUME MediaInv, [Next]_vars PROVE MediaInv'
    OBVIOUS
  <2>1. TypeOK'
    BY NextType DEF MediaInv
  <2>2. CASE UNCHANGED vars
    BY <2>2 DEF vars, MediaInv, TypeOK, NoJobBeforeCompletion, CompletedHasEtag,
          DeletesOnlyFinished, UploadKept, ProcessedIsFinished, PurgedIsRetired,
          ListedIsUnattached, AttachedIsReady, AttemptsAgree, RenditionsInPlace, Refused,
          Unfinished, Latest
  <2>3. ASSUME NEW w \in Workers, WorkerStep(w) \/ StepFails(w) \/ WorkerCrashes(w)
        PROVE  MediaInv'
    BY <2>1, <2>3, FixedProcesses, AttemptInv, FailureInv, SharedInv DEF WorkerStep
  <2> QED
    BY <2>1, <2>2, <2>3, FixedProcesses, ClientInv, SharedInv, SweepInv, OtherInv DEF Next
<1> QED
  BY <1>1, <1>2, PTL DEF Spec

-----------------------------------------------------------------------------
(* A ready item has its image with every rendition, made of the bytes that
   completion saw, unless the item was reopened while an overtaken attempt was
   about to delete the renditions.                                          *)
THEOREM ReadyImages == Spec => []ReadyHasImageUnlessLate
<1>1. MediaInv => ReadyHasImageUnlessLate
  BY DEF MediaInv, RenditionsInPlace, ReadyHasImageUnlessLate, ReadyHasImage
<1> QED
  BY <1>1, MediaInvHolds, PTL

(* Nothing refers to an image that is not ready: no sweep, delete or replay
   takes an image from under a reference.                                   *)
THEOREM AttachedImages == Spec => []AttachedIsReady
<1>1. MediaInv => AttachedIsReady
  BY DEF MediaInv
<1> QED
  BY <1>1, MediaInvHolds, PTL

(* The upload of an item whose processing failed is there for a replay until
   the purge.                                                               *)
THEOREM UploadsKept == Spec => []KeptForReplay
<1>1. MediaInv => KeptForReplay
  BY DEF MediaInv, UploadKept, KeptForReplay
<1> QED
  BY <1>1, MediaInvHolds, PTL

(* No step publishes, reopens or processes an item whose content was refused,
   or that was given up as abandoned or unattached.                         *)
LEMMA RefusedStep ==
  ASSUME TypeOK, Next, row.status = "rejected", row.code # "processing_failed"
  PROVE  row'.status \in {"rejected", "gone"}
<1> USE DEF Unfinished
<1>1. ASSUME Unchanged \/ Moved(row) \/ Moved(Gone)
      PROVE  row'.status \in {"rejected", "gone"}
  BY <1>1 DEF Unchanged, Moved, Gone, NewRow, TypeOK, Row
<1>2. ASSUME UNCHANGED row PROVE row'.status \in {"rejected", "gone"}
  BY <1>2
<1>3. CASE \/ PutBytes \/ BeginComplete \/ CompleteUpload \/ SaveReference
           \/ ReplaceReference \/ DeleteReplaced \/ DeleteMedia
  BY <1>1, <1>2, <1>3
     DEF PutBytes, BeginComplete, CompleteUpload, SaveReference, ReplaceReference,
         DeleteReplaced, DeleteMedia
<1>4. ASSUME NEW p, Enqueue(p) \/ DeleteBlobs(p) \/ Unlink(p) \/ ProcessCrashes(p)
      PROVE  row'.status \in {"rejected", "gone"}
  BY <1>2, <1>4 DEF Enqueue, DeleteBlobs, Unlink, ProcessCrashes
<1>5. ASSUME NEW w \in Workers,
             \/ \E n \in DOMAIN queue : Take(w, n)
             \/ Claim(w) \/ Download(w) \/ Scan(w) \/ Moderate(w) \/ UploadRenditions(w)
             \/ MarkReady(w) \/ DiscardOutput(w) \/ EraseOutput(w)
      PROVE  row'.status \in {"rejected", "gone"}
  BY <1>1, <1>2, <1>5
     DEF Take, Claim, Download, Scan, Moderate, UploadRenditions, MarkReady, DiscardOutput,
         EraseOutput, Latest, Progress
<1>6. ASSUME NEW w \in Workers,
             \/ RejectItem(w) \/ StepFails(w) \/ HandOn(w) \/ MarkFailed(w) \/ Ack(w)
             \/ WorkerCrashes(w)
      PROVE  row'.status \in {"rejected", "gone"}
  BY <1>1, <1>2, <1>6
     DEF RejectItem, StepFails, HandOn, MarkFailed, Ack, WorkerCrashes, RejectMedia
<1>7. CASE Sweep
  <2>1. CASE ListAbandoned \/ ListStuck \/ ListRejected \/ ListUnattached
    BY <1>2, <2>1 DEF ListAbandoned, ListStuck, ListRejected, ListUnattached, List
  <2>2. CASE \/ DeferAttached \/ ClaimAbandoned \/ ClaimStuck \/ PurgeBlobs \/ DeleteRow
             \/ ClaimUnattached
    BY <1>1, <2>2
       DEF DeferAttached, ClaimAbandoned, ClaimStuck, PurgeBlobs, DeleteRow,
           ClaimUnattached, MayClaimUnattached
  <2> QED
    BY <1>4, <1>7, <2>1, <2>2 DEF Sweep
<1>8. CASE BeginReplay \/ ClaimReplay
  BY <1>1, <1>2, <1>8 DEF BeginReplay, ClaimReplay, MayReopen
<1>9. CASE TimePasses
  BY <1>9 DEF TimePasses, TypeOK, Row
<1>10. ASSUME NEW w \in Workers, WorkerStep(w) \/ StepFails(w) \/ WorkerCrashes(w)
       PROVE  row'.status \in {"rejected", "gone"}
  BY <1>4, <1>5, <1>6, <1>10 DEF WorkerStep
<1> QED
  BY <1>3, <1>4, <1>7, <1>8, <1>9, <1>10 DEF Next

(* An item whose content was refused is never published: no replay, retry or
   attempt that still runs brings it back.                                  *)
THEOREM RefusalsAreFinal == Spec => RefusalIsFinal
<1>1. TypeOK /\ [Next]_vars
        => [row.status = "rejected" /\ row.code # "processing_failed" =>
              row'.status \in {"rejected", "gone"}]_vars
  BY RefusedStep
<1> QED
  BY <1>1, TypeCorrect, PTL DEF Spec, RefusalIsFinal
=============================================================================
