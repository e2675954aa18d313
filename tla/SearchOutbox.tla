---------------------------- MODULE SearchOutbox ----------------------------
(***************************************************************************)
(* How a change of a posting reaches the search index: the outbox, the     *)
(* relay, the broker, the indexer's batches, reindex runs into a new index *)
(* and reconciliation (SearchService, PostingsRepository and               *)
(* PostingsSearchIndexService).                                            *)
(*                                                                         *)
(* One posting that stays among the most recently updated ones.  Its       *)
(* documents carry no version: a write replaces whatever the index holds.  *)
(***************************************************************************)
EXTENDS Integers, Sequences, FiniteSets, FiniteSetsExt

CONSTANTS
    Indexers,     \* batches the indexer works on at once
    MaxAttempts,  \* workers.searchRelay.maxAttempts and searchIndexer.maxAttempts
    MaxChanges,   \* bound: changes of the posting
    MaxRuns,      \* bound: reindex runs
    MaxEvents     \* bound: changes, runs, failures and crashes together

ASSUME SearchAssumption ==
    /\ MaxAttempts \in Nat \ {0}
    /\ {MaxChanges, MaxRuns, MaxEvents} \subseteq Nat

LIVE == 0                        \* no reindex run: the write alias
Runs == 1 .. MaxRuns
Indices == 0 .. MaxRuns          \* the first index, and every run's target
Rows == 1 .. 2 * MaxChanges + MaxRuns
Versions == 0 .. MaxChanges + 1

VARIABLES
    posting,   \* version, published, and the runs whose snapshot is older than updated_at
    change,    \* the transaction that changes the posting
    outbox,    \* rows of posting_search_outbox, by created_at
    relay,     \* the relay's batch
    queue,     \* the broker's main queue, of row ids
    delayed,   \* rows with a message in a retry queue
    batch,     \* what each indexer batch is doing
    index,     \* each index: the version it shows, and which version was written last
    alias,     \* the index behind the read and write alias
    run,       \* the reindex runs
    rebuild,   \* the process that works on a reindex run
    checked,   \* the document reconciliation has read
    excused,   \* history: the gaps that happened and that reconciliation alone closes
    events     \* how many of the bounded events happened

vars == <<posting, change, outbox, relay, queue, delayed, batch, index, alias, run, rebuild, checked,
          excused, events>>
source == <<posting, change>>
broker == <<queue, delayed>>
search == <<index, alias>>

Doc == [v : Versions, shown : BOOLEAN]
ABSENT == [v |-> 0, shown |-> FALSE]
NoDoc == [v |-> -1, shown |-> FALSE]

Row == [op : {"upsert", "delete", "barrier"}, run : {LIVE} \cup Runs, v : Versions,
        claimed : BOOLEAN, moved : BOOLEAN, processed : BOOLEAN, indexed : BOOLEAN,
        dead : BOOLEAN, attempts : 0 .. MaxAttempts, publishAttempts : 0 .. MaxAttempts]
NewRow(op, k, v) ==
    [op |-> op, run |-> k, v |-> v, claimed |-> FALSE, moved |-> FALSE, processed |-> FALSE,
     indexed |-> FALSE, dead |-> FALSE, attempts |-> 0, publishAttempts |-> 0]

NoChange == [on |-> FALSE, shown |-> FALSE, op |-> "upsert", sees |-> LIVE, after |-> {}]
NoRelay == [at |-> "idle", todo |-> {}, primary |-> 0]
NoBatch == [at |-> "idle", row |-> 0, doc |-> NoDoc]
NoRebuild == [at |-> "idle", run |-> 0, doc |-> NoDoc]
NoRun == [status |-> "none", barrier |-> 0, covers |-> NoDoc]

Init ==
    /\ posting = [v |-> 1, shown |-> TRUE, after |-> {}]
    /\ change = NoChange
    /\ outbox = <<>>
    /\ relay = NoRelay
    /\ queue = <<>> /\ delayed = {}
    /\ batch = [w \in Indexers |-> NoBatch]
    /\ index = [k \in Indices |-> IF k = 0 THEN [v |-> 1, shown |-> TRUE] ELSE ABSENT]
    /\ alias = 0
    /\ run = [k \in Runs |-> NoRun]
    /\ rebuild = NoRebuild
    /\ checked = NoDoc
    /\ excused = {}
    /\ events = 0

-----------------------------------------------------------------------------
Event == events < MaxEvents /\ events' = events + 1                        \* bound
EventIf(first) == IF first THEN Event ELSE UNCHANGED events      \* else bounded by the attempts

Active(k) == run[k].status \in {"pending", "running", "waiting_for_catchup"}
Latest(K) == IF K = {} THEN LIVE ELSE Max(K)
Ids == DOMAIN outbox
Current == [v |-> posting.v, shown |-> posting.shown]

(* The maintainer runs its three tasks in turn.                             *)
MaintainerIdle == relay = NoRelay /\ rebuild = NoRebuild /\ checked = NoDoc

(* What reconciliation must repair: an index that held a newer version.     *)
Written(k, doc) ==
    /\ index' = [index EXCEPT ![k] = doc]
    /\ excused' = excused \cup {x \in {"overwritten"} : doc.v < index[k].v}

-----------------------------------------------------------------------------
(* Changes of the posting: create, update, publish, pause, archive, expiry,
   and the reviews, bookings and thumbnails that refresh its document.      *)

(* The transaction has set updated_at and looked for the active run.        *)
BeginChange ==
    /\ ~change.on /\ posting.v <= MaxChanges                               \* bound
    /\ Event
    /\ \E shown \in BOOLEAN :
          change' = [on |-> TRUE, shown |-> shown, op |-> IF shown THEN "upsert" ELSE "delete",
                     sees |-> Latest({k \in Runs : Active(k)}),
                     after |-> {k \in Runs : run[k].status # "none"}]
    /\ UNCHANGED <<posting, outbox, relay, broker, batch, search, run, rebuild, checked, excused>>

(* A run that will neither list the posting nor has a job for it.           *)
Unheard(k) ==
    /\ Active(k) \/ run[k].status = "starting"
    /\ change.sees # k
    /\ k \in change.after \/ run[k].status \in {"running", "waiting_for_catchup"}

(* enqueueOutboxMany.                                                       *)
JobsOf(v) ==
    IF change.sees = LIVE THEN <<NewRow(change.op, LIVE, v)>>
    ELSE <<NewRow(change.op, LIVE, v), NewRow(change.op, change.sees, v)>>

CommitChange ==
    /\ change.on
    /\ posting' = [v |-> posting.v + 1, shown |-> change.shown, after |-> change.after]
    /\ outbox' = outbox \o JobsOf(posting.v + 1)
    /\ excused' = excused \cup {x \in {"unheard"} : \E k \in Runs : Unheard(k)}
    /\ change' = NoChange
    /\ UNCHANGED <<relay, broker, batch, search, run, rebuild, checked, events>>

-----------------------------------------------------------------------------
(* The relay (processOutboxRelayBatch).                                     *)

Unprocessed == {i \in Ids : ~outbox[i].processed /\ ~outbox[i].dead}
MayWait == {i \in Unprocessed : outbox[i].claimed \/ outbox[i].moved}

(* claimSearchOutboxBatch.  Rows that a dead relay claimed wait five minutes,
   rows put off wait for available_at.                                      *)
ClaimBatch ==
    /\ MaintainerIdle
    /\ \E S \in {(Unprocessed \ MayWait) \cup T : T \in SUBSET MayWait} :
          /\ S # {}
          /\ relay' = [NoRelay EXCEPT !.at = "publish", !.todo = S]
          /\ outbox' = [i \in Ids |-> [outbox[i] EXCEPT !.claimed = @ \/ i \in S]]
    /\ UNCHANGED <<source, broker, batch, search, run, rebuild, checked, excused, events>>

(* coalesceRelayJobs: the rows of the batch for the same index, the last by
   (available_at, created_at) first.                                        *)
Group(i) ==
    IF outbox[i].op = "barrier" THEN {i}
    ELSE {j \in relay.todo : outbox[j].op # "barrier" /\ outbox[j].run = outbox[i].run}
IsPrimary(i) == i = Max(Group(i)) \/ outbox[i].moved

Superseded == Group(relay.primary) \ {relay.primary}

PublishJob ==
    /\ relay.at = "publish"
    /\ \E i \in Group(Min(relay.todo)) :
          /\ IsPrimary(i)
          /\ queue' = Append(queue, i)
          /\ relay' = [relay EXCEPT !.at = "mark", !.primary = i]
    /\ UNCHANGED <<source, outbox, delayed, batch, search, run, rebuild, checked, excused, events>>

NextGroup(done) ==
    relay' = IF relay.todo \ done = {} THEN NoRelay
             ELSE [NoRelay EXCEPT !.at = "publish", !.todo = relay.todo \ done]

(* markSearchOutboxRelayed.                                                 *)
Relayed(i, j) ==
    CASE j = i -> [outbox[j] EXCEPT !.processed = TRUE, !.claimed = FALSE, !.moved = FALSE]
      [] j \in Superseded -> [outbox[j] EXCEPT !.processed = TRUE, !.indexed = TRUE,
                                               !.claimed = FALSE, !.moved = FALSE]
      [] OTHER -> outbox[j]

MarkRelayed ==
    LET i == relay.primary IN
    /\ relay.at = "mark"
    /\ outbox' = [j \in Ids |-> Relayed(i, j)]
    /\ excused' = excused \cup {x \in {"reordered"} : \E j \in Superseded : j > i}
    /\ NextGroup(Group(i))
    /\ UNCHANGED <<source, broker, batch, search, run, rebuild, checked, events>>

Released(j) == IF outbox[j].indexed \/ outbox[j].dead THEN outbox[j]
               ELSE [outbox[j] EXCEPT !.claimed = FALSE]

(* Published, but the rows could not be marked: they are released.          *)
MarkRelayedFails ==
    LET i == relay.primary IN
    /\ relay.at = "mark"
    /\ Event
    /\ outbox' = [j \in Ids |-> IF j \in Group(i) THEN Released(j) ELSE outbox[j]]
    /\ NextGroup(Group(i))
    /\ UNCHANGED <<source, broker, batch, search, run, rebuild, checked, excused>>

(* The broker refuses the message: markSearchOutboxPublishRetry with a backoff,
   or markSearchOutboxDeadLettered; the superseded rows are released.       *)
PublishFails ==
    /\ relay.at = "publish"
    /\ \E i \in Group(Min(relay.todo)) :
          LET n == outbox[i].publishAttempts + 1
              failed == IF n >= MaxAttempts
                        THEN [outbox[i] EXCEPT !.dead = TRUE, !.claimed = FALSE]
                        ELSE [outbox[i] EXCEPT !.publishAttempts = n, !.moved = TRUE,
                                               !.claimed = FALSE] IN
          /\ IsPrimary(i)
          /\ EventIf(n = 1)
          /\ outbox' = [j \in Ids |-> CASE j = i -> failed
                                        [] j \in Group(i) \ {i} -> Released(j)
                                        [] OTHER -> outbox[j]]
          /\ NextGroup(Group(i))
    /\ UNCHANGED <<source, broker, batch, search, run, rebuild, checked, excused>>

-----------------------------------------------------------------------------
(* The indexer (processIndexJobsBatch, processIndexJob).                    *)

EndBatch(w) == batch' = [batch EXCEPT ![w] = NoBatch]

HasNewerJob(i) ==
    \E j \in Ids : /\ j > i /\ outbox[j].op # "barrier" /\ outbox[j].run = outbox[i].run
                   /\ ~outbox[j].dead

(* A message is taken: the row is read, jobs that are finished, barriers and
   jobs with a newer one are not written, and the document of the others is
   read, or will be deleted.                                                *)
TakeJob(w, i) ==
    LET row == outbox[i] IN
    /\ batch[w] = NoBatch
    /\ \/ queue # <<>> /\ i = Head(queue) /\ queue' = Tail(queue) /\ UNCHANGED delayed
       \/ i \in delayed /\ delayed' = delayed \ {i} /\ UNCHANGED queue
    /\ \/ (row.dead \/ row.indexed) /\ UNCHANGED batch
       \/ /\ ~(row.dead \/ row.indexed) /\ (row.op = "barrier" \/ HasNewerJob(i))
          /\ batch' = [batch EXCEPT ![w] = [NoBatch EXCEPT !.at = "mark", !.row = i]]
       \/ /\ ~(row.dead \/ row.indexed) /\ row.op # "barrier" /\ ~HasNewerJob(i)
          /\ batch' = [batch EXCEPT ![w] =
                [at |-> "write", row |-> i,
                 doc |-> IF row.op = "upsert" THEN Current ELSE [v |-> row.v, shown |-> FALSE]]]
    /\ UNCHANGED <<source, outbox, relay, search, run, rebuild, checked, excused, events>>

(* Mutant: the index that was live at first.                                *)
TargetFirst(i) == outbox[i].run

(* resolveIndexTargetName: the run's index, or the write alias as it is now. *)
Target(i) == IF outbox[i].run = LIVE THEN alias ELSE outbox[i].run

WriteDocument(w) ==
    /\ batch[w].at = "write"
    /\ Written(Target(batch[w].row), batch[w].doc)
    /\ batch' = [batch EXCEPT ![w].at = "mark", ![w].doc = NoDoc]
    /\ UNCHANGED <<source, outbox, relay, broker, alias, run, rebuild, checked, events>>

MarkIndexed(w) ==
    /\ batch[w].at = "mark"
    /\ outbox' = [outbox EXCEPT ![batch[w].row].indexed = TRUE]
    /\ EndBatch(w)
    /\ UNCHANGED <<source, relay, broker, search, run, rebuild, checked, excused, events>>

(* Mutant: the last attempt does not give the job up.                       *)
FailedJobKept(i) == [outbox[i] EXCEPT !.attempts = @ + 1]

(* handleIndexJobFailure counts the attempt and gives up at the last.       *)
FailedJob(i) ==
    LET n == outbox[i].attempts + 1 IN
    [outbox[i] EXCEPT !.attempts = IF n > MaxAttempts THEN MaxAttempts ELSE n,
                      !.dead = @ \/ n >= MaxAttempts]

WriteFails(w) ==
    LET i == batch[w].row IN
    /\ batch[w].at = "write"
    /\ EventIf(outbox[i].attempts = 0)
    /\ outbox' = [outbox EXCEPT ![i] = FailedJob(i)]
    /\ delayed' = IF outbox'[i].dead THEN delayed ELSE delayed \cup {i}
    /\ EndBatch(w)
    /\ UNCHANGED <<source, queue, relay, search, run, rebuild, checked, excused>>

(* The worker dies, or an error makes it put the message back.              *)
IndexerCrashes(w) ==
    /\ batch[w] # NoBatch
    /\ Event
    /\ queue' = <<batch[w].row>> \o queue
    /\ EndBatch(w)
    /\ UNCHANGED <<source, delayed, outbox, relay, search, run, rebuild, checked, excused>>

(* replayDeadLetteredOutbox.  A job is given up after minutes of retries: by
   then the relay has marked the row, or has died.                          *)
ReviveDeadLettered ==
    LET revived == {i \in Ids \ relay.todo : outbox[i].dead /\ outbox[i].op # "barrier"} IN
    /\ revived # {}
    /\ outbox' = [i \in Ids |-> IF i \in revived
                    THEN [NewRow(outbox[i].op, outbox[i].run, outbox[i].v) EXCEPT !.moved = TRUE]
                    ELSE outbox[i]]
    /\ UNCHANGED <<source, relay, broker, batch, search, run, rebuild, checked, excused, events>>

-----------------------------------------------------------------------------
(* Reindex runs.                                                            *)

(* startReindex: the check and the insert are under a database lock, which is
   released before the transaction commits.                                 *)
StartReindex(k) ==
    /\ run[k] = NoRun /\ \A j \in 1 .. k - 1 : run[j] # NoRun
    /\ \A j \in Runs : ~Active(j)
    /\ Event
    /\ run' = [run EXCEPT ![k].status = "starting"]
    /\ UNCHANGED <<source, outbox, relay, broker, batch, search, rebuild, checked, excused>>

CommitStart(k) ==
    /\ run[k].status = "starting"
    /\ run' = [run EXCEPT ![k].status = "pending"]
    /\ UNCHANGED <<source, outbox, relay, broker, batch, search, rebuild, checked, excused, events>>

(* Mutant: jobs before the barrier may still be waiting.                    *)
CaughtUpAtBarrier(k) == outbox[run[k].barrier].indexed

(* Mutant: a job that was given up is waited for.                           *)
CaughtUpIncludingDead(k) ==
    /\ outbox[run[k].barrier].indexed
    /\ \A i \in 1 .. run[k].barrier : outbox[i].run = k => outbox[i].indexed

(* getSearchReindexCatchUpState.                                            *)
CaughtUp(k) ==
    /\ outbox[run[k].barrier].indexed
    /\ \A i \in 1 .. run[k].barrier :
          outbox[i].run = k => outbox[i].indexed \/ outbox[i].dead

(* claimNextSearchReindexRun, then the step its status calls for.           *)
ClaimRun(k) ==
    /\ MaintainerIdle
    /\ Active(k) /\ \A j \in 1 .. k - 1 : ~Active(j)
    /\ \/ /\ run[k].status \in {"pending", "running"}
          /\ run' = [run EXCEPT ![k].status = "running"]
          /\ rebuild' = [NoRebuild EXCEPT !.at = "list", !.run = k]
       \/ /\ run[k].status = "waiting_for_catchup" /\ outbox[run[k].barrier].dead
          /\ run' = [run EXCEPT ![k].status = "failed"]
          /\ UNCHANGED rebuild
       \/ /\ run[k].status = "waiting_for_catchup" /\ ~outbox[run[k].barrier].dead
          /\ CaughtUp(k)
          /\ rebuild' = [NoRebuild EXCEPT !.at = "swap", !.run = k]
          /\ UNCHANGED run
    /\ UNCHANGED <<source, outbox, relay, broker, batch, search, checked, excused, events>>

(* listPublishedForIndexingBatch: published, and not updated since the snapshot.
   A posting that is not published is rightly absent, as of this version.   *)
ListPublished ==
    LET k == rebuild.run IN
    /\ rebuild.at = "list"
    /\ rebuild' = IF posting.shown /\ k \notin posting.after
                  THEN [rebuild EXCEPT !.at = "write", !.doc = Current]
                  ELSE [rebuild EXCEPT !.at = "barrier"]
    /\ index' = IF ~posting.shown /\ ~index[k].shown THEN [index EXCEPT ![k] = Current]
                ELSE index
    /\ UNCHANGED <<source, outbox, relay, broker, batch, alias, run, checked, excused, events>>

WriteListed ==
    /\ rebuild.at = "write"
    /\ Written(rebuild.run, rebuild.doc)
    /\ rebuild' = [rebuild EXCEPT !.at = "barrier", !.doc = NoDoc]
    /\ UNCHANGED <<source, outbox, relay, broker, batch, alias, run, checked, events>>

(* enqueueSearchReindexBarrier.                                             *)
EnqueueBarrier ==
    LET k == rebuild.run IN
    /\ rebuild.at = "barrier"
    /\ outbox' = Append(outbox, NewRow("barrier", k, 0))
    /\ run' = [run EXCEPT ![k] = [status |-> "waiting_for_catchup",
                                  barrier |-> Len(outbox) + 1, covers |-> Current]]
    /\ rebuild' = NoRebuild
    /\ UNCHANGED <<source, relay, broker, batch, search, checked, excused, events>>

SwapAliases ==
    /\ rebuild.at = "swap"
    /\ alias' = rebuild.run
    /\ rebuild' = [rebuild EXCEPT !.at = "complete"]
    /\ UNCHANGED <<source, outbox, relay, broker, batch, index, run, checked, excused, events>>

MarkRunCompleted ==
    /\ rebuild.at = "complete"
    /\ run' = [run EXCEPT ![rebuild.run].status = "completed"]
    /\ rebuild' = NoRebuild
    /\ UNCHANGED <<source, outbox, relay, broker, batch, search, checked, excused, events>>

(* An error that is not transient fails the run.                            *)
RunFails ==
    /\ rebuild # NoRebuild
    /\ Event
    /\ run' = [run EXCEPT ![rebuild.run].status = "failed"]
    /\ rebuild' = NoRebuild
    /\ UNCHANGED <<source, outbox, relay, broker, batch, search, checked, excused>>

-----------------------------------------------------------------------------
(* Reconciliation (processReconciliationBatch).                             *)

ReadRecent ==
    /\ MaintainerIdle
    /\ checked' = Current
    /\ UNCHANGED <<source, outbox, relay, broker, batch, search, run, rebuild, excused, events>>

(* Mutant: only indexable postings are written.                             *)
ReconciledUpsertsOnly == IF checked.shown THEN checked ELSE index[alias]

(* Upserted when published, else deleted, through the write alias.          *)
Reconciled == checked

WriteRecent ==
    /\ checked # NoDoc
    /\ Written(alias, Reconciled)
    /\ checked' = NoDoc
    /\ UNCHANGED <<source, outbox, relay, broker, batch, alias, run, rebuild, events>>

-----------------------------------------------------------------------------
(* The maintainer dies in the middle of a task, or a task ends with an error.
   Claims lapse after five minutes.                                         *)
MaintainerCrashes ==
    /\ ~MaintainerIdle
    /\ Event
    /\ relay' = NoRelay /\ rebuild' = NoRebuild /\ checked' = NoDoc
    /\ UNCHANGED <<source, outbox, broker, batch, search, run, excused>>

-----------------------------------------------------------------------------
ClaimAnyRun == \E k \in Runs : ClaimRun(k)
FinishTask ==
    \/ PublishJob \/ MarkRelayed
    \/ ListPublished \/ WriteListed \/ EnqueueBarrier \/ SwapAliases \/ MarkRunCompleted
    \/ WriteRecent
Index(w) == (\E i \in Ids : TakeJob(w, i)) \/ WriteDocument(w) \/ MarkIndexed(w)

Next ==
    \/ BeginChange \/ CommitChange
    \/ \E k \in Runs : StartReindex(k) \/ CommitStart(k)
    \/ ClaimBatch \/ ClaimAnyRun \/ ReadRecent \/ FinishTask
    \/ PublishFails \/ MarkRelayedFails \/ RunFails \/ MaintainerCrashes
    \/ \E w \in Indexers : Index(w) \/ WriteFails(w) \/ IndexerCrashes(w)
    \/ ReviveDeadLettered

(* Transactions end; the indexer consumes; and the maintainer's loop, which
   gives each of its tasks its turn, keeps running.                         *)
Fairness ==
    /\ WF_vars(CommitChange) /\ \A k \in Runs : WF_vars(CommitStart(k))
    /\ \A w \in Indexers : WF_vars(Index(w))
    /\ WF_vars(FinishTask)
    /\ SF_vars(ClaimBatch) /\ SF_vars(ClaimAnyRun) /\ SF_vars(ReadRecent)

Spec == Init /\ [][Next]_vars /\ Fairness
-----------------------------------------------------------------------------
(* Every record keeps its type, and a job is tried at most MaxAttempts times. *)
TypeOK ==
    /\ posting \in [v : Versions, shown : BOOLEAN, after : SUBSET Runs]
    /\ change \in [on : BOOLEAN, shown : BOOLEAN, op : {"upsert", "delete"},
                   sees : {LIVE} \cup Runs, after : SUBSET Runs]
    /\ Ids \subseteq Rows /\ \A i \in Ids : outbox[i] \in Row
    /\ relay \in [at : {"idle", "publish", "mark"}, todo : SUBSET Ids, primary : {0} \cup Ids]
    /\ queue \in Seq(Ids) /\ delayed \subseteq Ids
    /\ batch \in [Indexers -> [at : {"idle", "write", "mark"}, row : {0} \cup Ids,
                                doc : Doc \cup {NoDoc}]]
    /\ index \in [Indices -> Doc] /\ alias \in Indices
    /\ run \in [Runs -> [status : {"none", "starting", "pending", "running",
                                   "waiting_for_catchup", "completed", "failed"},
                         barrier : {0} \cup Ids, covers : Doc \cup {NoDoc}]]
    /\ rebuild \in [at : {"idle", "list", "write", "barrier", "swap", "complete"},
                    run : {0} \cup Runs, doc : Doc \cup {NoDoc}]
    /\ checked \in Doc \cup {NoDoc}
    /\ excused \subseteq {"overwritten", "unheard", "reordered"} /\ events \in 0 .. MaxEvents

(* An index shows the posting as it was at a version, or later.             *)
Shows(k, doc) == IF doc.shown THEN index[k] = doc ELSE ~index[k].shown

(* Every job of the posting was done, and none was given up.                *)
Drained == \A i \in Ids : outbox[i].indexed /\ ~outbox[i].dead

(* Once every job is marked indexed, search shows the posting as it is: the
   relay coalesces jobs, indexer batches skip the ones that have a newer job,
   messages are delivered twice or again after a crash, and the alias moves to
   a rebuilt index, and still no change is skipped by all of them.          *)
DrainedIsIndexed == Drained => Shows(alias, Current)

(* The same, but for the gaps that reconciliation closes: a document read
   before and written after a newer one, a change that an active run did not
   hear of, an older job put off until it superseded a newer one.           *)
DrainedIsIndexedUnlessExcused == excused = {} => DrainedIsIndexed

(* Coalescing alone loses no change: the newest job of a posting is published
   and stands for the others.                                               *)
CoalescedIsIndexed == excused \subseteq {"reordered"} => DrainedIsIndexed

(* A run goes on to move the alias only when its index has every change made
   before its barrier, jobs excepted that were given up or that a job after
   the barrier superseded.                                                  *)
SwapIsCaughtUp ==
    [][LET k == rebuild'.run IN
       /\ rebuild = NoRebuild /\ rebuild'.at = "swap" /\ excused = {}
       /\ \A i \in Ids : outbox[i].run = k =>
             ~outbox[i].dead /\ (i > run[k].barrier => outbox[i].indexed)
       => index[k].v >= run[k].covers.v \/ Shows(k, run[k].covers)]_vars

(* Reindex runs are completed or failed in the end, although the jobs they
   wait for are retried, given up, or lost with a worker.                   *)
ReindexEnds == []<>(\A k \in Runs : ~Active(k))

(* Whatever was lost, given up, overtaken or superseded on the way, search
   agrees with the posting in the end: reconciliation repairs the rest.     *)
SearchConverges == <>[]Shows(alias, Current)
=============================================================================
