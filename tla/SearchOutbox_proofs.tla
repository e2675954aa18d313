------------------------ MODULE SearchOutbox_proofs ------------------------
(***************************************************************************)
(* Proofs about the search outbox: its types, that drained jobs leave the   *)
(* index up to date, and that the alias moves only to a caught-up index.    *)
(***************************************************************************)
EXTENDS SearchOutbox, FiniteSetTheorems, WellFoundedInduction, TLAPS

-----------------------------------------------------------------------------
(* The inductive invariant.                                                 *)

(* The relay has rows to publish, and the one it published is among them.   *)
RelayShape ==
    /\ relay.at = "publish" => relay.todo # {}
    /\ relay.at = "mark" => relay.primary \in relay.todo

(* A batch that is busy has a row, and a document where it writes one.      *)
BatchShape(b) ==
    /\ b.at = "idle" => b = NoBatch
    /\ b.at # "idle" => b.row \in Ids
    /\ b.at = "write" => b.doc \in Doc

(* A run that is rebuilt is running, and has its barrier when it goes on.   *)
RebuildShape ==
    /\ rebuild.at = "idle" => rebuild = NoRebuild
    /\ rebuild.at # "idle" => rebuild.run \in Runs
    /\ rebuild.at \in {"list", "write", "barrier"} => run[rebuild.run].status = "running"
    /\ rebuild.at \in {"swap", "complete"} => run[rebuild.run].status = "waiting_for_catchup"
    /\ rebuild.at = "write" => rebuild.doc \in Doc

(* A run has no barrier before it waits for one, and one while it waits.    *)
RunShape(r) ==
    /\ r.status \in {"none", "starting", "pending", "running"} => r.barrier = 0
    /\ r.status = "waiting_for_catchup" => r.barrier \in Ids

(* A run stays known once a change has seen it; an alias was caught up with. *)
ChangeShape ==
    /\ posting.v >= 1
    /\ change.on => posting.v <= MaxChanges /\ posting.after \subseteq change.after
    /\ change.on => (change.op = "upsert" <=> change.shown)
    /\ change.sees \in Runs => change.sees \in change.after
    /\ \A k \in posting.after \cup change.after : run[k].status # "none"
    /\ alias \in Runs => run[alias].status \in {"waiting_for_catchup", "completed", "failed"}

(* At most two rows per change, and one per run for its barrier.            *)
Barriered == {k \in Runs : run[k].barrier # 0}
RowsBounded == Len(outbox) <= 2 * (posting.v - 1) + Cardinality(Barriered)

(* What every component looks like between two steps.                       *)
Shape ==
    /\ outbox \in Seq(Row) /\ RelayShape /\ RebuildShape /\ ChangeShape /\ RowsBounded
    /\ \A w \in Indexers : BatchShape(batch[w])
    /\ \A k \in Runs : RunShape(run[k])

(* A document is of a version the posting had; of the latest, it is right.  *)
Fits(doc) == doc.v <= posting.v /\ (doc.v = posting.v => doc = Current)

(* A row that stands for the latest version of the posting.                 *)
IsJob(i) == outbox[i].op # "barrier"
Newest(i) == IsJob(i) /\ outbox[i].v = posting.v

(* Every document anywhere fits; a batch writes no less than its row asked. *)
DocsFit ==
    /\ \A k \in Indices : Fits(index[k])
    /\ \A k \in Runs : run[k].covers.v <= posting.v
    /\ Fits(rebuild.doc) /\ Fits(checked)
    /\ \A w \in Indexers : /\ Fits(batch[w].doc)
                           /\ batch[w].at = "write" => IsJob(batch[w].row)
                           /\ batch[w].at = "write" => batch[w].doc.v >= outbox[batch[w].row].v

(* The jobs of an index are in the order of versions, and those of a run came
   from changes that saw the run.                                           *)
RowsFit ==
    /\ \A i \in Ids : /\ outbox[i].v <= posting.v
                      /\ Newest(i) => (outbox[i].op = "upsert" <=> posting.shown)
                      /\ IsJob(i) /\ outbox[i].run \in Runs => outbox[i].run \in posting.after
    /\ \A i, j \in Ids : i < j /\ IsJob(i) /\ IsJob(j) /\ outbox[i].run = outbox[j].run
                            => outbox[i].v < outbox[j].v

(* No batch has written the document of the row.                            *)
Awaited(i) ==
    ~outbox[i].indexed /\ \A w \in Indexers : ~(batch[w].at = "mark" /\ batch[w].row = i)

(* The index shows the latest version, or a job of its run will see to it.  *)
Shown(k) == index[k].v = posting.v
Covered(k) == Shown(k) \/ (k \in Runs /\ \E i \in Ids : Newest(i) /\ outbox[i].run = k)

(* A run before its listing has no document but the latest, unless changes
   know of it.                                                              *)
Unlisted(k) ==
    /\ run[k].status \in {"starting", "pending", "running"} /\ k \in posting.after => Covered(k)
    /\ run[k].status \in {"none", "starting", "pending"} /\ k \notin posting.after
          => ~index[k].shown
    /\ run[k].status = "running" /\ k \notin posting.after => Shown(k) \/ ~index[k].shown

(* From its listing on, a run has the latest version or a job for it.       *)
Listed ==
    /\ rebuild.at = "write" => rebuild.doc.v = posting.v \/ rebuild.run \in posting.after
    /\ rebuild.at = "barrier" => Covered(rebuild.run)
    /\ \A k \in Runs : run[k].status = "waiting_for_catchup" => Covered(k)

(* Nothing is lost on the way, as long as no gap is excused.                *)
JobsReach ==
    /\ \A i \in Ids : Newest(i) /\ outbox[i].run \in Runs => Awaited(i) \/ Shown(outbox[i].run)
    /\ \A i \in Ids : Newest(i) /\ outbox[i].run = LIVE => Awaited(i) \/ Covered(alias)
    /\ posting.v = 1 => Covered(alias)
    /\ posting.v > 1 => \E i \in Ids : Newest(i) /\ outbox[i].run = LIVE

(* All of this may fail only after a gap of the code that the model records.*)
NothingLost == excused = {} => JobsReach /\ Listed /\ \A k \in Runs : Unlisted(k)

(* The inductive invariant.                                                 *)
SearchInv == TypeOK /\ Shape /\ DocsFit /\ RowsFit /\ NothingLost

-----------------------------------------------------------------------------
(* Least and greatest members, and sequences of rows.                       *)

(* A set of numbers has its least member.                                   *)
LEMMA MinMember ==
  ASSUME NEW S, S \subseteq Nat, S # {}
  PROVE  Min(S) \in S /\ \A y \in S : Min(S) <= y
<1>1. PICK x \in S : \A y \in S : ~(<<y, x>> \in OpToRel(<, Nat))
  BY NatLessThanWellFounded, WFMin
<1>2. \A y \in S : x <= y
  <2> SUFFICES ASSUME NEW y \in S, ~(x <= y) PROVE FALSE
    OBVIOUS
  <2>1. <<y, x>> \in Nat \X Nat /\ y < x
    OBVIOUS
  <2>2. <<y, x>> \in {ss \in Nat \X Nat : ss[1] < ss[2]}
    BY <2>1
  <2> QED
    BY <1>1, <2>2, Zenon DEF OpToRel
<1> QED
  BY <1>2 DEF Min

(* A bounded set of numbers has its greatest member.                        *)
LEMMA MaxMember ==
  ASSUME NEW n \in Nat, NEW S, S \subseteq 0 .. n, S # {}
  PROVE  Max(S) \in S /\ \A y \in S : Max(S) >= y
<1> DEFINE Above == {m \in Nat : \A x \in S : x <= m}
<1>1. Above \subseteq Nat /\ n \in Above
  OBVIOUS
<1>2. PICK m \in Above : \A y \in Above : m <= y
  BY <1>1, MinMember
<1>3. m \in S
  <2> SUFFICES ASSUME m \notin S PROVE FALSE
    OBVIOUS
  <2>1. \A x \in S : x <= m - 1 /\ x \in Nat
    BY <1>2
  <2>2. PICK x \in S : TRUE
    OBVIOUS
  <2>3. m \in Nat /\ m - 1 \in Nat
    BY <1>2, <2>1, <2>2
  <2>4. m - 1 \in Above
    BY <2>1, <2>3
  <2> QED
    BY <1>2, <2>3, <2>4
<1>4. \A y \in S : m >= y
  BY <1>2
<1> QED
  BY <1>3, <1>4 DEF Max

(* A table with the rows of the outbox is one.                              *)
LEMMA RowTable ==
  ASSUME NEW t, outbox \in Seq(Row), t = [i \in Ids |-> t[i]], \A i \in Ids : t[i] \in Row
  PROVE  t \in Seq(Row) /\ DOMAIN t = Ids /\ Len(t) = Len(outbox)
<1>1. Ids = 1 .. Len(outbox) /\ Len(outbox) \in Nat
  BY DEF Ids
<1>2. t \in [1 .. Len(outbox) -> Row]
  BY <1>1
<1> QED
  BY <1>1, <1>2

(* The constants.                                                           *)
LEMMA Bounds ==
  /\ MaxAttempts \in Nat /\ MaxAttempts >= 1
  /\ MaxChanges \in Nat /\ MaxRuns \in Nat /\ MaxEvents \in Nat
  BY SearchAssumption

(* A version number.                                                        *)
LEMMA IsVersion ==
  ASSUME NEW n PROVE n \in Versions <=> n \in Nat /\ n <= MaxChanges + 1
  BY Bounds DEF Versions

(* A new row is a row.                                                      *)
LEMMA NewRowType ==
  ASSUME NEW op \in {"upsert", "delete", "barrier"}, NEW k \in {LIVE} \cup Runs, NEW v \in Versions
  PROVE  NewRow(op, k, v) \in Row
  BY Bounds DEF NewRow, Row

-----------------------------------------------------------------------------
(* The types of the parts.                                                  *)

RelayType ==
    relay \in [at : {"idle", "publish", "mark"}, todo : SUBSET Ids, primary : {0} \cup Ids]
BrokerType == queue \in Seq(Ids) /\ delayed \subseteq Ids
Batch == [at : {"idle", "write", "mark"}, row : {0} \cup Ids, doc : Doc \cup {NoDoc}]
BatchType == batch \in [Indexers -> Batch]
RunType ==
    run \in [Runs -> [status : {"none", "starting", "pending", "running",
                                "waiting_for_catchup", "completed", "failed"},
                      barrier : {0} \cup Ids, covers : Doc \cup {NoDoc}]]
RebuildType ==
    rebuild \in [at : {"idle", "list", "write", "barrier", "swap", "complete"},
                 run : {0} \cup Runs, doc : Doc \cup {NoDoc}]
Gaps == {"overwritten", "unheard", "reordered"}
HistoryType == excused \subseteq Gaps /\ events \in 0 .. MaxEvents
SourceType ==
    /\ posting \in [v : Versions, shown : BOOLEAN, after : SUBSET Runs]
    /\ change \in [on : BOOLEAN, shown : BOOLEAN, op : {"upsert", "delete"},
                   sees : {LIVE} \cup Runs, after : SUBSET Runs]
SearchType == index \in [Indices -> Doc] /\ alias \in Indices /\ checked \in Doc \cup {NoDoc}
OutboxType == Ids \subseteq Rows /\ \A i \in Ids : outbox[i] \in Row

(* The parts make up the type invariant.                                    *)
LEMMA TypeParts ==
  TypeOK <=> /\ RelayType /\ BrokerType /\ BatchType /\ RunType /\ RebuildType
             /\ HistoryType /\ SourceType /\ SearchType /\ OutboxType
  BY DEF TypeOK, RelayType, BrokerType, Batch, BatchType, RunType, RebuildType, Gaps, HistoryType,
     SourceType, SearchType, OutboxType

(* Also after a step.                                                       *)
LEMMA TypePartsNext ==
  (TypeOK <=> /\ RelayType /\ BrokerType /\ BatchType /\ RunType /\ RebuildType
              /\ HistoryType /\ SourceType /\ SearchType /\ OutboxType)'
  BY DEF TypeOK, RelayType, BrokerType, Batch, BatchType, RunType, RebuildType, Gaps, HistoryType,
     SourceType, SearchType, OutboxType

-----------------------------------------------------------------------------
(* Steps of the relay and the indexer that write no document.               *)

(* Rows keep what they stand for.                                           *)
Flags ==
    /\ outbox' \in Seq(Row) /\ Ids' = Ids /\ Len(outbox') = Len(outbox)
    /\ \A i \in Ids : /\ outbox'[i].op = outbox[i].op /\ outbox'[i].run = outbox[i].run
                      /\ outbox'[i].v = outbox[i].v

(* What a batch is about to write.                                          *)
BatchFits(w) ==
    /\ BatchShape(batch[w]) /\ Fits(batch[w].doc)
    /\ batch[w].at = "write" => IsJob(batch[w].row)
    /\ batch[w].at = "write" => batch[w].doc.v >= outbox[batch[w].row].v

(* Such a step leaves no newest row unwritten that was awaited.             *)
Relays ==
    /\ Flags /\ UNCHANGED <<posting, change, index, alias, run, rebuild, checked>>
    /\ (RelayType /\ RelayShape /\ BrokerType /\ BatchType /\ HistoryType)'
    /\ excused \subseteq excused'
    /\ \A w \in Indexers : BatchFits(w)'
    /\ excused' = {} => \A i \in Ids : Newest(i) /\ Awaited(i) => Awaited(i)'

(* It keeps what rows stand for.                                            *)
LEMMA FlagsKeep ==
  ASSUME Flags, UNCHANGED <<posting, index>>
  PROVE  /\ \A i \in Ids : Newest(i)' <=> Newest(i)
         /\ \A i \in Ids : IsJob(i)' <=> IsJob(i)
         /\ \A k : (Covered(k)' <=> Covered(k)) /\ (Shown(k)' <=> Shown(k))
<1>1. \A i \in Ids : (Newest(i)' <=> Newest(i)) /\ (IsJob(i)' <=> IsJob(i))
  BY DEF Flags, Newest, IsJob
<1>2. \A k : Shown(k)' <=> Shown(k)
  BY DEF Shown
<1>3. \A k : Covered(k)' <=> Covered(k)
  BY <1>1, <1>2 DEF Covered, Flags
<1> QED
  BY <1>1, <1>2, <1>3

(* It preserves the invariant.                                              *)
LEMMA RelaysStep ==
  ASSUME SearchInv, Relays
  PROVE  SearchInv'
<1>1. TypeOK /\ Shape /\ DocsFit /\ RowsFit /\ NothingLost
  BY DEF SearchInv
<1>2. Ids' = Ids /\ outbox' \in Seq(Row)
  BY DEF Relays, Flags
<1>3. OutboxType'
  <2>1. \A i \in DOMAIN outbox' : outbox'[i] \in Row
    BY <1>2
  <2> QED
    BY <1>1, <1>2, <2>1, TypeParts DEF OutboxType, Ids
<1>4. TypeOK'
  <2>1. RunType' /\ RebuildType' /\ SourceType' /\ SearchType'
    BY <1>1, <1>2, TypeParts DEF Relays, RunType, RebuildType, SourceType, SearchType
  <2> QED
    BY <1>3, <2>1, TypePartsNext DEF Relays
<1>5. Shape'
  <2>1. RebuildShape' /\ ChangeShape' /\ RowsBounded' /\ \A k \in Runs : RunShape(run[k])'
    BY <1>1, <1>2 DEF Relays, Flags, Shape, RebuildShape, ChangeShape, RowsBounded, RunShape,
       Barriered
  <2> QED
    BY <1>2, <2>1 DEF Relays, BatchFits, Shape
<1>6. DocsFit'
  BY <1>1, <1>2 DEF Relays, BatchFits, DocsFit, Fits, Current
<1>7. RowsFit'
  <2>1. \A i \in Ids : (Newest(i)' <=> Newest(i)) /\ (IsJob(i)' <=> IsJob(i))
    BY FlagsKeep DEF Relays
  <2>2. \A i \in Ids : /\ outbox'[i].v <= posting'.v
                       /\ Newest(i)' => (outbox'[i].op = "upsert" <=> posting'.shown)
                       /\ IsJob(i)' /\ outbox'[i].run \in Runs => outbox'[i].run \in posting'.after
    BY <1>1, <2>1 DEF Relays, Flags, RowsFit
  <2>3. \A i, j \in Ids :
           i < j /\ IsJob(i)' /\ IsJob(j)' /\ outbox'[i].run = outbox'[j].run
             => outbox'[i].v < outbox'[j].v
    BY <1>1, <2>1 DEF Relays, Flags, RowsFit
  <2> QED
    BY <1>2, <2>2, <2>3 DEF RowsFit
<1>8. NothingLost'
  <2> SUFFICES ASSUME excused' = {} PROVE (JobsReach /\ Listed /\ \A k \in Runs : Unlisted(k))'
    BY DEF NothingLost
  <2>1. JobsReach /\ Listed /\ \A k \in Runs : Unlisted(k)
    BY <1>1 DEF Relays, NothingLost
  <2>2. /\ \A i \in Ids : (Newest(i)' <=> Newest(i)) /\ outbox'[i].run = outbox[i].run
        /\ \A k : (Covered(k)' <=> Covered(k)) /\ (Shown(k)' <=> Shown(k))
    BY FlagsKeep DEF Relays, Flags
  <2>3. \A i \in Ids : Newest(i) /\ Awaited(i) => Awaited(i)'
    BY DEF Relays
  <2>4. UNCHANGED <<posting, alias, run, rebuild, index>>
    BY DEF Relays
  <2>5. JobsReach'
    BY <1>2, <2>1, <2>2, <2>3, <2>4 DEF JobsReach
  <2>6. Listed'
    BY <2>1, <2>2, <2>4 DEF Listed
  <2>7. \A k \in Runs : Unlisted(k)'
    BY <2>1, <2>2, <2>4 DEF Unlisted
  <2> QED
    BY <2>5, <2>6, <2>7
<1> QED
  BY <1>4, <1>5, <1>6, <1>7, <1>8 DEF SearchInv

(* A step that leaves batches alone.                                        *)
LEMMA RelayTurn ==
  ASSUME SearchInv, Flags, UNCHANGED <<posting, change, index, alias, run, rebuild, checked, batch>>,
         (RelayType /\ RelayShape /\ BrokerType /\ HistoryType)', excused \subseteq excused',
         excused' = {} =>
            \A i \in Ids : Newest(i) /\ ~outbox[i].indexed => ~outbox'[i].indexed
  PROVE  Relays
<1>1. Ids' = Ids /\ BatchType /\ \A w \in Indexers : BatchFits(w)
  BY TypeParts DEF Flags, SearchInv, Shape, DocsFit, BatchFits
<1>2. BatchType'
  BY <1>1 DEF BatchType, Batch
<1>3. \A w \in Indexers : BatchFits(w)'
  <2> SUFFICES ASSUME NEW w \in Indexers PROVE BatchFits(w)'
    OBVIOUS
  <2>1. BatchShape(batch[w])'
    BY <1>1 DEF BatchFits, BatchShape
  <2>2. Fits(batch[w].doc)'
    BY <1>1 DEF BatchFits, Fits, Current
  <2>3. batch'[w].at = "write" => batch'[w].doc.v >= outbox'[batch'[w].row].v
    BY <1>1 DEF BatchFits, BatchShape, Flags
  <2>4. batch'[w].at = "write" => outbox'[batch'[w].row].op # "barrier"
    BY <1>1 DEF BatchFits, BatchShape, Flags, IsJob
  <2> QED
    BY <2>1, <2>2, <2>3, <2>4 DEF BatchFits, IsJob
<1>4. excused' = {} => \A i \in Ids : Newest(i) /\ Awaited(i) => Awaited(i)'
  BY DEF Awaited
<1> QED
  BY <1>2, <1>3, <1>4 DEF Relays

(* The facts about the relay that every one of its steps starts from.       *)
LEMMA RelayKnown ==
  ASSUME SearchInv
  PROVE  /\ RelayType /\ RelayShape /\ BrokerType /\ HistoryType
         /\ outbox \in Seq(Row) /\ \A i \in Ids : outbox[i] \in Row /\ i \in Nat
  BY TypeParts DEF SearchInv, Shape, OutboxType, Ids

(* An idle relay is one.                                                    *)
LEMMA NoRelayFits ==
  NoRelay \in [at : {"idle", "publish", "mark"}, todo : SUBSET Ids, primary : {0} \cup Ids]
  BY DEF NoRelay

(* A group is part of the batch, and has members for the same index.        *)
LEMMA GroupOf ==
  ASSUME NEW i \in relay.todo
  PROVE  /\ i \in Group(i) /\ Group(i) \subseteq relay.todo
         /\ \A j \in Group(i) : j # i =>
               IsJob(i) /\ IsJob(j) /\ outbox[j].run = outbox[i].run
  BY DEF Group, IsJob

(* The first row's group.                                                   *)
LEMMA FirstGroup ==
  ASSUME SearchInv, relay.at = "publish", NEW i \in Group(Min(relay.todo))
  PROVE  i \in relay.todo
<1>1. relay.todo \subseteq Nat /\ relay.todo # {}
  BY RelayKnown DEF RelayType, RelayShape
<1> QED
  BY <1>1, MinMember, GroupOf

(* The relay goes on with the groups that are left.                         *)
LEMMA NextGroupFits ==
  ASSUME SearchInv, Ids' = Ids, NEW done, NextGroup(done)
  PROVE  (RelayType /\ RelayShape)'
<1>1. RelayType
  BY RelayKnown
<1>2. CASE relay' = NoRelay
  BY <1>2 DEF NoRelay, RelayType, RelayShape
<1>3. CASE /\ relay' = [at |-> "publish", todo |-> relay.todo \ done, primary |-> 0]
           /\ relay.todo \ done # {}
  BY <1>1, <1>3 DEF RelayType, RelayShape
<1> QED
  BY <1>2, <1>3 DEF NextGroup, NoRelay

(* The broker's messages stay.                                              *)
LEMMA BrokerSame ==
  ASSUME SearchInv, Ids' = Ids, UNCHANGED broker
  PROVE  BrokerType'
  BY RelayKnown DEF BrokerType, broker

(* A table of the same rows with other flags.                               *)
LEMMA FlagTable ==
  ASSUME SearchInv, DOMAIN outbox' = Ids, outbox' = [i \in Ids |-> outbox'[i]],
         \A i \in Ids : /\ outbox'[i] \in Row
                        /\ outbox'[i].op = outbox[i].op /\ outbox'[i].run = outbox[i].run
                        /\ outbox'[i].v = outbox[i].v
  PROVE  Flags
<1>1. outbox \in Seq(Row)
  BY RelayKnown
<1>2. PICK t : t = outbox'
  OBVIOUS
<1>3. t \in Seq(Row) /\ Len(t) = Len(outbox)
  BY <1>1, <1>2, RowTable
<1> QED
  BY <1>2, <1>3 DEF Flags, Ids

(* Claiming a batch.                                                        *)
LEMMA ClaimBatchRelays ==
  ASSUME SearchInv, ClaimBatch
  PROVE  Relays
<1>0. \A i \in Ids : outbox[i] \in Row
  BY RelayKnown
<1>1. PICK S : /\ S # {} /\ S \subseteq Ids
               /\ relay' = [NoRelay EXCEPT !.at = "publish", !.todo = S]
               /\ outbox' = [i \in Ids |-> [outbox[i] EXCEPT !.claimed = @ \/ i \in S]]
  BY DEF ClaimBatch, MayWait, Unprocessed
<1>2. \A i \in Ids : /\ outbox'[i] \in Row /\ outbox'[i].indexed = outbox[i].indexed
                     /\ outbox'[i].op = outbox[i].op /\ outbox'[i].run = outbox[i].run
                     /\ outbox'[i].v = outbox[i].v
  <2>1. ASSUME NEW row \in Row, NEW b \in BOOLEAN
        PROVE  LET new == [row EXCEPT !.claimed = b] IN
               /\ new \in Row /\ new.indexed = row.indexed /\ new.op = row.op
               /\ new.run = row.run /\ new.v = row.v
    BY DEF Row
  <2>2. ASSUME NEW i \in Ids
        PROVE  \E b \in BOOLEAN : outbox'[i] = [outbox[i] EXCEPT !.claimed = b]
    <3>1. (outbox[i].claimed \/ i \in S) \in BOOLEAN
      OBVIOUS
    <3> QED
      BY <1>1, <3>1
  <2>3. ASSUME NEW i \in Ids
        PROVE  /\ outbox'[i] \in Row /\ outbox'[i].indexed = outbox[i].indexed
               /\ outbox'[i].op = outbox[i].op /\ outbox'[i].run = outbox[i].run
               /\ outbox'[i].v = outbox[i].v
    <3>1. PICK row \in Row, b \in BOOLEAN : row = outbox[i] /\ outbox'[i] = [row EXCEPT !.claimed = b]
      BY <1>0, <2>2
    <3> QED
      BY <2>1, <3>1
  <2> QED
    BY <2>3
<1>3. Flags
  BY <1>1, <1>2, RelayKnown, FlagTable
<1>4. (RelayType /\ RelayShape)'
  BY <1>1, <1>3 DEF Flags, RelayType, RelayShape, NoRelay
<1>5. BrokerType' /\ HistoryType'
  BY <1>3, BrokerSame, RelayKnown DEF Flags, ClaimBatch, HistoryType
<1> QED
  BY <1>2, <1>3, <1>4, <1>5, RelayTurn DEF ClaimBatch, source, search

(* Publishing a job.                                                        *)
LEMMA PublishJobRelays ==
  ASSUME SearchInv, PublishJob
  PROVE  Relays
<1>1. PICK i \in Group(Min(relay.todo)) : /\ queue' = Append(queue, i)
                                          /\ relay' = [relay EXCEPT !.at = "mark", !.primary = i]
  BY DEF PublishJob
<1>2. i \in relay.todo /\ i \in Ids
  BY <1>1, FirstGroup, RelayKnown DEF PublishJob, RelayType
<1>3. Flags
  BY RelayKnown DEF Flags, PublishJob, Ids
<1>4. (RelayType /\ RelayShape)'
  BY <1>1, <1>2, <1>3, RelayKnown DEF Flags, RelayType, RelayShape
<1>5. BrokerType' /\ HistoryType'
  BY <1>1, <1>2, <1>3, RelayKnown DEF Flags, BrokerType, PublishJob, HistoryType
<1> QED
  BY <1>3, <1>4, <1>5, RelayTurn DEF PublishJob, source, search

(* Marking the published row, and those it supersedes.                      *)
LEMMA MarkRelayedRelays ==
  ASSUME SearchInv, MarkRelayed
  PROVE  Relays
<1>0. PICK i : i = relay.primary
  OBVIOUS
<1>1. i \in relay.todo /\ i \in Ids /\ Superseded = Group(i) \ {i} /\ Superseded \subseteq Ids
  BY <1>0, RelayKnown, GroupOf DEF MarkRelayed, RelayShape, RelayType, Superseded
<1>2. /\ outbox' = [j \in Ids |-> Relayed(i, j)]
      /\ excused' = excused \cup {x \in {"reordered"} : \E j \in Superseded : j > i}
  BY <1>0 DEF MarkRelayed
<1>3. \A j \in Ids : /\ Relayed(i, j) \in Row /\ Relayed(i, j).op = outbox[j].op
                     /\ Relayed(i, j).run = outbox[j].run /\ Relayed(i, j).v = outbox[j].v
                     /\ j \notin Superseded => Relayed(i, j).indexed = outbox[j].indexed
  <2> SUFFICES ASSUME NEW j \in Ids
               PROVE  /\ Relayed(i, j) \in Row /\ Relayed(i, j).op = outbox[j].op
                      /\ Relayed(i, j).run = outbox[j].run /\ Relayed(i, j).v = outbox[j].v
                      /\ j \notin Superseded => Relayed(i, j).indexed = outbox[j].indexed
    OBVIOUS
  <2>1. outbox[j] \in Row
    BY RelayKnown
  <2>2. CASE j = i
    BY <2>1, <2>2 DEF Relayed, Row
  <2>3. CASE j # i /\ j \in Superseded
    BY <2>1, <2>3 DEF Relayed, Row
  <2>4. CASE j # i /\ j \notin Superseded
    BY <2>1, <2>4 DEF Relayed
  <2> QED
    BY <2>2, <2>3, <2>4
<1>4. Flags
  BY <1>2, <1>3, FlagTable
<1>5. (RelayType /\ RelayShape)' /\ BrokerType'
  BY <1>4, NextGroupFits, BrokerSame DEF MarkRelayed, Flags
<1>6. HistoryType' /\ excused \subseteq excused'
  BY <1>2, RelayKnown DEF MarkRelayed, HistoryType, Gaps
<1>7. ASSUME excused' = {}, NEW j \in Ids, Newest(j), ~outbox[j].indexed
      PROVE  ~outbox'[j].indexed
  <2>1. j \notin Superseded
    <3> SUFFICES ASSUME j \in Superseded PROVE FALSE
      OBVIOUS
    <3>1. ~(j > i)
      BY <1>2, <1>7
    <3>2. j # i /\ IsJob(i) /\ IsJob(j) /\ outbox[j].run = outbox[i].run
      BY <1>1, GroupOf
    <3>3. i \in Nat /\ j \in Nat /\ j < i
      BY <1>1, <3>1, <3>2, RelayKnown
    <3>4. outbox[j].v < outbox[i].v /\ outbox[i].v <= posting.v
      BY <1>1, <3>2, <3>3 DEF SearchInv, RowsFit
    <3>5. outbox[j].v \in Nat /\ outbox[i].v \in Nat /\ posting.v \in Nat
      BY <1>1, RelayKnown, TypeParts DEF Row, Versions, SearchInv, SourceType
    <3> QED
      BY <1>7, <3>4, <3>5 DEF Newest
  <2> QED
    BY <1>2, <1>3, <1>7, <2>1
<1> QED
  BY <1>4, <1>5, <1>6, <1>7, RelayTurn DEF MarkRelayed, source, search

(* Releasing a row.                                                         *)
LEMMA ReleasedRow ==
  ASSUME SearchInv, NEW j \in Ids
  PROVE  /\ Released(j) \in Row /\ Released(j).op = outbox[j].op
         /\ Released(j).run = outbox[j].run /\ Released(j).v = outbox[j].v
         /\ Released(j).indexed = outbox[j].indexed
  BY RelayKnown DEF Released, Row

(* A counted event keeps the history's type.                                *)
LEMMA EventFits ==
  ASSUME SearchInv, UNCHANGED excused, Event \/ UNCHANGED events
  PROVE  HistoryType' /\ excused \subseteq excused'
  BY RelayKnown, Bounds DEF Event, HistoryType

(* The rows of a group that was published cannot be marked.                 *)
LEMMA MarkRelayedFailsRelays ==
  ASSUME SearchInv, MarkRelayedFails
  PROVE  Relays
<1>1. outbox' = [j \in Ids |-> IF j \in Group(relay.primary) THEN Released(j) ELSE outbox[j]]
  BY DEF MarkRelayedFails
<1>2. \A j \in Ids : /\ outbox'[j] \in Row /\ outbox'[j].op = outbox[j].op
                     /\ outbox'[j].run = outbox[j].run /\ outbox'[j].v = outbox[j].v
                     /\ outbox'[j].indexed = outbox[j].indexed
  BY <1>1, ReleasedRow, RelayKnown
<1>3. Flags
  BY <1>1, <1>2, FlagTable
<1>4. (RelayType /\ RelayShape)' /\ BrokerType'
  BY <1>3, NextGroupFits, BrokerSame DEF MarkRelayedFails, Flags
<1>5. HistoryType' /\ excused \subseteq excused'
  BY EventFits DEF MarkRelayedFails
<1> QED
  BY <1>2, <1>3, <1>4, <1>5, RelayTurn DEF MarkRelayedFails, source, search

(* The broker refuses a message.                                            *)
LEMMA PublishFailsRelays ==
  ASSUME SearchInv, PublishFails
  PROVE  Relays
<1>1. PICK i \in Group(Min(relay.todo)) :
         LET n == outbox[i].publishAttempts + 1
             failed == IF n >= MaxAttempts
                       THEN [outbox[i] EXCEPT !.dead = TRUE, !.claimed = FALSE]
                       ELSE [outbox[i] EXCEPT !.publishAttempts = n, !.moved = TRUE,
                                              !.claimed = FALSE] IN
         /\ EventIf(n = 1)
         /\ outbox' = [j \in Ids |-> CASE j = i -> failed
                                       [] j \in Group(i) \ {i} -> Released(j)
                                       [] OTHER -> outbox[j]]
         /\ NextGroup(Group(i))
  BY DEF PublishFails
<1> DEFINE n == outbox[i].publishAttempts + 1
           failed == IF n >= MaxAttempts
                     THEN [outbox[i] EXCEPT !.dead = TRUE, !.claimed = FALSE]
                     ELSE [outbox[i] EXCEPT !.publishAttempts = n, !.moved = TRUE, !.claimed = FALSE]
           next(j) == CASE j = i -> failed
                        [] j \in Group(i) \ {i} -> Released(j)
                        [] OTHER -> outbox[j]
<1>2. i \in Ids
  BY FirstGroup, RelayKnown DEF PublishFails, RelayType
<1>3. /\ failed \in Row /\ failed.op = outbox[i].op /\ failed.run = outbox[i].run
      /\ failed.v = outbox[i].v /\ failed.indexed = outbox[i].indexed
  <2>1. outbox[i] \in Row /\ n \in Nat
    BY <1>2, RelayKnown DEF Row
  <2>2. CASE n >= MaxAttempts
    BY <2>1, <2>2 DEF Row
  <2>3. CASE ~(n >= MaxAttempts)
    <3>1. n \in 0 .. MaxAttempts
      BY <2>1, <2>3, Bounds
    <3>2. failed = [outbox[i] EXCEPT !.publishAttempts = n, !.moved = TRUE, !.claimed = FALSE]
      BY <2>3
    <3> HIDE DEF n, failed
    <3> QED
      BY <2>1, <3>1, <3>2 DEF Row
  <2> QED
    BY <2>2, <2>3
<1> HIDE DEF failed
<1>4. \A j \in Ids : /\ next(j) \in Row /\ next(j).op = outbox[j].op
                     /\ next(j).run = outbox[j].run /\ next(j).v = outbox[j].v
                     /\ next(j).indexed = outbox[j].indexed
  <2> SUFFICES ASSUME NEW j \in Ids
               PROVE  /\ next(j) \in Row /\ next(j).op = outbox[j].op
                      /\ next(j).run = outbox[j].run /\ next(j).v = outbox[j].v
                      /\ next(j).indexed = outbox[j].indexed
    OBVIOUS
  <2>1. CASE j = i
    BY <1>3, <2>1
  <2>2. CASE j # i /\ j \in Group(i)
    BY <2>2, ReleasedRow
  <2>3. CASE j # i /\ j \notin Group(i)
    BY <2>3, RelayKnown
  <2> QED
    BY <2>1, <2>2, <2>3
<1>5. outbox' = [j \in Ids |-> next(j)]
  BY <1>1 DEF failed
<1> HIDE DEF next
<1>6. Flags /\ \A j \in Ids : outbox'[j].indexed = outbox[j].indexed
  BY <1>4, <1>5, FlagTable
<1>7. (RelayType /\ RelayShape)' /\ BrokerType'
  BY <1>1, <1>6, NextGroupFits, BrokerSame DEF PublishFails, Flags
<1>8. HistoryType' /\ excused \subseteq excused'
  BY <1>1, EventFits DEF PublishFails, EventIf
<1> QED
  BY <1>6, <1>7, <1>8, RelayTurn DEF PublishFails, source, search

(* Reviving the jobs that were given up.                                    *)
LEMMA ReviveRelays ==
  ASSUME SearchInv, ReviveDeadLettered
  PROVE  Relays
<1>1. PICK revived \in SUBSET Ids :
         outbox' = [i \in Ids |-> IF i \in revived
                     THEN [NewRow(outbox[i].op, outbox[i].run, outbox[i].v) EXCEPT !.moved = TRUE]
                     ELSE outbox[i]]
  BY DEF ReviveDeadLettered
<1>2. \A i \in Ids :
         LET new == [NewRow(outbox[i].op, outbox[i].run, outbox[i].v) EXCEPT !.moved = TRUE] IN
         /\ new \in Row /\ new.op = outbox[i].op /\ new.run = outbox[i].run
         /\ new.v = outbox[i].v /\ ~new.indexed
  <2> SUFFICES ASSUME NEW i \in Ids, NEW row \in Row, row = outbox[i], NEW new,
                      new = [NewRow(row.op, row.run, row.v) EXCEPT !.moved = TRUE]
               PROVE  /\ new \in Row /\ new.op = row.op /\ new.run = row.run
                      /\ new.v = row.v /\ ~new.indexed
    BY RelayKnown
  <2>1. NewRow(row.op, row.run, row.v) \in Row
    BY NewRowType DEF Row
  <2>2. new \in Row
    <3>1. PICK fresh \in Row : new = [fresh EXCEPT !.moved = TRUE]
      BY <2>1
    <3> QED
      BY <3>1 DEF Row
  <2> QED
    BY <2>2 DEF NewRow
<1>3. \A i \in Ids : /\ outbox'[i] \in Row /\ outbox'[i].op = outbox[i].op
                     /\ outbox'[i].run = outbox[i].run /\ outbox'[i].v = outbox[i].v
                     /\ ~outbox[i].indexed => ~outbox'[i].indexed
  BY <1>1, <1>2, RelayKnown
<1>4. Flags
  BY <1>1, <1>3, FlagTable
<1>5. (RelayType /\ RelayShape)' /\ BrokerType' /\ HistoryType'
  BY <1>4, RelayKnown, BrokerSame DEF ReviveDeadLettered, Flags, RelayType, RelayShape, HistoryType
<1> QED
  BY <1>3, <1>4, <1>5, RelayTurn DEF ReviveDeadLettered, source, search

-----------------------------------------------------------------------------
(* Steps of one batch that write no document.                               *)

(* The facts about the posting that fit everywhere.                         *)
LEMMA PostingKnown ==
  ASSUME SearchInv
  PROVE  /\ posting.v \in Nat /\ posting.v >= 1 /\ posting.v \in Versions
         /\ posting.shown \in BOOLEAN /\ posting.after \subseteq Runs
         /\ Current \in Doc /\ Current.v = posting.v /\ Current.shown = posting.shown /\ Fits(Current)
<1>1. posting.v \in Versions /\ posting.shown \in BOOLEAN /\ posting.after \subseteq Runs
      /\ posting.v >= 1
  BY TypeParts DEF SearchInv, SourceType, Shape, ChangeShape
<1>2. posting.v \in Nat
  BY <1>1, IsVersion
<1> QED
  BY <1>1, <1>2 DEF Current, Doc, Fits

(* No document fits.                                                        *)
LEMMA NoDocFits ==
  ASSUME SearchInv
  PROVE  Fits(NoDoc) /\ NoDoc.v = -1
  BY PostingKnown DEF Fits, NoDoc

(* Neither does a deletion bring anything but a version.                    *)
LEMMA DeletedDoc ==
  ASSUME NEW n \in Versions
  PROVE  [v |-> n, shown |-> FALSE] \in Doc /\ [v |-> n, shown |-> FALSE].v = n
  BY DEF Doc

(* One batch gets a new task.                                               *)
LEMMA BatchTurn ==
  ASSUME SearchInv, Flags, NEW w \in Indexers, NEW b \in Batch, batch' = [batch EXCEPT ![w] = b],
         UNCHANGED <<posting, change, index, alias, run, rebuild, checked, relay, excused>>,
         BrokerType', Event \/ UNCHANGED events,
         BatchShape(b), Fits(b.doc), b.at = "write" => b.doc.v >= outbox[b.row].v,
         b.at = "write" => IsJob(b.row),
         \A i \in Ids : Newest(i) /\ Awaited(i) =>
            ~outbox'[i].indexed /\ ~(b.at = "mark" /\ b.row = i)
  PROVE  Relays
<1>1. Ids' = Ids /\ BatchType /\ RelayType /\ RelayShape
  BY TypeParts DEF Flags, SearchInv, Shape
<1>2. batch'[w] = b /\ \A x \in Indexers : x # w => batch'[x] = batch[x]
  BY <1>1 DEF BatchType
<1>3. BatchType'
  BY <1>1, <1>2 DEF BatchType, Batch
<1>4. ASSUME NEW x \in Indexers PROVE BatchFits(x)'
  <2>1. PICK c \in Batch : /\ c = batch'[x] /\ BatchShape(c) /\ Fits(c.doc)
                           /\ c.at = "write" => c.doc.v >= outbox[c.row].v
                           /\ c.at = "write" => IsJob(c.row)
    BY <1>1, <1>2 DEF SearchInv, Shape, DocsFit, BatchType
  <2>2. BatchShape(batch[x])'
    BY <1>1, <2>1 DEF BatchShape
  <2>3. Fits(batch[x].doc)'
    BY <2>1 DEF Fits, Current
  <2>4. c.at = "write" => c.doc.v >= outbox'[c.row].v
    BY <2>1 DEF BatchShape, Flags
  <2>5. c.at = "write" => outbox'[c.row].op # "barrier"
    BY <2>1 DEF BatchShape, Flags, IsJob
  <2> QED
    BY <2>1, <2>2, <2>3, <2>4, <2>5 DEF BatchFits, IsJob
<1>5. \A i \in Ids : Newest(i) /\ Awaited(i) => Awaited(i)'
  BY <1>2 DEF Awaited
<1>6. (RelayType /\ RelayShape)'
  BY <1>1 DEF RelayType, RelayShape
<1> QED
  BY <1>3, <1>4, <1>5, <1>6, EventFits DEF Relays

(* An idle batch.                                                           *)
LEMMA NoBatchFits ==
  ASSUME SearchInv
  PROVE  /\ NoBatch \in Batch /\ BatchShape(NoBatch) /\ Fits(NoBatch.doc)
         /\ NoBatch.at = "idle"
  BY NoDocFits DEF NoBatch, Batch, BatchShape

(* The rows stay as they are.                                               *)
LEMMA SameRows ==
  ASSUME SearchInv, UNCHANGED outbox
  PROVE  Flags
  BY RelayKnown DEF Flags, Ids

(* Finishing a job: its document was written or is not the newest.          *)
LEMMA MarkIndexedRelays ==
  ASSUME SearchInv, NEW w \in Indexers, MarkIndexed(w)
  PROVE  Relays
<1>1. PICK i : i = batch[w].row
  OBVIOUS
<1>2. i \in Ids /\ outbox[i] \in Row /\ batch[w].at = "mark"
  BY <1>1, RelayKnown DEF SearchInv, Shape, BatchShape, MarkIndexed
<1>3. outbox' = [outbox EXCEPT ![i] = [outbox[i] EXCEPT !.indexed = TRUE]]
  BY <1>1 DEF MarkIndexed
<1>4. \A j \in Ids : /\ outbox'[j] \in Row /\ outbox'[j].op = outbox[j].op
                     /\ outbox'[j].run = outbox[j].run /\ outbox'[j].v = outbox[j].v
                     /\ j # i => outbox'[j].indexed = outbox[j].indexed
  <2> SUFFICES ASSUME NEW j \in Ids
               PROVE  /\ outbox'[j] \in Row /\ outbox'[j].op = outbox[j].op
                      /\ outbox'[j].run = outbox[j].run /\ outbox'[j].v = outbox[j].v
                      /\ j # i => outbox'[j].indexed = outbox[j].indexed
    OBVIOUS
  <2>1. outbox'[j] = IF j = i THEN [outbox[i] EXCEPT !.indexed = TRUE] ELSE outbox[j]
    BY <1>3, RelayKnown DEF Ids
  <2>2. /\ [outbox[i] EXCEPT !.indexed = TRUE] \in Row
        /\ [outbox[i] EXCEPT !.indexed = TRUE].op = outbox[i].op
        /\ [outbox[i] EXCEPT !.indexed = TRUE].run = outbox[i].run
        /\ [outbox[i] EXCEPT !.indexed = TRUE].v = outbox[i].v
    BY <1>2 DEF Row
  <2> QED
    BY <2>1, <2>2, RelayKnown
<1>5. Flags
  <2>1. DOMAIN outbox' = Ids /\ outbox' = [j \in Ids |-> outbox'[j]]
    BY <1>3, RelayKnown DEF Ids
  <2> QED
    BY <1>4, <2>1, FlagTable
<1>6. \A j \in Ids : Newest(j) /\ Awaited(j) => ~outbox'[j].indexed
  BY <1>1, <1>2, <1>4 DEF Awaited
<1> QED
  BY <1>5, <1>6, NoBatchFits, BatchTurn, BrokerSame
  DEF MarkIndexed, EndBatch, source, search, Flags

(* Taking a message.                                                        *)
LEMMA TakeJobRelays ==
  ASSUME SearchInv, NEW w \in Indexers, NEW i \in Ids, TakeJob(w, i)
  PROVE  Relays
<1>1. Flags
  BY SameRows DEF TakeJob
<1>2. BrokerType'
  <2>1. queue \in Seq(Ids) /\ delayed \subseteq Ids /\ Ids' = Ids
    BY <1>1, RelayKnown DEF BrokerType, Flags
  <2>2. queue' = queue \/ (queue # <<>> /\ queue' = Tail(queue))
    BY DEF TakeJob
  <2>3. queue' \in Seq(Ids) /\ delayed' \subseteq Ids
    BY <2>1, <2>2 DEF TakeJob
  <2> QED
    BY <2>1, <2>3 DEF BrokerType
<1>3. outbox[i] \in Row /\ outbox[i].v \in Versions /\ batch[w] = NoBatch
  BY RelayKnown DEF TakeJob, Row
<1>4. UNCHANGED <<posting, change, index, alias, run, rebuild, checked, relay, excused, events>>
  BY DEF TakeJob, source, search
<1>5. CASE UNCHANGED batch
  <2>1. batch' = [batch EXCEPT ![w] = NoBatch]
    BY <1>3, <1>5, TypeParts DEF SearchInv, BatchType
  <2> QED
    BY <1>1, <1>2, <1>4, <2>1, NoBatchFits, BatchTurn DEF Awaited, TakeJob
<1>6. CASE /\ outbox[i].op = "barrier" \/ HasNewerJob(i)
           /\ batch' = [batch EXCEPT ![w] = [NoBatch EXCEPT !.at = "mark", !.row = i]]
  <2> DEFINE b == [NoBatch EXCEPT !.at = "mark", !.row = i]
  <2>1. b.at = "mark" /\ b.row = i /\ b.doc = NoDoc /\ b \in Batch
    BY DEF NoBatch, Batch
  <2>2. BatchShape(b) /\ Fits(b.doc) /\ batch' = [batch EXCEPT ![w] = b]
    BY <1>6, <2>1, NoDocFits DEF BatchShape
  <2>3. ~Newest(i)
    <3>1. CASE outbox[i].op = "barrier"
      BY <3>1 DEF Newest, IsJob
    <3>2. CASE outbox[i].op # "barrier" /\ HasNewerJob(i)
      <4>1. PICK j \in Ids : j > i /\ IsJob(j) /\ outbox[j].run = outbox[i].run
        BY <3>2 DEF HasNewerJob, IsJob
      <4>2. i < j /\ IsJob(i)
        BY <3>2, <4>1, RelayKnown DEF IsJob
      <4>3. outbox[i].v < outbox[j].v /\ outbox[j].v <= posting.v
        BY <4>1, <4>2 DEF SearchInv, RowsFit
      <4>4. outbox[i].v \in Nat /\ outbox[j].v \in Nat /\ posting.v \in Nat
        BY <1>3, <4>1, RelayKnown, PostingKnown, IsVersion DEF Row
      <4> QED
        BY <4>3, <4>4 DEF Newest
    <3> QED
      BY <1>6, <3>1, <3>2
  <2> HIDE DEF b
  <2> QED
    BY <1>1, <1>2, <1>4, <2>1, <2>2, <2>3, BatchTurn DEF Awaited, TakeJob
<1>7. CASE /\ outbox[i].op # "barrier"
           /\ batch' = [batch EXCEPT ![w] =
                [at |-> "write", row |-> i,
                 doc |-> IF outbox[i].op = "upsert" THEN Current
                         ELSE [v |-> outbox[i].v, shown |-> FALSE]]]
  <2> DEFINE d == IF outbox[i].op = "upsert" THEN Current ELSE [v |-> outbox[i].v, shown |-> FALSE]
             b == [at |-> "write", row |-> i, doc |-> d]
  <2>1. d \in Doc /\ Fits(d) /\ d.v >= outbox[i].v
    <3>1. /\ outbox[i].v <= posting.v /\ outbox[i].v \in Nat /\ posting.v \in Nat
          /\ Newest(i) => (outbox[i].op = "upsert" <=> posting.shown)
      BY <1>3, PostingKnown, IsVersion DEF SearchInv, RowsFit
    <3>2. CASE outbox[i].op = "upsert"
      BY <3>1, <3>2, PostingKnown
    <3>3. CASE outbox[i].op # "upsert"
      <4>1. d = [v |-> outbox[i].v, shown |-> FALSE]
        BY <3>3
      <4>2. d \in Doc /\ d.v = outbox[i].v
        BY <1>3, <4>1, DeletedDoc
      <4>3. outbox[i].v = posting.v => posting.shown = FALSE
        BY <1>7, <3>1, <3>3, PostingKnown DEF Newest, IsJob
      <4>4. d.v = posting.v => d = Current
        BY <4>1, <4>2, <4>3 DEF Current
      <4> QED
        BY <3>1, <4>2, <4>4 DEF Fits
    <3> QED
      BY <3>2, <3>3
  <2> HIDE DEF d
  <2>2. b \in Batch /\ BatchShape(b) /\ b.doc = d /\ b.row = i /\ b.at = "write" /\ IsJob(i)
    BY <1>7, <2>1 DEF Batch, BatchShape, IsJob
  <2>3. batch' = [batch EXCEPT ![w] = b]
    BY <1>7 DEF d
  <2> HIDE DEF b
  <2> QED
    BY <1>1, <1>2, <1>4, <2>1, <2>2, <2>3, BatchTurn DEF Awaited, TakeJob
<1> QED
  BY <1>5, <1>6, <1>7 DEF TakeJob

(* A write fails: the job is put off or given up.                           *)
LEMMA WriteFailsRelays ==
  ASSUME SearchInv, NEW w \in Indexers, WriteFails(w)
  PROVE  Relays
<1>1. PICK i : i = batch[w].row
  OBVIOUS
<1>2. i \in Ids /\ outbox[i] \in Row
  BY <1>1, RelayKnown DEF SearchInv, Shape, BatchShape, WriteFails
<1>3. outbox' = [outbox EXCEPT ![i] = FailedJob(i)]
  BY <1>1 DEF WriteFails
<1>4. /\ FailedJob(i) \in Row /\ FailedJob(i).op = outbox[i].op /\ FailedJob(i).run = outbox[i].run
      /\ FailedJob(i).v = outbox[i].v /\ FailedJob(i).indexed = outbox[i].indexed
  <2>1. PICK n : n = IF outbox[i].attempts + 1 > MaxAttempts THEN MaxAttempts
                     ELSE outbox[i].attempts + 1
    OBVIOUS
  <2>2. n \in 0 .. MaxAttempts
    BY <1>2, <2>1, Bounds DEF Row
  <2>3. PICK d \in BOOLEAN : d = (outbox[i].dead \/ outbox[i].attempts + 1 >= MaxAttempts)
    OBVIOUS
  <2>4. FailedJob(i) = [outbox[i] EXCEPT !.attempts = n, !.dead = d]
    BY <2>1, <2>3 DEF FailedJob
  <2> QED
    BY <1>2, <2>2, <2>4 DEF Row
<1>5. \A j \in Ids : outbox'[j] = IF j = i THEN FailedJob(i) ELSE outbox[j]
  BY <1>3, RelayKnown DEF Ids
<1>6. Flags /\ \A j \in Ids : outbox'[j].indexed = outbox[j].indexed
  <2>1. DOMAIN outbox' = Ids /\ outbox' = [j \in Ids |-> outbox'[j]]
    BY <1>3, RelayKnown DEF Ids
  <2>2. \A j \in Ids : /\ outbox'[j] \in Row /\ outbox'[j].op = outbox[j].op
                       /\ outbox'[j].run = outbox[j].run /\ outbox'[j].v = outbox[j].v
                       /\ outbox'[j].indexed = outbox[j].indexed
    BY <1>4, <1>5, RelayKnown
  <2> QED
    BY <2>1, <2>2, FlagTable
<1>7. BrokerType'
  BY <1>1, <1>2, <1>6, RelayKnown DEF BrokerType, Flags, WriteFails
<1>8. Event \/ UNCHANGED events
  BY DEF WriteFails, EventIf
<1> QED
  BY <1>6, <1>7, <1>8, NoBatchFits, BatchTurn
  DEF WriteFails, EndBatch, source, search, Awaited

(* The indexer dies: its message comes back.                                *)
LEMMA IndexerCrashesRelays ==
  ASSUME SearchInv, NEW w \in Indexers, IndexerCrashes(w)
  PROVE  Relays
<1>1. Flags
  BY SameRows DEF IndexerCrashes
<1>2. batch[w].row \in Ids
  BY DEF SearchInv, Shape, BatchShape, IndexerCrashes
<1>3. BrokerType'
  <2>1. queue \in Seq(Ids) /\ delayed \subseteq Ids /\ Ids' = Ids
    BY <1>1, RelayKnown DEF BrokerType, Flags
  <2>2. <<batch[w].row>> \in Seq(Ids)
    BY <1>2
  <2>3. queue' \in Seq(Ids)
    BY <2>1, <2>2 DEF IndexerCrashes
  <2> QED
    BY <2>1, <2>3 DEF BrokerType, IndexerCrashes
<1> QED
  BY <1>1, <1>3, NoBatchFits, BatchTurn
  DEF IndexerCrashes, EndBatch, source, search, Awaited

-----------------------------------------------------------------------------
(* Steps that write documents.                                              *)

(* The index k gets a document of the posting; rows, posting, alias and runs
   stay.                                                                    *)
Writes(k, doc) ==
    /\ k \in Indices /\ doc \in Doc /\ Fits(doc) /\ index' = [index EXCEPT ![k] = doc]
    /\ UNCHANGED <<posting, change, outbox, relay, queue, delayed, alias, run, events>>
    /\ HistoryType' /\ excused \subseteq excused'
    /\ excused' = {} => doc.v >= index[k].v

(* The latest version stays where it is shown, and comes where it is written. *)
LEMMA WritesShow ==
  ASSUME SearchInv, NEW k \in Indices, NEW doc \in Doc, Writes(k, doc), excused' = {}
  PROVE  /\ \A x \in Indices : Shown(x) => Shown(x)'
         /\ doc.v = posting.v => Shown(k)'
         /\ \A x \in Indices : Covered(x) => Covered(x)'
<1>1. index \in [Indices -> Doc] /\ Fits(index[k]) /\ index[k] \in Doc
  BY TypeParts DEF SearchInv, SearchType, DocsFit
<1>2. index[k].v \in Nat /\ doc.v \in Nat /\ posting.v \in Nat
  BY <1>1, PostingKnown, IsVersion DEF Doc
<1>3. index'[k] = doc /\ \A x \in Indices : x # k => index'[x] = index[x]
  BY <1>1 DEF Writes
<1>4. doc.v <= posting.v /\ doc.v >= index[k].v /\ posting' = posting
  BY DEF Writes, Fits
<1>5. \A x \in Indices : Shown(x) => Shown(x)'
  BY <1>2, <1>3, <1>4 DEF Shown
<1>6. doc.v = posting.v => Shown(k)'
  BY <1>3, <1>4 DEF Shown
<1>7. \A i \in Ids : Newest(i)' <=> Newest(i)
  BY DEF Writes, Newest, IsJob
<1>8. \A x \in Indices : Covered(x) => Covered(x)'
  BY <1>5, <1>7 DEF Covered, Writes, Ids
<1> QED
  BY <1>5, <1>6, <1>8

(* What does not depend on the indices stays.                               *)
LEMMA WritesKeep ==
  ASSUME SearchInv, NEW k \in Indices, NEW doc \in Doc, Writes(k, doc),
         (BatchType /\ RebuildType /\ RebuildShape)', checked' \in Doc \cup {NoDoc},
         \A w \in Indexers : BatchFits(w)', (Fits(rebuild.doc) /\ Fits(checked))'
  PROVE  (TypeOK /\ Shape /\ DocsFit /\ RowsFit)'
<1>0. Ids' = Ids /\ outbox' = outbox /\ posting' = posting
  BY DEF Writes, Ids
<1>1. TypeOK'
  <2>1. RelayType' /\ BrokerType' /\ RunType' /\ SourceType' /\ OutboxType'
    BY <1>0, TypeParts
    DEF SearchInv, Writes, RelayType, BrokerType, RunType, SourceType, OutboxType
  <2>2. SearchType'
    BY TypeParts DEF SearchInv, Writes, SearchType
  <2> QED
    BY <2>1, <2>2, TypePartsNext DEF Writes
<1>2. Shape'
  BY <1>0 DEF SearchInv, Writes, Shape, BatchFits, RelayShape, ChangeShape, RowsBounded, Barriered,
     RunShape
<1>3. DocsFit'
  <2>1. \A x \in Indices : Fits(index[x])'
    <3>1. index \in [Indices -> Doc]
      BY TypeParts DEF SearchInv, SearchType
    <3> QED
      BY <1>0, <3>1 DEF SearchInv, Writes, DocsFit, Fits, Current
  <2>2. \A x \in Runs : run'[x].covers.v <= posting'.v
    BY DEF SearchInv, Writes, DocsFit
  <2> QED
    BY <2>1, <2>2 DEF DocsFit, BatchFits
<1>4. RowsFit'
  BY <1>0 DEF SearchInv, RowsFit, Newest, IsJob
<1> QED
  BY <1>1, <1>2, <1>3, <1>4

(* Whoever writes to the index of a run may do so.                          *)
MayWrite(k, doc) ==
    k \in Runs =>
        \/ k \in posting.after \/ ~doc.shown
        \/ run[k].status \in {"waiting_for_catchup", "completed", "failed"}
        \/ run[k].status = "running" /\ doc.v = posting.v

(* No job is lost by a write.                                               *)
LEMMA WritesReach ==
  ASSUME SearchInv, NEW k \in Indices, NEW doc \in Doc, Writes(k, doc), excused' = {},
         \A i \in Ids : Newest(i) /\ Awaited(i) =>
            \/ Awaited(i)'
            \/ outbox[i].run \in Runs /\ Shown(outbox[i].run)'
            \/ outbox[i].run = LIVE /\ Covered(alias)'
  PROVE  JobsReach'
<1>1. JobsReach /\ Ids' = Ids /\ outbox' = outbox /\ posting' = posting /\ alias' = alias
  BY DEF Writes, SearchInv, NothingLost, Ids
<1>2. /\ \A x \in Indices : Shown(x) => Shown(x)'
      /\ \A x \in Indices : Covered(x) => Covered(x)'
  BY WritesShow
<1>3. \A i \in Ids : Newest(i)' <=> Newest(i)
  BY <1>1 DEF Newest, IsJob
<1>4. alias \in Indices /\ Runs \subseteq Indices /\ LIVE \notin Runs
  BY TypeParts, Bounds DEF SearchInv, SearchType, Runs, Indices, LIVE
<1>5. \A i \in Ids : Newest(i) /\ outbox[i].run \in Runs => Awaited(i)' \/ Shown(outbox[i].run)'
  BY <1>1, <1>2, <1>4 DEF JobsReach
<1>6. \A i \in Ids : Newest(i) /\ outbox[i].run = LIVE => Awaited(i)' \/ Covered(alias)'
  BY <1>1, <1>2, <1>4 DEF JobsReach
<1>7. posting.v = 1 => Covered(alias)'
  BY <1>1, <1>2, <1>4 DEF JobsReach
<1>8. \A i \in Ids : Newest(i)' /\ outbox'[i].run \in Runs => Awaited(i)' \/ Shown(outbox[i].run)'
  BY <1>1, <1>3, <1>5
<1> QED
  BY <1>1, <1>3, <1>6, <1>7, <1>8 DEF JobsReach

(* No run gets a document it should not have.                               *)
LEMMA WritesListing ==
  ASSUME SearchInv, NEW k \in Indices, NEW doc \in Doc, Writes(k, doc), excused' = {},
         MayWrite(k, doc)
  PROVE  /\ \A x \in Runs : Unlisted(x)'
         /\ \A x \in Runs : run'[x].status = "waiting_for_catchup" => Covered(x)'
<1>1. /\ posting' = posting /\ run' = run /\ Runs \subseteq Indices
      /\ Listed /\ \A x \in Runs : Unlisted(x)
  BY Bounds DEF Writes, SearchInv, NothingLost, Runs, Indices
<1>2. /\ \A x \in Indices : Shown(x) => Shown(x)'
      /\ \A x \in Indices : Covered(x) => Covered(x)'
      /\ doc.v = posting.v => Shown(k)'
  BY WritesShow
<1>3. index'[k] = doc /\ \A x \in Indices : x # k => index'[x] = index[x]
  BY TypeParts DEF Writes, SearchInv, SearchType
<1>4. ASSUME NEW x \in Runs PROVE Unlisted(x)'
  <2>1. run[x].status \in {"starting", "pending", "running"} /\ x \in posting.after => Covered(x)'
    BY <1>1, <1>2 DEF Unlisted
  <2>2. run[x].status \in {"none", "starting", "pending"} /\ x \notin posting.after
          => ~index'[x].shown
    BY <1>1, <1>3 DEF Unlisted, MayWrite
  <2>3. run[x].status = "running" /\ x \notin posting.after => Shown(x)' \/ ~index'[x].shown
    BY <1>1, <1>2, <1>3 DEF Unlisted, MayWrite
  <2> QED
    BY <1>1, <2>1, <2>2, <2>3 DEF Unlisted
<1> QED
  BY <1>1, <1>2, <1>4 DEF Listed

(* Documents that stay fit.                                                 *)
LEMMA BatchesSame ==
  ASSUME SearchInv, UNCHANGED <<posting, outbox, batch>>
  PROVE  BatchType' /\ \A w \in Indexers : BatchFits(w)'
<1>1. Ids' = Ids /\ BatchType /\ \A w \in Indexers : BatchFits(w)
  BY TypeParts DEF Ids, SearchInv, Shape, DocsFit, BatchFits
<1> QED
  BY <1>1 DEF BatchType, Batch, BatchFits, BatchShape, Fits, Current, IsJob

(* What is known of the rebuild, when nothing of it changes.                *)
LEMMA RebuildSame ==
  ASSUME SearchInv, UNCHANGED <<posting, run, rebuild>>
  PROVE  (RebuildType /\ RebuildShape /\ Fits(rebuild.doc))'
  BY TypeParts DEF SearchInv, RebuildType, Shape, RebuildShape, DocsFit, Fits, Current

(* What is known of the document being reconciled, when it stays.           *)
LEMMA CheckedSame ==
  ASSUME SearchInv, UNCHANGED <<posting, checked>>
  PROVE  checked' \in Doc \cup {NoDoc} /\ Fits(checked)'
  BY TypeParts DEF SearchInv, SearchType, DocsFit, Fits, Current

(* A write through Written.                                                 *)
LEMMA WrittenWrites ==
  ASSUME SearchInv, NEW k \in Indices, NEW doc \in Doc, Fits(doc), Written(k, doc),
         UNCHANGED <<posting, change, outbox, relay, queue, delayed, alias, run, events>>
  PROVE  Writes(k, doc)
<1>1. HistoryType' /\ excused \subseteq excused'
  BY RelayKnown DEF Written, HistoryType, Gaps
<1>2. excused' = {} => ~(doc.v < index[k].v)
  BY DEF Written
<1>3. doc.v \in Nat /\ index[k].v \in Nat
  BY TypeParts, IsVersion DEF SearchInv, SearchType, Doc
<1> QED
  BY <1>1, <1>2, <1>3 DEF Writes, Written

(* A batch writes its document.                                             *)
LEMMA WriteDocumentStep ==
  ASSUME SearchInv, NEW w \in Indexers, WriteDocument(w)
  PROVE  SearchInv'
<1>1. PICK i, doc, k : i = batch[w].row /\ doc = batch[w].doc /\ k = Target(i)
  OBVIOUS
<1>2. /\ i \in Ids /\ outbox[i] \in Row /\ doc \in Doc /\ Fits(doc)
      /\ IsJob(i) /\ doc.v >= outbox[i].v
  BY <1>1, RelayKnown DEF SearchInv, Shape, BatchShape, DocsFit, WriteDocument
<1>3. /\ k \in Indices /\ alias \in Indices
      /\ outbox[i].run = LIVE => k = alias
      /\ outbox[i].run \in Runs => k = outbox[i].run
      /\ outbox[i].run \in {LIVE} \cup Runs /\ LIVE \notin Runs
  <2>1. alias \in Indices /\ outbox[i].run \in {LIVE} \cup Runs
    BY <1>2, TypeParts DEF SearchInv, SearchType, Row
  <2>2. LIVE \notin Runs /\ Runs \subseteq Indices
    BY Bounds DEF LIVE, Runs, Indices
  <2> QED
    BY <1>1, <2>1, <2>2 DEF Target
<1>4. UNCHANGED <<posting, change, outbox, relay, queue, delayed, alias, run, rebuild, checked, events>>
  BY DEF WriteDocument, source, broker
<1>5. Writes(k, doc)
  BY <1>1, <1>2, <1>3, <1>4, WrittenWrites DEF WriteDocument
<1>6. /\ batch'[w].at = "mark" /\ batch'[w].row = i /\ batch'[w].doc = NoDoc
      /\ \A x \in Indexers : x # w => batch'[x] = batch[x]
      /\ BatchType'
  <2>1. BatchType /\ Ids' = Ids
    BY <1>4, TypeParts DEF SearchInv, Ids
  <2>2. batch[w] \in Batch
    BY <2>1 DEF BatchType
  <2>3. batch' = [batch EXCEPT ![w] = [batch[w] EXCEPT !.at = "mark", !.doc = NoDoc]]
    BY <2>1 DEF WriteDocument, BatchType, Batch
  <2>4. PICK b : b = [batch[w] EXCEPT !.at = "mark", !.doc = NoDoc]
    OBVIOUS
  <2>5. b \in Batch /\ b.at = "mark" /\ b.row = batch[w].row /\ b.doc = NoDoc
    BY <2>2, <2>4 DEF Batch
  <2>6. batch'[w] = b /\ \A x \in Indexers : x # w => batch'[x] = batch[x]
    BY <2>1, <2>3, <2>4 DEF BatchType
  <2>7. batch' \in [Indexers -> Batch]
    BY <2>1, <2>3, <2>4, <2>5 DEF BatchType
  <2>8. BatchType'
    BY <2>1, <2>7 DEF BatchType, Batch
  <2> QED
    BY <1>1, <2>5, <2>6, <2>8
<1>7. ASSUME NEW x \in Indexers PROVE BatchFits(x)'
  <2>1. Ids' = Ids
    BY <1>4 DEF Ids
  <2>2. CASE x = w
    <3>1. Fits(NoDoc)'
      BY <1>4, NoDocFits DEF Fits, Current
    <3> QED
      BY <1>2, <1>6, <2>1, <2>2, <3>1 DEF BatchFits, BatchShape
  <2>3. CASE x # w
    <3>1. BatchFits(x)
      BY DEF SearchInv, Shape, DocsFit, BatchFits
    <3> QED
      BY <1>4, <1>6, <2>1, <2>3, <3>1 DEF BatchFits, BatchShape, Fits, Current, IsJob
  <2> QED
    BY <2>2, <2>3
<1>8. (TypeOK /\ Shape /\ DocsFit /\ RowsFit)'
  BY <1>2, <1>3, <1>4, <1>5, <1>6, <1>7, WritesKeep, RebuildSame, CheckedSame
<1>9. ASSUME excused' = {} PROVE (JobsReach /\ Listed /\ \A x \in Runs : Unlisted(x))'
  <2>1. Newest(i) => doc.v = posting.v
    <3>1. doc.v \in Nat /\ posting.v \in Nat /\ doc.v <= posting.v
      BY <1>2, PostingKnown, IsVersion DEF Doc, Fits
    <3> QED
      BY <1>2, <3>1 DEF Newest
  <2>2. \A x \in Indices : Covered(x) => Covered(x)'
    BY <1>2, <1>3, <1>5, <1>9, WritesShow
  <2>3. Newest(i) => Shown(k)' /\ Covered(k)'
    BY <1>2, <1>3, <1>5, <1>9, <2>1, WritesShow DEF Covered
  <2>4. \A j \in Ids : Awaited(j) /\ j # i => Awaited(j)'
    BY <1>4, <1>6 DEF Awaited
  <2>5. JobsReach'
    <3>1. \A j \in Ids : Newest(j) /\ Awaited(j) =>
            \/ Awaited(j)'
            \/ outbox[j].run \in Runs /\ Shown(outbox[j].run)'
            \/ outbox[j].run = LIVE /\ Covered(alias)'
      BY <1>3, <1>4, <2>3, <2>4
    <3> QED
      BY <1>2, <1>3, <1>5, <1>9, <3>1, WritesReach
  <2>6. MayWrite(k, doc)
    BY <1>2, <1>3 DEF MayWrite, SearchInv, RowsFit, Shape, ChangeShape
  <2>7. \A x \in Runs : Unlisted(x)' /\ (run'[x].status = "waiting_for_catchup" => Covered(x)')
    BY <1>2, <1>3, <1>5, <1>9, <2>6, WritesListing
  <2>8. Listed'
    <3>1. Listed /\ (rebuild.at # "idle" => rebuild.run \in Indices)
      BY <1>5, <1>9, Bounds DEF SearchInv, NothingLost, Writes, Shape, RebuildShape, Runs, Indices
    <3> QED
      BY <1>4, <2>2, <2>7, <3>1 DEF Listed
  <2> QED
    BY <2>5, <2>7, <2>8
<1> QED
  BY <1>8, <1>9 DEF SearchInv, NothingLost

(* Reconciliation writes through the alias.                                 *)
LEMMA WriteRecentStep ==
  ASSUME SearchInv, WriteRecent
  PROVE  SearchInv'
<1>1. PICK doc : doc = checked
  OBVIOUS
<1>2. doc \in Doc /\ Fits(doc) /\ alias \in Indices
  BY <1>1, TypeParts DEF WriteRecent, SearchInv, SearchType, DocsFit
<1>3. UNCHANGED <<posting, change, outbox, relay, queue, delayed, alias, run, rebuild, batch, events>>
  BY DEF WriteRecent, source, broker
<1>4. Writes(alias, doc)
  BY <1>1, <1>2, <1>3, WrittenWrites DEF WriteRecent, Reconciled
<1>5. checked' = NoDoc /\ Fits(checked)'
  BY <1>3, NoDocFits DEF WriteRecent, Fits, Current
<1>6. (TypeOK /\ Shape /\ DocsFit /\ RowsFit)'
  BY <1>2, <1>3, <1>4, <1>5, WritesKeep, BatchesSame, RebuildSame
<1>7. ASSUME excused' = {} PROVE (JobsReach /\ Listed /\ \A x \in Runs : Unlisted(x))'
  <2>1. JobsReach'
    BY <1>2, <1>3, <1>4, <1>7, WritesReach DEF Awaited
  <2>2. MayWrite(alias, doc)
    BY DEF MayWrite, SearchInv, Shape, ChangeShape
  <2>3. \A x \in Runs : Unlisted(x)' /\ (run'[x].status = "waiting_for_catchup" => Covered(x)')
    BY <1>2, <1>4, <1>7, <2>2, WritesListing
  <2>4. \A x \in Indices : Covered(x) => Covered(x)'
    BY <1>2, <1>4, <1>7, WritesShow
  <2>5. Listed'
    <3>1. Listed /\ (rebuild.at # "idle" => rebuild.run \in Indices)
      BY <1>4, <1>7, Bounds DEF SearchInv, NothingLost, Writes, Shape, RebuildShape, Runs, Indices
    <3> QED
      BY <1>3, <2>3, <2>4, <3>1 DEF Listed
  <2> QED
    BY <2>1, <2>3, <2>5
<1> QED
  BY <1>6, <1>7 DEF SearchInv, NothingLost

(* The rebuild: what its record becomes.                                    *)
LEMMA RebuildKnown ==
  ASSUME SearchInv
  PROVE  /\ RebuildType /\ RebuildShape /\ Fits(rebuild.doc) /\ Runs \subseteq Indices
         /\ rebuild.at # "idle" => rebuild.run \in Runs
  BY TypeParts, Bounds DEF SearchInv, Shape, RebuildShape, DocsFit, Runs, Indices

(* The rebuild writes the listed document.                                  *)
LEMMA WriteListedStep ==
  ASSUME SearchInv, WriteListed
  PROVE  SearchInv'
<1>1. PICK doc, k : doc = rebuild.doc /\ k = rebuild.run
  OBVIOUS
<1>2. doc \in Doc /\ Fits(doc) /\ k \in Runs /\ k \in Indices /\ run[k].status = "running"
  BY <1>1, RebuildKnown DEF WriteListed, RebuildShape
<1>3. UNCHANGED <<posting, change, outbox, relay, queue, delayed, alias, run, batch, checked, events>>
  BY DEF WriteListed, source, broker
<1>4. Writes(k, doc)
  BY <1>1, <1>2, <1>3, WrittenWrites DEF WriteListed
<1>5. /\ rebuild'.at = "barrier" /\ rebuild'.run = k /\ rebuild'.doc = NoDoc
      /\ RebuildType'
  BY <1>1, RebuildKnown DEF WriteListed, RebuildType
<1>6. RebuildShape' /\ Fits(rebuild.doc)'
  <2>1. Fits(NoDoc)'
    BY <1>3, NoDocFits DEF Fits, Current
  <2> QED
    BY <1>2, <1>3, <1>5, <2>1 DEF RebuildShape
<1>7. (TypeOK /\ Shape /\ DocsFit /\ RowsFit)'
  BY <1>2, <1>3, <1>4, <1>5, <1>6, WritesKeep, BatchesSame, CheckedSame
<1>8. ASSUME excused' = {} PROVE (JobsReach /\ Listed /\ \A x \in Runs : Unlisted(x))'
  <2>0. Listed /\ \A x \in Runs : Unlisted(x)
    BY <1>4, <1>8 DEF Writes, SearchInv, NothingLost
  <2>1. JobsReach'
    BY <1>2, <1>3, <1>4, <1>8, WritesReach DEF Awaited
  <2>2. doc.v = posting.v \/ k \in posting.after
    BY <1>1, <2>0 DEF Listed, WriteListed
  <2>3. doc.v = posting.v \/ Covered(k)
    BY <1>2, <2>0, <2>2 DEF Unlisted
  <2>4. MayWrite(k, doc)
    BY <1>2, <2>2 DEF MayWrite
  <2>5. \A x \in Runs : Unlisted(x)' /\ (run'[x].status = "waiting_for_catchup" => Covered(x)')
    BY <1>2, <1>4, <1>8, <2>4, WritesListing
  <2>6. Covered(k)'
    BY <1>2, <1>4, <1>8, <2>3, WritesShow DEF Covered
  <2>7. Listed'
    BY <1>5, <2>5, <2>6 DEF Listed
  <2> QED
    BY <2>1, <2>5, <2>7
<1> QED
  BY <1>7, <1>8 DEF SearchInv, NothingLost

(* The rebuild lists the posting.                                           *)
LEMMA ListPublishedStep ==
  ASSUME SearchInv, ListPublished
  PROVE  SearchInv'
<1>1. PICK k : k = rebuild.run
  OBVIOUS
<1>2. k \in Runs /\ k \in Indices /\ run[k].status = "running" /\ rebuild.at = "list"
  BY <1>1, RebuildKnown DEF ListPublished, RebuildShape
<1>3. UNCHANGED <<posting, change, outbox, relay, queue, delayed, alias, run, batch, checked,
                  excused, events>>
  BY DEF ListPublished, source, broker
<1>4. index \in [Indices -> Doc] /\ index[k] \in Doc /\ Fits(index[k])
  BY <1>2, TypeParts DEF SearchInv, SearchType, DocsFit
<1>5. PICK doc \in Doc :
         /\ Fits(doc) /\ index' = [index EXCEPT ![k] = doc] /\ doc.v >= index[k].v
         /\ doc = index[k] \/ (doc = Current /\ ~posting.shown)
         /\ ~posting.shown /\ ~index[k].shown => doc = Current
  <2>1. posting.v >= index[k].v /\ index[k].v >= index[k].v
    BY <1>4, PostingKnown, IsVersion DEF Fits, Doc
  <2>2. CASE ~posting.shown /\ ~index[k].shown
    <3>1. index' = [index EXCEPT ![k] = Current]
      BY <1>1, <2>2 DEF ListPublished
    <3> QED
      BY <2>1, <2>2, <3>1, PostingKnown
  <2>3. CASE ~(~posting.shown /\ ~index[k].shown)
    <3>1. index' = index
      BY <1>1, <2>3 DEF ListPublished
    <3>2. index' = [index EXCEPT ![k] = index[k]]
      BY <1>2, <1>4, <3>1
    <3> QED
      BY <1>4, <2>1, <2>3, <3>2
  <2> QED
    BY <2>2, <2>3
<1>6. Writes(k, doc)
  BY <1>2, <1>3, <1>5, RelayKnown DEF Writes, HistoryType
<1>7. /\ \/ /\ posting.shown /\ k \notin posting.after /\ rebuild'.at = "write"
            /\ rebuild'.doc = Current
         \/ /\ ~(posting.shown /\ k \notin posting.after)
            /\ rebuild'.at = "barrier" /\ rebuild'.doc = rebuild.doc
      /\ RebuildType' /\ rebuild'.run = k
  <2>1. RebuildType /\ Current \in Doc
    BY RebuildKnown, PostingKnown
  <2>2. CASE posting.shown /\ k \notin posting.after
    <3>1. rebuild' = [rebuild EXCEPT !.at = "write", !.doc = Current]
      BY <1>1, <2>2 DEF ListPublished
    <3> QED
      BY <1>1, <2>1, <2>2, <3>1 DEF RebuildType
  <2>3. CASE ~(posting.shown /\ k \notin posting.after)
    <3>1. rebuild' = [rebuild EXCEPT !.at = "barrier"]
      BY <1>1, <2>3 DEF ListPublished
    <3> QED
      BY <1>1, <2>1, <2>3, <3>1 DEF RebuildType
  <2> QED
    BY <2>2, <2>3
<1>8. RebuildShape' /\ Fits(rebuild.doc)'
  <2>1. RebuildShape'
    BY <1>2, <1>3, <1>7, PostingKnown DEF RebuildShape
  <2>2. PICK d : d = rebuild'.doc /\ Fits(d)
    BY <1>7, RebuildKnown, PostingKnown
  <2> QED
    BY <1>3, <2>1, <2>2 DEF Fits, Current
<1>9. (TypeOK /\ Shape /\ DocsFit /\ RowsFit)'
  BY <1>2, <1>3, <1>6, <1>7, <1>8, WritesKeep, BatchesSame, CheckedSame
<1>10. ASSUME excused' = {} PROVE (JobsReach /\ Listed /\ \A x \in Runs : Unlisted(x))'
  <2>0. Listed /\ \A x \in Runs : Unlisted(x)
    BY <1>6, <1>10 DEF Writes, SearchInv, NothingLost
  <2>1. JobsReach'
    BY <1>2, <1>3, <1>6, <1>10, WritesReach DEF Awaited
  <2>2. MayWrite(k, doc)
    <3>1. k \in posting.after \/ index[k].v = posting.v \/ ~index[k].shown
      BY <1>2, <2>0 DEF Unlisted, Shown
    <3> QED
      BY <1>2, <1>5, <3>1, PostingKnown DEF MayWrite
  <2>3. \A x \in Runs : Unlisted(x)' /\ (run'[x].status = "waiting_for_catchup" => Covered(x)')
    BY <1>2, <1>6, <1>10, <2>2, WritesListing
  <2>4. ASSUME rebuild'.at = "barrier" PROVE Covered(k)'
    <3>1. /\ doc.v = posting.v => Shown(k)'
          /\ Covered(k) => Covered(k)'
      BY <1>2, <1>6, <1>10, WritesShow
    <3>2. CASE k \in posting.after
      BY <1>2, <2>0, <3>1, <3>2 DEF Unlisted
    <3>3. CASE k \notin posting.after /\ ~posting.shown /\ index[k].shown
      BY <1>2, <2>0, <3>1, <3>3 DEF Unlisted, Covered
    <3>4. CASE ~posting.shown /\ ~index[k].shown
      BY <1>5, <3>1, <3>4, PostingKnown DEF Covered
    <3> QED
      BY <1>7, <2>4, <3>2, <3>3, <3>4
  <2>5. Listed'
    BY <1>3, <1>7, <2>3, <2>4, PostingKnown DEF Listed
  <2> QED
    BY <2>1, <2>3, <2>5
<1> QED
  BY <1>9, <1>10 DEF SearchInv, NothingLost

-----------------------------------------------------------------------------
(* Steps of runs, of transactions that begin and of reads.                  *)

(* The status a run may have after a step that neither lists nor bars it.   *)
Later(s) ==
    CASE s = "none" -> {"none", "starting"}
      [] s = "starting" -> {"starting", "pending"}
      [] s = "pending" -> {"pending", "running"}
      [] s = "running" -> {"running", "failed"}
      [] s = "waiting_for_catchup" -> {"waiting_for_catchup", "completed", "failed"}
      [] OTHER -> {s}

(* Rows, documents and the posting stay; runs move on; the rebuild begins, ends
   or stays.                                                                *)
Turns ==
    /\ UNCHANGED <<posting, outbox, queue, delayed, batch, index, alias, excused>>
    /\ Event \/ UNCHANGED events
    /\ (RelayType /\ RelayShape /\ RunType /\ RebuildType /\ RebuildShape)'
    /\ (Fits(rebuild.doc) /\ Fits(checked))' /\ checked' \in Doc \cup {NoDoc}
    /\ \A x \in Runs : /\ run'[x].barrier = run[x].barrier /\ run'[x].covers = run[x].covers
                       /\ run'[x].status \in Later(run[x].status)
    /\ rebuild'.at \in {"write", "barrier"} => rebuild' = rebuild

(* Runs that move on keep their barrier, and no run is forgotten.           *)
LEMMA TurnsRuns ==
  ASSUME SearchInv, Turns
  PROVE  /\ \A x \in Runs : RunShape(run[x])'
         /\ \A x \in Runs : run[x].status # "none" => run'[x].status # "none"
         /\ alias' \in Runs =>
              run'[alias'].status \in {"waiting_for_catchup", "completed", "failed"}
         /\ RowsBounded'
<1>1. \A x \in Runs : RunShape(run[x]) /\ run'[x].barrier = run[x].barrier
                      /\ run'[x].status \in Later(run[x].status)
  BY DEF SearchInv, Shape, Turns
<1>2. Ids' = Ids /\ Barriered' = Barriered
  BY <1>1 DEF Turns, Ids, Barriered
<1>3. \A x \in Runs : RunShape(run[x])'
  BY <1>1, <1>2 DEF RunShape, Later
<1>4. \A x \in Runs : run[x].status # "none" => run'[x].status # "none"
  BY <1>1 DEF Later
<1>5. alias' \in Runs => run'[alias'].status \in {"waiting_for_catchup", "completed", "failed"}
  BY <1>1 DEF Later, SearchInv, Shape, ChangeShape, Turns
<1>6. RowsBounded'
  BY <1>2 DEF SearchInv, Shape, RowsBounded, Turns
<1> QED
  BY <1>3, <1>4, <1>5, <1>6

(* Such a step preserves the invariant.                                     *)
LEMMA TurnsStep ==
  ASSUME SearchInv, Turns, SourceType',
         change'.on => posting'.after \subseteq change'.after /\ posting'.v <= MaxChanges,
         change'.on => (change'.op = "upsert" <=> change'.shown),
         change'.sees \in Runs => change'.sees \in change'.after,
         \A k \in change'.after : run'[k].status # "none"
  PROVE  SearchInv'
<1>1. TypeOK'
  <2>1. BrokerType' /\ BatchType' /\ OutboxType'
    BY BatchesSame, TypeParts DEF SearchInv, Turns, BrokerType, OutboxType, Ids
  <2>2. HistoryType' /\ SearchType'
    BY EventFits, TypeParts DEF SearchInv, Turns, SearchType
  <2> QED
    BY <2>1, <2>2, TypePartsNext DEF Turns
<1>2. Shape'
  <2>1. outbox' \in Seq(Row) /\ RelayShape' /\ RebuildShape'
    BY DEF Turns, SearchInv, Shape
  <2>2. ChangeShape'
    <3>1. \A k \in posting'.after : k \in Runs /\ run[k].status # "none"
      BY PostingKnown DEF SearchInv, Shape, ChangeShape, Turns
    <3>2. posting'.v >= 1
      BY PostingKnown DEF Turns
    <3> QED
      BY <3>1, <3>2, TurnsRuns DEF ChangeShape
  <2>3. \A w \in Indexers : BatchShape(batch[w])'
    BY BatchesSame DEF Turns, BatchFits
  <2> QED
    BY <2>1, <2>2, <2>3, TurnsRuns DEF Shape
<1>3. DocsFit'
  <2>1. \A x \in Indices : Fits(index[x])'
    BY DEF SearchInv, DocsFit, Turns, Fits, Current
  <2>2. \A x \in Runs : run'[x].covers.v <= posting'.v
    BY DEF SearchInv, DocsFit, Turns
  <2> QED
    BY <2>1, <2>2, BatchesSame DEF DocsFit, Turns, BatchFits
<1>4. RowsFit'
  BY DEF SearchInv, RowsFit, Turns, Newest, IsJob, Ids
<1>5. ASSUME excused' = {} PROVE (JobsReach /\ Listed /\ \A x \in Runs : Unlisted(x))'
  <2>1. /\ JobsReach /\ Listed /\ \A x \in Runs : Unlisted(x)
        /\ UNCHANGED <<posting, outbox, batch, index, alias>>
    BY <1>5 DEF SearchInv, NothingLost, Turns
  <2>2. /\ \A i : (Newest(i)' <=> Newest(i)) /\ (Awaited(i)' <=> Awaited(i))
        /\ \A k : Shown(k)' <=> Shown(k)
    BY <2>1 DEF Newest, IsJob, Awaited, Shown
  <2>3. \A k : Covered(k)' <=> Covered(k)
    BY <2>1, <2>2 DEF Covered, Ids
  <2>4. JobsReach'
    BY <2>1, <2>2, <2>3 DEF JobsReach, Ids
  <2>5. Listed'
    BY <2>1, <2>3 DEF Listed, Turns, Later
  <2>6. ASSUME NEW x \in Runs PROVE Unlisted(x)'
    <3>1. run[x].status = "none" => x \notin posting.after
      BY DEF SearchInv, Shape, ChangeShape
    <3>2. run'[x].status \in Later(run[x].status) /\ Unlisted(x)
      BY <2>1 DEF Turns
    <3> QED
      BY <2>1, <2>2, <2>3, <3>1, <3>2 DEF Unlisted, Later
  <2> QED
    BY <2>4, <2>5, <2>6
<1> QED
  BY <1>1, <1>2, <1>3, <1>4, <1>5 DEF SearchInv, NothingLost

(* The same for a step that leaves the transaction alone.                   *)
LEMMA TurnsAlone ==
  ASSUME SearchInv, Turns, UNCHANGED change
  PROVE  SearchInv'
<1>1. SourceType' /\ change'.after \subseteq Runs
  BY TypeParts DEF SearchInv, SourceType, Turns
<1>2. /\ change'.on => posting'.after \subseteq change'.after /\ posting'.v <= MaxChanges
      /\ change'.on => (change'.op = "upsert" <=> change'.shown)
      /\ change'.sees \in Runs => change'.sees \in change'.after
      /\ \A k \in change'.after : run'[k].status # "none"
  BY <1>1, TurnsRuns DEF SearchInv, Shape, ChangeShape, Turns
<1> QED
  BY <1>1, <1>2, TurnsStep

(* One run moves on.                                                        *)
LEMMA RunMoves ==
  ASSUME SearchInv, UNCHANGED outbox, NEW k \in Runs, NEW s \in Later(run[k].status),
         run' = [run EXCEPT ![k].status = s]
  PROVE  /\ RunType'
         /\ \A x \in Runs : /\ run'[x].barrier = run[x].barrier /\ run'[x].covers = run[x].covers
                            /\ run'[x].status \in Later(run[x].status)
         /\ run'[k].status = s /\ \A x \in Runs : x # k => run'[x] = run[x]
<1> DEFINE Statuses == {"none", "starting", "pending", "running", "waiting_for_catchup",
                        "completed", "failed"}
<1>1. RunType /\ Ids' = Ids
  BY TypeParts DEF SearchInv, Ids
<1>2. run[k].status \in Statuses
  BY <1>1 DEF RunType
<1>3. s \in Statuses
  BY <1>2 DEF Later
<1>4. RunType'
  BY <1>1, <1>3 DEF RunType
<1>5. /\ run'[k].barrier = run[k].barrier /\ run'[k].covers = run[k].covers /\ run'[k].status = s
      /\ \A x \in Runs : x # k => run'[x] = run[x]
  BY <1>1 DEF RunType
<1>6. \A x \in Runs : run[x].status \in Later(run[x].status)
  BY <1>1 DEF RunType, Later
<1> QED
  BY <1>4, <1>5, <1>6

(* No run moves.                                                            *)
LEMMA RunsSame ==
  ASSUME SearchInv, UNCHANGED <<outbox, run>>
  PROVE  /\ RunType'
         /\ \A x \in Runs : /\ run'[x].barrier = run[x].barrier /\ run'[x].covers = run[x].covers
                            /\ run'[x].status \in Later(run[x].status)
  BY TypeParts DEF SearchInv, RunType, Later, Ids

(* The relay stays, or is idle.                                             *)
LEMMA RelaySame ==
  ASSUME SearchInv, UNCHANGED outbox, relay' \in {relay, NoRelay}
  PROVE  (RelayType /\ RelayShape)'
<1>1. RelayType /\ RelayShape /\ Ids' = Ids
  BY RelayKnown DEF Ids
<1>2. CASE relay' = relay
  BY <1>1, <1>2 DEF RelayType, RelayShape
<1>3. CASE relay' = NoRelay
  BY <1>3 DEF RelayType, RelayShape, NoRelay
<1> QED
  BY <1>2, <1>3

(* The rebuild ends.                                                        *)
LEMMA RebuildEnds ==
  ASSUME SearchInv, UNCHANGED posting, rebuild' = NoRebuild
  PROVE  (RebuildType /\ RebuildShape /\ Fits(rebuild.doc))' /\ rebuild'.at = "idle"
<1>1. Fits(NoDoc)' /\ rebuild'.doc = NoDoc
  BY NoDocFits DEF Fits, Current, NoRebuild
<1> QED
  BY <1>1 DEF NoRebuild, RebuildType, RebuildShape

(* A transaction begins.                                                    *)
LEMMA BeginChangeStep ==
  ASSUME SearchInv, BeginChange
  PROVE  SearchInv'
<1>1. PICK shown \in BOOLEAN :
         change' = [on |-> TRUE, shown |-> shown, op |-> IF shown THEN "upsert" ELSE "delete",
                    sees |-> Latest({k \in Runs : Active(k)}),
                    after |-> {k \in Runs : run[k].status # "none"}]
  BY DEF BeginChange
<1>2. /\ Latest({k \in Runs : Active(k)}) \in {LIVE} \cup Runs
      /\ Latest({k \in Runs : Active(k)}) \in Runs =>
            run[Latest({k \in Runs : Active(k)})].status # "none"
  <2> DEFINE K == {k \in Runs : Active(k)}
  <2>1. CASE K = {}
    BY <2>1 DEF Latest, LIVE, Runs
  <2>2. CASE K # {}
    <3>1. K \subseteq 0 .. MaxRuns
      BY Bounds DEF Runs
    <3>2. Max(K) \in K
      BY <2>2, <3>1, MaxMember, Bounds
    <3> QED
      BY <2>2, <3>2 DEF Latest, Active
  <2> QED
    BY <2>1, <2>2
<1>3. UNCHANGED <<posting, outbox, relay, queue, delayed, batch, index, alias, run, rebuild, checked,
                  excused>> /\ Event
  BY DEF BeginChange, broker, search
<1>4. Turns
  BY <1>3, RunsSame, RelaySame, RebuildSame, CheckedSame DEF Turns
<1>5. SourceType'
  BY <1>1, <1>2, <1>3, TypeParts DEF SearchInv, SourceType
<1>6. posting'.after \subseteq change'.after /\ posting'.v <= MaxChanges
  BY <1>1, <1>3, PostingKnown DEF SearchInv, Shape, ChangeShape, BeginChange
<1>7. change'.op = "upsert" <=> change'.shown
  BY <1>1
<1>8. /\ change'.sees \in Runs => change'.sees \in change'.after
      /\ \A k \in change'.after : run'[k].status # "none"
  BY <1>1, <1>2, <1>3
<1> QED
  BY <1>4, <1>5, <1>6, <1>7, <1>8, TurnsStep

(* Starting a run.                                                          *)
LEMMA StartStep ==
  ASSUME SearchInv, NEW k \in Runs, StartReindex(k) \/ CommitStart(k)
  PROVE  SearchInv'
<1>1. UNCHANGED <<posting, change, outbox, relay, queue, delayed, batch, index, alias, rebuild, checked,
                  excused>> /\ (Event \/ UNCHANGED events)
  BY DEF StartReindex, CommitStart, source, broker, search
<1>2. PICK s \in {"starting", "pending"} :
         /\ run' = [run EXCEPT ![k].status = s] /\ s \in Later(run[k].status)
         /\ run[k].status \in {"none", "starting"}
  BY DEF StartReindex, CommitStart, Later, NoRun
<1>3. rebuild'.at # "idle" => rebuild'.run # k
  BY <1>1, <1>2, RebuildKnown DEF RebuildShape, RebuildType
<1>4. (RebuildType /\ RebuildShape /\ Fits(rebuild.doc))'
  <2>1. \A x \in Runs : x # k => run'[x] = run[x]
    BY <1>1, <1>2, RunMoves
  <2>2. RebuildType' /\ Fits(rebuild.doc)'
    BY <1>1, RebuildKnown DEF RebuildType, Fits, Current
  <2> QED
    BY <1>1, <1>3, <2>1, <2>2, RebuildKnown DEF RebuildShape
<1>5. Turns
  BY <1>1, <1>2, <1>4, RunMoves, RelaySame, CheckedSame DEF Turns
<1> QED
  BY <1>1, <1>5, TurnsAlone

(* Claiming a run.                                                          *)
LEMMA ClaimRunStep ==
  ASSUME SearchInv, NEW k \in Runs, ClaimRun(k)
  PROVE  SearchInv'
<1>1. /\ UNCHANGED <<posting, change, outbox, relay, queue, delayed, batch, index, alias, checked,
                     excused, events>>
      /\ rebuild = NoRebuild /\ rebuild.at = "idle"
  BY DEF ClaimRun, source, broker, search, MaintainerIdle, NoRebuild
<1>2. Fits(NoDoc)'
  BY <1>1, NoDocFits DEF Fits, Current
<1>3. CASE /\ run[k].status \in {"pending", "running"}
           /\ run' = [run EXCEPT ![k].status = "running"]
           /\ rebuild' = [NoRebuild EXCEPT !.at = "list", !.run = k]
  <2>1. "running" \in Later(run[k].status)
    BY <1>3 DEF Later
  <2>2. RebuildType' /\ rebuild'.at = "list" /\ rebuild'.run = k /\ rebuild'.doc = NoDoc
    BY <1>3 DEF RebuildType, NoRebuild
  <2>3. (RebuildShape /\ Fits(rebuild.doc))'
    <3>1. run'[k].status = "running"
      BY <1>1, <1>3, <2>1, RunMoves
    <3>2. Fits(rebuild.doc)'
      BY <1>2, <2>2 DEF Fits, Current
    <3> QED
      BY <2>2, <3>1, <3>2 DEF RebuildShape
  <2>4. Turns
    BY <1>1, <1>3, <2>1, <2>2, <2>3, RunMoves, RelaySame, CheckedSame DEF Turns
  <2> QED
    BY <1>1, <2>4, TurnsAlone
<1>4. CASE /\ run[k].status = "waiting_for_catchup"
           /\ run' = [run EXCEPT ![k].status = "failed"]
           /\ UNCHANGED rebuild
  <2>1. "failed" \in Later(run[k].status)
    BY <1>4 DEF Later
  <2>2. Turns
    BY <1>1, <1>4, <2>1, RebuildEnds, RunMoves, RelaySame, CheckedSame DEF Turns
  <2> QED
    BY <1>1, <2>2, TurnsAlone
<1>5. CASE /\ run[k].status = "waiting_for_catchup"
           /\ rebuild' = [NoRebuild EXCEPT !.at = "swap", !.run = k]
           /\ UNCHANGED run
  <2>1. RebuildType' /\ rebuild'.at = "swap" /\ rebuild'.run = k /\ rebuild'.doc = NoDoc
    BY <1>5 DEF RebuildType, NoRebuild
  <2>2. (RebuildShape /\ Fits(rebuild.doc))'
    BY <1>2, <1>5, <2>1 DEF RebuildShape
  <2>3. Turns
    BY <1>1, <1>5, <2>1, <2>2, RunsSame, RelaySame, CheckedSame DEF Turns
  <2> QED
    BY <1>1, <2>3, TurnsAlone
<1> QED
  BY <1>3, <1>4, <1>5 DEF ClaimRun

(* A run is completed or fails.                                             *)
LEMMA RunEndsStep ==
  ASSUME SearchInv, MarkRunCompleted \/ RunFails
  PROVE  SearchInv'
<1>1. /\ UNCHANGED <<posting, change, outbox, relay, queue, delayed, batch, index, alias, checked,
                     excused>>
      /\ Event \/ UNCHANGED events
      /\ rebuild' = NoRebuild
  BY DEF MarkRunCompleted, RunFails, source, broker, search
<1>2. PICK k \in Runs : k = rebuild.run /\ run[k].status \in {"running", "waiting_for_catchup"}
                        /\ (rebuild.at = "complete" => run[k].status = "waiting_for_catchup")
  BY RebuildKnown DEF MarkRunCompleted, RunFails, RebuildShape, RebuildType
<1>3. PICK s \in {"completed", "failed"} :
         run' = [run EXCEPT ![k].status = s] /\ s \in Later(run[k].status)
  BY <1>2 DEF MarkRunCompleted, RunFails, Later
<1>4. Turns
  BY <1>1, <1>3, RunMoves, RelaySame, RebuildEnds, CheckedSame DEF Turns
<1> QED
  BY <1>1, <1>4, TurnsAlone

(* The maintainer dies.                                                     *)
LEMMA MaintainerCrashesStep ==
  ASSUME SearchInv, MaintainerCrashes
  PROVE  SearchInv'
<1>1. /\ UNCHANGED <<posting, change, outbox, queue, delayed, batch, index, alias, run, excused>>
      /\ Event /\ relay' = NoRelay /\ rebuild' = NoRebuild /\ checked' = NoDoc
  BY DEF MaintainerCrashes, source, broker, search
<1>2. Fits(checked)'
  BY <1>1, NoDocFits DEF Fits, Current
<1>3. Turns
  BY <1>1, <1>2, RunsSame, RelaySame, RebuildEnds DEF Turns
<1> QED
  BY <1>1, <1>3, TurnsAlone

(* Reconciliation reads the posting.                                        *)
LEMMA ReadRecentStep ==
  ASSUME SearchInv, ReadRecent
  PROVE  SearchInv'
<1>1. /\ UNCHANGED <<posting, change, outbox, relay, queue, delayed, batch, index, alias, run, rebuild,
                     excused, events>>
      /\ checked' = Current
  BY DEF ReadRecent, source, broker, search
<1>2. Fits(checked)' /\ checked' \in Doc
  BY <1>1, PostingKnown DEF Fits, Current
<1>3. Turns
  BY <1>1, <1>2, RunsSame, RelaySame, RebuildSame DEF Turns
<1> QED
  BY <1>1, <1>3, TurnsAlone

-----------------------------------------------------------------------------
(* The alias moves, a barrier is set, a transaction commits.                *)

(* The alias moves to an index that shows the latest version or will.       *)
LEMMA SwapAliasesStep ==
  ASSUME SearchInv, SwapAliases
  PROVE  SearchInv'
<1>1. PICK k \in Runs : k = rebuild.run /\ run[k].status = "waiting_for_catchup"
  BY RebuildKnown DEF SwapAliases, RebuildShape
<1>2. /\ UNCHANGED <<posting, change, outbox, relay, queue, delayed, batch, index, run, checked, excused,
                     events>>
      /\ alias' = k /\ k \in Indices
  BY <1>1, RebuildKnown DEF SwapAliases, source, broker
<1>3. rebuild'.at = "complete" /\ rebuild'.run = k /\ rebuild'.doc = rebuild.doc /\ RebuildType'
  BY <1>1, RebuildKnown DEF SwapAliases, RebuildType
<1>4. Ids' = Ids
  BY <1>2 DEF Ids
<1>5. TypeOK'
  <2>1. RelayType' /\ BrokerType' /\ BatchType' /\ RunType' /\ HistoryType' /\ SourceType' /\ OutboxType'
    BY <1>2, <1>4, TypeParts DEF SearchInv, RelayType, BrokerType, BatchType, Batch, RunType,
       HistoryType, SourceType, OutboxType
  <2>2. SearchType'
    BY <1>2, TypeParts DEF SearchInv, SearchType
  <2> QED
    BY <1>3, <2>1, <2>2, TypePartsNext
<1>6. Shape'
  <2>1. RelayShape' /\ RowsBounded' /\ \A x \in Runs : RunShape(run[x])'
    BY <1>2, <1>4 DEF SearchInv, Shape, RelayShape, RowsBounded, Barriered, RunShape
  <2>2. RebuildShape'
    BY <1>1, <1>2, <1>3 DEF RebuildShape
  <2>3. ChangeShape'
    BY <1>1, <1>2 DEF SearchInv, Shape, ChangeShape
  <2>4. \A w \in Indexers : BatchShape(batch[w])'
    BY <1>2, BatchesSame DEF BatchFits
  <2> QED
    BY <1>2, <2>1, <2>2, <2>3, <2>4 DEF SearchInv, Shape
<1>7. DocsFit'
  BY <1>2, <1>3 DEF SearchInv, DocsFit, Fits, Current, IsJob
<1>8. RowsFit'
  BY <1>2, <1>4 DEF SearchInv, RowsFit, Newest, IsJob
<1>9. ASSUME excused' = {} PROVE (JobsReach /\ Listed /\ \A x \in Runs : Unlisted(x))'
  <2>1. JobsReach /\ Listed /\ \A x \in Runs : Unlisted(x)
    BY <1>2, <1>9 DEF SearchInv, NothingLost
  <2>2. /\ \A i : (Newest(i)' <=> Newest(i)) /\ (Awaited(i)' <=> Awaited(i))
        /\ \A x : Shown(x)' <=> Shown(x)
    BY <1>2 DEF Newest, IsJob, Awaited, Shown
  <2>3. \A x \in Runs :
           (index[x].v = posting.v \/ \E i \in Ids : Newest(i) /\ outbox[i].run = x)' <=> Covered(x)
    BY <1>2, <1>4, <2>2 DEF Covered, Shown
  <2>4. Covered(alias)'
    <3>1. Covered(k)
      BY <1>1, <2>1 DEF Listed
    <3> QED
      BY <1>2, <2>3, <3>1 DEF Covered, Shown
  <2>5. \A x \in Runs : Covered(x)' <=> Covered(x)
    BY <2>3 DEF Covered, Shown
  <2>6. JobsReach'
    BY <1>2, <1>4, <2>1, <2>2, <2>4 DEF JobsReach
  <2>7. Listed' /\ \A x \in Runs : Unlisted(x)'
    BY <1>2, <1>3, <2>1, <2>2, <2>5 DEF Listed, Unlisted
  <2> QED
    BY <2>6, <2>7
<1> QED
  BY <1>5, <1>6, <1>7, <1>8, <1>9 DEF SearchInv, NothingLost

(* The rows fit their bound.                                                *)
LEMMA RowsInBound ==
  ASSUME NEW n \in Nat, NEW v \in Versions, NEW B \in SUBSET Runs,
         n <= 2 * (v - 1) + Cardinality(B)
  PROVE  1 .. n \subseteq Rows
<1>1. IsFiniteSet(Runs) /\ Cardinality(Runs) = MaxRuns
  <2>1. MaxRuns \in Nat
    BY Bounds
  <2>2. 1 \in Int /\ MaxRuns \in Int /\ (1 > MaxRuns => MaxRuns = 0) /\ MaxRuns - 1 + 1 = MaxRuns
    BY <2>1
  <2> QED
    BY <2>2, FS_Interval DEF Runs
<1>2. Cardinality(B) <= MaxRuns /\ Cardinality(B) \in Nat
  BY <1>1, FS_Subset, FS_CardinalityType
<1>3. v \in Nat /\ v <= MaxChanges + 1
  BY IsVersion
<1>4. n <= 2 * MaxChanges + MaxRuns
  BY <1>2, <1>3, Bounds
<1> QED
  BY <1>4, Bounds DEF Rows

(* What refers to rows still does when rows are added.                      *)
LEMMA GrowthKeeps ==
  ASSUME SearchInv, Ids \subseteq Ids', \A i \in Ids : outbox'[i] = outbox[i],
         UNCHANGED <<relay, queue, delayed, batch>>
  PROVE  /\ (RelayType /\ RelayShape /\ BrokerType /\ BatchType)'
         /\ \A w \in Indexers : BatchShape(batch[w])'
         /\ \A w \in Indexers : batch'[w].at = "write" =>
              /\ batch'[w].row \in Ids /\ IsJob(batch[w].row)'
              /\ batch'[w].doc.v >= outbox'[batch'[w].row].v
<1>1. RelayType /\ RelayShape /\ BrokerType /\ BatchType /\ \A w \in Indexers : BatchFits(w)
  BY TypeParts DEF SearchInv, Shape, DocsFit, BatchFits
<1>2. (RelayType /\ RelayShape /\ BatchType)'
  BY <1>1 DEF RelayType, RelayShape, BatchType, Batch
<1>3. BrokerType'
  <2>1. queue \in Seq(Ids) /\ delayed \subseteq Ids
    BY <1>1 DEF BrokerType
  <2>2. queue \in Seq(Ids')
    BY <2>1
  <2> QED
    BY <2>1, <2>2 DEF BrokerType
<1>4. \A w \in Indexers : BatchShape(batch[w])'
  BY <1>1 DEF BatchFits, BatchShape
<1>5. \A w \in Indexers : batch[w].at = "write" =>
        /\ batch[w].row \in Ids /\ outbox'[batch[w].row].op # "barrier"
        /\ batch[w].doc.v >= outbox'[batch[w].row].v
  BY <1>1 DEF BatchFits, BatchShape, IsJob
<1> QED
  BY <1>2, <1>3, <1>4, <1>5 DEF IsJob

(* The barrier of a run whose index shows the latest version or will.       *)
LEMMA EnqueueBarrierStep ==
  ASSUME SearchInv, EnqueueBarrier
  PROVE  SearchInv'
<1>1. PICK k \in Runs : k = rebuild.run /\ run[k].status = "running" /\ run[k].barrier = 0
  BY RebuildKnown DEF EnqueueBarrier, RebuildShape, SearchInv, Shape, RunShape
<1>2. /\ UNCHANGED <<posting, change, relay, queue, delayed, batch, index, alias, checked, excused,
                     events>>
      /\ rebuild' = NoRebuild /\ outbox' = Append(outbox, NewRow("barrier", k, 0))
      /\ run' = [run EXCEPT ![k] = [status |-> "waiting_for_catchup",
                                    barrier |-> Len(outbox) + 1, covers |-> Current]]
  BY <1>1 DEF EnqueueBarrier, source, broker, search
<1>3. PICK n \in Nat : n = Len(outbox) + 1 /\ Len(outbox) \in Nat
  BY RelayKnown
<1>4. PICK row \in Row : row = NewRow("barrier", k, 0) /\ row.op = "barrier" /\ row.v = 0
  <2>1. NewRow("barrier", k, 0) \in Row
    <3>1. 0 \in Versions
      BY Bounds DEF Versions
    <3> QED
      BY <3>1, NewRowType
  <2>2. NewRow("barrier", k, 0).op = "barrier" /\ NewRow("barrier", k, 0).v = 0
    BY DEF NewRow
  <2> QED
    BY <2>1, <2>2
<1>5. /\ outbox' \in Seq(Row) /\ Len(outbox') = n /\ Ids' = Ids \cup {n} /\ n \notin Ids
      /\ outbox'[n] = row /\ \A i \in Ids : outbox'[i] = outbox[i]
      /\ Ids' = 1 .. n
  <2>1. outbox \in Seq(Row) /\ outbox' = Append(outbox, row) /\ Ids = 1 .. Len(outbox)
    BY <1>2, <1>4, RelayKnown DEF Ids
  <2> QED
    BY <1>3, <2>1 DEF Ids
<1>6. /\ run'[k].status = "waiting_for_catchup" /\ run'[k].barrier = n /\ run'[k].covers = Current
      /\ \A x \in Runs : x # k => run'[x] = run[x]
      /\ RunType'
  <2>1. RunType /\ Current \in Doc
    BY PostingKnown, TypeParts DEF SearchInv
  <2>2. /\ run'[k] = [status |-> "waiting_for_catchup", barrier |-> n, covers |-> Current]
        /\ \A x \in Runs : x # k => run'[x] = run[x]
    BY <1>2, <1>3, <2>1 DEF RunType
  <2>3. \A x \in Runs : run'[x] \in
          [status : {"none", "starting", "pending", "running", "waiting_for_catchup", "completed",
                     "failed"}, barrier : {0} \cup Ids', covers : Doc \cup {NoDoc}]
    BY <1>5, <2>1, <2>2 DEF RunType
  <2>4. run' = [x \in Runs |-> run'[x]]
    BY <1>2, <2>1 DEF RunType
  <2> QED
    BY <2>2, <2>3, <2>4 DEF RunType
<1>7. RowsBounded'
  <2>1. Barriered' = Barriered \cup {k} /\ k \notin Barriered
    BY <1>1, <1>3, <1>6 DEF Barriered
  <2>2. IsFiniteSet(Runs) /\ Barriered \subseteq Runs
    BY Bounds, FS_Interval DEF Runs, Barriered
  <2>3. IsFiniteSet(Barriered) /\ Cardinality(Barriered) \in Nat
    BY <2>2, FS_Subset, FS_CardinalityType
  <2>4. Cardinality(Barriered') = Cardinality(Barriered) + 1
    BY <2>1, <2>3, FS_AddElement
  <2> QED
    BY <1>2, <1>3, <1>5, <2>3, <2>4, PostingKnown DEF SearchInv, Shape, RowsBounded
<1>8. TypeOK'
  <2>1. OutboxType'
    <3>1. 1 .. n \subseteq Rows
      <4>1. Barriered' \in SUBSET Runs /\ n <= 2 * (posting.v - 1) + Cardinality(Barriered')
        BY <1>2, <1>5, <1>7 DEF Barriered, RowsBounded
      <4> QED
        BY <4>1, RowsInBound, PostingKnown
    <3>2. \A i \in Ids' : outbox'[i] \in Row
      BY <1>5, RelayKnown
    <3> QED
      BY <1>5, <3>1, <3>2 DEF OutboxType
  <2>2. HistoryType' /\ SourceType' /\ SearchType'
    BY <1>2, TypeParts DEF SearchInv, HistoryType, SourceType, SearchType
  <2> QED
    BY <1>2, <1>5, <1>6, <2>1, <2>2, GrowthKeeps, RebuildEnds, TypePartsNext
<1>9. Shape'
  <2>1. ChangeShape'
    BY <1>1, <1>2, <1>6 DEF SearchInv, Shape, ChangeShape
  <2>2. \A x \in Runs : RunShape(run[x])'
    BY <1>5, <1>6 DEF SearchInv, Shape, RunShape
  <2> QED
    BY <1>2, <1>5, <1>7, <2>1, <2>2, GrowthKeeps, RebuildEnds DEF Shape
<1>10. DocsFit'
  <2>1. /\ \A x \in Indices : Fits(index[x])'
        /\ Fits(checked)' /\ \A w \in Indexers : Fits(batch[w].doc)'
    BY <1>2 DEF SearchInv, DocsFit, Fits, Current
  <2>2. \A x \in Runs : run'[x].covers.v <= posting'.v
    BY <1>2, <1>6, PostingKnown DEF SearchInv, DocsFit
  <2> QED
    BY <1>2, <1>5, <2>1, <2>2, GrowthKeeps, RebuildEnds DEF DocsFit
<1>11. /\ \A i \in Ids : (Newest(i)' <=> Newest(i)) /\ (IsJob(i)' <=> IsJob(i))
       /\ ~IsJob(n)' /\ ~Newest(n)'
  BY <1>2, <1>4, <1>5 DEF Newest, IsJob
<1>12. RowsFit'
  <2>1. \A i \in Ids' : /\ outbox'[i].v <= posting'.v
                        /\ Newest(i)' => (outbox'[i].op = "upsert" <=> posting'.shown)
                        /\ IsJob(i)' /\ outbox'[i].run \in Runs => outbox'[i].run \in posting'.after
    <3>1. \A i \in Ids : /\ outbox[i].v <= posting.v
                         /\ Newest(i) => (outbox[i].op = "upsert" <=> posting.shown)
                         /\ IsJob(i) /\ outbox[i].run \in Runs => outbox[i].run \in posting.after
      BY DEF SearchInv, RowsFit
    <3>2. outbox'[n].v <= posting'.v
      BY <1>2, <1>4, <1>5, PostingKnown
    <3> QED
      BY <1>2, <1>5, <1>11, <3>1, <3>2
  <2>2. \A i, j \in Ids' : i < j /\ IsJob(i)' /\ IsJob(j)' /\ outbox'[i].run = outbox'[j].run
            => outbox'[i].v < outbox'[j].v
    BY <1>5, <1>11 DEF SearchInv, RowsFit
  <2> QED
    BY <2>1, <2>2 DEF RowsFit
<1>13. ASSUME excused' = {} PROVE (JobsReach /\ Listed /\ \A x \in Runs : Unlisted(x))'
  <2>1. JobsReach /\ Listed /\ \A x \in Runs : Unlisted(x)
    BY <1>2, <1>13 DEF SearchInv, NothingLost
  <2>2. \A x : (Shown(x)' <=> Shown(x)) /\ (Covered(x)' <=> Covered(x))
    <3>1. \A x : Shown(x)' <=> Shown(x)
      BY <1>2 DEF Shown
    <3> QED
      BY <1>5, <1>11, <3>1 DEF Covered
  <2>3. \A i \in Ids : Awaited(i)' <=> Awaited(i)
    BY <1>2, <1>5 DEF Awaited
  <2>4. JobsReach'
    <3>1. \A i \in Ids' : Newest(i)' /\ outbox'[i].run \in Runs => Awaited(i)' \/ Shown(outbox[i].run)'
      BY <1>5, <1>11, <2>1, <2>2, <2>3 DEF JobsReach
    <3>2. \A i \in Ids' : Newest(i)' /\ outbox'[i].run = LIVE => Awaited(i)' \/ Covered(alias)'
      BY <1>2, <1>5, <1>11, <2>1, <2>2, <2>3 DEF JobsReach
    <3>3. posting'.v = 1 => Covered(alias)'
      BY <1>2, <2>1, <2>2 DEF JobsReach
    <3>4. posting'.v > 1 => \E i \in Ids' : Newest(i)' /\ outbox'[i].run = LIVE
      BY <1>2, <1>5, <1>11, <2>1 DEF JobsReach
    <3> QED
      BY <3>1, <3>2, <3>3, <3>4 DEF JobsReach
  <2>5. Listed'
    <3>1. Covered(k)
      BY <1>1, <2>1 DEF Listed, EnqueueBarrier
    <3> QED
      BY <1>2, <1>6, <2>1, <2>2, <3>1, RebuildEnds DEF Listed
  <2>6. \A x \in Runs : Unlisted(x)'
    BY <1>1, <1>2, <1>6, <2>1, <2>2 DEF Unlisted
  <2> QED
    BY <2>4, <2>5, <2>6
<1> QED
  BY <1>8, <1>9, <1>10, <1>12, <1>13 DEF SearchInv, NothingLost

(* The rows that a transaction adds.                                        *)
Added == Ids' \ Ids

(* A change adds one row of the live index and maybe one of the run it saw. *)
LEMMA CommitAdds ==
  ASSUME SearchInv, CommitChange
  PROVE  /\ outbox' \in Seq(Row) /\ Ids \subseteq Ids' /\ Ids' = 1 .. Len(outbox')
         /\ Len(outbox') \in Nat /\ Len(outbox) \in Nat /\ Len(outbox') <= Len(outbox) + 2
         /\ \A i \in Ids : outbox'[i] = outbox[i]
         /\ \A i \in Added : /\ outbox'[i].op = change.op /\ outbox'[i].v = posting.v + 1
                             /\ ~outbox'[i].indexed
                             /\ outbox'[i].run \in Runs => outbox'[i].run = change.sees
         /\ \E i \in Added : outbox'[i].run = LIVE
         /\ change.sees \in Runs => \E i \in Added : outbox'[i].run = change.sees
         /\ \A i \in Ids', j \in Added : i < j /\ i \in Added => outbox'[i].run # outbox'[j].run
         /\ \A i \in Added, j \in Ids' : i < j => j \in Added
<1>1. PICK n \in Nat : n = Len(outbox) /\ outbox \in Seq(Row) /\ Ids = 1 .. n
  BY RelayKnown DEF Ids
<1>2. /\ change.op \in {"upsert", "delete"} /\ change.sees \in {LIVE} \cup Runs
      /\ posting.v + 1 \in Versions /\ LIVE \notin Runs
  <2>1. posting.v <= MaxChanges /\ posting.v \in Nat
    BY PostingKnown DEF SearchInv, Shape, ChangeShape, CommitChange
  <2>2. posting.v + 1 \in Versions
    BY <2>1, IsVersion, Bounds
  <2> QED
    BY <2>2, TypeParts DEF SearchInv, SourceType, LIVE, Runs
<1>3. PICK live \in Row : live = NewRow(change.op, LIVE, posting.v + 1)
  BY <1>2, NewRowType
<1>4. live.op = change.op /\ live.v = posting.v + 1 /\ ~live.indexed /\ live.run = LIVE
  BY <1>3 DEF NewRow
<1>5. CASE change.sees = LIVE
  <2>1. outbox' = outbox \o <<live>>
    BY <1>3, <1>5 DEF CommitChange, JobsOf
  <2>2. /\ outbox' \in Seq(Row) /\ Len(outbox') = n + 1 /\ Ids' = 1 .. n + 1
        /\ outbox'[n + 1] = live /\ \A i \in 1 .. n : outbox'[i] = outbox[i]
    BY <1>1, <2>1 DEF Ids
  <2>3. Added = {n + 1}
    BY <1>1, <2>2 DEF Added
  <2> QED
    BY <1>1, <1>2, <1>4, <1>5, <2>2, <2>3
<1>6. CASE change.sees \in Runs
  <2>1. PICK other \in Row : other = NewRow(change.op, change.sees, posting.v + 1)
    BY <1>2, NewRowType
  <2>2. /\ other.op = change.op /\ other.v = posting.v + 1 /\ ~other.indexed
        /\ other.run = change.sees
    BY <2>1 DEF NewRow
  <2>3. outbox' = outbox \o <<live, other>>
    BY <1>2, <1>3, <1>6, <2>1 DEF CommitChange, JobsOf
  <2>4. /\ outbox' \in Seq(Row) /\ Len(outbox') = n + 2 /\ Ids' = 1 .. n + 2
        /\ outbox'[n + 1] = live /\ outbox'[n + 2] = other
        /\ \A i \in 1 .. n : outbox'[i] = outbox[i]
    BY <1>1, <2>3 DEF Ids
  <2>5. Added = {n + 1, n + 2}
    BY <1>1, <2>4 DEF Added
  <2> QED
    BY <1>1, <1>2, <1>4, <1>6, <2>2, <2>4, <2>5
<1> QED
  BY <1>2, <1>5, <1>6

(* A transaction commits.                                                   *)
LEMMA CommitChangeStep ==
  ASSUME SearchInv, CommitChange
  PROVE  SearchInv'
<1>1. /\ UNCHANGED <<relay, queue, delayed, batch, index, alias, run, rebuild, checked, events>>
      /\ change' = NoChange /\ change.on
      /\ posting' = [v |-> posting.v + 1, shown |-> change.shown, after |-> change.after]
      /\ excused' = excused \cup {x \in {"unheard"} : \E k \in Runs : Unheard(k)}
  BY DEF CommitChange, broker, search
<1>2. /\ posting'.v = posting.v + 1 /\ posting'.shown = change.shown /\ posting'.after = change.after
      /\ posting.v \in Nat /\ posting.v >= 1 /\ posting.v <= MaxChanges
      /\ posting.after \subseteq change.after /\ change.after \subseteq Runs
      /\ change.sees \in Runs => change.sees \in change.after
      /\ change.op \in {"upsert", "delete"} /\ (change.op = "upsert" <=> change.shown)
  BY <1>1, PostingKnown, TypeParts DEF SearchInv, Shape, ChangeShape, SourceType
<1>3. /\ (RelayType /\ RelayShape /\ BrokerType /\ BatchType)'
      /\ \A w \in Indexers : BatchShape(batch[w])'
      /\ \A w \in Indexers : batch'[w].at = "write" =>
              /\ batch'[w].row \in Ids /\ IsJob(batch[w].row)'
              /\ batch'[w].doc.v >= outbox'[batch'[w].row].v
  BY <1>1, CommitAdds, GrowthKeeps
<1>4. RowsBounded'
  <2>1. Barriered' = Barriered
    BY <1>1 DEF Barriered
  <2>2. Cardinality(Barriered) \in Nat
    <3>1. IsFiniteSet(Runs) /\ Barriered \subseteq Runs
      BY Bounds, FS_Interval DEF Runs, Barriered
    <3> QED
      BY <3>1, FS_Subset, FS_CardinalityType
  <2>3. Len(outbox) <= 2 * (posting.v - 1) + Cardinality(Barriered)
    BY DEF SearchInv, Shape, RowsBounded
  <2>4. /\ Len(outbox') \in Nat /\ Len(outbox) \in Nat /\ Len(outbox') <= Len(outbox) + 2
        /\ posting.v \in Nat /\ posting'.v = posting.v + 1
    BY <1>2, CommitAdds
  <2>5. Len(outbox') <= 2 * (posting'.v - 1) + Cardinality(Barriered)
    BY <2>2, <2>3, <2>4
  <2> QED
    BY <2>1, <2>5 DEF RowsBounded
<1>5. SourceType'
  <2>1. posting.v + 1 \in Versions
    BY <1>2, IsVersion, Bounds
  <2>2. change.shown \in BOOLEAN
    BY TypeParts DEF SearchInv, SourceType
  <2> QED
    BY <1>1, <1>2, <2>1, <2>2 DEF SourceType, NoChange
<1>6. TypeOK'
  <2>1. OutboxType'
    <3>1. Barriered' \in SUBSET Runs /\ posting'.v \in Versions
          /\ Len(outbox') <= 2 * (posting'.v - 1) + Cardinality(Barriered')
      BY <1>4, <1>5 DEF Barriered, RowsBounded, SourceType
    <3>2. 1 .. Len(outbox') \subseteq Rows
      BY <3>1, RowsInBound, CommitAdds
    <3>3. \A i \in Ids' : outbox'[i] \in Row
      BY CommitAdds
    <3> QED
      BY <3>2, <3>3, CommitAdds DEF OutboxType
  <2>2. RunType'
    BY <1>1, CommitAdds, TypeParts DEF SearchInv, RunType
  <2>3. RebuildType' /\ SearchType' /\ HistoryType'
    BY <1>1, TypeParts DEF SearchInv, RebuildType, SearchType, HistoryType, Gaps
  <2> QED
    BY <1>3, <1>5, <2>1, <2>2, <2>3, TypePartsNext
<1>7. Shape'
  <2>1. RebuildShape' /\ \A k \in Runs : RunShape(run[k])'
    BY <1>1, CommitAdds DEF SearchInv, Shape, RebuildShape, RunShape
  <2>2. ChangeShape'
    <3>1. /\ \A k \in change.after : run[k].status # "none"
          /\ alias \in Runs => run[alias].status \in {"waiting_for_catchup", "completed", "failed"}
      BY DEF SearchInv, Shape, ChangeShape
    <3>2. ~change'.on /\ change'.sees = LIVE /\ change'.after = {} /\ LIVE \notin Runs
      BY <1>1 DEF NoChange, LIVE, Runs
    <3> QED
      BY <1>1, <1>2, <3>1, <3>2 DEF ChangeShape
  <2> QED
    BY <1>3, <1>4, <2>1, <2>2, CommitAdds DEF Shape
<1>8. DocsFit'
  <2>1. ASSUME NEW d \in Doc \cup {NoDoc}, Fits(d) PROVE d.v <= posting'.v /\ d.v # posting'.v
    <3>1. d.v \in Int
      BY <2>1, IsVersion DEF Doc, NoDoc
    <3> QED
      BY <1>2, <2>1, <3>1 DEF Fits
  <2>2. /\ \A x \in Indices : Fits(index[x])' 
        /\ Fits(rebuild.doc)' /\ Fits(checked)'
        /\ \A w \in Indexers : Fits(batch[w].doc)'
    <3>1. /\ \A x \in Indices : index[x] \in Doc /\ Fits(index[x])
          /\ rebuild.doc \in Doc \cup {NoDoc} /\ Fits(rebuild.doc)
          /\ checked \in Doc \cup {NoDoc} /\ Fits(checked)
          /\ \A w \in Indexers : batch[w].doc \in Doc \cup {NoDoc} /\ Fits(batch[w].doc)
      BY TypeParts DEF SearchInv, DocsFit, SearchType, RebuildType, BatchType, Batch
    <3>2. \A x \in Indices : index'[x].v <= posting'.v /\ index'[x].v # posting'.v
      BY <1>1, <2>1, <3>1
    <3>3. \A w \in Indexers : batch'[w].doc.v <= posting'.v /\ batch'[w].doc.v # posting'.v
      BY <1>1, <2>1, <3>1
    <3>4. /\ rebuild'.doc.v <= posting'.v /\ rebuild'.doc.v # posting'.v
          /\ checked'.v <= posting'.v /\ checked'.v # posting'.v
      BY <1>1, <2>1, <3>1
    <3> QED
      BY <3>2, <3>3, <3>4 DEF Fits
  <2>3. \A x \in Runs : run'[x].covers.v <= posting'.v
    <3>1. \A x \in Runs : run[x].covers \in Doc \cup {NoDoc} /\ run[x].covers.v <= posting.v
      BY TypeParts DEF SearchInv, DocsFit, RunType
    <3>2. \A x \in Runs : run[x].covers.v \in Int
      BY <3>1, IsVersion DEF Doc, NoDoc
    <3> QED
      BY <1>1, <1>2, <3>1, <3>2
  <2> QED
    BY <1>3, <2>2, <2>3 DEF DocsFit
<1>9. \A i \in Ids : outbox[i].v \in Nat /\ outbox[i].v <= posting.v
  BY RelayKnown, IsVersion DEF SearchInv, RowsFit, Row
<1>10. /\ \A i \in Ids : ~Newest(i)' /\ (IsJob(i)' <=> IsJob(i))
       /\ \A i \in Added : Newest(i)' /\ IsJob(i)'
  BY <1>2, <1>9, CommitAdds DEF Newest, IsJob
<1>11. RowsFit'
  <2>0. \A i \in Ids' : i \in Ids \/ i \in Added
    BY DEF Added
  <2>1. \A i \in Ids' : outbox'[i].v <= posting'.v
    BY <1>2, <1>9, <2>0, CommitAdds
  <2>2. \A i \in Ids' : Newest(i)' => (outbox'[i].op = "upsert" <=> posting'.shown)
    BY <1>2, <1>10, <2>0, CommitAdds
  <2>3. \A i \in Ids' : IsJob(i)' /\ outbox'[i].run \in Runs => outbox'[i].run \in posting'.after
    BY <1>2, <1>10, <2>0, CommitAdds DEF SearchInv, RowsFit
  <2>4. ASSUME NEW i \in Ids', NEW j \in Ids', i < j, IsJob(i)', IsJob(j)',
               outbox'[i].run = outbox'[j].run
        PROVE  outbox'[i].v < outbox'[j].v
    <3>1. CASE i \in Ids /\ j \in Ids
      BY <1>10, <2>4, <3>1, CommitAdds DEF SearchInv, RowsFit
    <3>2. CASE i \in Ids /\ j \in Added
      <4>1. outbox'[i].v = outbox[i].v /\ outbox'[j].v = posting.v + 1
        BY <3>2, CommitAdds
      <4>2. outbox[i].v \in Nat /\ outbox[i].v <= posting.v /\ posting.v \in Nat
        BY <1>2, <1>9, <3>2
      <4> QED
        BY <4>1, <4>2
    <3>3. CASE i \in Added
      BY <2>4, <3>3, CommitAdds
    <3> QED
      BY <2>0, <3>1, <3>2, <3>3
  <2> QED
    BY <2>1, <2>2, <2>3, <2>4 DEF RowsFit
<1>12. ASSUME excused' = {} PROVE (JobsReach /\ Listed /\ \A x \in Runs : Unlisted(x))'
  <2>1. Listed /\ (\A x \in Runs : Unlisted(x)) /\ \A x \in Runs : ~Unheard(x)
    BY <1>1, <1>12 DEF SearchInv, NothingLost
  <2>2. \A i \in Added : Awaited(i)'
    <3>1. \A w \in Indexers : batch[w].at = "mark" => batch[w].row \in Ids
      BY DEF SearchInv, Shape, BatchShape
    <3>2. \A w \in Indexers, i \in Added : ~(batch'[w].at = "mark" /\ batch'[w].row = i)
      BY <1>1, <3>1 DEF Added
    <3> QED
      BY <3>2, CommitAdds DEF Awaited
  <2>3. JobsReach'
    <3>1. \A i \in Ids' : Newest(i)' => i \in Added
      BY <1>10 DEF Added
    <3>2. posting'.v # 1
      BY <1>2
    <3>3. \E i \in Ids' : Newest(i)' /\ outbox'[i].run = LIVE
      BY <1>10, CommitAdds DEF Added
    <3> QED
      BY <2>2, <3>1, <3>2, <3>3 DEF JobsReach
  <2>4. \A k \in Runs : change.sees = k => Covered(k)' /\ k \in posting'.after
    <3>1. \A k \in Runs : change.sees = k => \E i \in Ids' : Newest(i)' /\ outbox'[i].run = k
      BY <1>10, CommitAdds DEF Added
    <3> QED
      BY <1>2, <3>1 DEF Covered
  <2>5. ASSUME NEW k \in Runs, run[k].status \in {"running", "waiting_for_catchup"}
        PROVE  change.sees = k
    BY <2>1, <2>5 DEF Unheard, Active
  <2>6. Listed'
    BY <1>1, <2>4, <2>5, RebuildKnown DEF Listed, RebuildShape
  <2>7. ASSUME NEW k \in Runs PROVE Unlisted(k)'
    <3>1. run[k].status \in {"starting", "pending", "running"} /\ k \in change.after => change.sees = k
      BY <2>1 DEF Unheard, Active
    <3>2. run[k].status \in {"none", "starting", "pending"} /\ k \notin change.after
            => ~index[k].shown
      BY <1>2, <2>1 DEF Unlisted
    <3>3. ~(run[k].status = "running" /\ k \notin change.after)
      BY <1>2, <2>5
    <3> QED
      BY <1>1, <1>2, <2>4, <3>1, <3>2, <3>3 DEF Unlisted
  <2> QED
    BY <2>3, <2>6, <2>7
<1> QED
  BY <1>6, <1>7, <1>8, <1>11, <1>12 DEF SearchInv, NothingLost

-----------------------------------------------------------------------------
(* The invariant holds.                                                     *)

(* At first.                                                                *)
LEMMA InitInv ==
  ASSUME Init
  PROVE  SearchInv
<1>1. Ids = {} /\ outbox = <<>> /\ LIVE \notin Runs /\ Len(outbox) = 0 /\ outbox \in Seq(Row)
  BY DEF Init, Ids, LIVE, Runs
<1>2. /\ posting.v = 1 /\ posting.shown = TRUE /\ posting.after = {}
      /\ 0 \in Versions /\ 1 \in Versions /\ Current = [v |-> 1, shown |-> TRUE]
      /\ alias = 0 /\ 0 \in Indices /\ 0 \in 0 .. MaxEvents /\ 0 \notin Runs
  BY Bounds DEF Init, Versions, Indices, Current, Runs
<1>3. /\ \A k \in Indices : index[k] = IF k = 0 THEN [v |-> 1, shown |-> TRUE] ELSE ABSENT
      /\ \A k \in Runs : index[k] = ABSENT
  BY Bounds DEF Init, Indices, Runs
<1>4. [v |-> 1, shown |-> TRUE] \in Doc /\ ABSENT \in Doc /\ ABSENT.v = 0 /\ ABSENT.shown = FALSE
  BY <1>2 DEF Doc, ABSENT
<1>5. NoDoc.v = -1 /\ Fits(NoDoc)
  BY <1>2 DEF NoDoc, Fits
<1>6. TypeOK
  <2>1. RelayType /\ BrokerType /\ OutboxType
    BY <1>1 DEF Init, RelayType, NoRelay, BrokerType, OutboxType
  <2>2. NoBatch \in Batch
    BY DEF NoBatch, Batch
  <2>3. BatchType
    BY <2>2 DEF Init, BatchType
  <2>4. RunType /\ RebuildType
    BY DEF Init, RunType, NoRun, RebuildType, NoRebuild
  <2>5. HistoryType /\ SourceType
    BY <1>2 DEF Init, HistoryType, SourceType, NoChange
  <2>6. SearchType
    BY <1>2, <1>4 DEF Init, SearchType
  <2> QED
    BY <2>1, <2>3, <2>4, <2>5, <2>6, TypeParts
<1>7. Shape
  <2>1. RelayShape /\ RebuildShape
    BY DEF Init, RelayShape, NoRelay, RebuildShape, NoRebuild
  <2>2. ChangeShape
    BY <1>1, <1>2 DEF Init, ChangeShape, NoChange
  <2>3. RowsBounded
    <3>1. Barriered = {}
      BY DEF Init, NoRun, Barriered
    <3>2. Cardinality(Barriered) = 0
      BY <3>1, FS_EmptySet
    <3> QED
      BY <1>1, <1>2, <3>2 DEF RowsBounded
  <2>4. /\ \A w \in Indexers : BatchShape(batch[w])
        /\ \A k \in Runs : RunShape(run[k])
    BY DEF Init, BatchShape, NoBatch, RunShape, NoRun
  <2> QED
    BY <1>1, <2>1, <2>2, <2>3, <2>4 DEF Shape
<1>8. DocsFit
  <2>1. \A k \in Indices : Fits(index[k])
    BY <1>2, <1>3, <1>4 DEF Fits
  <2>2. \A k \in Runs : run[k].covers.v <= posting.v
    BY <1>2, <1>5 DEF Init, NoRun
  <2>3. Fits(rebuild.doc) /\ Fits(checked) /\ \A w \in Indexers : Fits(batch[w].doc)
    BY <1>5 DEF Init, NoRebuild, NoBatch
  <2>4. \A w \in Indexers : batch[w].at # "write"
    BY DEF Init, NoBatch
  <2> QED
    BY <2>1, <2>2, <2>3, <2>4 DEF DocsFit
<1>9. RowsFit
  BY <1>1 DEF RowsFit
<1>10. JobsReach
  BY <1>1, <1>2, <1>3 DEF JobsReach, Covered, Shown
<1>11. Listed /\ \A k \in Runs : Unlisted(k)
  BY <1>2, <1>3, <1>4 DEF Init, Listed, Unlisted, NoRebuild, NoRun
<1> QED
  BY <1>6, <1>7, <1>8, <1>9, <1>10, <1>11 DEF SearchInv, NothingLost

(* Nothing happens.                                                         *)
LEMMA StutterInv ==
  ASSUME SearchInv, UNCHANGED vars
  PROVE  SearchInv'
<1>1. Turns /\ UNCHANGED change
  BY RunsSame, RelaySame, RebuildSame, CheckedSame DEF Turns, vars
<1> QED
  BY <1>1, TurnsAlone

(* Every step preserves it.                                                 *)
LEMMA NextInv ==
  ASSUME SearchInv, [Next]_vars
  PROVE  SearchInv'
<1>1. CASE BeginChange
  BY <1>1, BeginChangeStep
<1>2. CASE CommitChange
  BY <1>2, CommitChangeStep
<1>3. CASE \E k \in Runs : StartReindex(k) \/ CommitStart(k)
  BY <1>3, StartStep
<1>4. CASE ClaimBatch
  BY <1>4, ClaimBatchRelays, RelaysStep
<1>5. CASE ClaimAnyRun
  BY <1>5, ClaimRunStep DEF ClaimAnyRun
<1>6. CASE ReadRecent
  BY <1>6, ReadRecentStep
<1>7. CASE FinishTask
  BY <1>7, PublishJobRelays, MarkRelayedRelays, RelaysStep, ListPublishedStep, WriteListedStep,
     EnqueueBarrierStep, SwapAliasesStep, RunEndsStep, WriteRecentStep DEF FinishTask
<1>8. CASE PublishFails \/ MarkRelayedFails \/ ReviveDeadLettered
  BY <1>8, PublishFailsRelays, MarkRelayedFailsRelays, ReviveRelays, RelaysStep
<1>9. CASE RunFails \/ MaintainerCrashes
  BY <1>9, RunEndsStep, MaintainerCrashesStep
<1>10. CASE \E w \in Indexers : Index(w)
  BY <1>10, TakeJobRelays, MarkIndexedRelays, RelaysStep, WriteDocumentStep DEF Index
<1>11. CASE \E w \in Indexers : WriteFails(w) \/ IndexerCrashes(w)
  BY <1>11, WriteFailsRelays, IndexerCrashesRelays, RelaysStep
<1>12. CASE UNCHANGED vars
  BY <1>12, StutterInv
<1> QED
  BY <1>1, <1>2, <1>3, <1>4, <1>5, <1>6, <1>7, <1>8, <1>9, <1>10, <1>11, <1>12 DEF Next

(* SearchInv holds in every reachable state, for any number of changes, runs,
   batches, failures and crashes.                                           *)
LEMMA SearchInvHolds == Spec => []SearchInv
  BY InitInv, NextInv, PTL DEF Spec

-----------------------------------------------------------------------------
(* Every row, message, document, batch and run keeps its type; jobs are tried
   no more often than allowed, and the outbox has at most two rows per change
   and one per run.                                                         *)
THEOREM TypeCorrect == Spec => []TypeOK
<1>1. SearchInv => TypeOK
  BY DEF SearchInv
<1> QED
  BY <1>1, SearchInvHolds, PTL

(* Once every job is marked indexed, search shows the posting as it is,
   although jobs are coalesced, skipped, delivered twice and retried, and the
   alias moves to rebuilt indices, unless one of the gaps that reconciliation
   closes has happened.                                                     *)
THEOREM NoChangeIsSkipped == Spec => []DrainedIsIndexedUnlessExcused
<1>1. SearchInv => DrainedIsIndexedUnlessExcused
  <2> SUFFICES ASSUME SearchInv, excused = {}, Drained PROVE Shows(alias, Current)
    BY DEF DrainedIsIndexedUnlessExcused, DrainedIsIndexed
  <2>1. \A i \in Ids : ~Awaited(i)
    BY DEF Drained, Awaited
  <2>2. JobsReach /\ alias \in Indices /\ Fits(index[alias])
    BY TypeParts DEF SearchInv, NothingLost, SearchType, DocsFit
  <2>3. Covered(alias)
    BY <2>1, <2>2, PostingKnown DEF JobsReach
  <2>4. Shown(alias)
    <3>1. ASSUME NEW i \in Ids, Newest(i), outbox[i].run = alias, alias \in Runs PROVE Shown(alias)
      BY <2>1, <2>2, <3>1 DEF JobsReach
    <3> QED
      BY <2>3, <3>1 DEF Covered
  <2>5. index[alias] = Current
    BY <2>2, <2>4 DEF Shown, Fits
  <2> QED
    BY <2>5, PostingKnown DEF Shows
<1> QED
  BY <1>1, SearchInvHolds, PTL

(* A run goes on to move the alias only when its index has every change made
   before its barrier, as far as jobs were not given up and no job after the
   barrier stands for one before it.                                        *)
THEOREM SwapsAreCaughtUp == Spec => SwapIsCaughtUp
<1>1. SearchInv /\ [Next]_vars =>
        [LET k == rebuild'.run IN
         /\ rebuild = NoRebuild /\ rebuild'.at = "swap" /\ excused = {}
         /\ \A i \in Ids : outbox[i].run = k =>
               ~outbox[i].dead /\ (i > run[k].barrier => outbox[i].indexed)
         => index[k].v >= run[k].covers.v \/ Shows(k, run[k].covers)]_vars
  <2> SUFFICES ASSUME SearchInv, Next, rebuild = NoRebuild, rebuild'.at = "swap", excused = {},
                      NEW k, k = rebuild'.run,
                      \A i \in Ids : outbox[i].run = k =>
                         ~outbox[i].dead /\ (i > run[k].barrier => outbox[i].indexed)
               PROVE  index[k].v >= run[k].covers.v
    BY DEF NoRebuild, vars
  <2>1. PICK x \in Runs : /\ run[x].status = "waiting_for_catchup" /\ CaughtUp(x)
                          /\ rebuild' = [NoRebuild EXCEPT !.at = "swap", !.run = x]
    <3>1. rebuild.at = "idle" /\ NoRebuild.at = "idle"
      BY DEF NoRebuild
    <3>2. rebuild' # rebuild
      BY <3>1
    <3>3. ClaimAnyRun
      BY <3>1, <3>2 DEF Next, FinishTask, Index, BeginChange, CommitChange, StartReindex, CommitStart,
         ClaimBatch, ReadRecent, PublishJob, MarkRelayed, ListPublished, WriteListed, EnqueueBarrier,
         SwapAliases, MarkRunCompleted, WriteRecent, PublishFails, MarkRelayedFails, RunFails,
         MaintainerCrashes, TakeJob, WriteDocument, MarkIndexed, WriteFails, IndexerCrashes,
         ReviveDeadLettered
    <3> QED
      BY <3>1, <3>2, <3>3 DEF ClaimAnyRun, ClaimRun, NoRebuild
  <2>2. x = k /\ k \in Runs /\ k \in Indices
    BY <2>1, RebuildKnown DEF NoRebuild
  <2>3. \A i \in Ids : outbox[i].run = k => outbox[i].indexed
    <3>1. run[k].barrier \in Nat /\ run[k].barrier \in Ids
      BY <2>1, <2>2, RelayKnown DEF SearchInv, Shape, RunShape
    <3>2. \A i \in Ids : i \in 1 .. run[k].barrier \/ i > run[k].barrier
      BY <3>1, RelayKnown DEF Ids
    <3> QED
      BY <2>1, <2>2, <3>2 DEF CaughtUp
  <2>4. Covered(k) /\ JobsReach /\ run[k].covers.v <= posting.v
    BY <2>1, <2>2 DEF SearchInv, NothingLost, Listed, DocsFit
  <2>5. index[k].v = posting.v
    BY <2>2, <2>3, <2>4 DEF Covered, JobsReach, Shown, Awaited
  <2>6. run[k].covers.v \in Int /\ posting.v \in Int
    <3>1. run[k].covers \in Doc \cup {NoDoc}
      BY <2>2, TypeParts DEF SearchInv, RunType
    <3> QED
      BY <3>1, PostingKnown, IsVersion DEF Doc, NoDoc
  <2> QED
    BY <2>4, <2>5, <2>6
<1> QED
  BY <1>1, SearchInvHolds, PTL DEF Spec, SwapIsCaughtUp
=============================================================================
