------------------------ MODULE BookingWindow_proofs ------------------------
(***************************************************************************)
(* Proofs about the calendar of a posting, for every set of bookings,      *)
(* windows and concurrent requests.                                        *)
(***************************************************************************)
EXTENDS BookingWindow, TLAPS

(* The calendar starts empty.                                               *)
LEMMA InitType == Init => TypeOK
  BY BookingWindowAssumption DEF Init, TypeOK, Row, NewRow, HoldIds, Statuses, NoWindow, Job, Idle, Ops, LockKeys, Races

(* The bound on hold blocks is a natural number.                            *)
LEMMA MaxHoldsNat == MaxHolds \in Nat
  BY BookingWindowAssumption

(* The job of a free request is a job.                                      *)
LEMMA IdleType == Idle \in Job
  BY MaxHoldsNat DEF Idle, Job, Ops, HoldIds, Statuses

(* The keys of the jobs are lock keys, and taking or returning them keeps
   the lock table's type.                                                   *)
LEMMA KeysType ==
  ASSUME TypeOK, NEW r \in Requests, NEW b \in Bookings
  PROVE  /\ {Window, Cap(b)} \in SUBSET LockKeys
         /\ {Decision(b), State(b), Window} \in SUBSET LockKeys
         /\ {Convert(b), Window} \in SUBSET LockKeys
         /\ {State(b)} \in SUBSET LockKeys
         /\ {State(b), Window} \in SUBSET LockKeys
  BY DEF LockKeys

JobsType ==
  /\ held \in [Requests -> SUBSET LockKeys] /\ job \in [Requests -> Job]
  /\ \A r \in Requests : job[r].op \in Ops => job[r].b \in Bookings

(* Taking locks and starting a job on a booking keeps their types.          *)
LEMMA StartType ==
  ASSUME TypeOK, NEW r \in Requests, NEW keys \in SUBSET LockKeys, NEW j \in Job,
         j.b \in Bookings, Start(r, keys, j)
  PROVE  JobsType'
  BY DEF TypeOK, Start, AcquireLocks, JobsType

(* Releasing every lock and going idle keeps their types.                   *)
LEMMA FinishType ==
  ASSUME TypeOK, NEW r \in Requests, Finish(r)
  PROVE  JobsType'
  BY IdleType DEF TypeOK, Finish, ReleaseLocks, JobsType, Idle, Ops

(* A new job of b, with what it read, is a job.                             *)
LEMMA NewJobType ==
  ASSUME NEW op \in Ops, NEW b \in Bookings
  PROVE  /\ NewJob(op, b) \in Job /\ NewJob(op, b).b = b
         /\ \A w \in Windows : [NewJob(op, b) EXCEPT !.win = w] \in Job
         /\ \A st \in Statuses : [NewJob(op, b) EXCEPT !.seen = st] \in Job
         /\ \A h \in HoldIds, st \in Statuses :
               [NewJob(op, b) EXCEPT !.hold = h, !.seen = st] \in Job
         /\ \A h \in HoldIds, c, d \in BOOLEAN :
               [NewJob(op, b) EXCEPT !.hold = h, !.conv = d, !.clear = c] \in Job
         /\ [NewJob(op, b) EXCEPT !.clear = TRUE] \in Job
  <1>1. NewJob(op, b) \in Job
    BY IdleType DEF NewJob, Job
  <1>2. NewJob(op, b).b = b
    BY DEF NewJob, Idle
  <1> HIDE DEF NewJob
  <1> QED BY <1>1, <1>2 DEF Job

(* Replacing the checkouts of a booking changes only whether they are current. *)
LEMMA ReplacedType ==
  ASSUME TypeOK, NEW kind, NEW b
  PROVE  /\ Replaced(kind, b) \in [Requests -> Job]
         /\ \A q \in Requests : /\ Replaced(kind, b)[q].op = job[q].op
                                /\ Replaced(kind, b)[q].b = job[q].b
  <1>1. ASSUME NEW j \in Job
        PROVE  /\ [j EXCEPT !.clear = FALSE] \in Job
               /\ [j EXCEPT !.clear = FALSE].op = j.op /\ [j EXCEPT !.clear = FALSE].b = j.b
    BY DEF Job
  <1>2. \A q \in Requests : job[q] \in Job
    BY DEF TypeOK
  <1> QED BY <1>1, <1>2 DEF Replaced

(* A row with one of its columns changed to a value of the column is a row.  *)
LEMMA RowType ==
  ASSUME TypeOK, NEW b \in Bookings
  PROVE  /\ bk[b] \in Row
         /\ bk[b].hold \in HoldIds /\ bk[b].status \in Statuses
         /\ bk[b].win \in Windows \cup {NoWindow}
         /\ bk[b].made \in Nat
  BY MaxHoldsNat DEF TypeOK, Row, HoldIds

(* 0 stands for a null holdBlockId.                                         *)
LEMMA HoldZero == 0 \in HoldIds
  BY MaxHoldsNat DEF HoldIds

(* A fresh booking row, pending or not, is a row.                           *)
LEMMA NewRowType ==
  ASSUME NEW w \in Windows \cup {NoWindow}
  PROVE  [NewRow EXCEPT !.status = "pending", !.win = w] \in Row
  BY HoldZero DEF NewRow, Row, Statuses

(* Updating one row with a row leaves a table of rows.                      *)
LEMMA UpdateType ==
  ASSUME TypeOK, NEW b, NEW row \in Row
  PROVE  UpdateRow(b, row) \in [Bookings -> Row]
  BY DEF TypeOK, UpdateRow

(* Giving dates back on cancellation or expiry writes a row.                *)
LEMMA ReleasedType ==
  ASSUME TypeOK, NEW b \in Bookings, NEW s \in Statuses
  PROVE  Released(b, s) \in [Bookings -> Row]
  <1>1. [bk[b] EXCEPT !.status = s, !.hold = 0, !.resv = Nobody, !.live = FALSE] \in Row
    BY RowType, HoldZero DEF Row
  <1> QED BY <1>1, UpdateType DEF Released

(* Approving writes a row.                                                  *)
LEMMA ApprovedType ==
  ASSUME TypeOK, NEW b \in Bookings
  PROVE  Approved(b) \in [Bookings -> Row]
  <1>1. [bk[b] EXCEPT !.status = "awaiting_payment", !.lapsed = FALSE, !.hold = 0] \in Row
    BY RowType, HoldZero DEF Row, Statuses
  <1> QED BY <1>1, UpdateType DEF Approved

(* The row of a booking that gets hold block h is a row.                    *)
LEMMA PaidWithType ==
  ASSUME TypeOK, NEW b \in Bookings, NEW h \in HoldIds
  PROVE  PaidWith(b, h) \in Row /\ [PaidWith(b, h) EXCEPT !.made = h] \in Row
  <1>1. bk[b] \in Row
    BY RowType
  <1>2. PaidWith(b, h) \in Row
    BY <1>1 DEF PaidWith, Row, Statuses
  <1> QED BY <1>2 DEF Row

(* Remembering a race keeps the history's type.                             *)
LEMMA NoteType ==
  ASSUME TypeOK, NEW r \in Requests, NEW b, NEW happened, NEW race \in Races
  PROVE  /\ Note(b, happened, race) => races' \in [Bookings -> SUBSET Races]
         /\ NoteOverlap(r) => races' \in [Bookings -> SUBSET Races]
         /\ NoteReopen(r) => races' \in [Bookings -> SUBSET Races]
  <1>1. ASSUME NEW c, NEW cond, NEW k \in Races, Note(c, cond, k)
        PROVE  races' \in [Bookings -> SUBSET Races]
    BY <1>1 DEF Note, TypeOK
  <1>2. "overlap" \in Races /\ "reopen" \in Races
    BY DEF Races
  <1> QED BY <1>1, <1>2 DEF NoteOverlap, NoteReopen

(* The steps of the bookings service keep the types.                        *)
LEMMA BookingStepType ==
  ASSUME TypeOK, NEW r \in Requests, NEW b \in Bookings
  PROVE  /\ \A w \in Windows : BeginCreate(r, b, w) => TypeOK'
         /\ CommitCreate(r) => TypeOK'
         /\ InstantApprove(r) => TypeOK'
         /\ Approve(b) => TypeOK'
         /\ \A w \in Windows : UpdateOwnPending(b, w) => TypeOK'
         /\ Decline(b) => TypeOK'
         /\ BeginCancel(r, b) => TypeOK'
         /\ CommitCancel(r) => TypeOK'
         /\ CancelRefundFails(r) => TypeOK'
         /\ Expire(b) => TypeOK'
  <1>1. ASSUME NEW w \in Windows, BeginCreate(r, b, w) PROVE TypeOK'
    <2>1. [NewJob("create", b) EXCEPT !.win = w] \in Job
      BY NewJobType, HoldZero DEF Ops, Statuses
    <2>2. [NewJob("create", b) EXCEPT !.win = w].b \in Bookings
      BY DEF NewJob, Idle
    <2> QED BY <1>1, <2>1, <2>2, KeysType, StartType DEF BeginCreate, TypeOK, JobsType
  <1>2. ASSUME CommitCreate(r) PROVE TypeOK'
    <2>1. job[r] \in Job /\ job[r].b \in Bookings
      BY <1>2 DEF TypeOK, CommitCreate, Ops
    <2>2. [NewRow EXCEPT !.status = "pending", !.win = job[r].win] \in Row
      BY <2>1, NewRowType DEF Job
    <2>3. bk' \in [Bookings -> Row]
      BY <1>2, <2>2, UpdateType DEF CommitCreate, TypeOK
    <2>4. CASE Finish(r)
      BY <1>2, <2>3, <2>4, FinishType DEF CommitCreate, TypeOK, JobsType
    <2>5. CASE job' = [job EXCEPT ![r].at = "instant"] /\ UNCHANGED held
      <3>1. job' \in [Requests -> Job] /\ \A q \in Requests : job'[q].op = job[q].op /\ job'[q].b = job[q].b
        BY <2>5 DEF TypeOK, Job
      <3> QED BY <1>2, <2>3, <2>5, <3>1 DEF CommitCreate, TypeOK
    <2> QED BY <1>2, <2>4, <2>5 DEF CommitCreate
  <1>3. ASSUME InstantApprove(r) PROVE TypeOK'
    <2>1. bk' \in [Bookings -> Row]
      BY <1>3, ApprovedType DEF InstantApprove, TypeOK, Ops
    <2> QED BY <1>3, <2>1, FinishType DEF InstantApprove, TypeOK, JobsType
  <1>4. ASSUME Approve(b) PROVE TypeOK'
    BY <1>4, ApprovedType DEF Approve, TypeOK
  <1>5. ASSUME NEW w \in Windows, UpdateOwnPending(b, w) PROVE TypeOK'
    <2>1. [bk[b] EXCEPT !.win = w] \in Row
      BY RowType DEF Row
    <2> QED BY <1>5, <2>1, UpdateType DEF UpdateOwnPending, TypeOK
  <1>6. ASSUME Decline(b) PROVE TypeOK'
    <2>1. [bk[b] EXCEPT !.status = "declined"] \in Row
      BY RowType DEF Row, Statuses
    <2> QED BY <1>6, <2>1, UpdateType DEF Decline, TypeOK
  <1>7. ASSUME BeginCancel(r, b) PROVE TypeOK'
    <2>1. [NewJob("cancel", b) EXCEPT !.seen = bk[b].status] \in Job
      <3>1. NewJob("cancel", b) \in Job
        BY NewJobType DEF Ops
      <3> QED BY <3>1, RowType DEF Job
    <2>2. [NewJob("cancel", b) EXCEPT !.seen = bk[b].status].b \in Bookings
      BY DEF NewJob, Idle
    <2> QED BY <1>7, <2>1, <2>2, KeysType, StartType DEF BeginCancel, TypeOK, JobsType
  <1>8. ASSUME CommitCancel(r) PROVE TypeOK'
    <2>1. job[r].b \in Bookings
      BY <1>8 DEF TypeOK, CommitCancel, Ops
    <2>2. bk' \in [Bookings -> Row]
      BY <1>8, <2>1, ReleasedType DEF CommitCancel, TypeOK, Statuses
    <2>3. holds' \subseteq holds
      BY <1>8 DEF CommitCancel, WithoutHold
    <2>4. races' \in [Bookings -> SUBSET Races]
      BY <1>8, NoteType DEF CommitCancel, Races
    <2> QED BY <1>8, <2>2, <2>3, <2>4, FinishType DEF CommitCancel, TypeOK, JobsType
  <1>9. ASSUME CancelRefundFails(r) PROVE TypeOK'
    BY <1>9, FinishType DEF CancelRefundFails, TypeOK, JobsType
  <1>10. ASSUME Expire(b) PROVE TypeOK'
    <2>1. bk' \in [Bookings -> Row]
      BY <1>10, ReleasedType DEF Expire, Statuses
    <2>2. holds' \subseteq holds
      BY <1>10 DEF Expire, WithoutHold
    <2> QED BY <1>10, <2>1, <2>2 DEF Expire, TypeOK
  <1> QED BY <1>1, <1>2, <1>3, <1>4, <1>5, <1>6, <1>7, <1>8, <1>9, <1>10

(* So do those of the conversion, of payments and refunds ...               *)
LEMMA PaymentStepType ==
  ASSUME TypeOK, NEW r \in Requests, NEW b \in Bookings
  PROVE  /\ BeginConvert(r, b) => TypeOK'
         /\ ReadConvert(r) => TypeOK'
         /\ CommitConvert(r) => TypeOK'
         /\ BeginCheckout(r, b) => TypeOK'
         /\ BeginRetry(r, b) => TypeOK'
         /\ BeginReplay(r, b) => TypeOK'
         /\ Attach(r) => TypeOK'
         /\ SessionFails(r) => TypeOK'
         /\ PaymentFails(b) => TypeOK'
         /\ OrderRejected(b) => TypeOK'
         /\ BeginSettle(r, b) => TypeOK'
         /\ CommitSettle(r) => TypeOK'
         /\ BeginRefund(r, b) => TypeOK'
         /\ CommitRefund(r) => TypeOK'
  <1>0. ASSUME NEW c \in Bookings, ConvertFails(r), job[r].b = c PROVE TypeOK'
    <2>1. [bk[c] EXCEPT !.resv = Nobody, !.live = FALSE] \in Row
      BY RowType DEF Row
    <2>2. bk' \in [Bookings -> Row]
      BY <1>0, <2>1, UpdateType DEF ConvertFails, ReleaseReservation, TypeOK
    <2> QED BY <1>0, <2>2, FinishType DEF ConvertFails, TypeOK, JobsType
  <1>1. ASSUME BeginConvert(r, b) PROVE TypeOK'
    <2>1. NewJob("convert", b) \in Job /\ NewJob("convert", b).b = b
      BY NewJobType, HoldZero DEF Ops, Statuses
    <2>2. [bk[b] EXCEPT !.resv = r, !.live = TRUE] \in Row
      BY RowType DEF Row
    <2> QED BY <1>1, <2>1, <2>2, KeysType, StartType, UpdateType DEF BeginConvert, TypeOK, JobsType
  <1>2. ASSUME ReadConvert(r) PROVE TypeOK'
    <2>1. job[r] \in Job /\ job[r].b \in Bookings
      BY <1>2 DEF TypeOK, ReadConvert, Ops
    <2>2. CASE ConvertFails(r)
      BY <1>0, <2>1, <2>2
    <2>3. CASE /\ job' = [job EXCEPT ![r] = [job[r] EXCEPT !.at = "checked", !.hold = bk[job[r].b].hold]]
               /\ UNCHANGED <<posting, bk, holds, ownerBlocks, held, races>>
      <3>1. [job[r] EXCEPT !.at = "checked", !.hold = bk[job[r].b].hold] \in Job
        BY <2>1, RowType DEF Job
      <3>2. job' \in [Requests -> Job] /\ \A q \in Requests : job'[q].op = job[q].op /\ job'[q].b = job[q].b
        BY <2>3, <3>1, <2>1 DEF TypeOK, Job
      <3> QED BY <2>3, <3>2 DEF TypeOK
    <2> QED BY <1>2, <2>2, <2>3 DEF ReadConvert
  <1>3. ASSUME CommitConvert(r) PROVE TypeOK'
    <2>1. job[r].b \in Bookings
      BY <1>3 DEF TypeOK, CommitConvert, Ops
    <2>2. CASE ConvertFails(r)
      BY <1>0, <2>1, <2>2
    <2>3. CASE ~ConvertFails(r)
      <3>1. [bk[job[r].b] EXCEPT !.converted = TRUE, !.hold = 0, !.resv = Nobody, !.live = FALSE] \in Row
        <4>1. bk[job[r].b] \in Row
          BY <2>1, RowType
        <4> QED BY <4>1, HoldZero DEF Row
      <3>2. bk' \in [Bookings -> Row]
        BY <1>3, <2>3, <3>1, UpdateType DEF CommitConvert
      <3>3. holds' \subseteq holds
        BY <1>3, <2>3 DEF CommitConvert, WithoutHold
      <3>4. races' \in [Bookings -> SUBSET Races]
        BY <1>3, <2>3, NoteType DEF CommitConvert, Races
      <3> QED BY <1>3, <2>3, <3>2, <3>3, <3>4, FinishType DEF CommitConvert, TypeOK, JobsType
    <2> QED BY <2>2, <2>3
  <1>4. ASSUME NEW kind, NEW c PROVE
          /\ Replaced(kind, c) \in [Requests -> Job]
          /\ \A q \in Requests : /\ Replaced(kind, c)[q].op = job[q].op
                                 /\ Replaced(kind, c)[q].b = job[q].b
    BY ReplacedType
  <1>5. ASSUME BeginCheckout(r, b) PROVE TypeOK'
    <2>1. [bk[b] EXCEPT !.pay = "none", !.retry = FALSE] \in Row
      BY RowType DEF Row
    <2>2. bk' \in [Bookings -> Row]
      BY <1>5, <2>1, UpdateType DEF BeginCheckout, TypeOK
    <2>3. [NewJob("checkout", b) EXCEPT !.clear = TRUE] \in Job
      BY NewJobType, HoldZero DEF Ops, Statuses
    <2>4. [NewJob("checkout", b) EXCEPT !.clear = TRUE].b = b
      BY DEF NewJob, Idle
    <2>5. job' \in [Requests -> Job] /\ \A q \in Requests : job'[q].op \in Ops => job'[q].b \in Bookings
      BY <1>5, <1>4, <2>3, <2>4 DEF BeginCheckout, TypeOK
    <2>6. held' \in [Requests -> SUBSET LockKeys]
      BY <1>5, KeysType DEF BeginCheckout, AcquireLocks, TypeOK
    <2> QED BY <1>5, <2>2, <2>5, <2>6 DEF BeginCheckout, TypeOK
  <1>6. ASSUME BeginRetry(r, b) PROVE TypeOK'
    <2>1. [bk[b] EXCEPT !.retry = FALSE, !.status = "payment_processing"] \in Row
      BY RowType DEF Row, Statuses
    <2>2. [NewJob("retry", b) EXCEPT !.clear = TRUE] \in Job
      BY NewJobType, HoldZero DEF Ops, Statuses
    <2>3. [NewJob("retry", b) EXCEPT !.clear = TRUE].b = b
      BY DEF NewJob, Idle
    <2>4. races' \in [Bookings -> SUBSET Races]
      BY <1>6, NoteType DEF BeginRetry, Races
    <2> QED BY <1>6, <2>1, <2>2, <2>3, <2>4, StartType, UpdateType DEF BeginRetry, TypeOK, JobsType
  <1>6a. ASSUME BeginReplay(r, b) PROVE TypeOK'
    <2>1. NewJob("checkout", b) \in Job /\ NewJob("checkout", b).b = b
      BY NewJobType, HoldZero DEF Ops, Statuses
    <2> QED BY <1>6a, <2>1, KeysType, StartType DEF BeginReplay, TypeOK, JobsType
  <1>7. ASSUME Attach(r) PROVE TypeOK'
    <2>1. job[r].b \in Bookings
      BY <1>7 DEF TypeOK, Attach, Ops
    <2>2. [bk[job[r].b] EXCEPT !.status = "payment_processing", !.pay = "open"] \in Row
      BY <2>1, RowType DEF Row, Statuses
    <2>3. bk' \in [Bookings -> Row]
      BY <1>7, <2>2, UpdateType DEF Attach
    <2>4. job' \in [Requests -> Job] /\ \A q \in Requests : job'[q].op \in Ops => job'[q].b \in Bookings
      BY <1>7, <1>4, IdleType DEF Attach, TypeOK, Idle, Ops
    <2>5. races' \in [Bookings -> SUBSET Races]
      BY <1>7, NoteType DEF Attach, Races
    <2> QED BY <1>7, <2>3, <2>4, <2>5 DEF Attach, TypeOK, ReleaseLocks
  <1>8. ASSUME SessionFails(r) PROVE TypeOK'
    <2>1. job[r].b \in Bookings
      BY <1>8 DEF TypeOK, SessionFails, Ops
    <2>2. ASSUME NEW again \in BOOLEAN
          PROVE  [bk[job[r].b] EXCEPT !.status = "payment_failed", !.retry = again] \in Row
      <3>1. bk[job[r].b] \in Row
        BY <2>1, RowType
      <3> QED BY <3>1 DEF Row, Statuses
    <2>3. bk' \in [Bookings -> Row]
      <3>1. CASE UNCHANGED bk
        BY <3>1 DEF TypeOK
      <3>2. CASE ~UNCHANGED bk
        <4>1. PICK again \in BOOLEAN :
                bk' = UpdateRow(job[r].b, [bk[job[r].b] EXCEPT !.status = "payment_failed", !.retry = again])
          BY <1>8, <3>2 DEF SessionFails
        <4> QED BY <4>1, <2>2, UpdateType
      <3> QED BY <3>1, <3>2
    <2>4. races' \in [Bookings -> SUBSET Races]
      BY <1>8, NoteType DEF SessionFails, Races
    <2> QED BY <1>8, <2>3, <2>4, FinishType DEF SessionFails, TypeOK, JobsType
  <1>9. ASSUME PaymentFails(b) \/ OrderRejected(b) PROVE TypeOK'
    <2>1. [bk[b] EXCEPT !.status = "payment_failed"] \in Row
      BY RowType DEF Row, Statuses
    <2> QED BY <1>9, <2>1, UpdateType DEF PaymentFails, OrderRejected, TypeOK
  <1>10. ASSUME BeginSettle(r, b) PROVE TypeOK'
    <2>1. SettleJob(b) \in Job
      <3>1. bk[b].hold \in HoldIds /\ (~BlockingOverlap(bk[b].win, b)) \in BOOLEAN
            /\ bk[b].converted \in BOOLEAN /\ "settle" \in Ops
        BY RowType DEF Row, Ops
      <3> QED BY <3>1, NewJobType DEF SettleJob
    <2>2. SettleJob(b).b = b
      BY DEF NewJob, Idle, SettleJob
    <2> QED BY <1>10, <2>1, <2>2, KeysType, StartType DEF BeginSettle, TypeOK, JobsType
  <1>11. ASSUME CommitSettle(r) PROVE TypeOK'
    <2> DEFINE c == job[r].b
    <2>1. c \in Bookings /\ job[r] \in Job
      BY <1>11 DEF TypeOK, CommitSettle, Ops
    <2>2. /\ [bk[c] EXCEPT !.flagged = TRUE] \in Row
          /\ [bk[c] EXCEPT !.pay = "charged"] \in Row
          /\ [bk[c] EXCEPT !.flagged = TRUE, !.pay = "charged"] \in Row
      <3>1. bk[c] \in Row
        BY <2>1, RowType
      <3> HIDE DEF c
      <3>2. [bk[c] EXCEPT !.flagged = TRUE] \in Row /\ [bk[c] EXCEPT !.pay = "charged"] \in Row
        BY <3>1 DEF Row
      <3>3. [bk[c] EXCEPT !.flagged = TRUE, !.pay = "charged"] \in Row
        BY <3>1 DEF Row
      <3> QED BY <3>2, <3>3
    <2>3. job[r].hold \in HoldIds /\ bk[c].hold \in HoldIds
      BY <2>1, RowType DEF Job
    <2>4. bk[c].made + 1 <= MaxHolds => bk[c].made + 1 \in 1 .. MaxHolds /\ bk[c].made + 1 \in HoldIds
      BY <2>1, RowType, MaxHoldsNat DEF HoldIds
    <2>5. bk' \in [Bookings -> Row] /\ holds' \subseteq Bookings \X (1 .. MaxHolds)
      <3>1. CASE bk' = bk /\ UNCHANGED holds
        BY <3>1 DEF TypeOK
      <3>2. CASE UNCHANGED holds /\ \E row \in Row : bk' = UpdateRow(c, row)
        BY <3>2, UpdateType DEF TypeOK
      <3>3. CASE /\ bk[c].made + 1 <= MaxHolds
                 /\ bk' = UpdateRow(c, [PaidWith(c, bk[c].made + 1) EXCEPT !.made = bk[c].made + 1])
                 /\ holds' = holds \cup {<<c, bk[c].made + 1>>}
        BY <3>3, <2>1, <2>4, PaidWithType, UpdateType DEF TypeOK
      <3>4. \A h \in HoldIds : PaidWith(c, h) \in Row
        BY <2>1, PaidWithType
      <3> QED BY <1>11, <3>1, <3>2, <3>3, <3>4, <2>2, <2>3 DEF CommitSettle, NeedsReconciliation
    <2>6. races' \in [Bookings -> SUBSET Races]
      BY <1>11, NoteType DEF CommitSettle, Races
    <2> QED BY <1>11, <2>5, <2>6, FinishType DEF CommitSettle, TypeOK, JobsType
  <1>12. ASSUME BeginRefund(r, b) PROVE TypeOK'
    <2>1. [NewJob("refund", b) EXCEPT !.hold = bk[b].hold, !.seen = bk[b].status] \in Job
      <3>1. NewJob("refund", b) \in Job
        BY NewJobType DEF Ops
      <3> QED BY <3>1, RowType DEF Job
    <2>2. [NewJob("refund", b) EXCEPT !.hold = bk[b].hold, !.seen = bk[b].status].b = b
      BY DEF NewJob, Idle
    <2> QED BY <1>12, <2>1, <2>2, StartType DEF BeginRefund, TypeOK, JobsType
  <1>13. ASSUME CommitRefund(r) PROVE TypeOK'
    <2>1. job[r].b \in Bookings
      BY <1>13 DEF TypeOK, CommitRefund, Ops
    <2>2. ASSUME NEW s \in Statuses PROVE [bk[job[r].b] EXCEPT !.hold = 0, !.status = s] \in Row
      <3>1. bk[job[r].b] \in Row
        BY <2>1, RowType
      <3> QED BY <3>1, HoldZero DEF Row
    <2>3. bk[job[r].b].status \in Statuses /\ "refunded" \in Statuses
      BY <2>1, RowType DEF Statuses
    <2>4. bk' \in [Bookings -> Row]
      BY <1>13, <2>2, <2>3, UpdateType DEF CommitRefund
    <2>5. holds' \subseteq holds
      BY <1>13 DEF CommitRefund, WithoutHold
    <2>6. races' \in [Bookings -> SUBSET Races]
      BY <1>13, NoteType DEF CommitRefund, Races
    <2> QED BY <1>13, <2>4, <2>5, <2>6, FinishType DEF CommitRefund, TypeOK, JobsType
  <1> QED BY <1>1, <1>2, <1>3, <1>5, <1>6, <1>6a, <1>7, <1>8, <1>9, <1>10, <1>11, <1>12, <1>13

(* ... and of owners, clocks and failures.                                  *)
LEMMA OtherStepType ==
  ASSUME TypeOK, NEW r \in Requests, NEW b \in Bookings
  PROVE  /\ \A w \in Windows : \A old : WriteOwnerBlock(w, old) => TypeOK'
         /\ \A w \in Windows : DeleteOwnerBlock(w) => TypeOK'
         /\ HoldLapses(b) => TypeOK'
         /\ ReservationLapses(b) => TypeOK'
         /\ \A k : LockLapses(r, k) => TypeOK'
         /\ Crash(r) => TypeOK'
         /\ DeadLocksLapse(r) => TypeOK'
  <1>1. ASSUME NEW w \in Windows, NEW old, WriteOwnerBlock(w, old) PROVE TypeOK'
    BY <1>1 DEF WriteOwnerBlock, TypeOK
  <1>2. ASSUME NEW w \in Windows, DeleteOwnerBlock(w) PROVE TypeOK'
    BY <1>2 DEF DeleteOwnerBlock, TypeOK
  <1>3. ASSUME HoldLapses(b) PROVE TypeOK'
    <2>1. [bk[b] EXCEPT !.lapsed = TRUE] \in Row
      BY RowType DEF Row
    <2> QED BY <1>3, <2>1, UpdateType DEF HoldLapses, TypeOK
  <1>4. ASSUME ReservationLapses(b) PROVE TypeOK'
    <2>1. [bk[b] EXCEPT !.live = FALSE] \in Row
      BY RowType DEF Row
    <2> QED BY <1>4, <2>1, UpdateType DEF ReservationLapses, TypeOK
  <1>5. ASSUME NEW k, LockLapses(r, k) PROVE TypeOK'
    BY <1>5 DEF LockLapses, LapseLock, TypeOK
  <1>6. ASSUME Crash(r) PROVE TypeOK'
    <2>1. [Idle EXCEPT !.op = "dead"] \in Job /\ [Idle EXCEPT !.op = "dead"].op = "dead"
      BY IdleType DEF Job, Idle
    <2> QED BY <1>6, <2>1 DEF Crash, TypeOK, Ops
  <1>7. ASSUME DeadLocksLapse(r) PROVE TypeOK'
    BY <1>7, FinishType DEF DeadLocksLapse, TypeOK, JobsType
  <1> QED BY <1>1, <1>2, <1>3, <1>4, <1>5, <1>6, <1>7

(* Every step keeps the types.                                              *)
LEMMA NextType == TypeOK /\ [Next]_vars => TypeOK'
  <1> SUFFICES ASSUME TypeOK, [Next]_vars PROVE TypeOK'
    OBVIOUS
  <1>0. PICK r0 \in Requests, b0 \in Bookings : TRUE
    BY BookingWindowAssumption
  <1>1. ASSUME NEW r \in Requests, JobStep(r) PROVE TypeOK'
    BY <1>0, <1>1, BookingStepType, PaymentStepType, OtherStepType DEF JobStep
  <1>2. ASSUME NEW r \in Requests, Crash(r) \/ \E k \in held[r] : LockLapses(r, k) PROVE TypeOK'
    BY <1>0, <1>2, OtherStepType
  <1>3. ASSUME NEW r \in Requests, NEW b \in Bookings,
               \/ \E w \in Windows : BeginCreate(r, b, w)
               \/ BeginCancel(r, b) \/ BeginConvert(r, b) \/ BeginCheckout(r, b)
               \/ BeginRetry(r, b) \/ BeginReplay(r, b) \/ BeginSettle(r, b) \/ BeginRefund(r, b)
        PROVE  TypeOK'
    BY <1>3, BookingStepType, PaymentStepType
  <1>4. ASSUME NEW b \in Bookings,
               \/ Approve(b) \/ Decline(b) \/ (\E w \in Windows : UpdateOwnPending(b, w))
               \/ PaymentFails(b) \/ OrderRejected(b) \/ Expire(b)
               \/ HoldLapses(b) \/ ReservationLapses(b)
        PROVE  TypeOK'
    BY <1>0, <1>4, BookingStepType, PaymentStepType, OtherStepType
  <1>5. ASSUME NEW w \in Windows,
               DeleteOwnerBlock(w) \/ \E old \in ownerBlocks \cup {NoWindow} : WriteOwnerBlock(w, old)
        PROVE  TypeOK'
    BY <1>0, <1>5, OtherStepType
  <1>6. ASSUME PausePosting \/ UnpausePosting \/ ArchivePosting PROVE TypeOK'
    BY <1>6 DEF PausePosting, UnpausePosting, ArchivePosting, TypeOK
  <1>7. CASE UNCHANGED vars
    BY <1>7 DEF vars, TypeOK
  <1> QED BY <1>1, <1>2, <1>3, <1>4, <1>5, <1>6, <1>7 DEF Next

(* Every row, block, lock and job keeps its type in every behaviour: lapsing
   locks, crashes, snapshot reads and the retry worker included.            *)
THEOREM TypeCorrect == Spec => []TypeOK
  BY InitType, NextType, PTL DEF Spec

-----------------------------------------------------------------------------
(* No double booking.  The invariant is CalendarInv: the locks serialize the
   jobs that look at the calendar, and what such a job saw is still true when
   it writes.                                                               *)

(* The locks of a job depend on what it does and to which booking.          *)
LEMMA KeysSame ==
  ASSUME NEW j, NEW k, j.op = k.op, j.b = k.b
  PROVE  KeysOf(j) = KeysOf(k)
  BY DEF KeysOf

(* Taking free locks, and giving locks back, keeps every job's locks its own. *)
LEMMA StartLocks ==
  ASSUME TypeOK, LocksHeld, NEW r \in Requests, NEW keys, NEW j,
         Start(r, keys, j), KeysOf(j) \subseteq keys
  PROVE  LocksHeld'
  <1>1. \A q \in Requests : held[q] \cap keys = {}
    BY DEF TypeOK, Start, LocksFree
  <1>2. /\ held'[r] = held[r] \cup keys /\ job'[r] = j
        /\ \A q \in Requests : q # r => held'[q] = held[q] /\ job'[q] = job[q]
    BY DEF TypeOK, Start, AcquireLocks
  <1>3. \A q \in Requests : KeysOf(job'[q]) \subseteq held'[q]
    BY <1>2 DEF LocksHeld
  <1>4. \A p, q \in Requests : p # q => held'[p] \cap held'[q] = {}
    BY <1>1, <1>2 DEF LocksHeld
  <1> QED BY <1>3, <1>4 DEF LocksHeld, KeysOf, Window, Cap, Decision, State, Convert

(* A finished job keeps no lock and needs none.                             *)
LEMMA FinishLocks ==
  ASSUME TypeOK, LocksHeld, NEW r \in Requests, Finish(r)
  PROVE  LocksHeld'
  <1>1. /\ held'[r] = {} /\ job'[r] = Idle
        /\ \A q \in Requests : q # r => held'[q] = held[q] /\ job'[q] = job[q]
    BY DEF TypeOK, Finish, ReleaseLocks
  <1>2. KeysOf(Idle) = {}
    BY DEF KeysOf, Idle
  <1>3. \A q \in Requests : KeysOf(job'[q]) \subseteq held'[q]
    BY <1>1, <1>2 DEF LocksHeld
  <1>4. \A p, q \in Requests : p # q => held'[p] \cap held'[q] = {}
    BY <1>1 DEF LocksHeld
  <1> QED BY <1>3, <1>4 DEF LocksHeld, KeysOf, Window, Cap, Decision, State, Convert

(* Steps that leave locks, operations and bookings alone keep LocksHeld.    *)
LEMMA KeptLocks ==
  ASSUME TypeOK, LocksHeld, held' = held,
         \A q \in Requests : KeysOf(job'[q]) \subseteq KeysOf(job[q])
  PROVE  LocksHeld'
  <1>1. \A q \in Requests : KeysOf(job'[q]) \subseteq held'[q]
    BY DEF LocksHeld
  <1>2. \A p, q \in Requests : p # q => held'[p] \cap held'[q] = {}
    BY DEF LocksHeld
  <1> QED BY <1>1, <1>2 DEF LocksHeld, KeysOf, Window, Cap, Decision, State, Convert

(* The jobs a checkout or an attached order replaced keep their locks.      *)
LEMMA ReplacedSame ==
  ASSUME TypeOK, NEW kind, NEW b, NEW q \in Requests
  PROVE  Replaced(kind, b)[q].op = job[q].op /\ Replaced(kind, b)[q].b = job[q].b
  BY ReplacedType

(* Every running job has its locks and no lock has two owners, as long as no
   lock lapses under its job.                                               *)
LEMMA LockStep ==
  ASSUME ~LockMayLapse, TypeOK, LocksHeld, [Next]_vars
  PROVE  LocksHeld'
  <1>1. ASSUME NEW r \in Requests, NEW b \in Bookings,
               \/ \E w \in Windows : BeginCreate(r, b, w)
               \/ BeginCancel(r, b) \/ BeginConvert(r, b)
               \/ BeginRetry(r, b) \/ BeginReplay(r, b) \/ BeginSettle(r, b) \/ BeginRefund(r, b)
        PROVE  LocksHeld'
    <2>1. CASE \E w \in Windows : BeginCreate(r, b, w)
      <3>1. PICK w \in Windows : BeginCreate(r, b, w)
        BY <2>1
      <3>2. KeysOf([NewJob("create", b) EXCEPT !.win = w]) = {Window, Cap(b)}
        BY DEF KeysOf, NewJob, Idle
      <3> QED BY <3>1, <3>2, StartLocks DEF BeginCreate
    <2>2. CASE BeginCancel(r, b)
      <3>1. KeysOf([NewJob("cancel", b) EXCEPT !.seen = bk[b].status]) = {Decision(b), State(b), Window}
        BY DEF KeysOf, NewJob, Idle
      <3> QED BY <2>2, <3>1, StartLocks DEF BeginCancel
    <2>3. CASE BeginConvert(r, b)
      <3>1. KeysOf(NewJob("convert", b)) = {Convert(b), Window}
        BY DEF KeysOf, NewJob, Idle
      <3> QED BY <2>3, <3>1, StartLocks DEF BeginConvert
    <2>4. CASE BeginRetry(r, b)
      <3>1. KeysOf([NewJob("retry", b) EXCEPT !.clear = TRUE]) = {}
        BY DEF KeysOf, NewJob, Idle
      <3> QED BY <2>4, <3>1, StartLocks DEF BeginRetry
    <2>4a. CASE BeginReplay(r, b)
      <3>1. KeysOf(NewJob("checkout", b)) = {State(b)}
        BY DEF KeysOf, NewJob, Idle
      <3> QED BY <2>4a, <3>1, StartLocks DEF BeginReplay
    <2>5. CASE BeginSettle(r, b)
      <3>1. KeysOf(SettleJob(b)) = {State(b), Window}
        BY DEF KeysOf, SettleJob, NewJob, Idle
      <3> QED BY <2>5, <3>1, StartLocks DEF BeginSettle
    <2>6. CASE BeginRefund(r, b)
      <3>1. KeysOf([NewJob("refund", b) EXCEPT !.hold = bk[b].hold, !.seen = bk[b].status]) = {}
        BY DEF KeysOf, NewJob, Idle
      <3> QED BY <2>6, <3>1, StartLocks DEF BeginRefund
    <2> QED BY <1>1, <2>1, <2>2, <2>3, <2>4, <2>4a, <2>5, <2>6
  <1>2. ASSUME NEW r \in Requests, NEW b \in Bookings, BeginCheckout(r, b) PROVE LocksHeld'
    <2>1. KeysOf([NewJob("checkout", b) EXCEPT !.clear = TRUE]) = {State(b)}
      BY DEF KeysOf, NewJob, Idle
    <2>2. /\ held'[r] = held[r] \cup {State(b)}
          /\ \A q \in Requests : held[q] \cap {State(b)} = {}
          /\ \A q \in Requests : q # r => held'[q] = held[q]
      BY <1>2 DEF BeginCheckout, AcquireLocks, LocksFree, TypeOK
    <2>3. KeysOf(job'[r]) = {State(b)}
      BY <1>2, <2>1 DEF BeginCheckout
    <2>4. \A q \in Requests : q # r => job'[q].op = job[q].op /\ job'[q].b = job[q].b
      BY <1>2, ReplacedSame DEF BeginCheckout
    <2>5. \A q \in Requests : q # r => KeysOf(job'[q]) = KeysOf(job[q])
      BY <2>4, KeysSame
    <2>6. \A q \in Requests : KeysOf(job'[q]) \subseteq held'[q]
      BY <2>2, <2>3, <2>5 DEF LocksHeld
    <2>7. \A p, q \in Requests : p # q => held'[p] \cap held'[q] = {}
      BY <2>2 DEF LocksHeld
    <2> QED BY <2>6, <2>7 DEF LocksHeld, KeysOf, Window, Cap, Decision, State, Convert
  <1>3. ASSUME NEW r \in Requests, Attach(r) PROVE LocksHeld'
    <2>1. KeysOf(Idle) = {}
      BY DEF KeysOf, Idle
    <2>2. held'[r] = {} /\ \A q \in Requests : q # r => held'[q] = held[q]
      BY <1>3 DEF Attach, ReleaseLocks, TypeOK
    <2>3. job'[r] = Idle /\ \A q \in Requests : q # r => job'[q].op = job[q].op /\ job'[q].b = job[q].b
      <3>1. Replaced("checkout", job[r].b) \in [Requests -> Job]
        BY ReplacedType
      <3> QED BY <1>3, <3>1, ReplacedSame DEF Attach
    <2>4. \A q \in Requests : q # r => KeysOf(job'[q]) = KeysOf(job[q])
      BY <2>3, KeysSame
    <2>5. \A q \in Requests : KeysOf(job'[q]) \subseteq held'[q]
      BY <2>1, <2>2, <2>3, <2>4 DEF LocksHeld
    <2>6. \A p, q \in Requests : p # q => held'[p] \cap held'[q] = {}
      BY <2>2 DEF LocksHeld
    <2> QED BY <2>5, <2>6 DEF LocksHeld, KeysOf, Window, Cap, Decision, State, Convert
  <1>4. ASSUME NEW r \in Requests, Finish(r) PROVE LocksHeld'
    BY <1>4, FinishLocks
  <1>5. ASSUME NEW r \in Requests, NEW j \in Job, held' = held, job' = [job EXCEPT ![r] = j],
               (j.op = job[r].op /\ j.b = job[r].b) \/ j.op = "dead"
        PROVE  LocksHeld'
    <2>1. job'[r] = j /\ \A q \in Requests : q # r => job'[q] = job[q]
      BY <1>5 DEF TypeOK
    <2>2. KeysOf(j) \subseteq KeysOf(job[r])
      <3>1. CASE j.op = "dead"
        BY <3>1 DEF KeysOf
      <3> QED BY <1>5, <3>1, KeysSame
    <2> QED BY <1>5, <2>1, <2>2, KeptLocks
  <1>6. ASSUME NEW r \in Requests, JobStep(r) PROVE LocksHeld'
    <2>1. CASE Finish(r) \/ Attach(r)
      BY <1>3, <1>4, <2>1
    <2>2. CASE CommitCreate(r) /\ ~Finish(r)
      <3>1. job[r] \in Job
        BY DEF TypeOK
      <3>2. [job[r] EXCEPT !.at = "instant"] \in Job /\ [job[r] EXCEPT !.at = "instant"].op = job[r].op
              /\ [job[r] EXCEPT !.at = "instant"].b = job[r].b
        BY <3>1 DEF Job
      <3>3. held' = held /\ job' = [job EXCEPT ![r] = [job[r] EXCEPT !.at = "instant"]]
        BY <2>2 DEF CommitCreate
      <3> HIDE DEF Job
      <3> QED BY <3>2, <3>3, <1>5
    <2>3. CASE ReadConvert(r) /\ ~Finish(r)
      <3> DEFINE j == [job[r] EXCEPT !.at = "checked", !.hold = bk[job[r].b].hold]
      <3>1. job[r] \in Job /\ job[r].b \in Bookings
        BY <2>3 DEF TypeOK, ReadConvert, Ops
      <3>2. j \in Job /\ j.op = job[r].op /\ j.b = job[r].b
        BY <3>1, RowType DEF Job
      <3>3. held' = held /\ job' = [job EXCEPT ![r] = j]
        BY <2>3 DEF ReadConvert, ConvertFails
      <3> HIDE DEF j
      <3> QED BY <3>2, <3>3, <1>5
    <2> QED BY <1>6, <2>1, <2>2, <2>3 DEF JobStep, CommitCreate, InstantApprove, CommitCancel,
               CancelRefundFails, ReadConvert, CommitConvert, ConvertFails, SessionFails,
               CommitSettle, CommitRefund, DeadLocksLapse
  <1>7. ASSUME NEW r \in Requests, Crash(r) PROVE LocksHeld'
    <2>1. [Idle EXCEPT !.op = "dead"] \in Job /\ [Idle EXCEPT !.op = "dead"].op = "dead"
      BY IdleType DEF Job, Idle
    <2> QED BY <1>7, <2>1, <1>5 DEF Crash
  <1>8. CASE held' = held /\ job' = job
    BY <1>8, KeptLocks
  <1> QED BY <1>1, <1>2, <1>6, <1>7, <1>8 DEF Next, vars, LockLapses, Approve, Decline, UpdateOwnPending,
            PaymentFails, OrderRejected, Expire, HoldLapses, ReservationLapses, DeleteOwnerBlock,
            WriteOwnerBlock, PausePosting, UnpausePosting, ArchivePosting

-----------------------------------------------------------------------------
(* What the invariant says of rows and blocks.                              *)
RowsRight ==
  /\ \A b \in Bookings : ~bk[b].retry
  /\ UndecidedIsClean /\ DatesKnown /\ HoldIsPaid /\ TakenApart

(* A row update that takes no dates: the window and the conversion stay, and
   no request appears, becomes undecided, becomes paid or gets a hold.      *)
Mild(old, new) ==
  /\ new.win = old.win /\ new.converted = old.converted
  /\ new.retry => old.retry
  /\ old.status = "none" => new.status = "none"
  /\ new.status \in {"none", "pending"} => old.status \in {"none", "pending"} /\ new.pay = old.pay
  /\ new.hold # 0 => /\ new.hold = old.hold /\ new.status = old.status
                     /\ new.pay \in {old.pay, "charged"}
  /\ new.status = "paid" => old.status = "paid"

(* An unchanged row is such an update.                                      *)
LEMMA MildSame == \A x : Mild(x, x)
  BY DEF Mild

(* Such an update, with or without the deletion of a block of its booking,
   keeps rows and blocks right, and what the other jobs learned.            *)
LEMMA MildStep ==
  ASSUME TypeOK, TypeOK', CalendarInv, NEW b0 \in Bookings,
         holds' \subseteq holds,
         \A c \in Bookings : c # b0 =>
             bk'[c] = bk[c] /\ \A n \in HoldIds : <<c, n>> \in holds => <<c, n>> \in holds',
         Mild(bk[b0], bk'[b0]),
         bk'[b0].hold # 0 \/ (bk'[b0].status = "paid" /\ ~bk'[b0].converted) => holds' = holds
  PROVE  RowsRight' /\ \A q \in Requests : job'[q] = job[q] => JobRight(job[q])'
  <1>1. \A c \in Bookings : Mild(bk[c], bk'[c])
    BY MildSame
  <1>2. \A c \in Bookings : bk'[c].win = bk[c].win /\ bk'[c].converted = bk[c].converted
    BY <1>1 DEF Mild
  <1>3. \A c \in Bookings : Taken(c)' => Taken(c)
    BY <1>2 DEF Taken
  <1>4. \A c \in Bookings : NoneTaken(c) => NoneTaken(c)'
    BY <1>2, <1>3 DEF NoneTaken, Overlaps
  <1>5. TakenApart'
    BY <1>3, <1>4 DEF TakenApart, CalendarInv
  <1>6. UndecidedIsClean'
    BY <1>1, <1>2 DEF UndecidedIsClean, Undecided, CalendarInv, Mild
  <1>7. \A c \in Bookings : ~bk'[c].retry
    BY <1>1 DEF Mild, CalendarInv, NoRetries
  <1>8. HoldIsPaid'
    <2>1. ASSUME NEW c \in Bookings, bk'[c].hold # 0
          PROVE  /\ <<c, bk'[c].hold>> \in holds'
                 /\ bk'[c].status = "paid" /\ ~bk'[c].converted /\ bk'[c].pay = "charged"
      <3>1. bk'[c].hold = bk[c].hold /\ bk'[c].status = bk[c].status /\ bk'[c].converted = bk[c].converted
              /\ bk'[c].pay \in {bk[c].pay, "charged"}
        BY <1>1, <2>1 DEF Mild
      <3>2. <<c, bk[c].hold>> \in holds /\ bk[c].status = "paid" /\ ~bk[c].converted
              /\ bk[c].pay = "charged" /\ bk[c].hold \in HoldIds
        BY <2>1, <3>1, RowType DEF CalendarInv, HoldIsPaid
      <3> QED BY <2>1, <3>1, <3>2
    <2>2. ASSUME NEW c \in Bookings, bk'[c].status = "paid", ~bk'[c].converted
          PROVE  \E n \in HoldIds : <<c, n>> \in holds'
      <3>1. bk[c].status = "paid" /\ ~bk[c].converted
        BY <1>1, <2>2 DEF Mild
      <3>2. PICK n \in HoldIds : <<c, n>> \in holds
        BY <3>1 DEF CalendarInv, HoldIsPaid
      <3> QED BY <2>2, <3>2
    <2> QED BY <2>1, <2>2 DEF HoldIsPaid
  <1>9. ASSUME NEW q \in Requests, job'[q] = job[q] PROVE JobRight(job[q])'
    <2>1. JobRight(job[q])
      BY DEF CalendarInv, JobsStillRight
    <2>2. job[q].op \in Ops => job[q].b \in Bookings
      BY DEF TypeOK
    <2>3. CASE job[q].op \in Ops
      <3>0. PICK c \in Bookings : c = job[q].b
        BY <2>2, <2>3
      <3>1. Mild(bk[c], bk'[c]) /\ (NoneTaken(c) => NoneTaken(c)')
        BY <1>1, <1>4
      <3>2. /\ bk[c].status = "none" => bk'[c].status = "none"
            /\ bk'[c].status \in {"none", "pending"} => bk[c].status \in {"none", "pending"}
            /\ bk[c].hold = 0 => bk'[c].hold = 0
            /\ bk'[c].converted = bk[c].converted
        BY <3>1 DEF Mild
      <3>3. job'[q].b = c
        BY <1>9, <3>0
      <3>4. NoneTaken(job[q].b)' <=> NoneTaken(c)'
        BY <3>3 DEF NoneTaken
      <3> QED BY <1>9, <2>1, <3>0, <3>1, <3>2, <3>4 DEF JobRight, Undecided
    <2>4. CASE job[q].op \notin Ops
      BY <1>9, <2>4 DEF JobRight, Ops
    <2> QED BY <2>3, <2>4
  <1>10. DatesKnown'
    BY <1>1 DEF DatesKnown, CalendarInv, Mild
  <1> QED BY <1>5, <1>6, <1>7, <1>8, <1>9, <1>10 DEF RowsRight

-----------------------------------------------------------------------------
(* Overlapping is symmetric on the windows of bookings.                     *)
LEMMA OverlapSymmetric ==
  ASSUME TypeOK, NEW b \in Bookings, NEW c \in Bookings, Overlaps(bk[b].win, bk[c].win)
  PROVE  Overlaps(bk[c].win, bk[b].win)
  <1>1. \A w \in Windows \cup {NoWindow} : w.start \in Int /\ w.end \in Int
    BY BookingWindowAssumption DEF NoWindow
  <1>2. bk[b].win \in Windows \cup {NoWindow} /\ bk[c].win \in Windows \cup {NoWindow}
    BY RowType
  <1> QED BY <1>1, <1>2 DEF Overlaps

(* hasBlockingAvailabilityOverlap sees every date that is taken: a renting,
   and any hold block of another booking.                                   *)
LEMMA FreeIsNoneTaken ==
  ASSUME TypeOK, CalendarInv, NEW b \in Bookings, ~BlockingOverlap(bk[b].win, b)
  PROVE  NoneTaken(b)
  <1> SUFFICES ASSUME NEW c \in Bookings, c # b, Taken(c), Overlaps(bk[b].win, bk[c].win) PROVE FALSE
    BY DEF NoneTaken
  <1>1. Overlaps(bk[c].win, bk[b].win)
    BY OverlapSymmetric
  <1>2. CASE bk[c].converted
    BY <1>1, <1>2 DEF BlockingOverlap, RentingOverlap
  <1>3. CASE \E n \in HoldIds : <<c, n>> \in holds
    <2>1. PICK n \in HoldIds : <<c, n>> \in holds
      BY <1>3
    <2>2. n # 0
      BY <2>1 DEF TypeOK
    <2>3. HoldBlocks(<<c, n>>, b)
      BY <2>2 DEF HoldBlocks, CalendarInv, HoldIsPaid
    <2> QED BY <1>1, <2>1, <2>3 DEF BlockingOverlap
  <1> QED BY <1>2, <1>3 DEF Taken

(* Only one job at a time has the window lock, and only one has the checkout
   lock of a booking.                                                       *)
LEMMA OneWindowJob ==
  ASSUME LocksHeld, NEW r \in Requests, NEW q \in Requests,
         {job[r].op, job[q].op} \subseteq {"create", "cancel", "convert", "settle"}
  PROVE  r = q
  <1>1. \A j : j.op \in {"create", "cancel", "convert", "settle"} => Window \in KeysOf(j)
    BY DEF KeysOf
  <1>2. Window \in held[r] /\ Window \in held[q]
    BY <1>1 DEF LocksHeld
  <1> QED BY <1>2 DEF LocksHeld

(* One job at a time has the checkout lock of a booking.                    *)
LEMMA OneStateJob ==
  ASSUME LocksHeld, NEW r \in Requests, NEW q \in Requests, job[r].b = job[q].b,
         {job[r].op, job[q].op} \subseteq {"checkout", "cancel", "settle"}
  PROVE  r = q
  <1>1. \A j : j.op \in {"checkout", "cancel", "settle"} => State(j.b) \in KeysOf(j)
    BY DEF KeysOf
  <1>2. State(job[r].b) \in held[r] /\ State(job[r].b) \in held[q]
    BY <1>1 DEF LocksHeld
  <1> QED BY <1>2 DEF LocksHeld

(* An undecided request may change its dates.                               *)
LEMMA MoveStep ==
  ASSUME TypeOK, TypeOK', CalendarInv, NEW b0 \in Bookings, Undecided(b0), holds' = holds,
         \A c \in Bookings : c # b0 => bk'[c] = bk[c],
         bk'[b0].status = "pending", ~bk'[b0].converted, bk'[b0].hold = 0,
         bk'[b0].pay = "none", ~bk'[b0].retry, bk'[b0].win \in Windows
  PROVE  /\ RowsRight'
         /\ \A q \in Requests :
               job'[q] = job[q] /\ ~(job[q].op = "create" /\ job[q].b = b0) => JobRight(job[q])'
  <1>1. ~Taken(b0) /\ ~Taken(b0)'
    BY DEF CalendarInv, UndecidedIsClean, Taken
  <1>2. \A c \in Bookings : Taken(c)' => Taken(c) /\ c # b0
    BY <1>1 DEF Taken
  <1>3. \A c \in Bookings : c # b0 /\ NoneTaken(c) => NoneTaken(c)'
    BY <1>2 DEF NoneTaken, Overlaps
  <1>4. TakenApart'
    BY <1>2, <1>3 DEF TakenApart, CalendarInv
  <1>5. UndecidedIsClean'
    BY DEF UndecidedIsClean, Undecided, CalendarInv
  <1>6. HoldIsPaid'
    BY DEF HoldIsPaid, CalendarInv
  <1>7. \A c \in Bookings : ~bk'[c].retry
    BY DEF CalendarInv, NoRetries
  <1>8. ASSUME NEW q \in Requests, job'[q] = job[q], ~(job[q].op = "create" /\ job[q].b = b0)
        PROVE  JobRight(job[q])'
    <2>1. JobRight(job[q])
      BY DEF CalendarInv, JobsStillRight
    <2>2. CASE job[q].op \in {"create", "checkout", "settle", "refund", "convert"}
      <3>1. PICK c \in Bookings : c = job[q].b
        BY <2>2 DEF TypeOK, Ops
      <3>2. c # b0
        BY <1>8, <2>1, <2>2, <3>1 DEF JobRight
      <3>3. NoneTaken(job[q].b)' <=> NoneTaken(c)'
        BY <1>8, <3>1 DEF NoneTaken
      <3> QED BY <1>3, <1>8, <2>1, <3>1, <3>2, <3>3 DEF JobRight, Undecided
    <2>3. CASE job[q].op \notin {"create", "checkout", "settle", "refund", "convert"}
      BY <1>8, <2>1, <2>3 DEF JobRight
    <2> QED BY <2>2, <2>3
  <1>9. DatesKnown'
    BY DEF DatesKnown, CalendarInv
  <1> QED BY <1>4, <1>5, <1>6, <1>7, <1>8, <1>9 DEF RowsRight

(* A booking may take dates that nobody has, in a job with the window lock.  *)
LEMMA TakeStep ==
  ASSUME TypeOK, TypeOK', CalendarInv, NEW r \in Requests, NEW b0 \in Bookings,
         job[r].b = b0, job[r].op \in {"convert", "settle"},
         NoneTaken(b0),
         \A c \in Bookings : c # b0 =>
             bk'[c] = bk[c] /\ \A n \in HoldIds : <<c, n>> \in holds' <=> <<c, n>> \in holds,
         bk'[b0].win = bk[b0].win, ~bk'[b0].retry, ~Undecided(b0)',
         bk'[b0].hold # 0 => /\ <<b0, bk'[b0].hold>> \in holds' /\ job[r].op = "settle"
                             /\ bk'[b0].status = "paid" /\ ~bk'[b0].converted
                             /\ bk'[b0].pay = "charged",
         bk'[b0].converted \/ bk'[b0].hold # 0
  PROVE  /\ RowsRight'
         /\ \A q \in Requests : q # r /\ job'[q] = job[q] => JobRight(job[q])'
  <1>1. \A c \in Bookings : c # b0 => (Taken(c)' <=> Taken(c))
    BY DEF Taken
  <1>2. \A c \in Bookings : bk'[c].win = bk[c].win
    OBVIOUS
  <1>3. NoneTaken(b0)'
    BY <1>1, <1>2 DEF NoneTaken, Overlaps
  <1>4. TakenApart'
    <2> SUFFICES ASSUME NEW c \in Bookings, Taken(c)', c # b0 PROVE NoneTaken(c)'
      BY <1>3 DEF TakenApart
    <2>1. NoneTaken(c)
      BY <1>1 DEF CalendarInv, TakenApart
    <2>2. ~Overlaps(bk[c].win, bk[b0].win)
      BY <1>1, OverlapSymmetric DEF NoneTaken
    <2>3. ~Overlaps(bk'[c].win, bk'[b0].win)
      BY <1>2, <2>2
    <2>4. \A d \in Bookings : d # c /\ d # b0 /\ Taken(d)' => ~Overlaps(bk'[c].win, bk'[d].win)
      BY <1>1, <1>2, <2>1 DEF NoneTaken
    <2> QED BY <2>3, <2>4 DEF NoneTaken, Overlaps
  <1>5. UndecidedIsClean'
    BY DEF UndecidedIsClean, Undecided, CalendarInv
  <1>6. \A c \in Bookings : ~bk'[c].retry
    BY DEF CalendarInv, NoRetries
  <1>7. HoldIsPaid'
    <2>1. ASSUME NEW c \in Bookings, c # b0
          PROVE  /\ bk'[c].hold # 0 => /\ <<c, bk'[c].hold>> \in holds'
                                       /\ bk'[c].status = "paid" /\ ~bk'[c].converted
                                       /\ bk'[c].pay = "charged"
                 /\ bk'[c].status = "paid" /\ ~bk'[c].converted => \E n \in HoldIds : <<c, n>> \in holds'
      <3>1. bk[c].hold \in HoldIds
        BY RowType
      <3> QED BY <2>1, <3>1 DEF HoldIsPaid, CalendarInv
    <2>2. bk'[b0].hold \in HoldIds
      BY DEF TypeOK, Row
    <2> QED BY <2>1, <2>2 DEF HoldIsPaid
  <1>8. ASSUME NEW q \in Requests, q # r, job'[q] = job[q] PROVE JobRight(job[q])'
    <2>1. JobRight(job[q])
      BY DEF CalendarInv, JobsStillRight
    <2>2. job[q].op \notin {"create", "cancel", "convert", "settle"}
      BY <1>8, OneWindowJob DEF CalendarInv
    <2>3. CASE job[q].op \in {"checkout", "refund"}
      <3>1. PICK c \in Bookings : c = job[q].b
        BY <2>3 DEF TypeOK, Ops
      <3>2. ~Undecided(c)'
        BY <2>1, <2>3, <3>1 DEF JobRight, Undecided
      <3>3. job[q].op = "checkout" => bk'[c].hold = 0
        BY <1>8, <2>1, <3>1, OneStateJob DEF JobRight, CalendarInv
      <3> QED BY <1>8, <2>1, <2>3, <3>1, <3>2, <3>3 DEF JobRight, Undecided
    <2>4. CASE job[q].op \notin {"checkout", "refund"}
      BY <1>8, <2>2, <2>4 DEF JobRight
    <2> QED BY <2>3, <2>4
  <1>9. DatesKnown'
    <2>1. ~Undecided(b0)
      BY DEF CalendarInv, JobsStillRight, JobRight
    <2> QED BY <2>1 DEF DatesKnown, CalendarInv, Undecided
  <1> QED BY <1>4, <1>5, <1>6, <1>7, <1>8, <1>9 DEF RowsRight

-----------------------------------------------------------------------------
(* The invariant without its locks.                                         *)
Calm ==
  /\ RowsRight
  /\ \A r \in Requests : job[r].op # "retry" /\ JobRight(job[r])

(* CalendarInv is its lock part and its calm part.                          *)
LEMMA CalmIsInv == CalendarInv <=> LocksHeld /\ Calm
  BY DEF CalendarInv, Calm, RowsRight, NoRetries, JobsStillRight

(* A step that changes b mildly, and at most deletes a block of it.         *)
MildUpdate(b) ==
  /\ holds' \subseteq holds
  /\ \A c \in Bookings : c # b =>
        bk'[c] = bk[c] /\ \A n \in HoldIds : <<c, n>> \in holds => <<c, n>> \in holds'
  /\ Mild(bk[b], bk'[b])
  /\ bk'[b].hold # 0 \/ (bk'[b].status = "paid" /\ ~bk'[b].converted) => holds' = holds

(* Writing one mild row is a mild update.                                   *)
LEMMA MildRow ==
  ASSUME TypeOK, NEW b \in Bookings, NEW row, bk' = UpdateRow(b, row), Mild(bk[b], row),
         \/ holds' = holds
         \/ row.hold = 0 /\ row.status # "paid" /\ \E h : holds' = WithoutHold(b, h)
  PROVE  MildUpdate(b)
  <1>1. bk'[b] = row /\ \A c \in Bookings : c # b => bk'[c] = bk[c]
    BY DEF UpdateRow, TypeOK
  <1>2. CASE holds' = holds
    BY <1>1, <1>2 DEF MildUpdate
  <1>3. CASE row.hold = 0 /\ row.status # "paid" /\ \E h : holds' = WithoutHold(b, h)
    <2>1. PICK h : holds' = WithoutHold(b, h)
      BY <1>3
    <2>2. holds' \subseteq holds
      BY <2>1 DEF WithoutHold
    <2>3. \A c \in Bookings : c # b => \A n \in HoldIds : <<c, n>> \in holds => <<c, n>> \in holds'
      BY <2>1 DEF WithoutHold
    <2> QED BY <1>1, <1>3, <2>2, <2>3 DEF MildUpdate
  <1> QED BY <1>2, <1>3

(* Writing nothing is a mild update.                                        *)
LEMMA MildNothing ==
  ASSUME TypeOK, NEW b \in Bookings, bk' = bk, holds' = holds
  PROVE  MildUpdate(b)
  BY MildSame DEF MildUpdate

(* A mild step in which at most one job moves on, to a right one.           *)
LEMMA CalmMild ==
  ASSUME TypeOK, TypeOK', CalendarInv, NEW b \in Bookings, NEW r \in Requests, MildUpdate(b),
         \A q \in Requests : q # r => job'[q] = job[q],
         job'[r] = job[r] \/ (job'[r].op # "retry" /\ JobRight(job[r])')
  PROVE  Calm'
  <1>1. RowsRight' /\ \A q \in Requests : job'[q] = job[q] => JobRight(job[q])'
    BY MildStep DEF MildUpdate
  <1>2. \A q \in Requests : JobRight(job[q])'
    BY <1>1
  <1>3. \A q \in Requests : job'[q].op # "retry"
    BY DEF CalendarInv, NoRetries
  <1> QED BY <1>1, <1>2, <1>3 DEF Calm

(* A request that did its work has nothing left to be right about.          *)
LEMMA DoneIsRight ==
  ASSUME TypeOK, NEW r \in Requests, Finish(r)
  PROVE  /\ \A q \in Requests : q # r => job'[q] = job[q]
         /\ job'[r].op # "retry" /\ JobRight(job[r])'
  <1>1. job'[r] = Idle /\ \A q \in Requests : q # r => job'[q] = job[q]
    BY DEF Finish, TypeOK
  <1>2. job'[r].op = "none"
    BY <1>1 DEF Idle
  <1> QED BY <1>1, <1>2 DEF JobRight

(* What Start leaves in the table of jobs.                                  *)
LEMMA StartedJob ==
  ASSUME TypeOK, NEW r \in Requests, NEW keys, NEW j, Start(r, keys, j)
  PROVE  job'[r] = j /\ \A q \in Requests : q # r => job'[q] = job[q]
  BY DEF Start, TypeOK

(* The steps of the bookings service keep the calendar right.               *)
LEMMA BookingStepCalm ==
  ASSUME TypeOK, TypeOK', CalendarInv, NEW r \in Requests, NEW b \in Bookings
  PROVE  /\ \A w \in Windows : BeginCreate(r, b, w) => Calm'
         /\ CommitCreate(r) => Calm'
         /\ InstantApprove(r) => Calm'
         /\ Approve(b) => Calm'
         /\ \A w \in Windows : UpdateOwnPending(b, w) => Calm'
         /\ Decline(b) => Calm'
         /\ BeginCancel(r, b) => Calm'
         /\ CommitCancel(r) => Calm'
         /\ CancelRefundFails(r) => Calm'
         /\ Expire(b) => Calm'
  <1>1. ASSUME NEW w \in Windows, BeginCreate(r, b, w) PROVE Calm'
    <2> DEFINE j == [NewJob("create", b) EXCEPT !.win = w]
    <2>1. j.op = "create" /\ j.b = b /\ j.win = w /\ bk[b].status = "none" /\ bk' = bk /\ holds' = holds
      BY <1>1 DEF BeginCreate, NewJob, Idle
    <2>2. job'[r] = j /\ \A q \in Requests : q # r => job'[q] = job[q]
      BY <1>1, StartedJob DEF BeginCreate
    <2> HIDE DEF j
    <2>3. job'[r].op # "retry" /\ JobRight(job[r])'
      BY <2>1, <2>2 DEF JobRight
    <2> QED BY <2>1, <2>2, <2>3, MildNothing, CalmMild
  <1>2. ASSUME CommitCreate(r) PROVE Calm'
    <2>1. PICK c \in Bookings : c = job[r].b
      BY <1>2 DEF CommitCreate, TypeOK, Ops
    <2>2. \A q \in Requests : q # r => job'[q] = job[q]
      BY <1>2 DEF CommitCreate, Finish, TypeOK
    <2>3. job'[r].op # "retry" /\ JobRight(job[r])'
      <3>1. CASE Finish(r)
        BY <3>1, DoneIsRight
      <3>2. CASE ~Finish(r)
        <4>1. job[r] \in Job
          BY DEF TypeOK
        <4>2. job'[r] = [job[r] EXCEPT !.at = "instant"]
          BY <1>2, <3>2 DEF CommitCreate, TypeOK
        <4>3. job'[r].op = "create" /\ job'[r].at = "instant" /\ job'[r].win \in Windows
          BY <1>2, <4>1, <4>2 DEF CommitCreate, Job, CalendarInv, JobsStillRight, JobRight
        <4> QED BY <4>3 DEF JobRight
      <3> QED BY <3>1, <3>2
    <2>4. CASE ~BelowCap(c)
      <3>1. bk' = bk /\ holds' = holds
        BY <1>2, <2>1, <2>4 DEF CommitCreate
      <3> QED BY <2>2, <2>3, <3>1, MildNothing, CalmMild
    <2>5. CASE BelowCap(c)
      <3> DEFINE row == [NewRow EXCEPT !.status = "pending", !.win = job[r].win]
      <3>1. bk' = UpdateRow(c, row) /\ holds' = holds
        BY <1>2, <2>1, <2>5 DEF CommitCreate
      <3>2. row.status = "pending" /\ ~row.converted /\ row.hold = 0 /\ row.pay = "none" /\ ~row.retry
              /\ row.win = job[r].win
        BY DEF NewRow
      <3> HIDE DEF row
      <3>3. bk'[c] = row /\ \A d \in Bookings : d # c => bk'[d] = bk[d]
        BY <3>1 DEF UpdateRow, TypeOK
      <3>4. bk[c].status = "none" /\ job[r].win \in Windows
        <4>1. JobRight(job[r]) /\ job[r].op = "create" /\ job[r].at = "read"
          BY <1>2 DEF CalendarInv, JobsStillRight, CommitCreate
        <4> QED BY <2>1, <4>1 DEF JobRight
      <3>5. \A q \in Requests : q # r => job[q].op # "create"
        BY <1>2, OneWindowJob DEF CommitCreate, CalendarInv
      <3>6. /\ RowsRight'
            /\ \A q \in Requests :
                  job'[q] = job[q] /\ ~(job[q].op = "create" /\ job[q].b = c) => JobRight(job[q])'
        BY <3>1, <3>2, <3>3, <3>4, MoveStep DEF Undecided
      <3>7. \A q \in Requests : job'[q].op # "retry"
        BY <2>2, <2>3 DEF CalendarInv, NoRetries
      <3> QED BY <2>2, <2>3, <3>5, <3>6, <3>7 DEF Calm
    <2> QED BY <2>4, <2>5
  <1>3. ASSUME NEW c \in Bookings, CanApprove(c) PROVE
          Mild(bk[c], [bk[c] EXCEPT !.status = "awaiting_payment", !.lapsed = FALSE, !.hold = 0])
    <2>1. bk[c] \in Row
      BY RowType
    <2> QED BY <1>3, <2>1 DEF CanApprove, Mild, Row
  <1>4. ASSUME InstantApprove(r) PROVE Calm'
    <2>1. PICK c \in Bookings : c = job[r].b
      BY <1>4 DEF InstantApprove, TypeOK, Ops
    <2>2. MildUpdate(c)
      <3>1. CASE CanApprove(c)
        BY <1>3, <1>4, <2>1, <3>1, MildRow DEF InstantApprove, Approved
      <3>2. CASE ~CanApprove(c)
        BY <1>4, <2>1, <3>2, MildNothing DEF InstantApprove
      <3> QED BY <3>1, <3>2
    <2> QED BY <1>4, <2>2, DoneIsRight, CalmMild DEF InstantApprove
  <1>5. ASSUME Approve(b) PROVE Calm'
    <2>1. MildUpdate(b)
      BY <1>3, <1>5, MildRow DEF Approve, Approved
    <2> QED BY <1>5, <2>1, CalmMild DEF Approve
  <1>6. ASSUME NEW w \in Windows, UpdateOwnPending(b, w) PROVE Calm'
    <2> DEFINE row == [bk[b] EXCEPT !.win = w]
    <2>0. bk[b] \in Row
      BY RowType
    <2>1. /\ row.status = bk[b].status /\ row.converted = bk[b].converted /\ row.hold = bk[b].hold
          /\ row.pay = bk[b].pay /\ row.retry = bk[b].retry /\ row.win = w
      BY <2>0 DEF Row
    <2> HIDE DEF row
    <2>2. /\ bk'[b] = row /\ holds' = holds /\ job' = job /\ \A d \in Bookings : d # b => bk'[d] = bk[d]
          /\ bk[b].status = "pending"
      BY <1>6 DEF UpdateOwnPending, UpdateRow, TypeOK, row
    <2>3. bk[b].pay = "none" /\ ~bk[b].converted /\ bk[b].hold = 0 /\ ~bk[b].retry
      BY <2>2 DEF CalendarInv, UndecidedIsClean, Undecided, HoldIsPaid, NoRetries
    <2>4. /\ RowsRight'
          /\ \A q \in Requests :
                job'[q] = job[q] /\ ~(job[q].op = "create" /\ job[q].b = b) => JobRight(job[q])'
      BY <2>1, <2>2, <2>3, MoveStep DEF Undecided
    <2>5. ASSUME NEW q \in Requests, job[q].op = "create" PROVE JobRight(job[q])'
      <3>1. Window \in held[q]
        BY <2>5 DEF CalendarInv, LocksHeld, KeysOf
      <3> QED BY <1>6, <3>1 DEF UpdateOwnPending, LocksFree, TypeOK
    <2> QED BY <2>2, <2>4, <2>5 DEF Calm, CalendarInv, NoRetries
  <1>7. ASSUME Decline(b) PROVE Calm'
    <2>1. bk[b] \in Row
      BY RowType
    <2>2. bk[b].hold = 0 /\ bk[b].status = "pending"
      BY <1>7 DEF Decline, CalendarInv, HoldIsPaid
    <2>3. Mild(bk[b], [bk[b] EXCEPT !.status = "declined"])
      BY <2>1, <2>2 DEF Mild, Row
    <2>4. MildUpdate(b)
      BY <1>7, <2>3, MildRow DEF Decline
    <2> QED BY <1>7, <2>4, CalmMild DEF Decline
  <1>8. ASSUME BeginCancel(r, b) PROVE Calm'
    <2> DEFINE j == [NewJob("cancel", b) EXCEPT !.seen = bk[b].status]
    <2>1. j.op = "cancel" /\ j.seen # "none" /\ bk' = bk /\ holds' = holds
      BY <1>8 DEF BeginCancel, CancellableStatuses, NewJob, Idle
    <2>2. job'[r] = j /\ \A q \in Requests : q # r => job'[q] = job[q]
      BY <1>8, StartedJob DEF BeginCancel
    <2> HIDE DEF j
    <2>3. job'[r].op # "retry" /\ JobRight(job[r])'
      BY <2>1, <2>2 DEF JobRight
    <2> QED BY <2>1, <2>2, <2>3, MildNothing, CalmMild
  <1>9. ASSUME NEW c \in Bookings, NEW s \in {"cancelled", "expired"}, bk[c].status # "none" PROVE
          Mild(bk[c], [bk[c] EXCEPT !.status = s, !.hold = 0, !.resv = Nobody, !.live = FALSE])
    <2>1. bk[c] \in Row
      BY RowType
    <2> QED BY <1>9, <2>1 DEF Mild, Row
  <1>10. ASSUME CommitCancel(r) PROVE Calm'
    <2>1. PICK c \in Bookings : c = job[r].b
      BY <1>10 DEF CommitCancel, TypeOK, Ops
    <2>2. MildUpdate(c)
      <3>1. CASE CancelStillApplies(r)
        <4> DEFINE row == [bk[c] EXCEPT !.status = "cancelled", !.hold = 0, !.resv = Nobody, !.live = FALSE]
        <4>1. JobRight(job[r]) /\ job[r].op = "cancel"
          BY <1>10 DEF CalendarInv, JobsStillRight, CommitCancel
        <4>2. bk[c].status # "none"
          BY <2>1, <3>1, <4>1 DEF CancelStillApplies, JobRight
        <4>3. Mild(bk[c], row)
          BY <1>9, <4>2
        <4>4. row.hold = 0 /\ row.status # "paid"
          <5>1. bk[c] \in Row
            BY RowType
          <5> QED BY <5>1 DEF Row
        <4>5. bk' = UpdateRow(c, row) /\ \E h : holds' = WithoutHold(c, h)
          BY <1>10, <2>1, <3>1 DEF CommitCancel, Released
        <4> HIDE DEF row
        <4> QED BY <4>3, <4>4, <4>5, MildRow
      <3>2. CASE ~CancelStillApplies(r)
        BY <1>10, <3>2, MildNothing DEF CommitCancel
      <3> QED BY <3>1, <3>2
    <2> QED BY <1>10, <2>2, DoneIsRight, CalmMild DEF CommitCancel
  <1>11. ASSUME CancelRefundFails(r) PROVE Calm'
    BY <1>11, MildNothing, DoneIsRight, CalmMild DEF CancelRefundFails
  <1>12. ASSUME Expire(b) PROVE Calm'
    <2> DEFINE row == [bk[b] EXCEPT !.status = "expired", !.hold = 0, !.resv = Nobody, !.live = FALSE]
    <2>1. Mild(bk[b], row)
      BY <1>9, <1>12 DEF Expire, Expirable, PAYABLE
    <2>2. row.hold = 0 /\ row.status # "paid"
      <3>1. bk[b] \in Row
        BY RowType
      <3> QED BY <3>1 DEF Row
    <2>3. bk' = UpdateRow(b, row) /\ (holds' = holds \/ \E h : holds' = WithoutHold(b, h))
      BY <1>12 DEF Expire, Released
    <2> HIDE DEF row
    <2>4. MildUpdate(b)
      BY <2>1, <2>2, <2>3, MildRow
    <2> QED BY <1>12, <2>4, CalmMild DEF Expire
  <1> QED BY <1>1, <1>2, <1>4, <1>5, <1>6, <1>7, <1>8, <1>10, <1>11, <1>12

(* So do those of the conversion ...                                        *)
LEMMA ConversionStepCalm ==
  ASSUME TypeOK, TypeOK', CalendarInv, NEW r \in Requests, NEW b \in Bookings
  PROVE  /\ BeginConvert(r, b) => Calm'
         /\ ReadConvert(r) => Calm'
         /\ CommitConvert(r) => Calm'
  <1>1. ASSUME ConvertFails(r), job[r].op = "convert" PROVE Calm'
    <2>1. PICK c \in Bookings : c = job[r].b
      BY <1>1 DEF TypeOK, Ops
    <2>2. bk[c] \in Row
      BY RowType
    <2>3. Mild(bk[c], [bk[c] EXCEPT !.resv = Nobody, !.live = FALSE])
      BY <2>2 DEF Mild, Row
    <2>4. MildUpdate(c)
      <3>1. CASE bk[c].resv = r
        BY <1>1, <2>1, <2>3, <3>1, MildRow DEF ConvertFails, ReleaseReservation
      <3>2. CASE bk[c].resv # r
        BY <1>1, <2>1, <3>2, MildNothing DEF ConvertFails, ReleaseReservation
      <3> QED BY <3>1, <3>2
    <2> QED BY <1>1, <2>4, DoneIsRight, CalmMild DEF ConvertFails
  <1>2. ASSUME BeginConvert(r, b) PROVE Calm'
    <2>1. bk[b] \in Row
      BY RowType
    <2>2. Mild(bk[b], [bk[b] EXCEPT !.resv = r, !.live = TRUE])
      BY <2>1 DEF Mild, Row
    <2>3. MildUpdate(b)
      BY <1>2, <2>2, MildRow DEF BeginConvert
    <2>4. job'[r] = NewJob("convert", b) /\ \A q \in Requests : q # r => job'[q] = job[q]
      BY <1>2, StartedJob DEF BeginConvert
    <2>5. job'[r].op = "convert" /\ job'[r].b = b /\ job'[r].at = "read"
      BY <2>4 DEF NewJob, Idle
    <2>6. bk'[b].status = "paid"
      BY <1>2, <2>1 DEF BeginConvert, UpdateRow, TypeOK, Row
    <2>7. job'[r].op # "retry" /\ JobRight(job[r])'
      BY <2>5, <2>6 DEF JobRight, Undecided
    <2> QED BY <2>3, <2>4, <2>7, CalmMild
  <1>3. ASSUME ReadConvert(r) PROVE Calm'
    <2>1. PICK c \in Bookings : c = job[r].b
      BY <1>3 DEF ReadConvert, TypeOK, Ops
    <2>2. CASE ConvertFails(r)
      BY <1>1, <1>3, <2>2 DEF ReadConvert
    <2>3. CASE ~ConvertFails(r)
      <3>1. job[r] \in Job /\ job[r].op = "convert"
        BY <1>3 DEF TypeOK, ReadConvert
      <3>2. /\ CanConvert(c) /\ bk' = bk /\ holds' = holds
            /\ job' = [job EXCEPT ![r] = [job[r] EXCEPT !.at = "checked", !.hold = bk[c].hold]]
        BY <1>3, <2>1, <2>3 DEF ReadConvert
      <3>3. job'[r].op = "convert" /\ job'[r].b = c /\ \A q \in Requests : q # r => job'[q] = job[q]
        BY <2>1, <3>1, <3>2 DEF TypeOK, Job
      <3>4. Taken(c)
        BY <3>2 DEF CanConvert, CalendarInv, HoldIsPaid, Taken
      <3>5. NoneTaken(c)
        BY <3>4 DEF CalendarInv, TakenApart
      <3>6. NoneTaken(job[r].b)'
        BY <3>2, <3>3, <3>5 DEF NoneTaken, Taken
      <3>7. ~Undecided(job[r].b)'
        BY <3>2, <3>3 DEF CanConvert, Undecided
      <3>8. job'[r].op # "retry" /\ JobRight(job[r])'
        BY <3>3, <3>6, <3>7 DEF JobRight
      <3> QED BY <3>2, <3>3, <3>8, MildNothing, CalmMild
    <2> QED BY <2>2, <2>3
  <1>4. ASSUME CommitConvert(r) PROVE Calm'
    <2>1. PICK c \in Bookings : c = job[r].b
      BY <1>4 DEF CommitConvert, TypeOK, Ops
    <2>2. CASE ConvertFails(r)
      BY <1>1, <1>4, <2>2 DEF CommitConvert
    <2>3. CASE ~ConvertFails(r)
      <3> DEFINE row == [bk[c] EXCEPT !.converted = TRUE, !.hold = 0, !.resv = Nobody, !.live = FALSE]
      <3>1. JobRight(job[r]) /\ job[r].op = "convert" /\ job[r].at = "checked"
        BY <1>4 DEF CalendarInv, JobsStillRight, CommitConvert
      <3>2. NoneTaken(c) /\ ~Undecided(c)
        BY <2>1, <3>1 DEF JobRight
      <3>3. bk[c] \in Row
        BY RowType
      <3>4. row.converted /\ row.hold = 0 /\ row.status = bk[c].status /\ row.win = bk[c].win
              /\ row.retry = bk[c].retry
        BY <3>3 DEF Row
      <3>5. bk' = UpdateRow(c, row) /\ Finish(r)
        BY <1>4, <2>1, <2>3 DEF CommitConvert
      <3>6. PICK h : holds' = WithoutHold(c, h)
        BY <1>4, <2>1, <2>3 DEF CommitConvert
      <3> HIDE DEF row
      <3>7. bk'[c] = row /\ \A d \in Bookings : d # c => bk'[d] = bk[d]
        BY <3>5 DEF UpdateRow, TypeOK
      <3>8. \A d \in Bookings : d # c => \A n \in HoldIds : <<d, n>> \in holds' <=> <<d, n>> \in holds
        BY <3>6 DEF WithoutHold
      <3>9. ~bk[c].retry
        BY DEF CalendarInv, NoRetries
      <3>10. ~Undecided(c)'
        BY <3>2, <3>4, <3>7 DEF Undecided
      <3>11. /\ RowsRight'
             /\ \A q \in Requests : q # r /\ job'[q] = job[q] => JobRight(job[q])'
        BY <2>1, <3>1, <3>2, <3>4, <3>7, <3>8, <3>9, <3>10, TakeStep
      <3>12. /\ \A q \in Requests : q # r => job'[q] = job[q]
             /\ job'[r].op # "retry" /\ JobRight(job[r])'
        BY <3>5, DoneIsRight
      <3> QED BY <3>11, <3>12 DEF Calm, CalendarInv, NoRetries
    <2> QED BY <2>2, <2>3
  <1> QED BY <1>2, <1>3, <1>4

(* ... of payments and refunds ...                                          *)
LEMMA PaymentStepCalm ==
  ASSUME ~AttemptsReopen, TypeOK, TypeOK', CalendarInv, NEW r \in Requests, NEW b \in Bookings
  PROVE  /\ BeginCheckout(r, b) => Calm'
         /\ BeginRetry(r, b) => Calm'
         /\ BeginReplay(r, b) => Calm'
         /\ Attach(r) => Calm'
         /\ SessionFails(r) => Calm'
         /\ PaymentFails(b) => Calm'
         /\ OrderRejected(b) => Calm'
         /\ BeginSettle(r, b) => Calm'
         /\ CommitSettle(r) => Calm'
         /\ BeginRefund(r, b) => Calm'
         /\ CommitRefund(r) => Calm'
  <1>0. ASSUME NEW c \in Bookings, ~Undecided(c), bk[c].hold = 0, NEW s \in {"payment_failed", "payment_processing"},
               NEW p
        PROVE  /\ Mild(bk[c], [bk[c] EXCEPT !.status = s])
               /\ Mild(bk[c], [bk[c] EXCEPT !.status = s, !.pay = p])
               /\ Mild(bk[c], [bk[c] EXCEPT !.status = s, !.retry = FALSE])
    <2>1. bk[c] \in Row
      BY RowType
    <2>2. Mild(bk[c], [bk[c] EXCEPT !.status = s])
      BY <1>0, <2>1 DEF Mild, Row, Undecided
    <2>3. Mild(bk[c], [bk[c] EXCEPT !.status = s, !.pay = p])
      BY <1>0, <2>1 DEF Mild, Row, Undecided
    <2>4. Mild(bk[c], [bk[c] EXCEPT !.status = s, !.retry = FALSE])
      BY <1>0, <2>1 DEF Mild, Row, Undecided
    <2> QED BY <2>2, <2>3, <2>4
  <1>1. ASSUME BeginCheckout(r, b) PROVE Calm'
    <2>1. bk[b] \in Row /\ bk[b].status \in PAYABLE
      BY <1>1, RowType DEF BeginCheckout
    <2>2. bk[b].hold = 0
      BY <2>1 DEF CalendarInv, HoldIsPaid, PAYABLE
    <2>3. Mild(bk[b], [bk[b] EXCEPT !.pay = "none", !.retry = FALSE])
      BY <2>1, <2>2 DEF Mild, Row, PAYABLE
    <2>4. MildUpdate(b)
      <3>1. CASE bk' = bk
        BY <1>1, <3>1, MildNothing DEF BeginCheckout
      <3>2. CASE bk' # bk
        BY <1>1, <2>3, <3>2, MildRow DEF BeginCheckout
      <3> QED BY <3>1, <3>2
    <2>5. Replaced("retry", b) = [q \in Requests |-> job[q]]
      BY DEF Replaced, CalendarInv, NoRetries
    <2>6. \A q \in Requests : q # r => job'[q] = job[q]
      BY <1>1, <2>5 DEF BeginCheckout
    <2>7. job'[r].op = "checkout" /\ job'[r].b = b
      BY <1>1 DEF BeginCheckout, NewJob, Idle
    <2>8. bk'[b].hold = 0 /\ bk'[b].status \in PAYABLE
      BY <1>1, <2>1, <2>2 DEF BeginCheckout, UpdateRow, TypeOK, Row
    <2>9. job'[r].op # "retry" /\ JobRight(job[r])'
      BY <2>7, <2>8 DEF JobRight, Undecided, PAYABLE
    <2> QED BY <2>4, <2>6, <2>9, CalmMild
  <1>2. ASSUME BeginRetry(r, b) \/ BeginReplay(r, b) PROVE Calm'
    BY <1>2 DEF BeginRetry, BeginReplay, CalendarInv, NoRetries
  <1>3. ASSUME NEW c \in Bookings, c = job[r].b, job[r].op \in {"checkout", "retry"}
        PROVE  job[r].op = "checkout" /\ ~Undecided(c) /\ bk[c].hold = 0
    <2>1. JobRight(job[r]) /\ job[r].op # "retry"
      BY DEF CalendarInv, JobsStillRight, NoRetries
    <2> QED BY <1>3, <2>1 DEF JobRight
  <1>4. ASSUME Attach(r) PROVE Calm'
    <2>1. PICK c \in Bookings : c = job[r].b
      BY <1>4 DEF Attach, TypeOK, Ops
    <2>2. job[r].op = "checkout" /\ ~Undecided(c) /\ bk[c].hold = 0
      BY <1>3, <1>4, <2>1 DEF Attach
    <2>3. MildUpdate(c)
      BY <1>0, <1>4, <2>1, <2>2, MildRow DEF Attach
    <2>4. \A q \in Requests : q # r => ~(job[q].op = "checkout" /\ job[q].b = c)
      BY <2>1, <2>2, OneStateJob DEF CalendarInv
    <2>5. \A q \in Requests : q # r => Replaced("checkout", c)[q] = job[q]
      BY <2>4 DEF Replaced
    <2>6. job'[r] = Idle /\ \A q \in Requests : q # r => job'[q] = job[q]
      BY <1>4, <2>1, <2>5 DEF Attach, Replaced
    <2>7. job'[r].op # "retry" /\ JobRight(job[r])'
      BY <2>6 DEF JobRight, Idle
    <2> QED BY <2>3, <2>6, <2>7, CalmMild
  <1>5. ASSUME SessionFails(r) PROVE Calm'
    <2>1. PICK c \in Bookings : c = job[r].b
      BY <1>5 DEF SessionFails, TypeOK, Ops
    <2>2. job[r].op = "checkout" /\ ~Undecided(c) /\ bk[c].hold = 0
      BY <1>3, <1>5, <2>1 DEF SessionFails
    <2>3. bk' = UpdateRow(c, [bk[c] EXCEPT !.status = "payment_failed", !.retry = FALSE]) /\ holds' = holds
      BY <1>5, <2>1, <2>2 DEF SessionFails
    <2>4. MildUpdate(c)
      BY <1>0, <2>2, <2>3, MildRow
    <2> QED BY <1>5, <2>4, DoneIsRight, CalmMild DEF SessionFails
  <1>6. ASSUME PaymentFails(b) \/ OrderRejected(b) PROVE Calm'
    <2>1. bk[b].pay = "open"
      BY <1>6 DEF PaymentFails, OrderRejected
    <2>2. ~Undecided(b) /\ bk[b].hold = 0
      BY <2>1 DEF CalendarInv, UndecidedIsClean, HoldIsPaid
    <2>3. MildUpdate(b)
      BY <1>0, <1>6, <2>2, MildRow DEF PaymentFails, OrderRejected
    <2> QED BY <1>6, <2>3, CalmMild DEF PaymentFails, OrderRejected
  <1>7. ASSUME BeginSettle(r, b) PROVE Calm'
    <2>1. ~Undecided(b) /\ bk' = bk /\ holds' = holds
      BY <1>7 DEF BeginSettle, CalendarInv, UndecidedIsClean
    <2>2. job'[r] = SettleJob(b) /\ \A q \in Requests : q # r => job'[q] = job[q]
      BY <1>7, StartedJob DEF BeginSettle
    <2>3. /\ job'[r].op = "settle" /\ job'[r].b = b /\ job'[r].conv = bk[b].converted
          /\ job'[r].clear => ~BlockingOverlap(bk[b].win, b)
      BY <2>2 DEF SettleJob, NewJob, Idle
    <2>4. job'[r].clear => NoneTaken(b)
      BY <2>3, FreeIsNoneTaken
    <2>5. job'[r].clear => NoneTaken(job[r].b)'
      BY <2>1, <2>3, <2>4 DEF NoneTaken, Taken
    <2>6. job'[r].op # "retry" /\ JobRight(job[r])'
      BY <2>1, <2>3, <2>5 DEF JobRight, Undecided
    <2> QED BY <2>1, <2>2, <2>6, MildNothing, CalmMild
  <1>8. ASSUME CommitSettle(r) PROVE Calm'
    <2>0. PICK c \in Bookings : c = job[r].b
      BY <1>8 DEF CommitSettle, TypeOK, Ops
    <2>1. JobRight(job[r]) /\ job[r].op = "settle" /\ Finish(r)
      BY <1>8 DEF CalendarInv, JobsStillRight, CommitSettle
    <2>2. /\ ~Undecided(c) /\ (job[r].clear => NoneTaken(c)) /\ ~bk[c].retry
          /\ job[r].conv = bk[c].converted
      BY <2>0, <2>1 DEF JobRight, CalendarInv, NoRetries
    <2>3. bk[c] \in Row /\ bk[c].made \in Nat
      BY RowType
    <2>4. /\ \A q \in Requests : q # r => job'[q] = job[q]
          /\ job'[r].op # "retry" /\ JobRight(job[r])'
      BY <2>1, DoneIsRight
    <2>5. ASSUME NEW h \in HoldIds, h # 0
          PROVE  /\ PaidWith(c, h) \in Row
                 /\ PaidWith(c, h).status = "paid" /\ PaidWith(c, h).hold = h
                 /\ PaidWith(c, h).pay = "charged" /\ PaidWith(c, h).win = bk[c].win
                 /\ PaidWith(c, h).converted = bk[c].converted /\ PaidWith(c, h).retry = bk[c].retry
      BY <2>3, PaidWithType DEF PaidWith, Row
    <2>6. ASSUME NEW row, NEW h \in HoldIds, h # 0, bk' = UpdateRow(c, row), ~bk[c].converted, NoneTaken(c),
                 row.status = "paid", row.hold = h, row.pay = "charged", row.win = bk[c].win,
                 row.converted = bk[c].converted, row.retry = bk[c].retry,
                 <<c, h>> \in holds', holds' = holds \/ holds' = holds \cup {<<c, h>>}
          PROVE  Calm'
      <3>1. bk'[c] = row /\ \A d \in Bookings : d # c => bk'[d] = bk[d]
        BY <2>6 DEF UpdateRow, TypeOK
      <3>2. \A d \in Bookings : d # c => \A n \in HoldIds : <<d, n>> \in holds' <=> <<d, n>> \in holds
        BY <2>6
      <3>3. ~Undecided(c)'
        BY <2>6, <3>1 DEF Undecided
      <3>4. /\ RowsRight'
            /\ \A q \in Requests : q # r /\ job'[q] = job[q] => JobRight(job[q])'
        BY <2>0, <2>1, <2>2, <2>6, <3>1, <3>2, <3>3, TakeStep
      <3> QED BY <2>4, <3>4 DEF Calm, CalendarInv, NoRetries
    <2>7. CASE holds' = holds /\ \E row : bk' = UpdateRow(c, row) /\ Mild(bk[c], row)
      BY <2>4, <2>7, MildRow, CalmMild
    <2>8. CASE bk' = bk /\ holds' = holds
      BY <2>4, <2>8, MildNothing, CalmMild
    <2>9. /\ Mild(bk[c], [bk[c] EXCEPT !.flagged = TRUE])
          /\ Mild(bk[c], [bk[c] EXCEPT !.pay = "charged"])
          /\ Mild(bk[c], [bk[c] EXCEPT !.flagged = TRUE, !.pay = "charged"])
      <3>1. Mild(bk[c], [bk[c] EXCEPT !.flagged = TRUE])
        BY <2>2, <2>3 DEF Mild, Row, Undecided
      <3>2. Mild(bk[c], [bk[c] EXCEPT !.pay = "charged"])
        BY <2>2, <2>3 DEF Mild, Row, Undecided
      <3>3. Mild(bk[c], [bk[c] EXCEPT !.flagged = TRUE, !.pay = "charged"])
        BY <2>2, <2>3 DEF Mild, Row, Undecided
      <3> QED BY <3>1, <3>2, <3>3
    <2> DEFINE h == job[r].hold
               clear == job[r].clear
               n == bk[c].made + 1
    <2>10. clear => NoneTaken(c)
      BY <2>2, FreeIsNoneTaken
    <2>11. h \in HoldIds
      BY <2>3 DEF TypeOK, Job, Row
    <2>12. CASE /\ ~bk[c].converted /\ clear /\ n <= MaxHolds
                /\ bk' = UpdateRow(c, [PaidWith(c, n) EXCEPT !.made = n])
                /\ holds' = holds \cup {<<c, n>>}
      <3>1. n \in HoldIds /\ n # 0
        BY <2>3, <2>12, MaxHoldsNat DEF HoldIds
      <3>2. PICK m \in HoldIds : m = n
        BY <3>1
      <3> DEFINE row == [PaidWith(c, m) EXCEPT !.made = m]
      <3>3. /\ row.status = "paid" /\ row.hold = m /\ row.pay = "charged" /\ row.win = bk[c].win
            /\ row.converted = bk[c].converted /\ row.retry = bk[c].retry
        <4>1. /\ PaidWith(c, m) \in Row
              /\ PaidWith(c, m).status = "paid" /\ PaidWith(c, m).hold = m
              /\ PaidWith(c, m).pay = "charged" /\ PaidWith(c, m).win = bk[c].win
              /\ PaidWith(c, m).converted = bk[c].converted /\ PaidWith(c, m).retry = bk[c].retry
          BY <2>5, <3>1, <3>2
        <4> QED BY <4>1 DEF Row
      <3>4. bk' = UpdateRow(c, row) /\ holds' = holds \cup {<<c, m>>}
        BY <2>12, <3>2
      <3> HIDE DEF row
      <3> QED BY <2>6, <2>10, <2>12, <3>1, <3>2, <3>3, <3>4
    <2>13. CASE ~bk[c].converted /\ h # 0 /\ <<c, h>> \in holds /\ bk' = UpdateRow(c, PaidWith(c, h)) /\ holds' = holds
      <3>1. PICK m \in HoldIds : m = h
        BY <2>11
      <3>2. Taken(c)
        BY <2>13, <3>1 DEF Taken
      <3>3. NoneTaken(c)
        BY <3>2 DEF CalendarInv, TakenApart
      <3> QED BY <2>5, <2>6, <2>13, <3>1, <3>3
    <2> HIDE DEF h, clear, n
    <2>14. \/ holds' = holds /\ \E row : bk' = UpdateRow(c, row) /\ Mild(bk[c], row)
           \/ bk' = bk /\ holds' = holds
           \/ /\ ~bk[c].converted /\ clear /\ n <= MaxHolds
              /\ bk' = UpdateRow(c, [PaidWith(c, n) EXCEPT !.made = n])
              /\ holds' = holds \cup {<<c, n>>}
           \/ ~bk[c].converted /\ h # 0 /\ <<c, h>> \in holds /\ bk' = UpdateRow(c, PaidWith(c, h)) /\ holds' = holds
      BY <1>8, <2>0, <2>2, <2>9 DEF CommitSettle, NeedsReconciliation, h, clear, n
    <2> QED BY <2>7, <2>8, <2>12, <2>13, <2>14
  <1>9. ASSUME BeginRefund(r, b) PROVE Calm'
    <2> DEFINE j == [NewJob("refund", b) EXCEPT !.hold = bk[b].hold, !.seen = bk[b].status]
    <2>1. ~Undecided(b) /\ bk' = bk /\ holds' = holds
      BY <1>9 DEF BeginRefund, CalendarInv, UndecidedIsClean
    <2>2. j.op = "refund" /\ j.b = b /\ j.hold = bk[b].hold /\ j.seen = bk[b].status
      BY DEF NewJob, Idle
    <2>3. job'[r] = j /\ \A q \in Requests : q # r => job'[q] = job[q]
      BY <1>9, StartedJob DEF BeginRefund
    <2> HIDE DEF j
    <2>4. job'[r].op # "retry" /\ JobRight(job[r])'
      BY <2>1, <2>2, <2>3 DEF JobRight, Undecided, CalendarInv, HoldIsPaid
    <2> QED BY <2>1, <2>3, <2>4, MildNothing, CalmMild
  <1>10. ASSUME CommitRefund(r) PROVE Calm'
    <2>0. PICK c \in Bookings : c = job[r].b
      BY <1>10 DEF CommitRefund, TypeOK, Ops
    <2>1. JobRight(job[r]) /\ job[r].op = "refund" /\ Finish(r)
      BY <1>10 DEF CalendarInv, JobsStillRight, CommitRefund
    <2>2. ~Undecided(c) /\ (job[r].hold # 0 => job[r].seen = "paid")
      BY <2>0, <2>1 DEF JobRight
    <2>3. bk[c] \in Row
      BY RowType
    <2> DEFINE h == job[r].hold
               seen == job[r].seen
               st == IF seen = "cancelled" THEN bk[c].status ELSE "refunded"
    <2>4. st = "paid" => h = 0
      BY <2>2 DEF CalendarInv, HoldIsPaid
    <2>5. st \in {bk[c].status, "refunded"}
      OBVIOUS
    <2>6. bk' = UpdateRow(c, [bk[c] EXCEPT !.hold = 0, !.status = st]) /\ holds' = WithoutHold(c, h)
      BY <1>10, <2>0 DEF CommitRefund
    <2> HIDE DEF h, seen, st
    <2>7. Mild(bk[c], [bk[c] EXCEPT !.hold = 0, !.status = st])
      BY <2>2, <2>3, <2>5 DEF Mild, Row, Undecided
    <2>8. [bk[c] EXCEPT !.hold = 0, !.status = st].hold = 0 /\ [bk[c] EXCEPT !.hold = 0, !.status = st].status = st
      BY <2>3 DEF Row
    <2>9. holds' = holds \/ st # "paid"
      BY <2>4, <2>6 DEF WithoutHold, TypeOK
    <2>10. MildUpdate(c)
      BY <2>6, <2>7, <2>8, <2>9, MildRow
    <2> QED BY <2>1, <2>10, DoneIsRight, CalmMild
  <1> QED BY <1>1, <1>2, <1>4, <1>5, <1>6, <1>7, <1>8, <1>9, <1>10

(* ... and of owners, clocks and failures.                                  *)
LEMMA OtherStepCalm ==
  ASSUME TypeOK, TypeOK', CalendarInv, NEW r \in Requests, NEW b \in Bookings
  PROVE  /\ UNCHANGED <<bk, holds, job>> => Calm'
         /\ HoldLapses(b) => Calm'
         /\ ReservationLapses(b) => Calm'
         /\ Crash(r) => Calm'
         /\ DeadLocksLapse(r) => Calm'
  <1>1. ASSUME UNCHANGED <<bk, holds, job>> PROVE Calm'
    BY <1>1, MildNothing, CalmMild
  <1>2. ASSUME HoldLapses(b) PROVE Calm'
    <2>1. bk[b] \in Row
      BY RowType
    <2>2. Mild(bk[b], [bk[b] EXCEPT !.lapsed = TRUE])
      BY <2>1 DEF Mild, Row
    <2>3. MildUpdate(b)
      BY <1>2, <2>2, MildRow DEF HoldLapses
    <2> QED BY <1>2, <2>3, CalmMild DEF HoldLapses
  <1>3. ASSUME ReservationLapses(b) PROVE Calm'
    <2>1. bk[b] \in Row
      BY RowType
    <2>2. Mild(bk[b], [bk[b] EXCEPT !.live = FALSE])
      BY <2>1 DEF Mild, Row
    <2>3. MildUpdate(b)
      BY <1>3, <2>2, MildRow DEF ReservationLapses
    <2> QED BY <1>3, <2>3, CalmMild DEF ReservationLapses
  <1>4. ASSUME Crash(r) PROVE Calm'
    <2>1. job'[r] = [Idle EXCEPT !.op = "dead"] /\ \A q \in Requests : q # r => job'[q] = job[q]
      BY <1>4 DEF Crash, TypeOK
    <2>2. job'[r].op = "dead"
      BY <2>1 DEF Idle
    <2>3. job'[r].op # "retry" /\ JobRight(job[r])'
      BY <2>2 DEF JobRight
    <2> QED BY <1>4, <2>1, <2>3, MildNothing, CalmMild DEF Crash
  <1>5. ASSUME DeadLocksLapse(r) PROVE Calm'
    BY <1>5, MildNothing, DoneIsRight, CalmMild DEF DeadLocksLapse
  <1> QED BY <1>1, <1>2, <1>3, <1>4, <1>5

(* The empty calendar satisfies the invariant, and every step keeps it.     *)
LEMMA InitCalendar == Init => CalendarInv
  <1> SUFFICES ASSUME Init PROVE CalendarInv
    OBVIOUS
  <1>1. /\ \A b \in Bookings : /\ bk[b].status = "none" /\ bk[b].pay = "none" /\ ~bk[b].converted
                               /\ bk[b].hold = 0 /\ ~bk[b].retry
        /\ holds = {}
    BY DEF Init, NewRow
  <1>2. \A r \in Requests : job[r] = Idle /\ held[r] = {}
    BY DEF Init
  <1>3. LocksHeld
    <2>1. KeysOf(Idle) = {}
      BY DEF KeysOf, Idle
    <2> QED BY <1>2, <2>1 DEF LocksHeld
  <1>4. NoRetries /\ JobsStillRight
    BY <1>1, <1>2 DEF NoRetries, JobsStillRight, JobRight, Idle
  <1>5. UndecidedIsClean /\ DatesKnown /\ HoldIsPaid /\ TakenApart
    BY <1>1 DEF UndecidedIsClean, DatesKnown, HoldIsPaid, TakenApart, Taken
  <1> QED BY <1>3, <1>4, <1>5 DEF CalendarInv

(* Every step keeps the calendar invariant.                                 *)
LEMMA NextCalendar ==
  ASSUME ~LockMayLapse, ~AttemptsReopen, TypeOK, CalendarInv, [Next]_vars
  PROVE  CalendarInv'
  <1>0. PICK r0 \in Requests, b0 \in Bookings : TRUE
    BY BookingWindowAssumption
  <1>1. TypeOK'
    BY NextType
  <1>2. LocksHeld'
    BY LockStep DEF CalendarInv
  <1>3. ASSUME UNCHANGED <<bk, holds, job>> PROVE Calm'
    BY <1>0, <1>1, <1>3, OtherStepCalm
  <1>4. ASSUME NEW r \in Requests, JobStep(r) \/ Crash(r) PROVE Calm'
    BY <1>0, <1>1, <1>4, BookingStepCalm, ConversionStepCalm, PaymentStepCalm, OtherStepCalm DEF JobStep
  <1>5. ASSUME NEW r \in Requests, NEW b \in Bookings,
               \/ \E w \in Windows : BeginCreate(r, b, w)
               \/ BeginCancel(r, b) \/ BeginConvert(r, b) \/ BeginCheckout(r, b)
               \/ BeginRetry(r, b) \/ BeginReplay(r, b) \/ BeginSettle(r, b) \/ BeginRefund(r, b)
        PROVE  Calm'
    BY <1>1, <1>5, BookingStepCalm, ConversionStepCalm, PaymentStepCalm
  <1>6. ASSUME NEW b \in Bookings,
               \/ Approve(b) \/ Decline(b) \/ (\E w \in Windows : UpdateOwnPending(b, w))
               \/ PaymentFails(b) \/ OrderRejected(b) \/ Expire(b)
               \/ HoldLapses(b) \/ ReservationLapses(b)
        PROVE  Calm'
    BY <1>0, <1>1, <1>6, BookingStepCalm, PaymentStepCalm, OtherStepCalm
  <1>7. Calm'
    <2>1. CASE UNCHANGED vars
      BY <1>3, <2>1 DEF vars
    <2>2. CASE Next
      BY <1>3, <1>4, <1>5, <1>6, <2>2 DEF Next, LockLapses, DeleteOwnerBlock, WriteOwnerBlock,
         PausePosting, UnpausePosting, ArchivePosting
    <2> QED BY <2>1, <2>2
  <1>8. (LocksHeld /\ Calm)'
    BY <1>2, <1>7
  <1> QED BY <1>8 DEF CalendarInv, LocksHeld, Calm, RowsRight, NoRetries, JobsStillRight

(* A reserved booking is one that keeps the others off its dates.           *)
LEMMA CalendarIsDisjoint == TypeOK /\ CalendarInv => NoDoubleBooking
  <1> SUFFICES ASSUME TypeOK, CalendarInv, NEW b \in Bookings, NEW c \in Bookings, b # c,
                      Reserved(b), Reserved(c)
               PROVE  ~Overlaps(bk[b].win, bk[c].win)
    BY DEF NoDoubleBooking
  <1>1. Taken(b) /\ Taken(c)
    BY RowType DEF Reserved, Taken, CalendarInv, HoldIsPaid
  <1> QED BY <1>1 DEF CalendarInv, TakenApart, NoneTaken

(* The calendar is serialized: for any bookings, windows and concurrent
   requests, crashes and snapshot reads included, the invariant holds as long
   as no flow lock lapses under its job and no failed attempt is tried again. *)
THEOREM CalendarHolds ==
  ASSUME ~LockMayLapse, ~AttemptsReopen
  PROVE  Spec => []CalendarInv
  <1>1. TypeOK /\ CalendarInv /\ [Next]_vars => TypeOK' /\ CalendarInv'
    BY NextType, NextCalendar
  <1> QED BY <1>1, InitType, InitCalendar, PTL DEF Spec

(* Two bookings never have the same dates, under the same two assumptions.  *)
THEOREM DatesAreDisjoint ==
  ASSUME ~LockMayLapse, ~AttemptsReopen
  PROVE  Spec => []NoDoubleBooking
  BY CalendarHolds, TypeCorrect, CalendarIsDisjoint, PTL

-----------------------------------------------------------------------------
(* The refinement: every step is a step of Calendar, or changes no dates.   *)

(* At most b changes; a renting of b stays, and so do the dates b has.      *)
Steady(b) ==
  /\ \A c \in Bookings : c # b => bk'[c] = bk[c]
  /\ bk[b].converted => bk'[b].converted
  /\ Reserved(b) => bk'[b].win = bk[b].win

(* An update that keeps the dates and the renting is steady.                *)
LEMMA SteadyRow ==
  ASSUME TypeOK, NEW b \in Bookings, NEW row, bk' = UpdateRow(b, row),
         row.win = bk[b].win, bk[b].converted => row.converted
  PROVE  Steady(b)
  BY DEF TypeOK, UpdateRow, Steady

(* So is one of a booking that has no dates.                                *)
LEMMA SteadyFree ==
  ASSUME TypeOK, NEW b \in Bookings, NEW row, bk' = UpdateRow(b, row), Undecided(b), CalendarInv
  PROVE  Steady(b)
  <1>1. ~bk[b].converted /\ ~Reserved(b)
    BY DEF CalendarInv, UndecidedIsClean, Undecided, Reserved
  <1> QED BY <1>1 DEF TypeOK, UpdateRow, Steady

(* A step that changes no booking is steady for any of them.                *)
LEMMA SteadySame ==
  ASSUME NEW b \in Bookings, bk' = bk
  PROVE  Steady(b)
  BY DEF Steady

(* The steps of a job.                                                      *)
LEMMA SteadyJob ==
  ASSUME TypeOK, CalendarInv, NEW r \in Requests, JobStep(r)
  PROVE  \E b \in Bookings : Steady(b)
  <1>0. PICK b0 \in Bookings : TRUE
    BY BookingWindowAssumption
  <1>1. ASSUME bk' = bk PROVE \E b \in Bookings : Steady(b)
    BY <1>0, <1>1, SteadySame
  <1>2. ASSUME DeadLocksLapse(r) PROVE bk' = bk
    BY <1>2 DEF DeadLocksLapse
  <1>3. CASE job[r].op \notin Ops
    <2>1. ~CommitCreate(r) /\ ~InstantApprove(r) /\ ~CommitCancel(r) /\ ~CancelRefundFails(r)
      BY <1>3 DEF Ops, CommitCreate, InstantApprove, CommitCancel, CancelRefundFails
    <2>2. ~ReadConvert(r) /\ ~CommitConvert(r)
      BY <1>3 DEF Ops, ReadConvert, CommitConvert
    <2>3. ~Attach(r) /\ ~CommitRefund(r)
      BY <1>3 DEF Ops, Attach, CommitRefund
    <2>4. ~SessionFails(r)
      BY <1>3, Zenon DEF Ops, SessionFails
    <2>5. ~CommitSettle(r)
      BY <1>3, Zenon DEF Ops, CommitSettle
    <2> QED BY <1>1, <1>2, <2>1, <2>2, <2>3, <2>4, <2>5 DEF JobStep
  <1>4. CASE job[r].op \in Ops
    <2>1. PICK b \in Bookings : b = job[r].b
      BY <1>4 DEF TypeOK
    <2>2. bk[b] \in Row
      BY RowType
    <2>3. SUFFICES bk' = bk \/ Steady(b)
      BY <1>1, <2>1
    <2>4. ASSUME CommitCreate(r), bk' # bk PROVE Steady(b)
      <3>1. Undecided(b)
        BY <2>1, <2>4 DEF CommitCreate, CalendarInv, JobsStillRight, JobRight, Undecided
      <3> QED BY <2>1, <2>4, <3>1, SteadyFree DEF CommitCreate
    <2>5. ASSUME InstantApprove(r), bk' # bk PROVE Steady(b)
      <3>1. Undecided(b) /\ bk' = Approved(b)
        BY <2>1, <2>5 DEF InstantApprove, CanApprove, Undecided
      <3> QED BY <3>1, SteadyFree DEF Approved
    <2>6. ASSUME CommitCancel(r), bk' # bk PROVE Steady(b)
      BY <2>1, <2>2, <2>6, SteadyRow DEF CommitCancel, Released, Row
    <2>7. ASSUME CancelRefundFails(r) PROVE bk' = bk
      BY <2>7 DEF CancelRefundFails
    <2>8. ASSUME ConvertFails(r), bk' # bk PROVE Steady(b)
      BY <2>1, <2>2, <2>8, SteadyRow DEF ConvertFails, ReleaseReservation, Row
    <2>9. ASSUME ReadConvert(r), bk' # bk PROVE Steady(b)
      BY <2>8, <2>9 DEF ReadConvert
    <2>10. ASSUME CommitConvert(r), bk' # bk PROVE Steady(b)
      <3> DEFINE row == [bk[b] EXCEPT !.converted = TRUE, !.hold = 0, !.resv = Nobody, !.live = FALSE]
      <3>1. CASE ConvertFails(r)
        BY <2>8, <2>10, <3>1
      <3>2. CASE bk' = UpdateRow(b, row)
        <4>1. row.win = bk[b].win /\ row.converted
          BY <2>2 DEF Row
        <4> HIDE DEF row
        <4> QED BY <3>2, <4>1, SteadyRow
      <3> QED BY <2>1, <2>10, <3>1, <3>2 DEF CommitConvert
    <2>11. ASSUME Attach(r), bk' # bk PROVE Steady(b)
      BY <2>1, <2>2, <2>11, SteadyRow DEF Attach, Row
    <2>12. ASSUME SessionFails(r), bk' # bk PROVE Steady(b)
      <3>1. PICK again \in BOOLEAN : bk' = UpdateRow(b, [bk[b] EXCEPT !.status = "payment_failed", !.retry = again])
        <4>1. \E again \in (IF AttemptsReopen THEN BOOLEAN ELSE {FALSE}) :
                bk' = UpdateRow(b, [bk[b] EXCEPT !.status = "payment_failed", !.retry = again])
          BY <2>1, <2>12, Zenon DEF SessionFails
        <4> QED BY <4>1, Zenon
      <3> QED BY <2>2, <3>1, SteadyRow DEF Row
    <2>13. ASSUME CommitSettle(r), bk' # bk PROVE Steady(b)
      <3> DEFINE h == job[r].hold
                 n == bk[b].made + 1
      <3>1. \/ bk' = UpdateRow(b, [bk[b] EXCEPT !.flagged = TRUE])
            \/ bk' = UpdateRow(b, [bk[b] EXCEPT !.pay = "charged"])
            \/ bk' = UpdateRow(b, [PaidWith(b, n) EXCEPT !.made = n])
            \/ bk' = UpdateRow(b, [bk[b] EXCEPT !.flagged = TRUE, !.pay = "charged"])
            \/ bk' = UpdateRow(b, PaidWith(b, h))
        BY <2>1, <2>13 DEF CommitSettle, NeedsReconciliation
      <3> HIDE DEF h, n
      <3>2. CASE \/ bk' = UpdateRow(b, [bk[b] EXCEPT !.flagged = TRUE])
                 \/ bk' = UpdateRow(b, [bk[b] EXCEPT !.pay = "charged"])
                 \/ bk' = UpdateRow(b, [bk[b] EXCEPT !.flagged = TRUE, !.pay = "charged"])
        BY <2>2, <3>2, SteadyRow DEF Row
      <3>3. CASE bk' = UpdateRow(b, [PaidWith(b, n) EXCEPT !.made = n])
        BY <2>2, <3>3, SteadyRow DEF Row, PaidWith
      <3>4. CASE bk' = UpdateRow(b, PaidWith(b, h))
        BY <2>2, <3>4, SteadyRow DEF Row, PaidWith
      <3> QED BY <3>1, <3>2, <3>3, <3>4
    <2>14. ASSUME CommitRefund(r) PROVE Steady(b)
      <3> DEFINE st == IF job[r].seen = "cancelled"
                       THEN bk[b].status ELSE "refunded"
      <3>1. bk' = UpdateRow(b, [bk[b] EXCEPT !.hold = 0, !.status = st])
        BY <2>1, <2>14 DEF CommitRefund
      <3> HIDE DEF st
      <3> QED BY <2>2, <3>1, SteadyRow DEF Row
    <2> QED BY <1>2, <2>4, <2>5, <2>6, <2>7, <2>9, <2>10, <2>11, <2>12, <2>13, <2>14 DEF JobStep
  <1> QED BY <1>3, <1>4


(* The steps of the commands that take a single step, of clocks and owners. *)
LEMMA SteadyStep ==
  ASSUME TypeOK, CalendarInv, [Next]_vars
  PROVE  \E b \in Bookings : Steady(b)
  <1>0. PICK b0 \in Bookings : TRUE
    BY BookingWindowAssumption
  <1>1. ASSUME bk' = bk PROVE \E b \in Bookings : Steady(b)
    BY <1>0, <1>1, SteadySame
  <1>2. ASSUME NEW r \in Requests, NEW b \in Bookings,
               \/ \E w \in Windows : BeginCreate(r, b, w)
               \/ BeginCancel(r, b) \/ BeginConvert(r, b) \/ BeginCheckout(r, b)
               \/ BeginRetry(r, b) \/ BeginReplay(r, b) \/ BeginSettle(r, b) \/ BeginRefund(r, b)
        PROVE  bk' = bk \/ Steady(b)
    <2>0. bk[b] \in Row
      BY RowType
    <2>1. ASSUME NEW w \in Windows, BeginCreate(r, b, w) PROVE bk' = bk
      BY <2>1 DEF BeginCreate
    <2>2. ASSUME BeginCancel(r, b) \/ BeginReplay(r, b) \/ BeginSettle(r, b) \/ BeginRefund(r, b)
          PROVE  bk' = bk
      BY <2>2 DEF BeginCancel, BeginReplay, BeginSettle, BeginRefund
    <2>3. ASSUME BeginConvert(r, b) PROVE Steady(b)
      BY <2>0, <2>3, SteadyRow DEF BeginConvert, Row
    <2>4. ASSUME BeginRetry(r, b) PROVE Steady(b)
      BY <2>0, <2>4, SteadyRow DEF BeginRetry, Row
    <2>5. ASSUME BeginCheckout(r, b), bk' # bk PROVE Steady(b)
      <3>1. bk' = UpdateRow(b, [bk[b] EXCEPT !.pay = "none", !.retry = FALSE])
        BY <2>5 DEF BeginCheckout
      <3> QED BY <2>0, <3>1, SteadyRow DEF Row
    <2> QED BY <1>2, <2>1, <2>2, <2>3, <2>4, <2>5
  <1>3. ASSUME NEW b \in Bookings,
               \/ Approve(b) \/ Decline(b) \/ (\E w \in Windows : UpdateOwnPending(b, w))
               \/ PaymentFails(b) \/ OrderRejected(b) \/ Expire(b)
               \/ HoldLapses(b) \/ ReservationLapses(b)
        PROVE  Steady(b)
    <2>0. bk[b] \in Row
      BY RowType
    <2>1. ASSUME Approve(b) PROVE Steady(b)
      <3>1. Undecided(b) /\ bk' = Approved(b)
        BY <2>1 DEF Approve, CanApprove, Undecided
      <3> QED BY <3>1, SteadyFree DEF Approved
    <2>2. ASSUME Decline(b) PROVE Steady(b)
      BY <2>0, <2>2, SteadyRow DEF Decline, Row
    <2>3. ASSUME NEW w \in Windows, UpdateOwnPending(b, w) PROVE Steady(b)
      BY <2>3, SteadyFree DEF UpdateOwnPending, Undecided
    <2>4. ASSUME PaymentFails(b) \/ OrderRejected(b) PROVE Steady(b)
      BY <2>0, <2>4, SteadyRow DEF PaymentFails, OrderRejected, Row
    <2>5. ASSUME Expire(b) PROVE Steady(b)
      BY <2>0, <2>5, SteadyRow DEF Expire, Released, Row
    <2>6. ASSUME HoldLapses(b) PROVE Steady(b)
      BY <2>0, <2>6, SteadyRow DEF HoldLapses, Row
    <2>7. ASSUME ReservationLapses(b) PROVE Steady(b)
      BY <2>0, <2>7, SteadyRow DEF ReservationLapses, Row
    <2> QED BY <1>3, <2>1, <2>2, <2>3, <2>4, <2>5, <2>6, <2>7
  <1>4. CASE UNCHANGED vars
    BY <1>1, <1>4 DEF vars
  <1>5. CASE Next
    BY <1>1, <1>2, <1>3, <1>5, SteadyJob DEF Next, Crash, LockLapses, DeleteOwnerBlock, WriteOwnerBlock,
       PausePosting, UnpausePosting, ArchivePosting
  <1> QED BY <1>4, <1>5

(* The dates that are taken are a date range a request asked for.           *)
LEMMA ReservedHasWindow ==
  ASSUME TypeOK, CalendarInv, NEW b \in Bookings, Reserved(b)
  PROVE  bk[b].win \in Windows
  BY DEF CalendarInv, DatesKnown, UndecidedIsClean, Undecided, Reserved

(* Initially, nobody has dates.                                             *)
LEMMA PromiseInit == Init => Promise!Init
  <1> SUFFICES ASSUME Init, NEW b \in Bookings PROVE DatesOf(b) = Promise!Free
    BY DEF Promise!Init
  <1>1. ~bk[b].converted /\ ~Reserved(b)
    BY DEF Init, NewRow, Reserved
  <1> QED BY <1>1 DEF DatesOf, Promise!Free

(* What Calendar sees of a booking.                                         *)
LEMMA DatesCases ==
  ASSUME TypeOK, NEW b \in Bookings
  PROVE  /\ bk[b].converted => DatesOf(b) = Promise!Rented(bk[b].win)
         /\ ~bk[b].converted /\ Reserved(b) => DatesOf(b) = Promise!Held(bk[b].win)
         /\ ~Reserved(b) => DatesOf(b) = Promise!Free
         /\ Promise!Rented(bk[b].win) # Promise!Free /\ Promise!Rented(bk[b].win).win = bk[b].win
         /\ Promise!Held(bk[b].win) # Promise!Free /\ Promise!Held(bk[b].win).win = bk[b].win
  <1>1. bk[b].converted => Reserved(b)
    BY DEF Reserved
  <1> QED BY <1>1 DEF DatesOf, Promise!Free, Promise!Rented, Promise!Held

(* Disjoint dates afterwards mean that the ones taken were clear.           *)
LEMMA TakenWasClear ==
  ASSUME TypeOK, TypeOK', NoDoubleBooking', NEW b \in Bookings, Steady(b), Reserved(b)'
  PROVE  Promise!Clear(b, bk'[b].win)
  <1> SUFFICES ASSUME NEW c \in Bookings, c # b, DatesOf(c) # Promise!Free
               PROVE  \/ DatesOf(c).win.end <= bk'[b].win.start
                      \/ bk'[b].win.end <= DatesOf(c).win.start
    BY DEF Promise!Clear
  <1>1. Reserved(c) /\ DatesOf(c).win = bk[c].win /\ bk'[c] = bk[c]
    BY DatesCases DEF Steady
  <1>2. Reserved(c)'
    BY <1>1 DEF Reserved
  <1>3. ~Overlaps(bk'[b].win, bk'[c].win)
    BY <1>2 DEF NoDoubleBooking
  <1>4. \A w \in Windows \cup {NoWindow} : w.start \in Int /\ w.end \in Int
    BY BookingWindowAssumption DEF NoWindow
  <1>5. bk'[b].win \in Windows \cup {NoWindow} /\ bk[c].win \in Windows \cup {NoWindow}
    BY DEF TypeOK, Row
  <1> QED BY <1>1, <1>3, <1>4, <1>5 DEF Overlaps


(* Every step is a step of Calendar, or changes no dates.                   *)
LEMMA PromiseStep ==
  ASSUME ~LockMayLapse, ~AttemptsReopen, TypeOK, CalendarInv, [Next]_vars
  PROVE  [Promise!Next]_[b \in Bookings |-> DatesOf(b)]
  <1>1. TypeOK' /\ CalendarInv'
    BY NextType, NextCalendar
  <1>2. NoDoubleBooking'
    BY <1>1, CalendarIsDisjoint, PTL
  <1>3. PICK b \in Bookings : Steady(b)
    BY SteadyStep
  <1> DEFINE dates == [c \in Bookings |-> DatesOf(c)]
             w == bk'[b].win
  <1>4. \A c \in Bookings : c # b => DatesOf(c)' = DatesOf(c)
    BY <1>3 DEF Steady, DatesOf, Reserved
  <1>5. dates' = [dates EXCEPT ![b] = DatesOf(b)']
    BY <1>4
  <1>6. Reserved(b)' => w \in Windows /\ Promise!Clear(b, w)
    <2>1. Reserved(b)' => w \in Windows
      BY <1>1 DEF CalendarInv, DatesKnown, UndecidedIsClean, Undecided, Reserved
    <2> QED BY <1>1, <1>2, <1>3, <2>1, TakenWasClear
  <1>7. Reserved(b) => w = bk[b].win /\ w \in Windows
    BY <1>3, ReservedHasWindow DEF Steady
  <1>8. /\ bk'[b].converted => DatesOf(b)' = Promise!Rented(w)
        /\ ~bk'[b].converted /\ Reserved(b)' => DatesOf(b)' = Promise!Held(w)
        /\ ~Reserved(b)' => DatesOf(b)' = Promise!Free
    BY DEF DatesOf, Reserved, Promise!Rented, Promise!Held, Promise!Free
  <1>9. /\ bk[b].converted => DatesOf(b) = Promise!Rented(bk[b].win)
        /\ ~bk[b].converted /\ Reserved(b) => DatesOf(b) = Promise!Held(bk[b].win)
        /\ ~Reserved(b) => DatesOf(b) = Promise!Free
    BY DatesCases
  <1>10. bk[b].converted => Reserved(b) /\ bk'[b].converted
    BY <1>3 DEF Steady, Reserved
  <1>11. bk'[b].converted => Reserved(b)'
    BY DEF Reserved
  <1>12. dates[b] = DatesOf(b)
    OBVIOUS
  <1>13. CASE DatesOf(b)' = DatesOf(b)
    <2>1. dates' = dates
      BY <1>4, <1>13
    <2> QED BY <2>1
  <1>14. CASE bk'[b].converted /\ ~bk[b].converted
    <2>1. Promise!Rent(b, w)
      BY <1>5, <1>6, <1>7, <1>8, <1>9, <1>11, <1>12, <1>14 DEF Promise!Rent
    <2> QED BY <1>6, <1>11, <1>14, <2>1 DEF Promise!Next
  <1>15. CASE ~bk'[b].converted /\ Reserved(b)' /\ ~Reserved(b)
    <2>1. Promise!Hold(b, w)
      BY <1>5, <1>6, <1>8, <1>9, <1>12, <1>15 DEF Promise!Hold
    <2> QED BY <1>6, <1>15, <2>1 DEF Promise!Next
  <1>16. CASE ~Reserved(b)' /\ Reserved(b) /\ ~bk[b].converted
    <2>1. Promise!GiveBack(b, w)
      BY <1>5, <1>7, <1>8, <1>9, <1>12, <1>16 DEF Promise!GiveBack
    <2> QED BY <1>7, <1>16, <2>1 DEF Promise!Next
  <1> QED BY <1>7, <1>8, <1>9, <1>10, <1>11, <1>13, <1>14, <1>15, <1>16

(* BookingWindow implements Calendar, for any bookings, windows and concurrent
   requests, under the assumptions of CalendarHolds.                        *)
THEOREM CalendarImplemented ==
  ASSUME ~LockMayLapse, ~AttemptsReopen
  PROVE  Spec => ImplementsCalendar
  <1>1. Init => Promise!Init
    BY PromiseInit
  <1>2. TypeOK /\ CalendarInv /\ [Next]_vars => [Promise!Next]_[b \in Bookings |-> DatesOf(b)]
    BY PromiseStep
  <1> QED BY <1>1, <1>2, TypeCorrect, CalendarHolds, PTL DEF Spec, ImplementsCalendar, Promise!Spec

=============================================================================
