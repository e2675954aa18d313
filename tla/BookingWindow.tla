--------------------------- MODULE BookingWindow ---------------------------
(***************************************************************************)
(* The calendar of one posting: booking requests, the hold blocks of paid  *)
(* bookings, owner availability blocks and rentings, and the requests,     *)
(* webhooks and workers that change them concurrently (BookingsService,    *)
(* BookingsRepository, RentingsService.convertApprovedBookingRequest,      *)
(* PaymentsRepository.markPaymentSucceeded / completeRefund, the booking   *)
(* expiry worker and the availability and lifecycle commands of            *)
(* PostingsService).                                                       *)
(*                                                                         *)
(* A command that runs under flow locks is a job: one step takes the locks *)
(* and reads, later steps write and release.  Everything that takes no     *)
(* lock runs between those steps.  The money side of a payment is the      *)
(* subject of Checkout; here a payment is one of three values.             *)
(***************************************************************************)
EXTENDS FlowLock, Integers, FiniteSets

CONSTANTS
    Bookings,           \* booking request ids
    RenterOf,           \* the renter of each booking
    Windows,            \* requested date ranges: [start, end), as records
    Requests,           \* concurrent requests, webhook deliveries and workers
    Nobody, NoBooking,  \* "null"
    MaxActive,          \* MAX_ACTIVE_BOOKING_REQUESTS_PER_POSTING
    MaxHolds,           \* bound: hold blocks ever created per booking
    LockMayLapse,       \* TRUE: a job may outlive its 15 s locks
    MayCrash,           \* TRUE: a process may die in the middle of a job
    MayPause,           \* TRUE: the posting is paused, relisted and archived
    AttemptsReopen      \* TRUE: a checkout attempt that failed without an order
                        \* is tried again, by the retry worker or by a client
                        \* that repeats its request

ASSUME BookingWindowAssumption ==
    /\ Requests # {} /\ Nobody \notin Requests
    /\ Bookings # {} /\ NoBooking \notin Bookings
    /\ \A w \in Windows : w \in [start : Int, end : Int] /\ w.start < w.end
    /\ MaxActive \in Nat
    /\ MaxHolds \in Nat
    /\ {LockMayLapse, MayCrash, MayPause, AttemptsReopen} \subseteq BOOLEAN

VARIABLES
    posting,       \* postings.status
    bk,            \* booking_requests rows
    holds,         \* posting_availability_blocks of source booking_hold
    ownerBlocks,   \* posting_availability_blocks of source owner (their windows)
    held,          \* flow locks
    job,           \* what each request is doing
    races          \* history of each booking: see Races

vars == <<posting, bk, holds, ownerBlocks, held, job, races>>

-----------------------------------------------------------------------------
Statuses == {"none", "pending", "awaiting_payment", "payment_processing",
             "payment_failed", "paid", "declined", "cancelled", "expired",
             "refunded"}

ActiveStatuses == {"pending", "awaiting_payment", "payment_processing",
                   "payment_failed", "paid"}

PAYABLE == {"awaiting_payment", "payment_processing", "payment_failed"}

NoWindow == [start |-> 0, end |-> 0]

(* holdBlockId 0 is null; hold n of b is the n-th block created for b.      *)
HoldIds == 0 .. MaxHolds

Row == [status    : Statuses,
        win       : Windows \cup {NoWindow},
        lapsed    : BOOLEAN,               \* holdExpiresAt <= now
        hold      : HoldIds,               \* holdBlockId
        made      : HoldIds,               \* hold blocks created so far
        converted : BOOLEAN,               \* convertedAt set, renting row exists
        resv      : Requests \cup {Nobody},\* who set conversionReservedAt
        live      : BOOLEAN,               \* conversionReservationExpiresAt > now
        flagged   : BOOLEAN,               \* paymentReconciliationRequired
        pay       : {"none", "open", "charged"},
        retry     : BOOLEAN]               \* a failed_retryable attempt exists

NewRow == [status |-> "none", win |-> NoWindow, lapsed |-> FALSE, hold |-> 0,
           made |-> 0, converted |-> FALSE, resv |-> Nobody, live |-> FALSE,
           flagged |-> FALSE, pay |-> "none", retry |-> FALSE]

Ops == {"create", "cancel", "convert", "checkout", "retry", "settle", "refund"}

Job == [op : Ops \cup {"none", "dead"}, at : {"idle", "read", "instant", "checked"},
        b : Bookings \cup {NoBooking}, win : Windows \cup {NoWindow},
        seen : Statuses,     \* booking status the job read
        hold : HoldIds,      \* holdBlockId the job read
        conv : BOOLEAN,      \* settle: the booking was converted when read
        clear : BOOLEAN]     \* settle: the dates were free when it looked;
                             \* checkout, retry: its attempt is still current

Idle == [op |-> "none", at |-> "idle", b |-> NoBooking, win |-> NoWindow,
         seen |-> "none", hold |-> 0, conv |-> FALSE, clear |-> FALSE]

NewJob(op, b) == [Idle EXCEPT !.op = op, !.at = "read", !.b = b]

(* An UPDATE of b's row.                                                    *)
UpdateRow(b, row) == [bk EXCEPT ![b] = row]

Init ==
    /\ posting = "published"
    /\ bk = [b \in Bookings |-> NewRow]
    /\ holds = {}
    /\ ownerBlocks = {}
    /\ held = [r \in Requests |-> {}]
    /\ job = [r \in Requests |-> Idle]
    /\ races = [b \in Bookings |-> {}]

-----------------------------------------------------------------------------
(* Flow lock keys (flowLockKeys).                                           *)
Window      == <<"posting", "booking-window">>
Cap(b)      == <<"cap", RenterOf[b]>>
Decision(b) == <<"decision", b>>
State(b)    == <<"state", b>>
Convert(b)  == <<"convert", b>>

LockKeys == {Window} \cup {Cap(b) : b \in Bookings} \cup {Decision(b) : b \in Bookings}
              \cup {State(b) : b \in Bookings} \cup {Convert(b) : b \in Bookings}

Start(r, keys, j) ==
    /\ job[r] = Idle
    /\ LocksFree(held, keys)
    /\ held' = AcquireLocks(held, r, keys)
    /\ job' = [job EXCEPT ![r] = j]

Finish(r) ==
    /\ held' = ReleaseLocks(held, r)
    /\ job' = [job EXCEPT ![r] = Idle]

-----------------------------------------------------------------------------
(* What the code leaves unguarded, remembered when it happens.

   "overlap"  a cancellation, conversion, settlement or refund of the booking was
              written between the reads and the writes of another one's
              transaction (MySQL's REPEATABLE READ, which the code leaves alone)
   "reopen"   an attempt was tried again although the booking could not be paid *)
Races == {"overlap", "reopen"}

Note(b, happened, race) ==
    races' = IF happened THEN [races EXCEPT ![b] = @ \cup {race}] ELSE races

(* q has read b and has not written it yet.                                 *)
InTransaction(q, b) ==
    /\ job[q].b = b
    /\ job[q].op \in {"settle", "refund"} \/ (job[q].op = "convert" /\ job[q].at = "checked")

NoteOverlap(r) ==
    Note(job[r].b,
         /\ bk' # bk
         /\ \E q \in Requests : job[q].op # job[r].op /\ InTransaction(q, job[r].b),
         "overlap")

(* A checkout of b may be open.                                             *)
Open(b) == bk[b].status \in PAYABLE /\ ~bk[b].converted

NoteReopen(r) ==
    Note(job[r].b,
         bk' # bk /\ ~Open(job[r].b) /\ (job[r].op = "retry" \/ ~job[r].clear),
         "reopen")

-----------------------------------------------------------------------------
(* Queries.                                                                 *)

(* startAt < other.endAt AND endAt > other.startAt.                         *)
Overlaps(v, w) == v.start < w.end /\ v.end > w.start

RentingOverlap(w) == \E b \in Bookings : bk[b].converted /\ Overlaps(bk[b].win, w)

(* hasBlockingAvailabilityOverlap: owner and renting blocks always block; a
   hold block blocks when no booking points at it, or when the booking that
   does is paid, unconverted and not the caller's own.                      *)
HoldBlocks(h, self) ==
    LET b == h[1] IN
    bk[b].hold = h[2] => bk[b].status = "paid" /\ ~bk[b].converted /\ b # self

BlockingOverlap(w, self) ==
    \/ \E v \in ownerBlocks : Overlaps(v, w)
    \/ RentingOverlap(w)
    \/ \E h \in holds : HoldBlocks(h, self) /\ Overlaps(bk[h[1]].win, w)

ActiveRequests(renter) ==
    {b \in Bookings : RenterOf[b] = renter /\ bk[b].status \in ActiveStatuses
                        /\ ~bk[b].converted}

BelowCap(b) == Cardinality(ActiveRequests(RenterOf[b])) < MaxActive

(* hasActiveBookingAvailabilityConflict.                                    *)
ActiveBookingConflict(w) ==
    \E b \in Bookings :
        /\ bk[b].status \in {"pending", "awaiting_payment", "payment_processing", "paid"}
        /\ ~bk[b].converted /\ ~bk[b].lapsed /\ ~bk[b].live
        /\ Overlaps(bk[b].win, w)

-----------------------------------------------------------------------------
(* BookingsService.create.                                                  *)

BeginCreate(r, b, w) ==
    /\ bk[b].status = "none"
    /\ \A q \in Requests : ~(job[q].op = "create" /\ job[q].b = b)
    /\ posting = "published"
    /\ ~RentingOverlap(w) /\ ~BlockingOverlap(w, NoBooking)
    /\ BelowCap(b)
    /\ Start(r, {Window, Cap(b)}, [NewJob("create", b) EXCEPT !.win = w])
    /\ UNCHANGED <<posting, bk, holds, ownerBlocks, races>>

(* createIfWithinActiveRequestLimit counts again and inserts; an
   instant-booking posting goes on to approve the request in a second
   transaction.                                                             *)
CommitCreate(r) ==
    LET b == job[r].b IN
    /\ job[r].op = "create" /\ job[r].at = "read"
    /\ bk' = IF BelowCap(b)
             THEN UpdateRow(b, [NewRow EXCEPT !.status = "pending", !.win = job[r].win])
             ELSE bk
    /\ \/ Finish(r)
       \/ BelowCap(b) /\ job' = [job EXCEPT ![r].at = "instant"] /\ UNCHANGED held
    /\ UNCHANGED <<posting, holds, ownerBlocks, races>>

(* BookingsRepository.approve: one transaction that checks the blocks again
   and updates WHERE status = 'pending' AND holdExpiresAt > now.  It makes no
   hold block: dates are only taken by a payment.                           *)
CanApprove(b) == bk[b].status = "pending" /\ ~bk[b].lapsed /\ ~BlockingOverlap(bk[b].win, b)

Approved(b) == UpdateRow(b, [bk[b] EXCEPT !.status = "awaiting_payment", !.lapsed = FALSE, !.hold = 0])

InstantApprove(r) ==
    LET b == job[r].b IN
    /\ job[r].op = "create" /\ job[r].at = "instant"
    /\ bk' = IF CanApprove(b) THEN Approved(b) ELSE bk
    /\ Finish(r)
    /\ UNCHANGED <<posting, holds, ownerBlocks, races>>

(* BookingsService.approve, updateOwnPending and decline read and then write
   with a compare-and-swap on what they read (pending, hold not lapsed), under
   locks every competing decision takes: each is one step.                  *)
Approve(b) ==
    /\ LocksFree(held, {Decision(b), State(b), Window})
    /\ posting \in {"published", "paused"}
    /\ CanApprove(b)
    /\ bk' = Approved(b)
    /\ UNCHANGED <<posting, holds, ownerBlocks, held, job, races>>

UpdateOwnPending(b, w) ==
    /\ LocksFree(held, {State(b), Window})
    /\ posting = "published"
    /\ bk[b].status = "pending" /\ ~bk[b].lapsed
    /\ ~BlockingOverlap(w, b)
    /\ bk' = UpdateRow(b, [bk[b] EXCEPT !.win = w])
    /\ UNCHANGED <<posting, holds, ownerBlocks, held, job, races>>

Decline(b) ==
    /\ LocksFree(held, {Decision(b), State(b)})
    /\ bk[b].status = "pending" /\ ~bk[b].lapsed
    /\ bk' = UpdateRow(b, [bk[b] EXCEPT !.status = "declined"])
    /\ UNCHANGED <<posting, holds, ownerBlocks, held, job, races>>

-----------------------------------------------------------------------------
(* BookingsService.cancel: assessCancellation, then, for a paid booking, the
   refund at the provider, then BookingsRepository.cancel.                  *)
CancellableStatuses == {"pending", "awaiting_payment", "payment_failed", "paid"}

BeginCancel(r, b) ==
    /\ bk[b].status \in CancellableStatuses /\ ~bk[b].converted
    /\ Start(r, {Decision(b), State(b), Window},
             [NewJob("cancel", b) EXCEPT !.seen = bk[b].status])
    /\ UNCHANGED <<posting, bk, holds, ownerBlocks, races>>

(* deleteMany of hold block h of b.  Mutant: it is forgotten.               *)
HoldForgotten(b, h) == holds

WithoutHold(b, h) == holds \ {<<b, h>>}

(* The row that gives its dates back.                                       *)
Released(b, status) ==
    UpdateRow(b, [bk[b] EXCEPT !.status = status, !.hold = 0, !.resv = Nobody, !.live = FALSE])

(* Mutant: convertedAt is not looked at.                                    *)
CancelOnStatusAlone(r) == bk[job[r].b].status = job[r].seen

(* WHERE status = expectedStatus AND convertedAt IS NULL.                   *)
CancelStillApplies(r) == bk[job[r].b].status = job[r].seen /\ ~bk[job[r].b].converted

CommitCancel(r) ==
    LET b == job[r].b IN
    /\ job[r].op = "cancel"
    /\ \/ /\ CancelStillApplies(r)
          /\ bk' = Released(b, "cancelled")
          /\ holds' = WithoutHold(b, bk[b].hold)
       \/ ~CancelStillApplies(r) /\ UNCHANGED <<bk, holds>>
    /\ NoteOverlap(r)
    /\ Finish(r)
    /\ UNCHANGED <<posting, ownerBlocks>>

(* The refund failed: the booking is left as it was.                        *)
CancelRefundFails(r) ==
    /\ job[r].op = "cancel" /\ job[r].seen = "paid"
    /\ Finish(r)
    /\ UNCHANGED <<posting, bk, holds, ownerBlocks, races>>

-----------------------------------------------------------------------------
(* RentingsService.convertApprovedBookingRequest.                           *)

(* reserveForConversion: a compare-and-swap on paid, unconverted and no live
   reservation.                                                             *)
BeginConvert(r, b) ==
    /\ posting \in {"published", "paused"}
    /\ bk[b].status = "paid" /\ ~bk[b].converted /\ ~bk[b].live
    /\ Start(r, {Convert(b), Window}, NewJob("convert", b))
    /\ bk' = UpdateRow(b, [bk[b] EXCEPT !.resv = r, !.live = TRUE])
    /\ UNCHANGED <<posting, holds, ownerBlocks, races>>

(* Mutant: the transaction relies on the reservation for the status.        *)
CanConvertReserved(b) ==
    ~bk[b].converted /\ bk[b].live /\ ~RentingOverlap(bk[b].win)

CanConvert(b) ==
    bk[b].status = "paid" /\ ~bk[b].converted /\ bk[b].live /\ ~RentingOverlap(bk[b].win)

(* releaseConversionReservation: only the reservation this job made.        *)
ReleaseReservation(r, b) ==
    IF bk[b].resv = r THEN UpdateRow(b, [bk[b] EXCEPT !.resv = Nobody, !.live = FALSE]) ELSE bk

ConvertFails(r) ==
    /\ bk' = ReleaseReservation(r, job[r].b)
    /\ Finish(r)
    /\ UNCHANGED <<posting, holds, ownerBlocks, races>>

(* The transaction's reads ...                                              *)
ReadConvert(r) ==
    LET b == job[r].b IN
    /\ job[r].op = "convert" /\ job[r].at = "read"
    /\ \/ /\ CanConvert(b)
          /\ job' = [job EXCEPT ![r] = [job[r] EXCEPT !.at = "checked", !.hold = bk[b].hold]]
          /\ UNCHANGED <<posting, bk, holds, ownerBlocks, held, races>>
       \/ ~CanConvert(b) /\ ConvertFails(r)

(* ... and its writes: the hold block goes, the renting and its block come.
   A second renting of the same booking violates the unique index.          *)
CommitConvert(r) ==
    LET b == job[r].b IN
    /\ job[r].op = "convert" /\ job[r].at = "checked"
    /\ \/ /\ ~bk[b].converted
          /\ bk' = UpdateRow(b, [bk[b] EXCEPT !.converted = TRUE, !.hold = 0,
                                             !.resv = Nobody, !.live = FALSE])
          /\ holds' = WithoutHold(b, job[r].hold)
          /\ NoteOverlap(r)
          /\ Finish(r)
          /\ UNCHANGED <<posting, ownerBlocks>>
       \/ bk[b].converted /\ ConvertFails(r)

-----------------------------------------------------------------------------
(* Payments, as the calendar sees them.                                     *)

(* The jobs once the attempts that kind of job has open on b are replaced.   *)
Replaced(kind, b) ==
    [q \in Requests |-> IF job[q].op = kind /\ job[q].b = b
                        THEN [job[q] EXCEPT !.clear = FALSE] ELSE job[q]]

(* createPaymentSession under the checkout lock: an attempt is opened while
   the booking is payable.  Whether the payment was already charged is not
   looked at.  A checkout in flight is superseded: its order is dropped, and
   its attempts, the one a retry worker is busy with included, are over.      *)
BeginCheckout(r, b) ==
    LET inFlight == bk[b].status = "payment_processing" IN
    /\ bk[b].status \in PAYABLE /\ ~bk[b].converted /\ ~bk[b].lapsed
    /\ job[r] = Idle
    /\ LocksFree(held, {State(b)})
    /\ held' = AcquireLocks(held, r, {State(b)})
    /\ job' = [q \in Requests |->
                 CASE q = r -> [NewJob("checkout", b) EXCEPT !.clear = TRUE]
                   [] q # r -> IF inFlight THEN Replaced("retry", b)[q] ELSE job[q]]
    /\ bk' = IF inFlight THEN UpdateRow(b, [bk[b] EXCEPT !.pay = "none", !.retry = FALSE]) ELSE bk
    /\ UNCHANGED <<posting, holds, ownerBlocks, races>>

(* markAttemptForRetry, by the retry worker: no lock, and no look at the
   booking.                                                                 *)
BeginRetry(r, b) ==
    /\ bk[b].retry
    /\ Start(r, {}, [NewJob("retry", b) EXCEPT !.clear = TRUE])
    /\ bk' = UpdateRow(b, [bk[b] EXCEPT !.retry = FALSE, !.status = "payment_processing"])
    /\ Note(b, ~Open(b), "reopen")
    /\ UNCHANGED <<posting, holds, ownerBlocks>>

(* The client repeats the request of a failed attempt: createPaymentSession
   answers it before any look at the booking's status, and asks the provider
   again.  The attempt is over, so its order cannot be attached.            *)
BeginReplay(r, b) ==
    /\ bk[b].retry
    /\ Start(r, {State(b)}, NewJob("checkout", b))
    /\ UNCHANGED <<posting, bk, holds, ownerBlocks, races>>

(* After the provider call attachPaymentSession sets the booking's
   status, whatever it is by then, unless the attempt was superseded or (for a
   checkout, which expects the order it saw) the payment has another order.  *)
Attach(r) ==
    LET b == job[r].b IN
    /\ job[r].op \in {"checkout", "retry"} /\ job[r].clear
    /\ bk' = UpdateRow(b, [bk[b] EXCEPT !.status = "payment_processing", !.pay = "open"])
    /\ held' = ReleaseLocks(held, r)
    /\ job' = [Replaced("checkout", b) EXCEPT ![r] = Idle]
    /\ NoteReopen(r)
    /\ UNCHANGED <<posting, holds, ownerBlocks>>

(* The provider call or the attach failed: recordAttemptFailure, which leaves
   the booking alone only when the attempt was superseded.                  *)
SessionFails(r) ==
    LET b == job[r].b
        superseded == job[r].op = "retry" /\ ~job[r].clear IN
    /\ job[r].op \in {"checkout", "retry"}
    /\ \/ superseded /\ UNCHANGED bk
       \/ /\ ~superseded
          /\ \E again \in (IF AttemptsReopen THEN BOOLEAN ELSE {FALSE}) :
                bk' = UpdateRow(b, [bk[b] EXCEPT !.status = "payment_failed", !.retry = again])
    /\ NoteReopen(r)
    /\ Finish(r)
    /\ UNCHANGED <<posting, holds, ownerBlocks>>

(* The provider reports the open order failed or voided (markPaymentFailed),
   or Rentify refuses to capture it (rejectCheckoutAttempt, which looks at
   the booking's status).  Both run under the checkout lock.                *)
PaymentFails(b) ==
    /\ LocksFree(held, {State(b)})
    /\ bk[b].pay = "open"
    /\ bk' = UpdateRow(b, [bk[b] EXCEPT !.status = "payment_failed"])
    /\ UNCHANGED <<posting, holds, ownerBlocks, held, job, races>>

OrderRejected(b) ==
    /\ LocksFree(held, {State(b)})
    /\ bk[b].pay = "open" /\ bk[b].status \in PAYABLE
    /\ bk' = UpdateRow(b, [bk[b] EXCEPT !.status = "payment_failed"])
    /\ UNCHANGED <<posting, holds, ownerBlocks, held, job, races>>

(* markCompletedPaymentStatus: checkout lock and window lock, then the reads
   of markPaymentSucceeded.  It also runs again for a payment that already
   succeeded (redelivered webhook, repair worker, reconcile).               *)
SettleJob(b) ==
    [NewJob("settle", b) EXCEPT !.hold = bk[b].hold, !.conv = bk[b].converted,
                                !.clear = ~BlockingOverlap(bk[b].win, b)]

(* Mutant: markPaymentSucceeded without the window lock.                    *)
BeginSettleNoWindow(r, b) ==
    /\ bk[b].pay \in {"open", "charged"}
    /\ bk[b].made < MaxHolds
    /\ Start(r, {State(b)}, SettleJob(b))
    /\ UNCHANGED <<posting, bk, holds, ownerBlocks, races>>

BeginSettle(r, b) ==
    /\ bk[b].pay \in {"open", "charged"}
    /\ bk[b].made < MaxHolds
    /\ Start(r, {State(b), Window}, SettleJob(b))
    /\ UNCHANGED <<posting, bk, holds, ownerBlocks, races>>

(* The booking is paid and owns hold block h.                               *)
PaidWith(b, h) ==
    [bk[b] EXCEPT !.status = "paid", !.hold = h, !.resv = Nobody, !.live = FALSE,
                  !.flagged = FALSE, !.pay = "charged"]

(* The charge stands but the dates are gone.  Mutant: nobody is told.       *)
ChargedSilently(b) == UpdateRow(b, [bk[b] EXCEPT !.pay = "charged"])

NeedsReconciliation(b) == UpdateRow(b, [bk[b] EXCEPT !.flagged = TRUE, !.pay = "charged"])

(* Mutant: the hold is written whatever the overlap query found.            *)
CommitSettleUnchecked(r) ==
    LET b == job[r].b
        next == bk[b].made + 1 IN
    /\ job[r].op = "settle"
    /\ ~job[r].conv /\ job[r].hold = 0 /\ next <= MaxHolds
    /\ bk' = UpdateRow(b, [PaidWith(b, next) EXCEPT !.made = next])
    /\ holds' = holds \cup {<<b, next>>}
    /\ NoteOverlap(r)
    /\ Finish(r)
    /\ UNCHANGED <<posting, ownerBlocks>>

(* markPaymentSucceeded's writes.  A booking without a hold block gets one,
   or is flagged for reconciliation when the dates are gone.  A hold block
   that was deleted meanwhile fails the foreign key and rolls back.         *)
CommitSettle(r) ==
    LET j == job[r]
        b == j.b
        next == bk[b].made + 1 IN
    /\ j.op = "settle"
    /\ \/ /\ bk[b].pay = "charged"        \* an order the payment no longer tracks
          /\ bk' = UpdateRow(b, [bk[b] EXCEPT !.flagged = TRUE])
          /\ UNCHANGED holds
       \/ /\ j.conv
          /\ bk' = UpdateRow(b, [bk[b] EXCEPT !.pay = "charged"])
          /\ UNCHANGED holds
       \/ /\ ~j.conv /\ j.hold = 0 /\ j.clear /\ next <= MaxHolds
          /\ bk' = UpdateRow(b, [PaidWith(b, next) EXCEPT !.made = next])
          /\ holds' = holds \cup {<<b, next>>}
       \/ /\ ~j.conv /\ j.hold = 0 /\ ~j.clear
          /\ bk' = NeedsReconciliation(b)
          /\ UNCHANGED holds
       \/ /\ ~j.conv /\ j.hold # 0
          /\ bk' = IF <<b, j.hold>> \in holds THEN UpdateRow(b, PaidWith(b, j.hold)) ELSE bk
          /\ UNCHANGED holds
    /\ NoteOverlap(r)
    /\ Finish(r)
    /\ UNCHANGED <<posting, ownerBlocks>>

(* completeRefund of a refund that makes the total fully refunded, from the
   refund endpoint or a refund webhook: no lock.  The transaction reads the
   booking, then writes.                                                    *)
BeginRefund(r, b) ==
    /\ bk[b].pay = "charged"
    /\ Start(r, {}, [NewJob("refund", b) EXCEPT !.hold = bk[b].hold, !.seen = bk[b].status])
    /\ UNCHANGED <<posting, bk, holds, ownerBlocks, races>>

(* Mutant: the refund also takes the renting back.                          *)
CommitRefundUndoes(r) ==
    LET b == job[r].b IN
    /\ job[r].op = "refund"
    /\ bk' = UpdateRow(b, [bk[b] EXCEPT !.hold = 0, !.converted = FALSE, !.status = "refunded"])
    /\ holds' = WithoutHold(b, bk[b].hold)
    /\ NoteOverlap(r)
    /\ Finish(r)
    /\ UNCHANGED <<posting, ownerBlocks>>

CommitRefund(r) ==
    LET b == job[r].b IN
    /\ job[r].op = "refund"
    /\ bk' = UpdateRow(b, [bk[b] EXCEPT !.hold = 0,
                 !.status = IF job[r].seen = "cancelled" THEN bk[b].status ELSE "refunded"])
    /\ holds' = WithoutHold(b, job[r].hold)
    /\ NoteOverlap(r)
    /\ Finish(r)
    /\ UNCHANGED <<posting, ownerBlocks>>

-----------------------------------------------------------------------------
(* BookingsRepository.expire, by the expiry worker: no lock.                *)
(* Mutant: failed payments are not looked for.                              *)
ExpirableNotFailed == {"pending", "awaiting_payment", "payment_processing"}

Expirable == {"pending"} \cup PAYABLE

Expire(b) ==
    /\ bk[b].status \in Expirable
    /\ bk[b].lapsed /\ ~bk[b].converted /\ ~bk[b].live
    /\ bk' = Released(b, "expired")
    /\ holds' = IF bk[b].status = "pending" THEN holds ELSE WithoutHold(b, bk[b].hold)
    /\ UNCHANGED <<posting, ownerBlocks, held, job, races>>

(* assertAvailabilityBlockCanBeWritten.                                     *)
BlockCanBeWritten(w, old) ==
    /\ \A v \in ownerBlocks \ {old} : ~Overlaps(v, w)
    /\ ~ActiveBookingConflict(w)
    /\ ~RentingOverlap(w)

(* PostingsService: owner availability blocks, under the window lock.  An
   update is a write that ignores the block it replaces.                    *)
WriteOwnerBlock(w, old) ==
    /\ LocksFree(held, {Window})
    /\ BlockCanBeWritten(w, old)
    /\ ownerBlocks' = (ownerBlocks \ {old}) \cup {w}
    /\ UNCHANGED <<posting, bk, holds, held, job, races>>

DeleteOwnerBlock(w) ==
    /\ LocksFree(held, {Window})
    /\ ownerBlocks' = ownerBlocks \ {w}
    /\ UNCHANGED <<posting, bk, holds, held, job, races>>

(* pause (by the owner or by the posting expiry worker) and unpause take the
   window lock; archive does not.                                           *)
PausePosting ==
    /\ MayPause
    /\ LocksFree(held, {Window})
    /\ posting = "published" /\ posting' = "paused"
    /\ UNCHANGED <<bk, holds, ownerBlocks, held, job, races>>

UnpausePosting ==
    /\ MayPause
    /\ LocksFree(held, {Window})
    /\ posting = "paused" /\ posting' = "published"
    /\ UNCHANGED <<bk, holds, ownerBlocks, held, job, races>>

ArchivePosting ==
    /\ MayPause
    /\ posting # "archived" /\ posting' = "archived"
    /\ UNCHANGED <<bk, holds, ownerBlocks, held, job, races>>

-----------------------------------------------------------------------------
(* Time and failures.                                                       *)

HoldLapses(b) ==
    /\ bk[b].status \in ActiveStatuses /\ ~bk[b].lapsed
    /\ bk' = UpdateRow(b, [bk[b] EXCEPT !.lapsed = TRUE])
    /\ UNCHANGED <<posting, holds, ownerBlocks, held, job, races>>

(* A reservation lives 5 minutes and a lock 15 seconds, so a conversion that
   keeps its locks keeps its reservation.                                   *)
ReservationLapses(b) ==
    /\ bk[b].live
    /\ LockMayLapse \/ \A r \in Requests : ~(job[r].op = "convert" /\ job[r].b = b)
    /\ bk' = UpdateRow(b, [bk[b] EXCEPT !.live = FALSE])
    /\ UNCHANGED <<posting, holds, ownerBlocks, held, job, races>>

(* withCheckoutLock renews its lock; withFlowLock(s) never does.            *)
LockLapses(r, k) ==
    /\ LockMayLapse
    /\ job[r].op \in Ops
    /\ k \in held[r]
    /\ ~(job[r].op \in {"checkout", "settle"} /\ k = State(job[r].b))
    /\ held' = LapseLock(held, r, k)
    /\ UNCHANGED <<posting, bk, holds, ownerBlocks, job, races>>

(* The process dies; Redis drops its keys when their TTL runs out.          *)
Crash(r) ==
    /\ MayCrash
    /\ job[r].op \in Ops
    /\ job' = [job EXCEPT ![r] = [Idle EXCEPT !.op = "dead"]]
    /\ UNCHANGED <<posting, bk, holds, ownerBlocks, held, races>>

DeadLocksLapse(r) ==
    /\ job[r].op = "dead"
    /\ Finish(r)
    /\ UNCHANGED <<posting, bk, holds, ownerBlocks, races>>

-----------------------------------------------------------------------------
JobStep(r) ==
    \/ CommitCreate(r) \/ InstantApprove(r)
    \/ CommitCancel(r) \/ CancelRefundFails(r)
    \/ ReadConvert(r) \/ CommitConvert(r)
    \/ Attach(r) \/ SessionFails(r)
    \/ CommitSettle(r) \/ CommitRefund(r)
    \/ DeadLocksLapse(r)

Next ==
    \/ \E r \in Requests :
          \/ JobStep(r)
          \/ Crash(r)
          \/ \E k \in held[r] : LockLapses(r, k)
    \/ \E r \in Requests, b \in Bookings :
          \/ \E w \in Windows : BeginCreate(r, b, w)
          \/ BeginCancel(r, b) \/ BeginConvert(r, b) \/ BeginCheckout(r, b)
          \/ BeginRetry(r, b) \/ BeginReplay(r, b) \/ BeginSettle(r, b) \/ BeginRefund(r, b)
    \/ \E b \in Bookings :
          \/ Approve(b) \/ Decline(b) \/ (\E w \in Windows : UpdateOwnPending(b, w))
          \/ PaymentFails(b) \/ OrderRejected(b) \/ Expire(b)
          \/ HoldLapses(b) \/ ReservationLapses(b)
    \/ \E w \in Windows :
          \/ DeleteOwnerBlock(w)
          \/ \E old \in ownerBlocks \cup {NoWindow} : WriteOwnerBlock(w, old)
    \/ PausePosting \/ UnpausePosting \/ ArchivePosting

Spec == Init /\ [][Next]_vars

-----------------------------------------------------------------------------
(* Properties.                                                              *)

(* Every row, block, lock and job keeps its type.                           *)
TypeOK ==
    /\ posting \in {"published", "paused", "archived"}
    /\ bk \in [Bookings -> Row]
    /\ holds \subseteq Bookings \X (1 .. MaxHolds)
    /\ ownerBlocks \subseteq Windows
    /\ held \in [Requests -> SUBSET LockKeys]
    /\ job \in [Requests -> Job]
    /\ races \in [Bookings -> SUBSET Races]
    /\ \A r \in Requests : job[r].op \in Ops => job[r].b \in Bookings

(* The dates b has taken: it was converted into a renting, or it is paid and
   has its hold block.                                                      *)
Reserved(b) ==
    bk[b].converted \/ (bk[b].status = "paid" /\ bk[b].hold # 0)

(* Two bookings never have the same dates: whatever approvals, payments,
   late webhooks, cancellations, expiries and conversions interleave, the
   windows of reserved bookings are disjoint.  markPaymentSucceeded checks
   the calendar and writes the hold under the window lock for this.         *)
NoDoubleBooking ==
    \A b, c \in Bookings :
        b # c /\ Reserved(b) /\ Reserved(c) => ~Overlaps(bk[b].win, bk[c].win)

(* The inductive strengthening of NoDoubleBooking, for locks that do not lapse
   and failed attempts that nobody tries again.                             *)

(* Each running job has its locks, and no lock has two owners.              *)
KeysOf(j) ==
    CASE j.op = "create"   -> {Window, Cap(j.b)}
      [] j.op = "cancel"   -> {Decision(j.b), State(j.b), Window}
      [] j.op = "convert"  -> {Convert(j.b), Window}
      [] j.op = "checkout" -> {State(j.b)}
      [] j.op = "settle"   -> {State(j.b), Window}
      [] OTHER             -> {}

LocksHeld ==
    /\ \A r \in Requests : KeysOf(job[r]) \subseteq held[r]
    /\ \A r, q \in Requests : r # q => held[r] \cap held[q] = {}

NoRetries ==
    /\ \A b \in Bookings : ~bk[b].retry
    /\ \A r \in Requests : job[r].op # "retry"

(* A booking that was never approved has neither money nor dates.           *)
Undecided(b) == bk[b].status \in {"none", "pending"}

UndecidedIsClean ==
    \A b \in Bookings : Undecided(b)
        => bk[b].pay = "none" /\ ~bk[b].converted /\ \A n \in HoldIds : <<b, n>> \notin holds

(* Every request names its dates.                                           *)
DatesKnown == \A b \in Bookings : bk[b].status # "none" => bk[b].win \in Windows

(* Only a paid, charged and unconverted booking points at a hold block, which
   exists; a paid booking has a block, although a refund that read an older
   status may have cut the pointer to it.                                   *)
HoldIsPaid ==
    \A b \in Bookings :
        /\ bk[b].hold # 0 => /\ <<b, bk[b].hold>> \in holds
                             /\ bk[b].status = "paid" /\ ~bk[b].converted
                             /\ bk[b].pay = "charged"
        /\ bk[b].status = "paid" /\ ~bk[b].converted => \E n \in HoldIds : <<b, n>> \in holds

(* b keeps others off its dates: with a renting or with any block of its own. *)
Taken(b) == bk[b].converted \/ \E n \in HoldIds : <<b, n>> \in holds

NoneTaken(b) ==
    \A c \in Bookings : c # b /\ Taken(c) => ~Overlaps(bk[b].win, bk[c].win)

TakenApart == \A b \in Bookings : Taken(b) => NoneTaken(b)

(* What a job learned is still true when it writes.                         *)
JobRight(j) ==
    /\ j.op = "create" => j.win \in Windows /\ (bk[j.b].status = "none" \/ j.at = "instant")
    /\ j.op = "cancel" => j.seen # "none"
    /\ j.op \in {"checkout", "settle", "refund", "convert"} => ~Undecided(j.b)
    /\ j.op = "checkout" => bk[j.b].hold = 0
    /\ j.op = "settle" /\ j.clear => NoneTaken(j.b)
    /\ j.op = "settle" => j.conv = bk[j.b].converted
    /\ j.op = "refund" /\ j.hold # 0 => j.seen = "paid"
    /\ j.op = "convert" /\ j.at = "checked" => NoneTaken(j.b)

JobsStillRight == \A r \in Requests : JobRight(job[r])

CalendarInv ==
    /\ LocksHeld /\ NoRetries
    /\ UndecidedIsClean /\ DatesKnown /\ HoldIsPaid /\ TakenApart /\ JobsStillRight

(* The dates the bookings have taken, as Calendar sees them.                *)
DatesOf(b) ==
    CASE bk[b].converted -> [kind |-> "rented", win |-> bk[b].win]
      [] ~bk[b].converted /\ Reserved(b) -> [kind |-> "held", win |-> bk[b].win]
      [] OTHER -> [kind |-> "free"]

Promise == INSTANCE Calendar WITH dates <- [b \in Bookings |-> DatesOf(b)]

(* The commands, webhooks and workers implement the calendar: whatever they
   interleave, every step takes or gives back the dates of at most one booking,
   takes them only while they are free, and never moves or drops a renting.  *)
ImplementsCalendar == Promise!Spec

(* A hold block never outlives its reason: each one is the holdBlockId of a
   paid, unconverted booking, so no cancelled, expired, refunded or converted
   booking keeps dates off the calendar, unless transactions overlapped on it
   or an attempt was tried again after it was paid.                         *)
HoldsAccounted ==
    \A h \in holds :
        races[h[1]] = {} =>
            bk[h[1]].hold = h[2] /\ bk[h[1]].status = "paid" /\ ~bk[h[1]].converted

(* Money without dates is never silent: a charged booking that is neither
   paid nor given back nor converted is flagged for reconciliation.         *)
ChargedIsReservedOrFlagged ==
    \A b \in Bookings :
        bk[b].pay = "charged" /\ ~bk[b].converted
            => \/ bk[b].status \in {"paid", "refunded", "cancelled"}
               \/ bk[b].flagged

(* A renting is final: no cancellation, expiry or late payment event that
   started before the conversion takes the booking away from under it, with
   the same exceptions.                                                     *)
ConvertedIsFinal ==
    [][\A b \in Bookings : bk[b].converted /\ races'[b] = {}
          => bk'[b].converted /\ bk'[b].status \in {"paid", "refunded"}
                /\ bk'[b].win = bk[b].win]_vars

(* Only a booking whose payment stands becomes a renting, with the same
   exceptions.                                                              *)
ConversionNeedsPaid ==
    [][\A b \in Bookings : ~bk[b].converted /\ bk'[b].converted /\ races'[b] = {}
          => bk[b].status = "paid"]_vars

-----------------------------------------------------------------------------
(* The expiry worker polls and clocks advance; no user and no running request
   is ever obliged to act.                                                  *)
Fairness ==
    \A b \in Bookings : WF_vars(Expire(b)) /\ WF_vars(HoldLapses(b)) /\ WF_vars(ReservationLapses(b))

FairSpec == Spec /\ Fairness

(* No request blocks its renter for ever: whatever checkouts, retries, crashes
   and failures keep happening to it, an undecided or unpaid booking is in the
   end paid, converted or closed.                                           *)
UnpaidBookingEnds ==
    \A b \in Bookings :
        (bk[b].status \in {"pending", "awaiting_payment", "payment_processing", "payment_failed"}
            /\ ~bk[b].converted)
        ~> (bk[b].status \in {"paid", "declined", "cancelled", "expired", "refunded"}
              \/ bk[b].converted)
=============================================================================
