------------------------------ MODULE Checkout ------------------------------
(***************************************************************************)
(* The checkout of one booking: PaymentsService and the part of            *)
(* PaymentsRepository that moves a payment, its attempts and its booking,  *)
(* against a PayPal that charges, delays, repeats and reorders.            *)
(*                                                                         *)
(* A request is a job that stops at every call to PayPal; every database   *)
(* transaction is one step.  The checkout lock (bookingRequestState) is    *)
(* renewed while its request lives.  The retry worker takes no lock, a     *)
(* webhook reads the payment before it takes the lock.                     *)
(*                                                                         *)
(* The idempotency key of an attempt is the PayPal-Request-Id of its order, *)
(* so attempt a can only ever have one order, order a; a capture has the   *)
(* name of its order.                                                      *)
(***************************************************************************)
EXTENDS Naturals, FiniteSets

CONSTANTS
    Requests,      \* concurrent requests, webhook deliveries and workers
    Nobody,        \* "null"
    MaxAttempts,   \* bound: attempts the renter starts
    MaxRetries,    \* MAX_RETRY_ATTEMPTS
    MaxMishaps     \* bound: crashes, lost answers, busy windows, repeated requests and retries

ASSUME CheckoutAssumption ==
    /\ Nobody \notin Requests
    /\ MaxAttempts \in Nat \ {0} /\ MaxRetries \in Nat /\ MaxMishaps \in Nat

VARIABLES
    booking,   \* the booking_requests row
    payment,   \* the payments row
    attempt,   \* payment_attempts, in order of creation
    paypal,    \* the orders at PayPal
    events,    \* webhook events that are not marked processed
    lock,      \* who has the checkout lock
    job,       \* what each request is doing
    races,     \* history: see Races
    mishaps    \* how many there were

vars == <<booking, payment, attempt, paypal, events, lock, job, races, mishaps>>
db == <<booking, payment, attempt>>
outside == <<paypal, events>>
history == <<races, mishaps>>

Attempts == 1 .. MaxAttempts
Orders == 0 .. MaxAttempts                  \* 0 is null

PAYABLE == {"awaiting_payment", "payment_processing", "payment_failed"}
CAPTURED == {"succeeded", "refunded"}
Kinds == {"APPROVED", "COMPLETED", "FAILED", "CANCELED"}
Events == [kind : Kinds, order : Attempts]

Job == [op : {"none", "capture", "cancel", "reconcile", "checkout", "webhook", "retry"},
        at : {"idle", "listed", "event", "status", "approved", "capture", "apply",
              "open", "session", "attach"},
        ord : Orders,                       \* the order it is about
        kind : Kinds \cup {""},             \* the event it handles
        st : Kinds \cup {""},               \* the provider status it applies
        current : BOOLEAN,                  \* ord was the payment's order when read
        payable : BOOLEAN,                  \* the booking was payable when read
        supersede : BOOLEAN,                \* it may replace order exp
        exp : Orders,
        att : Orders]                       \* the attempt it opened

Idle == [op |-> "none", at |-> "idle", ord |-> 0, kind |-> "", st |-> "", current |-> FALSE,
         payable |-> FALSE, supersede |-> FALSE, exp |-> 0, att |-> 0]

(* An approved booking, before the renter has paid anything.                *)
Init ==
    /\ booking = [status |-> "awaiting_payment", lapsed |-> FALSE, hold |-> FALSE,
                  flagged |-> FALSE]
    /\ payment = [status |-> "none", order |-> 0, capture |-> 0]
    /\ attempt = [a \in Attempts |-> [status |-> "none", ordered |-> FALSE, retries |-> 0]]
    /\ paypal = [a \in Attempts |-> "none"]
    /\ events = {}
    /\ lock = Nobody
    /\ job = [r \in Requests |-> Idle]
    /\ races = {}
    /\ mishaps = 0

-----------------------------------------------------------------------------
(* What the code leaves unguarded, remembered when it happens.

   "stale"    the payment got another order, or the booking can be paid again,
              between a webhook's read of them and the checkout lock
   "retry"    the retry worker, which has no lock, writes beside a request that
              has it, or after the money was taken
   "replay"   a repeated request asks for an order after the money was taken
   "dropped"  a request that knows of a charge ends without recording it, while
              the payment is not recorded as processing
   "busy"     a busy booking-window lock is taken for a refusal by PayPal
   "pend"     a checkout whose capture PayPal holds is cancelled, or its payment
              is not recorded as processing
   "gone"     a booking is charged without dates and can still be paid        *)
Races == {"stale", "retry", "replay", "dropped", "busy", "pend", "gone"}

Note(happened, race) == races' = IF happened THEN races \cup {race} ELSE races

NoteIf(happened, race) == Note(happened, race) /\ UNCHANGED mishaps

Mishap(happened, race) ==
    /\ mishaps < MaxMishaps
    /\ mishaps' = mishaps + 1
    /\ Note(happened, race)

(* The orders that took, or are about to take, the renter's money.          *)
ChargedOrders == {o \in Attempts : paypal[o] \in {"pending", "completed", "refunded"}}

(* Nothing in the database says that order o may have been charged.         *)
Unrecorded(o) == payment.status # "processing" /\ payment.capture # o

-----------------------------------------------------------------------------
(* Jobs and the checkout lock (withCheckoutLock).                           *)

Goto(r, j) == job' = [job EXCEPT ![r] = j] /\ UNCHANGED lock

LockAndGoto(r, j) ==
    /\ lock = Nobody
    /\ lock' = r
    /\ job' = [job EXCEPT ![r] = j]

Done(r) ==
    /\ job' = [job EXCEPT ![r] = Idle]
    /\ lock' = IF lock = r THEN Nobody ELSE lock

(* markWebhookProcessed, when a webhook's work ends well; a webhook that fails
   is delivered again.                                                      *)
Processed(r) ==
    events' = events \ {[kind |-> job[r].kind, order |-> job[r].ord]}

Finish(r) == Done(r) /\ Processed(r)

(* A payment as a request reads it.                                         *)
Reads(op, at, o) ==
    [Idle EXCEPT !.op = op, !.at = at, !.ord = o, !.current = (payment.order = o),
                 !.payable = (booking.status \in PAYABLE)]

-----------------------------------------------------------------------------
(* PayPal, as the adapter shows it.                                         *)

(* Mutant: a capture that PayPal holds counts as paid.                      *)
PayPalStatusEager(o) ==
    CASE paypal[o] \in {"approved", "unfit"}                 -> "APPROVED"
      [] paypal[o] \in {"pending", "completed", "refunded"}  -> "COMPLETED"
      [] paypal[o] = "declined"                              -> "FAILED"
      [] paypal[o] = "voided"                                -> "CANCELED"
      [] OTHER                                               -> "PENDING"

(* GET order or GET capture, through mapOrder and normalizeCaptureStatus.  A
   capture that is held is PENDING with a capture id, here "SETTLING".      *)
PayPalStatus(o) ==
    CASE paypal[o] \in {"approved", "unfit"}     -> "APPROVED"
      [] paypal[o] \in {"completed", "refunded"} -> "COMPLETED"
      [] paypal[o] = "pending"                   -> "SETTLING"
      [] paypal[o] = "declined"                  -> "FAILED"
      [] paypal[o] = "voided"                    -> "CANCELED"
      [] OTHER                                   -> "PENDING"

PayPalMoves(o, state, kind) ==
    /\ paypal' = [paypal EXCEPT ![o] = state]
    /\ events' = events \cup {[kind |-> kind, order |-> o]}

(* The buyer sees an order once its session is attached.  An approved order is
   unfit when it is not for this payment and amount or failed 3-D Secure.   *)
BuyerApproves(o) ==
    /\ paypal[o] = "created" /\ attempt[o].ordered
    /\ PayPalMoves(o, "approved", "APPROVED") \/ PayPalMoves(o, "unfit", "APPROVED")
    /\ UNCHANGED <<db, lock, job, history>>

OrderVoided(o) ==
    /\ paypal[o] \in {"created", "approved"}
    /\ PayPalMoves(o, "voided", "CANCELED")
    /\ UNCHANGED <<db, lock, job, history>>

CaptureSettles(o) ==
    /\ paypal[o] = "pending"
    /\ \/ PayPalMoves(o, "completed", "COMPLETED")
       \/ PayPalMoves(o, "declined", "FAILED")
    /\ UNCHANGED <<db, lock, job, history>>

-----------------------------------------------------------------------------
(* Where jobs begin.                                                        *)

(* capturePayment.                                                          *)
BeginCapture(r) ==
    /\ job[r] = Idle
    /\ payment.status \notin CAPTURED /\ payment.order # 0
    /\ LockAndGoto(r, Reads("capture", "approved", payment.order))
    /\ UNCHANGED <<db, outside, history>>

(* cancelCheckout.                                                          *)
BeginCancel(r) ==
    /\ job[r] = Idle
    /\ payment.status = "processing" /\ payment.order # 0
    /\ LockAndGoto(r, Reads("cancel", "status", payment.order))
    /\ UNCHANGED <<db, outside, history>>

(* getPaymentStatus of a payment asks for its capture if it knows one, else
   for its order; without either there is nothing to ask.                   *)
Reference == IF payment.capture # 0 THEN payment.capture ELSE payment.order

(* reconcilePayment, at a manager's request.                                *)
BeginReconcile(r) ==
    /\ job[r] = Idle
    /\ Reference # 0
    /\ LockAndGoto(r, Reads("reconcile", "status", Reference))
    /\ UNCHANGED <<db, outside, history>>

(* The repair worker lists its candidates; then repairPayment locks and reads
   each one, and does not ask again whether it is still a candidate.        *)
RepairCandidate ==
    \/ payment.status = "succeeded" /\ (booking.flagged \/ booking.status = "paid")
    \/ payment.status = "processing"

ListRepair(r) ==
    /\ job[r] = Idle
    /\ RepairCandidate
    /\ Goto(r, [Idle EXCEPT !.op = "reconcile", !.at = "listed"])
    /\ UNCHANGED <<db, outside, history>>

BeginRepair(r) ==
    /\ job[r].at = "listed"
    /\ \/ Reference # 0 /\ LockAndGoto(r, Reads("reconcile", "status", Reference))
       \/ (Reference = 0 \/ lock # Nobody) /\ Done(r)
    /\ UNCHANGED <<db, outside, history>>

(* createPaymentSession up to resolveInFlightCheckout's first call.         *)
InFlight == payment.status = "processing" \/ booking.status = "payment_processing"

BeginCheckout(r) ==
    /\ job[r] = Idle
    /\ \E a \in Attempts : attempt[a].status = "none"
    /\ LockAndGoto(r,
         CASE ~InFlight -> Reads("checkout", "open", 0)
           [] InFlight /\ payment.status = "processing" /\ payment.order # 0
                -> Reads("checkout", "status", payment.order)
           [] OTHER
                -> [Reads("checkout", "open", 0) EXCEPT !.supersede = TRUE, !.exp = payment.order])
    /\ UNCHANGED <<db, outside, history>>

(* A repeated request, known by its idempotency key: an attempt that has no
   order gets one, with no look at the booking.                             *)
BeginReplay(r, a) ==
    /\ job[r] = Idle
    /\ attempt[a].status # "none" /\ ~attempt[a].ordered
    /\ LockAndGoto(r, [Reads("checkout", "session", 0) EXCEPT !.att = a, !.exp = payment.order])
    /\ Mishap(ChargedOrders # {}, "replay")
    /\ UNCHANGED <<db, outside>>

(* findByProviderReferences.                                                *)
PaymentOf(o) == payment.order = o \/ payment.capture = o \/ attempt[o].ordered

(* processPaymentWebhook reads the payment first ...                        *)
Event(e) == [Reads("webhook", "event", e.order) EXCEPT !.kind = e.kind, !.st = e.kind]

ReceiveEvent(r, e) ==
    /\ job[r] = Idle
    /\ IF PaymentOf(e.order)
       THEN Goto(r, Event(e)) /\ UNCHANGED events
       ELSE events' = events \ {e} /\ UNCHANGED <<lock, job>>
    /\ UNCHANGED <<db, paypal, history>>

(* ... and then takes the checkout lock, and does not read it again.        *)
LockEvent(r) ==
    LET j == job[r] IN
    /\ j.at = "event"
    /\ LockAndGoto(r, [j EXCEPT !.at = IF j.kind = "APPROVED" THEN "approved" ELSE "apply"])
    /\ NoteIf(/\ j.current
              /\ payment.order # j.ord \/ (~j.payable /\ booking.status \in PAYABLE), "stale")
    /\ UNCHANGED <<db, outside>>

(* Mutant: an event that finds the lock busy is marked processed.           *)
EventDropped(r) ==
    /\ job[r].at = "event" /\ lock # Nobody
    /\ Finish(r)
    /\ UNCHANGED <<db, paypal, history>>

(* "A lock conflict does throw, so PayPal redelivers the event".            *)
EventRefused(r) ==
    /\ job[r].at = "event" /\ lock # Nobody
    /\ Done(r)
    /\ UNCHANGED <<db, outside, history>>

-----------------------------------------------------------------------------
(* Questions to PayPal, and the capture.                                    *)

(* "Unknown to PayPal, or created but never approved: safe to replace."     *)
Supersedable(o) == PayPalStatus(o) = "PENDING"

Apply(j, s) == [j EXCEPT !.at = IF s = "APPROVED" THEN "approved" ELSE "apply", !.st = s]

(* GET order for cancelCheckout, reconcile, repair and a new checkout.      *)
GetStatus(r) ==
    LET j == job[r]
        st == PayPalStatus(j.ord) IN
    /\ j.at = "status"
    /\ \/ Done(r) /\ UNCHANGED history              \* unavailable, or nothing to do
       \/ st \in Kinds /\ Goto(r, Apply(j, st)) /\ UNCHANGED history
       \/ /\ st \in {"PENDING", "SETTLING"} /\ j.op = "cancel"
          /\ Goto(r, Apply(j, "CANCELED"))
          /\ NoteIf(st = "SETTLING", "pend")
       \/ /\ Supersedable(j.ord) /\ j.op = "checkout"
          /\ Goto(r, [j EXCEPT !.at = "open", !.supersede = TRUE, !.exp = j.ord])
          /\ UNCHANGED history
    /\ UNCHANGED <<db, outside>>

(* Mutant: any order of the payment may be captured.                        *)
AnyOrder(j) == TRUE

(* The payment's current order, as far as the request knows.                *)
IsCurrent(j) == j.current

(* captureApprovedOrder up to its capture call.  capturePayment and webhooks
   have no snapshot of the order yet and fetch one.                         *)
EnterCapture(r) ==
    LET j == job[r]
        st == IF j.op \in {"capture", "webhook"} THEN PayPalStatus(j.ord) ELSE "APPROVED"
        open == IsCurrent(j) /\ j.payable /\ ~booking.lapsed IN
    /\ j.at = "approved"
    /\ \/ ~IsCurrent(j) /\ Finish(r)
       \/ open /\ st = "APPROVED" /\ Goto(r, [j EXCEPT !.at = "capture"]) /\ UNCHANGED events
       \/ open /\ st \in Kinds \ {"APPROVED"} /\ Goto(r, Apply(j, st)) /\ UNCHANGED events
       \/ open /\ st \in {"PENDING", "SETTLING"} /\ Finish(r)
       \/ open /\ j.op \in {"capture", "webhook"} /\ Done(r) /\ UNCHANGED events  \* unavailable
    /\ UNCHANGED <<db, paypal, history>>

(* A checkout whose old order has ended goes on to open its own attempt.    *)
EndOrOpen(r, ended) ==
    IF job[r].op = "checkout" /\ ended THEN Goto(r, [job[r] EXCEPT !.at = "open"]) ELSE Done(r)

(* rejectCheckoutOrder: the hold ran out, the booking cannot be paid any more
   or the order is unfit.                                                   *)
RejectOrder(r) ==
    LET o == job[r].ord IN
    /\ \/ job[r].at = "approved" /\ IsCurrent(job[r]) /\ (~job[r].payable \/ booking.lapsed)
       \/ job[r].at = "capture" /\ paypal[o] = "unfit"
    /\ attempt' = [attempt EXCEPT ![o].status = "failed_final"]
    /\ IF payment.order = o
       THEN /\ payment' = [payment EXCEPT !.status = "failed_final"]
            /\ booking' = [booking EXCEPT !.status = IF @ \in PAYABLE THEN "payment_failed" ELSE @]
       ELSE UNCHANGED <<payment, booking>>
    /\ EndOrOpen(r, payment'.status = "failed_final")
    /\ Processed(r)
    /\ UNCHANGED <<paypal, history>>

(* POST capture.  An order is captured once; an answer may be lost.         *)
CaptureOrder(r) ==
    LET j == job[r]
        state == paypal[j.ord]
        answered(st) == Goto(r, Apply(j, st)) /\ UNCHANGED history
        lost(st) == Done(r) /\ Mishap(st = "COMPLETED" /\ Unrecorded(j.ord), "dropped")
        ended(st) == answered(st) \/ lost(st) IN
    /\ j.at = "capture"
    /\ \/ state = "approved" /\ PayPalMoves(j.ord, "completed", "COMPLETED") /\ ended("COMPLETED")
       \/ state = "approved" /\ PayPalMoves(j.ord, "declined", "FAILED") /\ ended("FAILED")
       \/ /\ state = "approved"
          /\ paypal' = [paypal EXCEPT ![j.ord] = "pending"]
          /\ Finish(r)
          /\ NoteIf(payment.status # "processing", "pend")
       \/ state \in {"completed", "refunded"} /\ answered("COMPLETED") /\ UNCHANGED outside
       \/ state = "pending" /\ Finish(r) /\ UNCHANGED <<paypal, history>>
       \/ state # "unfit" /\ Done(r) /\ UNCHANGED <<outside, history>>   \* unavailable
       \/ /\ state \in {"approved", "voided", "declined"}             \* 422
          /\ IF j.op = "capture" THEN Goto(r, Apply(j, "FAILED")) ELSE Done(r)
          /\ UNCHANGED <<outside, history>>
    /\ UNCHANGED db

-----------------------------------------------------------------------------
(* applyProviderStatus: the writes.                                         *)

(* isCurrentProviderReference, and the lookup of markPaymentFailed.         *)
Tracks(o) == payment.order = o \/ payment.capture = o

(* markPaymentSucceeded, for an order of this payment (PaymentOf).          *)
MarkSucceeded(o) ==
    \/ /\ payment.status = "succeeded" /\ ~Tracks(o)
       /\ booking' = [booking EXCEPT !.flagged = TRUE]
       /\ UNCHANGED <<payment, attempt>>
    \/ /\ payment.status = "succeeded" => Tracks(o)
       /\ payment' = [status |-> "succeeded", order |-> o, capture |-> o]
       /\ attempt' = [attempt EXCEPT ![o].status = "succeeded"]
       /\ \/ booking' = [booking EXCEPT !.status = "paid", !.hold = TRUE, !.flagged = FALSE]
          \/ /\ ~booking.hold                        \* the dates are taken
             /\ booking' = [booking EXCEPT !.flagged = TRUE]

Settle(r) ==
    /\ job[r].at = "apply" /\ job[r].st = "COMPLETED"
    /\ MarkSucceeded(job[r].ord)
    /\ Finish(r)
    /\ NoteIf(booking'.status \in PAYABLE /\ ~booking'.lapsed, "gone")
    /\ UNCHANGED paypal

(* The window lock is taken: a ConflictError.  Only capturePayment catches it,
   and takes the 409 for a permanent refusal by PayPal.                     *)
SettleBusy(r) ==
    /\ job[r].at = "apply" /\ job[r].st = "COMPLETED"
    /\ \/ job[r].op = "capture" /\ Goto(r, Apply(job[r], "FAILED")) /\ Mishap(TRUE, "busy")
       \/ job[r].op # "capture" /\ Done(r) /\ Mishap(Unrecorded(job[r].ord), "dropped")
    /\ UNCHANGED <<db, outside>>

(* attempts[0], the newest.                                                 *)
Latest == CHOOSE a \in Attempts :
    /\ attempt[a].status # "none"
    /\ \A c \in Attempts : c > a => attempt[c].status = "none"

(* markPaymentFailed.                                                       *)
MarkFailed(r) ==
    /\ job[r].at = "apply" /\ job[r].st \in {"FAILED", "CANCELED"}
    /\ IF Tracks(job[r].ord)
       THEN /\ payment' = [payment EXCEPT !.status = "failed_final"]
            /\ attempt' = [attempt EXCEPT ![Latest].status = "failed_final"]
            /\ booking' = [booking EXCEPT !.status = "payment_failed"]
       ELSE UNCHANGED db
    /\ EndOrOpen(r, Tracks(job[r].ord))
    /\ Processed(r)
    /\ UNCHANGED <<paypal, history>>

-----------------------------------------------------------------------------
(* A new attempt and its order.                                             *)

(* Mutant: the status of the booking is not looked at.                      *)
CanOpenAnyStatus(j) ==
    /\ ~booking.lapsed
    /\ InFlight => j.supersede /\ payment.order = j.exp

(* createPaymentAttemptForBooking and supersedeOpenAttempts.                *)
CanOpen(j) ==
    /\ booking.status \in PAYABLE /\ ~booking.lapsed
    /\ InFlight => j.supersede /\ payment.order = j.exp

OpenAttempt(r) ==
    LET j == job[r]
        new == CHOOSE a \in Attempts :
                  /\ attempt[a].status = "none"
                  /\ \A c \in Attempts : c < a => attempt[c].status # "none"
        order == IF InFlight THEN 0 ELSE payment.order IN
    /\ j.at = "open"
    /\ \/ ~CanOpen(j) /\ Done(r) /\ UNCHANGED db
       \/ /\ CanOpen(j)
          /\ attempt' = [a \in Attempts |->
                CASE a = new -> [attempt[a] EXCEPT !.status = "pending"]
                  [] InFlight /\ attempt[a].status \in {"pending", "processing", "failed_retryable"}
                       -> [attempt[a] EXCEPT !.status = "superseded"]
                  [] OTHER -> attempt[a]]
          /\ payment' = [payment EXCEPT !.order = order,
                           !.status = IF InFlight \/ @ = "none" THEN "awaiting_method" ELSE @]
          /\ Goto(r, [j EXCEPT !.at = "session", !.att = new, !.exp = order])
          /\ UNCHANGED booking
    /\ UNCHANGED <<outside, history>>

(* recordAttemptFailure.                                                    *)
RecordFailure(a, retryable) ==
    LET again == retryable /\ attempt[a].retries + 1 < MaxRetries
        status == IF again THEN "failed_retryable" ELSE "failed_final" IN
    IF attempt[a].status = "superseded"
    THEN UNCHANGED db
    ELSE /\ attempt' = [attempt EXCEPT ![a].status = status, ![a].retries = IF @ < MaxRetries THEN @ + 1 ELSE @]
         /\ payment' = [payment EXCEPT !.status = status]
         /\ booking' = [booking EXCEPT !.status = "payment_failed"]

(* A write of the retry worker.                                             *)
NoteRetry(r) ==
    NoteIf(job[r].op = "retry" /\ db' # db /\ (lock # Nobody \/ ChargedOrders # {}), "retry")

(* POST order.  The idempotency key makes a second call return the same order;
   a lost answer leaves an order the buyer never sees.                      *)
CreateOrder(r) ==
    LET a == job[r].att IN
    /\ job[r].at = "session"
    /\ \/ /\ paypal' = [paypal EXCEPT ![a] = IF @ = "none" THEN "created" ELSE @]
          /\ \/ Goto(r, [job[r] EXCEPT !.at = "attach"]) /\ UNCHANGED <<db, history>>
             \/ RecordFailure(a, TRUE) /\ Done(r) /\ NoteRetry(r)
       \/ /\ \E retryable \in BOOLEAN : RecordFailure(a, retryable)
          /\ Done(r) /\ NoteRetry(r) /\ UNCHANGED paypal
    /\ UNCHANGED events

(* assertAttemptStillCurrent.                                               *)
StillCurrent(j) ==
    /\ attempt[j.att].status \in {"pending", "processing"}
    /\ j.op = "checkout" => payment.order = j.exp

(* attachPaymentSession; a refusal is a 409, recorded as a failure.         *)
Attach(r) ==
    LET j == job[r] IN
    /\ j.at = "attach"
    /\ \/ /\ StillCurrent(j)
          /\ attempt' = [attempt EXCEPT ![j.att].status = "processing", ![j.att].ordered = TRUE]
          /\ payment' = [status |-> "processing", order |-> j.att, capture |-> 0]
          /\ booking' = [booking EXCEPT !.status = "payment_processing"]
       \/ ~StillCurrent(j) /\ RecordFailure(j.att, FALSE)
    /\ Done(r) /\ NoteRetry(r)
    /\ UNCHANGED outside

(* processRetryQueue: markAttemptForRetry, with no lock.                    *)
BeginRetry(r, a) ==
    /\ job[r] = Idle
    /\ attempt[a].status = "failed_retryable"
    /\ attempt' = [attempt EXCEPT ![a].status = "processing"]
    /\ payment' = [payment EXCEPT !.status = "processing"]
    /\ booking' = [booking EXCEPT !.status = "payment_processing"]
    /\ Goto(r, [Idle EXCEPT !.op = "retry", !.at = "session", !.att = a])
    /\ Mishap(lock # Nobody \/ ChargedOrders # {}, "retry")
    /\ UNCHANGED outside

-----------------------------------------------------------------------------
(* Around the checkout.                                                     *)

(* PaymentsService.createRefund of the whole charge; it takes no lock.      *)
Refund ==
    /\ payment.capture # 0 /\ paypal[payment.capture] = "completed"
    /\ payment' = [payment EXCEPT !.status = "refunded"]
    /\ booking' = [booking EXCEPT !.status = IF @ = "cancelled" THEN @ ELSE "refunded",
                                  !.hold = FALSE]
    /\ paypal' = [paypal EXCEPT ![payment.capture] = "refunded"]
    /\ UNCHANGED <<attempt, events, lock, job, history>>

(* BookingsService.cancel takes the same lock; a paid booking is refunded
   in full or, close to its start, not at all.                              *)
CancelBooking ==
    /\ lock = Nobody
    /\ \/ /\ booking.status \in {"awaiting_payment", "payment_failed"}
          /\ UNCHANGED <<payment, paypal>>
       \/ /\ booking.status = "paid"
          /\ \/ UNCHANGED <<payment, paypal>>
             \/ /\ payment.capture # 0 /\ paypal[payment.capture] = "completed"
                /\ payment' = [payment EXCEPT !.status = "refunded"]
                /\ paypal' = [paypal EXCEPT ![payment.capture] = "refunded"]
    /\ booking' = [booking EXCEPT !.status = "cancelled", !.hold = FALSE]
    /\ UNCHANGED <<attempt, events, lock, job, history>>

HoldLapses ==
    /\ ~booking.lapsed
    /\ booking' = [booking EXCEPT !.lapsed = TRUE]
    /\ UNCHANGED <<payment, attempt, outside, lock, job, history>>

(* The expiry worker takes no lock.                                         *)
Expire ==
    /\ booking.status \in PAYABLE /\ booking.lapsed
    /\ booking' = [booking EXCEPT !.status = "expired", !.hold = FALSE]
    /\ UNCHANGED <<payment, attempt, outside, lock, job, history>>

(* A process dies; its lock lapses.                                         *)
Crash(r) ==
    /\ job[r] # Idle
    /\ Done(r)
    /\ Mishap(job[r].at = "apply" /\ job[r].st = "COMPLETED" /\ Unrecorded(job[r].ord), "dropped")
    /\ UNCHANGED <<db, outside>>

-----------------------------------------------------------------------------
JobStep(r) ==
    \/ BeginRepair(r) \/ LockEvent(r) \/ EventRefused(r) \/ GetStatus(r) \/ EnterCapture(r) \/ RejectOrder(r)
    \/ CaptureOrder(r) \/ Settle(r) \/ SettleBusy(r) \/ MarkFailed(r)
    \/ OpenAttempt(r) \/ CreateOrder(r) \/ Attach(r)

Next ==
    \/ \E r \in Requests :
          \/ JobStep(r) \/ Crash(r)
          \/ BeginCapture(r) \/ BeginCancel(r) \/ BeginReconcile(r) \/ BeginCheckout(r)
          \/ ListRepair(r)
          \/ \E a \in Attempts : BeginReplay(r, a) \/ BeginRetry(r, a)
          \/ \E e \in events : ReceiveEvent(r, e)
    \/ \E o \in Attempts : BuyerApproves(o) \/ OrderVoided(o) \/ CaptureSettles(o)
    \/ Refund \/ CancelBooking \/ HoldLapses \/ Expire

Spec == Init /\ [][Next]_vars

(* Requests end; PayPal delivers an event until it is marked processed, and
   not only while a checkout has the lock; a webhook that keeps finding the
   locks free gets them.                                                    *)
Completed(o) == [kind |-> "COMPLETED", order |-> o]

Fairness ==
    /\ \A r \in Requests : WF_vars(JobStep(r))
    /\ \A o \in Attempts :
          /\ SF_vars(/\ lock = Nobody /\ Completed(o) \in events
                     /\ \E r \in Requests : ReceiveEvent(r, Completed(o)))
          /\ SF_vars(\E r \in Requests : job[r].ord = o /\ job[r].st = "COMPLETED" /\ LockEvent(r))
          /\ SF_vars(\E r \in Requests : job[r].ord = o /\ Settle(r))

FairSpec == Spec /\ Fairness

-----------------------------------------------------------------------------
(* Properties.                                                              *)

(* Every row, order, event and job keeps its type.                          *)
TypeOK ==
    /\ booking \in [status : PAYABLE \cup {"paid", "refunded", "cancelled", "expired"},
                    lapsed : BOOLEAN, hold : BOOLEAN, flagged : BOOLEAN]
    /\ payment \in [status : CAPTURED \cup {"none", "awaiting_method", "processing",
                                            "failed_retryable", "failed_final"},
                    order : Orders, capture : Orders]
    /\ attempt \in [Attempts -> [status : {"none", "pending", "processing", "failed_retryable",
                                           "failed_final", "superseded", "succeeded"},
                                 ordered : BOOLEAN, retries : Nat]]
    /\ paypal \in [Attempts -> {"none", "created", "approved", "unfit", "pending", "completed",
                                "declined", "voided", "refunded"}]
    /\ events \subseteq Events
    /\ lock \in Requests \cup {Nobody}
    /\ job \in [Requests -> Job]
    /\ races \subseteq Races /\ mishaps \in 0 .. MaxMishaps

(* The renter pays at most once for a booking, however the return page, the
   cancel page, new checkouts, webhooks, reconciliation, repair, refunds,
   cancellation and expiry interleave, processes crash and answers are lost,
   until one of the races happened.                                         *)
OneCharge == races = {} => Cardinality(ChargedOrders) <= 1

(* The charge as the renter sees it; a held capture is not taken yet.       *)
CapturedOrders == {o \in Attempts : paypal[o] \in {"completed", "refunded"}}
Taken == IF CapturedOrders = {} THEN 0 ELSE CHOOSE o \in CapturedOrders : TRUE
Returned == \E o \in Attempts : paypal[o] = "refunded"

Promise == INSTANCE Charge WITH
    Orders <- Attempts, None <- 0,
    taken <- Taken, recorded <- payment.capture, returned <- Returned

(* From the order to the refund, the checkout is one charge: until one of the
   races happens, money is taken once, the payment records that order and keeps
   it, whatever fails, is opened or expires later, and money goes back once,
   after it was recorded.                                                   *)
ImplementsCharge ==
    Promise!Init /\ [][races' # {} \/ Promise!Next]_<<Taken, payment.capture, Returned>>

(* The guards of captureApprovedOrder: only the payment's current order is
   captured, whatever the buyer approves late, unless the order was replaced
   between a webhook's read and its lock, or by the retry worker.           *)
OnlyCurrentOrder ==
    [][\A o \in Attempts : paypal[o] = "approved" /\ paypal'[o] \in {"pending", "completed"}
          => payment.order = o \/ races \cap {"stale", "retry"} # {}]_vars

(* What the comments promise without exception: "approving it later moves no
   money because capture only ever targets the payment's current order".    *)
SupersededIsNeverCaptured ==
    [][\A o \in Attempts : paypal[o] = "approved" /\ paypal'[o] \in {"pending", "completed"}
          => payment.order = o]_vars

(* applyProviderStatus never finalizes a booking, nor a payment, that PayPal
   has not captured, in spite of crashes, lost answers and held captures.   *)
PaidIsCaptured ==
    /\ payment.status \in CAPTURED =>
          payment.capture # 0 /\ paypal[payment.capture] \in {"completed", "refunded"}
    /\ booking.status = "paid" => \E o \in Attempts : paypal[o] \in {"completed", "refunded"}

(* Money that PayPal captured reaches the payment record, or flags the booking
   for reconciliation, although processes crash, answers are lost and locks
   are busy: the webhook is the safety net.                                 *)
ChargeIsRecorded ==
    \A o \in Attempts : paypal[o] = "completed" ~> (payment.capture = o \/ booking.flagged)
=============================================================================
