------------------------------ MODULE Refunds -------------------------------
(***************************************************************************)
(* Refunds of one paid booking: managers' refunds, the refund of a         *)
(* cancellation, refund webhooks and the ledger (PaymentsService,          *)
(* PaymentsRepository, BookingsService.cancel).                            *)
(*                                                                         *)
(* A refund is a record, a call to PayPal with the record's idempotency    *)
(* key, and a completion.  The completion is a transaction that reads a    *)
(* snapshot first (ReadRefund) and writes later (CommitRefund); no lock    *)
(* keeps two completions apart.  Refund webhooks find their record by      *)
(* PayPal's id, which the record has only after its first completion.      *)
(***************************************************************************)
EXTENDS Integers, FiniteSets

CONSTANTS
    Requests,   \* concurrent requests and webhook deliveries
    Nobody,     \* the booking lock is free
    Keys,       \* idempotency keys that managers use
    Total,      \* the amount of the charge
    Amounts,    \* the amounts managers refund
    Allowed,    \* the races that may happen in this instance
    MaxCrashes  \* bound: how often a process dies

CANCEL == "booking-cancel"      \* the key of a cancellation's refund
AllKeys == Keys \cup {CANCEL}

(* What the code does not guard against.  Each is recorded when it happens:
   "overlap"   two completion transactions of the payment are open at once
   "repeat"    a key is used again while its first use runs or after it was
               answered
   "reprice"   a key is used again with another amount
   "resettle"  markPaymentSucceeded runs after the refund or cancellation    *)
Races == {"overlap", "repeat", "reprice", "resettle"}

ASSUME RefundsAssumption ==
    /\ Nobody \notin Requests /\ CANCEL \notin Keys /\ IsFiniteSet(Keys)
    /\ Total \in Nat \ {0} /\ Amounts \subseteq 1 .. Total
    /\ Allowed \subseteq Races /\ MaxCrashes \in Nat

VARIABLES
    refund,    \* refunds rows, by idempotency key
    payment,   \* payments.status
    booking,   \* booking_requests: status and cancellationRefundAmount
    ledger,    \* payment_ledger_entries: entries per refund, and charges
    paypal,    \* the refunds PayPal made, by PayPal-Request-Id
    events,    \* webhooks PayPal still delivers
    parked,    \* webhook rows stored and left unprocessed
    lock,      \* who has the booking's flow locks
    job,       \* what each request is doing
    races,     \* history: see Races
    crashes    \* how often a process died

vars == <<refund, payment, booking, ledger, paypal, events, parked, lock, job, races, crashes>>
rows == <<refund, payment, booking, ledger>>
outside == <<paypal, events, parked>>

RefundRow == [status : {"none", "pending", "succeeded", "failed"},
              amount : 0 .. Total,
              known : BOOLEAN]                        \* providerRefundId is set
PaymentStatuses == {"succeeded", "partially_refunded", "refunded"}
BookingRow == [status : {"paid", "cancelled", "refunded"}, refundAmount : 0 .. Total]
Answers == {"COMPLETED", "PENDING", "FAILED"}
Events == [key : AllKeys, status : {"COMPLETED", "FAILED"}]

NoRefund == [status |-> "none", amount |-> 0, known |-> FALSE]

(* What a completion transaction reads.                                     *)
View == [refund |-> refund, payment |-> payment, booking |-> booking.status]
NoView == [refund |-> [k \in AllKeys |-> NoRefund], payment |-> "succeeded", booking |-> "paid"]

Idle == [op |-> "none", at |-> "idle", key |-> CANCEL, amount |-> 0, answer |-> "PENDING",
         view |-> NoView]

Job == [op : {"none", "refund", "cancel", "webhook"},
        at : {"idle", "post", "read", "commit", "cancel"},
        key : AllKeys, amount : 0 .. Total, answer : Answers,
        view : [refund : [AllKeys -> RefundRow], payment : PaymentStatuses,
                booking : {"paid", "cancelled", "refunded"}]]

Init ==
    /\ refund = [k \in AllKeys |-> NoRefund]
    /\ payment = "succeeded"
    /\ booking = [status |-> "paid", refundAmount |-> 0]
    /\ ledger = [refund |-> [k \in AllKeys |-> 0], charge |-> 1]
    /\ paypal = [k \in AllKeys |-> [status |-> "none", amount |-> 0]]
    /\ events = {} /\ parked = {}
    /\ lock = Nobody
    /\ job = [r \in Requests |-> Idle]
    /\ races = {} /\ crashes = 0

-----------------------------------------------------------------------------
Goto(r, j) == job' = [job EXCEPT ![r] = j] /\ UNCHANGED lock

Finish(r) ==
    /\ job' = [job EXCEPT ![r] = Idle]
    /\ lock' = IF lock = r THEN Nobody ELSE lock

Happens(new) == new \subseteq Allowed /\ races' = races \cup new

(* The sum of the amounts of some rows, as the number of units of money.    *)
Units(keys, table) == {u \in keys \X (1 .. Total) : u[2] <= table[u[1]].amount}
AmountTotal(keys, table) == Cardinality(Units(keys, table))

(* The refunds of a view that have settled.                                 *)
Succeeded(table) == {k \in AllKeys : table[k].status = "succeeded"}
SucceededTotal(table) == AmountTotal(Succeeded(table), table)

Remaining == IF SucceededTotal(refund) < Total THEN Total - SucceededTotal(refund) ELSE 0

(* A key that is used again, and what is different this time.               *)
Reuse(k, a) ==
    LET again == refund[k].status # "none"
        running == \E q \in Requests : job[q].op \in {"refund", "cancel"} /\ job[q].key = k IN
    Happens({x \in {"repeat"} : again /\ (refund[k].known \/ running)}
            \cup {x \in {"reprice"} : again /\ refund[k].amount # a})

(* createRefundRecord: the record of a key that is already there is used as
   it is; pending refunds do not reduce what remains.                       *)
CreateRefundRecord(k, a) ==
    \/ refund[k].status # "none" /\ UNCHANGED refund
    \/ /\ refund[k].status = "none" /\ a <= Remaining
       /\ refund' = [refund EXCEPT ![k] = [status |-> "pending", amount |-> a, known |-> FALSE]]

(* PaymentsService.createRefund takes no lock.                              *)
BeginRefund(r, k, a) ==
    /\ job[r] = Idle
    /\ CreateRefundRecord(k, a)
    /\ Reuse(k, a)
    /\ Goto(r, [Idle EXCEPT !.op = "refund", !.at = "post", !.key = k, !.amount = a])
    /\ UNCHANGED <<payment, booking, ledger, outside, crashes>>

(* resolveCancellationRefundAmount: everything, half or nothing of what
   remains, by the time until the start and by who cancels.                 *)
CancellationRefundAmounts == {Remaining, Remaining \div 2, 0}

(* BookingsService.cancel of a paid booking, under the booking's locks, and
   refundCancelledPaidBooking up to the call.                               *)
BeginCancel(r, a) ==
    /\ job[r] = Idle
    /\ lock = Nobody
    /\ booking.status = "paid"
    /\ \/ /\ a > 0
          /\ CreateRefundRecord(CANCEL, a)
          /\ Reuse(CANCEL, a)
          /\ job' = [job EXCEPT ![r] = [Idle EXCEPT !.op = "cancel", !.at = "post", !.amount = a]]
       \/ /\ a = 0
          /\ job' = [job EXCEPT ![r] = [Idle EXCEPT !.op = "cancel", !.at = "cancel"]]
          /\ UNCHANGED <<refund, races>>
    /\ lock' = r
    /\ UNCHANGED <<payment, booking, ledger, outside, crashes>>

-----------------------------------------------------------------------------
(* PayPal.                                                                  *)

PayPalRefunded ==
    AmountTotal({k \in AllKeys : paypal[k].status \in {"pending", "completed"}}, paypal)

(* Mutant: a refund that PayPal accepted counts as made.                    *)
RefundStatusEager(s) == IF s = "failed" THEN "FAILED" ELSE "COMPLETED"

(* normalizeRefundStatus.                                                   *)
RefundStatus(s) ==
    CASE s = "completed" -> "COMPLETED" [] s = "failed" -> "FAILED" [] OTHER -> "PENDING"

RefundEvents(k, s) == IF s = "pending" THEN {} ELSE {[key |-> k, status |-> RefundStatus(s)]}

(* One refund per PayPal-Request-Id, never more than was captured.          *)
PayPalAccepts(k, a) ==
    \/ paypal[k].status # "none" /\ UNCHANGED <<paypal, events>>
    \/ /\ paypal[k].status = "none" /\ a <= Total - PayPalRefunded
       /\ \E s \in {"pending", "completed", "failed"} :
             /\ paypal' = [paypal EXCEPT ![k] = [status |-> s, amount |-> a]]
             /\ events' = events \cup RefundEvents(k, s)

(* Mutant: a cancellation goes on when its refund could not be made.        *)
RefundCallIgnored(r) ==
    IF job[r].op = "cancel" THEN Goto(r, [job[r] EXCEPT !.at = "cancel"]) ELSE Finish(r)

(* The error ends the request; a cancellation with it.                      *)
RefundCallFails(r) == Finish(r)

(* The POST: answered, answered in vain, or refused.  An error leaves the
   record pending; the caller may come back with the same key.              *)
PostRefund(r) ==
    LET j == job[r] IN
    /\ j.at = "post"
    /\ \/ /\ PayPalAccepts(j.key, j.amount)
          /\ Goto(r, [j EXCEPT !.at = "read", !.answer = RefundStatus(paypal'[j.key].status)])
       \/ PayPalAccepts(j.key, j.amount) /\ RefundCallFails(r)
       \/ UNCHANGED <<paypal, events>> /\ RefundCallFails(r)
    /\ UNCHANGED <<rows, parked, races, crashes>>

RefundSettles(k) ==
    /\ paypal[k].status = "pending"
    /\ \E s \in {"completed", "failed"} :
          /\ paypal' = [paypal EXCEPT ![k].status = s]
          /\ events' = events \cup RefundEvents(k, s)
    /\ UNCHANGED <<rows, parked, lock, job, races, crashes>>

-----------------------------------------------------------------------------
(* processPaymentWebhook and applyRefundStatus.                             *)

(* Mutant: the record is found by its idempotency key.                      *)
FindsRecordByKey(e) == refund[e.key].status # "none"

(* findRefundByProviderRefundId.                                            *)
FindsRecord(e) == refund[e.key].known

(* Mutant: an unknown refund is acknowledged and marked processed.          *)
UnknownRefundDropped(e) ==
    /\ ~FindsRecord(e)
    /\ events' = events \ {e} /\ UNCHANGED parked

(* "A refund Rentify has no record of stays unprocessed": the answer is 200,
   so PayPal does not send it again.                                        *)
UnknownRefund(e) ==
    /\ ~FindsRecord(e)
    /\ events' = events \ {e} /\ parked' = parked \cup {e}

ReceiveEvent(r, e) ==
    /\ job[r] = Idle
    /\ \/ UnknownRefund(e) /\ UNCHANGED job
       \/ /\ FindsRecord(e) /\ refund[e.key].status # "pending"
          /\ events' = events \ {e} /\ UNCHANGED <<parked, job>>
       \/ /\ FindsRecord(e) /\ refund[e.key].status = "pending"
          /\ job' = [job EXCEPT ![r] = [Idle EXCEPT !.op = "webhook", !.at = "read",
                                                    !.key = e.key, !.answer = e.status]]
          /\ UNCHANGED <<events, parked>>
    /\ UNCHANGED <<rows, paypal, lock, races, crashes>>

-----------------------------------------------------------------------------
(* completeRefund.                                                          *)

ReadRefund(r) ==
    /\ job[r].at = "read"
    /\ Goto(r, [job[r] EXCEPT !.at = "commit", !.view = View])
    /\ Happens({x \in {"overlap"} : \E q \in Requests : job[q].at = "commit"})
    /\ UNCHANGED <<rows, outside, crashes>>

(* The refund status of an answer.                                          *)
Stored(answer) ==
    CASE answer = "COMPLETED" -> "succeeded" [] answer = "FAILED" -> "failed" [] OTHER -> "pending"

(* Mutant: every answer enters the ledger.                                  *)
LedgerEntriesAlways(j) == IF j.answer = "COMPLETED" THEN 1 ELSE 0

(* Money only leaves when a refund first settles.                           *)
LedgerEntries(j) ==
    IF j.answer = "COMPLETED" /\ j.view.refund[j.key].status # "succeeded" THEN 1 ELSE 0

(* Mutant: the total of one refund decides.                                 *)
RefundedStatusOwn(j, seen) ==
    IF seen[j.key].status = "succeeded" /\ seen[j.key].amount >= Total THEN "refunded"
    ELSE IF seen[j.key].status = "succeeded" THEN "partially_refunded" ELSE j.view.payment

RefundedStatus(j, seen) ==
    IF SucceededTotal(seen) >= Total THEN "refunded"
    ELSE IF SucceededTotal(seen) > 0 THEN "partially_refunded" ELSE j.view.payment

(* A cancellation goes on unless PayPal said the refund failed.             *)
AfterCompletion(r) ==
    IF job[r].op = "cancel" /\ job[r].answer # "FAILED"
    THEN Goto(r, [job[r] EXCEPT !.at = "cancel", !.view = NoView]) ELSE Finish(r)

(* The writes: the record, the payment by the sum of what the transaction
   sees, the booking unless a cancellation is under way, the ledger.        *)
CommitRefund(r) ==
    LET j == job[r]
        seen == [j.view.refund EXCEPT ![j.key].status = Stored(j.answer)] IN
    /\ j.at = "commit"
    /\ refund' = [refund EXCEPT ![j.key].status = Stored(j.answer), ![j.key].known = TRUE]
    /\ payment' = RefundedStatus(j, seen)
    /\ booking' = IF /\ j.op # "cancel" /\ j.view.booking # "cancelled"
                     /\ SucceededTotal(seen) >= Total
                  THEN [booking EXCEPT !.status = "refunded"] ELSE booking
    /\ ledger' = [ledger EXCEPT !.refund[j.key] = @ + LedgerEntries(j)]
    /\ AfterCompletion(r)
    /\ events' = IF j.op = "webhook" THEN events \ {[key |-> j.key, status |-> j.answer]} ELSE events
    /\ UNCHANGED <<paypal, parked, races, crashes>>

(* BookingsRepository.cancel: a compare-and-swap on the status.             *)
CommitCancel(r) ==
    /\ job[r].at = "cancel"
    /\ booking' = IF booking.status = "paid"
                  THEN [status |-> "cancelled", refundAmount |-> job[r].amount] ELSE booking
    /\ Finish(r)
    /\ UNCHANGED <<refund, payment, ledger, outside, races, crashes>>

-----------------------------------------------------------------------------
(* Around the refunds.                                                      *)

(* reconcilePayment and repairPayment: PayPal reports a refunded capture as
   paid, and markPaymentSucceeded takes a payment back to succeeded and a
   booking whose dates are still free back to paid.                         *)
Resettle ==
    /\ lock = Nobody
    /\ ledger.charge < 2                                        \* bound
    /\ payment # "succeeded" \/ booking.status # "paid"
    /\ payment' = "succeeded"
    /\ ledger' = [ledger EXCEPT !.charge = IF payment = "succeeded" THEN @ ELSE @ + 1]
    /\ booking' \in {booking, [booking EXCEPT !.status = "paid"]}
    /\ Happens({"resettle"})
    /\ UNCHANGED <<refund, outside, lock, job, crashes>>

(* A process dies, its transaction rolls back and its locks lapse.          *)
Crash(r) ==
    /\ job[r] # Idle /\ crashes < MaxCrashes
    /\ crashes' = crashes + 1
    /\ Finish(r)
    /\ UNCHANGED <<rows, outside, races>>

-----------------------------------------------------------------------------
JobStep(r) == PostRefund(r) \/ ReadRefund(r) \/ CommitRefund(r) \/ CommitCancel(r)

Next ==
    \/ \E r \in Requests :
          \/ JobStep(r) \/ Crash(r)
          \/ \E k \in Keys, a \in Amounts : BeginRefund(r, k, a)
          \/ \E a \in CancellationRefundAmounts : BeginCancel(r, a)
          \/ \E e \in events : ReceiveEvent(r, e)
    \/ \E k \in AllKeys : RefundSettles(k)
    \/ Resettle

(* A request goes on unless it dies, and PayPal repeats an event until it is
   answered.                                                                *)
Settlement(k) == [key |-> k, status |-> "COMPLETED"]

Fairness ==
    /\ \A r \in Requests : WF_vars(JobStep(r))
    /\ \A k \in AllKeys :
          SF_vars(Settlement(k) \in events /\ \E r \in Requests : ReceiveEvent(r, Settlement(k)))

Spec == Init /\ [][Next]_vars /\ Fairness

-----------------------------------------------------------------------------
(* Every row, event and job keeps its type.                                 *)
TypeOK ==
    /\ refund \in [AllKeys -> RefundRow]
    /\ payment \in PaymentStatuses
    /\ booking \in BookingRow
    /\ ledger \in [refund : [AllKeys -> Nat], charge : Nat]
    /\ paypal \in [AllKeys -> [status : {"none", "pending", "completed", "failed"},
                               amount : 0 .. Total]]
    /\ events \subseteq Events /\ parked \subseteq Events
    /\ lock \in Requests \cup {Nobody}
    /\ job \in [Requests -> Job]
    /\ races \subseteq Races /\ crashes \in 0 .. MaxCrashes

(* The ledger tells which refunds settled, each once, "recorded when its
   completion webhook arrives, once", although answers are lost, processes die
   and webhooks are repeated.  Open transactions that overlap, and a key that
   is used again, are what the code does not exclude.                       *)
LedgerIsExact ==
    races \cap {"overlap", "repeat"} = {} =>
        \A k \in AllKeys : ledger.refund[k] = IF refund[k].status = "succeeded" THEN 1 ELSE 0

(* A refund counts as settled only if PayPal made it and, unless the key was
   used again with another amount, with the amount of the record, which is what
   the sums, the ledger and the payment's status go by.                     *)
SettledIsReal ==
    \A k \in AllKeys : refund[k].status = "succeeded" =>
        /\ paypal[k].status = "completed"
        /\ "reprice" \notin races => paypal[k].amount = refund[k].amount

(* The refunds that count as settled never exceed the charge, whichever were
   admitted: a pending refund leaves what remains as it was, so that several
   records are admitted which together exceed the charge.                   *)
BooksWithinCharge == "reprice" \notin races => SucceededTotal(refund) <= Total

(* The payment's status is what its refunds add up to, whichever of the
   concurrent refunds settled last.                                         *)
PaymentMatchesRefunds ==
    races \cap {"overlap", "repeat", "resettle"} = {} =>
        /\ payment = "refunded" <=> SucceededTotal(refund) >= Total
        /\ payment = "succeeded" <=> SucceededTotal(refund) = 0
        /\ booking.status = "refunded" => payment = "refunded"

(* "The refund could not be completed, so the booking was not cancelled": a
   booking that was cancelled against a refund has that refund at PayPal, unless
   the cancellation was begun again with another amount.                    *)
CancelledIsRefunded ==
    /\ "reprice" \notin races
    /\ booking.status = "cancelled" /\ booking.refundAmount > 0
    => paypal[CANCEL].status # "none" /\ paypal[CANCEL].amount = booking.refundAmount

(* A settled refund stays settled, with its amount: no late answer that calls
   it pending takes it back, even from a completion that overlaps another, for
   a webhook finds the record only after the first answer was stored.  A key
   that is used again while its first use runs is what the code does not
   exclude.                                                                 *)
SettledIsFinal ==
    [][\A k \in AllKeys : "repeat" \notin races' /\ refund[k].status = "succeeded" =>
          refund'[k].status = "succeeded" /\ refund'[k].amount = refund[k].amount]_vars

(* Money that PayPal returned is recorded in the end, or a stored webhook that
   was never processed is there for a person to find.                       *)
RefundIsRecorded ==
    \A k \in AllKeys :
        paypal[k].status = "completed" ~>
            refund[k].status = "succeeded" \/ Settlement(k) \in parked \/ races # {}
=============================================================================
