-------------------------- MODULE Checkout_proofs ---------------------------
(***************************************************************************)
(* Proofs about Checkout, for any number of requests and attempts.         *)
(***************************************************************************)
EXTENDS Checkout, FiniteSetTheorems, TLAPS

-----------------------------------------------------------------------------
(* The inductive invariants.                                                *)

(* Attempts are created in order.                                           *)
InOrder == \E n \in Orders : \A a \in Attempts : attempt[a].status # "none" <=> a <= n

Opened == {a \in Attempts : attempt[a].status # "none"}

(* Nothing refers to an attempt that was not opened.                        *)
RefsOpened ==
    /\ {payment.order, payment.capture} \subseteq Opened \cup {0}
    /\ \A o \in Attempts : paypal[o] # "none" => o \in Opened
    /\ \A e \in events : e.order \in Opened

(* What a job names exists, and a checkout that has yet to open its attempt has
   the lock and an attempt left to open.                                    *)
Before == {"status", "approved", "capture", "apply", "open"}

Shape(r) ==
    /\ job[r].at \in {"event", "status", "approved", "capture", "apply"} => job[r].ord \in Opened
    /\ job[r].at \in {"session", "attach"} => job[r].att \in Opened
    /\ job[r].at = "open" => job[r].op = "checkout"
    /\ job[r].at = "event" => job[r].op = "webhook"
    /\ job[r].at \in {"session", "attach"} => job[r].op \in {"checkout", "retry"}
    /\ job[r].op = "checkout" => lock = r
    /\ job[r].op = "checkout" /\ job[r].at \in Before =>
          \E a \in Attempts : attempt[a].status = "none"

TypeInv == TypeOK /\ InOrder /\ RefsOpened /\ \A r \in Requests : Shape(r)

(* An order whose money was taken.                                          *)
Took(o) == paypal[o] \in {"completed", "refunded"}

(* Whoever says so is right.                                                *)
SaysTook(j) == j.at \in {"event", "apply"} /\ j.st = "COMPLETED" => Took(j.ord)

CapturedInv ==
    /\ TypeInv /\ PaidIsCaptured
    /\ \A e \in events : e.kind = "COMPLETED" => Took(e.order)
    /\ \A r \in Requests : SaysTook(job[r])

(* Work on an order that was read holds the lock, and what it takes for the
   current order is, unless the order was replaced before the lock or beside
   it.                                                                      *)
Ordered == races \cap {"stale", "retry"} = {}

KnowsCurrent(j) == j.at \in {"status", "approved", "capture"} /\ j.current => payment.order = j.ord

CurrentInv ==
    /\ TypeInv
    /\ \A r \in Requests :
          /\ job[r].at \in Before => lock = r
          /\ job[r].at = "capture" => job[r].current
          /\ job[r].at = "status" /\ job[r].op = "checkout" => job[r].current
    /\ Ordered => \A r \in Requests : KnowsCurrent(job[r])

(* An order that took money, or is about to.                                *)
Charged(o) == paypal[o] \in {"pending", "completed", "refunded"}
NoneCharged == \A o \in Attempts : ~Charged(o)

(* The booking cannot be paid: no new attempt can be opened.                *)
Shut == booking.status \notin PAYABLE \/ booking.lapsed

Settling(o) == \E r \in Requests :
    job[r].at = "apply" /\ job[r].st = "COMPLETED" /\ job[r].ord = o

(* A refusal by PayPal that was announced is final.                         *)
Refusal(kind, o) ==
    /\ kind = "FAILED" => paypal[o] = "declined"
    /\ kind = "CANCELED" => paypal[o] = "voided"

RefusalsFit ==
    /\ \A e \in events : Refusal(e.kind, e.order)
    /\ \A r \in Requests : job[r].at = "event" => Refusal(job[r].st, job[r].ord)

(* The capture a payment shows was taken, whatever its status.              *)
CaptureReal == payment.capture # 0 => payment.capture \in Attempts /\ Took(payment.capture)

(* Before any race, the one order that was charged is the payment's, and that
   is written somewhere: the booking is shut, the payment is processing or a
   request is about to record it.                                           *)
ChargesFit ==
    /\ \A o \in Attempts : Charged(o) =>
          payment.order = o /\ (Shut \/ payment.status = "processing" \/ Settling(o))
    /\ payment.capture # 0 => Shut

(* What a request acts on beside a charge is still so.                      *)
SaysUncharged(j) ==
    /\ j.at = "apply" /\ j.st \in {"FAILED", "CANCELED"} => ~Charged(j.ord)
    /\ j.at \in {"session", "attach"} /\ j.op = "checkout" => NoneCharged
    /\ j.at = "open" => Shut \/ NoneCharged
    /\ j.at \in {"status", "approved", "capture"} /\ j.current /\ ~j.payable =>
          booking.status \notin PAYABLE

ChargeInv ==
    /\ CurrentInv /\ CapturedInv /\ CaptureReal /\ RefusalsFit
    /\ races = {} => ChargesFit /\ \A r \in Requests : SaysUncharged(job[r])

-----------------------------------------------------------------------------
(* The jobs that steps make, field by field.                                *)

(* An idle request has a job record.                                        *)
LEMMA IdleJob ==
  /\ Idle \in Job
  /\ Idle.op = "none" /\ Idle.at = "idle" /\ Idle.st = "" /\ Idle.ord = 0 /\ Idle.att = 0
  BY CheckoutAssumption DEF Idle, Job, Orders, Kinds

(* What a request remembers when it starts on an order.                     *)
LEMMA ReadsJob ==
  ASSUME NEW op \in {"capture", "cancel", "reconcile", "checkout", "webhook"},
         NEW at \in {"status", "approved", "open", "session", "event"}, NEW o \in Orders
  PROVE  /\ Reads(op, at, o) \in Job
         /\ Reads(op, at, o).op = op /\ Reads(op, at, o).at = at /\ Reads(op, at, o).ord = o
         /\ Reads(op, at, o).current <=> payment.order = o
         /\ Reads(op, at, o).payable <=> booking.status \in PAYABLE
<1> DEFINE c == payment.order = o
           p == booking.status \in PAYABLE
           j == [Idle EXCEPT !.op = op, !.at = at, !.ord = o, !.current = c, !.payable = p]
<1>1. c \in BOOLEAN /\ p \in BOOLEAN
  OBVIOUS
<1>2. Reads(op, at, o) = j
  BY DEF Reads
<1> HIDE DEF c, p
<1>3. j \in Job
  BY <1>1, IdleJob DEF Job
<1>4. j.op = op /\ j.at = at /\ j.ord = o /\ j.current = c /\ j.payable = p
  BY DEF Idle
<1> HIDE DEF j
<1> QED
  BY <1>2, <1>3, <1>4 DEF c, p

(* The repair worker's request that has listed the payment.                 *)
LEMMA ListedJob ==
  /\ [Idle EXCEPT !.op = "reconcile", !.at = "listed"] \in Job
  /\ [Idle EXCEPT !.op = "reconcile", !.at = "listed"].op = "reconcile"
  /\ [Idle EXCEPT !.op = "reconcile", !.at = "listed"].at = "listed"
  BY IdleJob DEF Idle, Job

(* The job of a webhook carries the kind and the order of its event.        *)
LEMMA EventJob ==
  ASSUME NEW e \in Events
  PROVE  /\ Event(e) \in Job /\ Event(e).op = "webhook" /\ Event(e).ord = e.order
         /\ Event(e).at = "event" /\ Event(e).st = e.kind
<1> DEFINE j == Reads("webhook", "event", e.order)
<1>1. e.order \in Orders /\ e.kind \in Kinds
  BY CheckoutAssumption DEF Events, Attempts, Orders
<1>2. j \in Job /\ j.op = "webhook" /\ j.at = "event" /\ j.ord = e.order
  BY <1>1, ReadsJob
<1>3. Event(e) = [j EXCEPT !.kind = e.kind, !.st = e.kind]
  BY DEF Event
<1> HIDE DEF j
<1> QED
  BY <1>1, <1>2, <1>3 DEF Job

(* Going to another point of a job changes nothing else of it.              *)
LEMMA MovedJob ==
  ASSUME NEW j \in Job, NEW at \in {"event", "capture", "attach", "open", "approved", "apply"}
  PROVE  /\ [j EXCEPT !.at = at] \in Job /\ [j EXCEPT !.at = at].at = at
         /\ [j EXCEPT !.at = at].op = j.op /\ [j EXCEPT !.at = at].ord = j.ord
         /\ [j EXCEPT !.at = at].st = j.st /\ [j EXCEPT !.at = at].att = j.att
         /\ [j EXCEPT !.at = at].current = j.current /\ [j EXCEPT !.at = at].payable = j.payable
  BY DEF Job

(* Applying an answer keeps the job's order.                                *)
LEMMA ApplyJob ==
  ASSUME NEW j \in Job, NEW s \in Kinds
  PROVE  /\ Apply(j, s) \in Job /\ Apply(j, s).op = j.op /\ Apply(j, s).ord = j.ord
         /\ Apply(j, s).at = IF s = "APPROVED" THEN "approved" ELSE "apply"
         /\ Apply(j, s).st = s /\ Apply(j, s).current = j.current
         /\ Apply(j, s).payable = j.payable
  BY DEF Job, Apply

(* A checkout in flight is superseded by a job that opens an attempt.       *)
LEMMA OpenJob ==
  ASSUME NEW j \in Job, NEW o \in Orders
  PROVE  LET n == [j EXCEPT !.at = "open", !.supersede = TRUE, !.exp = o]
         IN  n \in Job /\ n.at = "open" /\ n.op = j.op
  BY DEF Job

(* A superseding checkout first looks at the order it replaces.             *)
LEMMA CheckoutJob ==
  ASSUME NEW j \in Job, NEW o \in Orders
  PROVE  LET n == [j EXCEPT !.supersede = TRUE, !.exp = o]
         IN  n \in Job /\ n.at = j.at /\ n.op = j.op
  BY DEF Job

(* Opening attempt a leads to the creation of its order.                    *)
LEMMA SessionJob ==
  ASSUME NEW j \in Job, NEW a \in Attempts, NEW o \in Orders
  PROVE  LET n == [j EXCEPT !.at = "session", !.att = a, !.exp = o]
         IN  n \in Job /\ n.at = "session" /\ n.op = j.op /\ n.att = a
<1>1. a \in Orders
  BY CheckoutAssumption DEF Attempts, Orders
<1> QED
  BY <1>1 DEF Job

(* The retry worker's job.                                                  *)
LEMMA RetryJob ==
  ASSUME NEW a \in Attempts
  PROVE  LET n == [Idle EXCEPT !.op = "retry", !.at = "session", !.att = a]
         IN  n \in Job /\ n.at = "session" /\ n.op = "retry" /\ n.att = a
<1>1. a \in Orders
  BY CheckoutAssumption DEF Attempts, Orders
<1> QED
  BY <1>1, IdleJob DEF Idle, Job

(* A step of one request leaves the jobs and the locks of the others alone. *)
OthersKept(r) ==
    \A q \in Requests : q # r => job'[q] = job[q] /\ (lock = q => lock' = q)

JobType == job' \in [Requests -> Job] /\ lock' \in Requests \cup {Nobody}

(* Going on changes one job and no lock.                                    *)
LEMMA GotoStep ==
  ASSUME TypeOK, NEW r \in Requests, NEW j \in Job, Goto(r, j)
  PROVE  JobType /\ OthersKept(r) /\ job'[r] = j /\ lock' = lock
  BY DEF TypeOK, Goto, JobType, OthersKept

(* Taking the free checkout lock.                                           *)
LEMMA LockStep ==
  ASSUME TypeOK, NEW r \in Requests, NEW j \in Job, LockAndGoto(r, j)
  PROVE  JobType /\ OthersKept(r) /\ job'[r] = j /\ lock = Nobody /\ lock' = r
  BY CheckoutAssumption DEF TypeOK, LockAndGoto, JobType, OthersKept

(* A request that is done is idle.                                          *)
LEMMA DoneStep ==
  ASSUME TypeOK, NEW r \in Requests, Done(r)
  PROVE  JobType /\ OthersKept(r) /\ job'[r] = Idle
  BY IdleJob DEF TypeOK, Done, JobType, OthersKept

-----------------------------------------------------------------------------
(* What a step makes of the job of its request.                             *)

Free == \E a \in Attempts : attempt[a].status = "none"

(* A job takes what PayPal says about its order; a held capture is taken for a
   refusal only in a race.                                                  *)
Says(s, o) ==
    /\ s = "COMPLETED" => paypal'[o] \in {"completed", "refunded"}
    /\ s \in {"FAILED", "CANCELED"} =>
          /\ paypal'[o] \notin {"completed", "refunded"}
          /\ paypal'[o] = "pending" => races' # {}

(* It reads the payment under the lock.                                     *)
Starts(r) ==
    /\ lock = Nobody /\ lock' = r
    /\ \/ /\ job'[r].at \in {"status", "approved"} /\ job'[r].ord \in Opened
          /\ job'[r].current => payment.order = job'[r].ord
          /\ job'[r].payable <=> booking.status \in PAYABLE
          /\ job'[r].op = "checkout" => Free /\ job'[r].current
       \/ /\ job'[r].at = "open" /\ job'[r].op = "checkout" /\ Free
          /\ payment.status # "processing" \/ payment.order = 0
       \/ /\ job'[r].op = "checkout" /\ job'[r].at = "session" /\ job'[r].att \in Opened
          /\ NoneCharged \/ races' # {}

(* It begins with an event.                                                 *)
Hears(r) ==
    /\ job'[r].op = "webhook" /\ job'[r].at = "event" /\ lock' = lock
    /\ \E e \in events : job'[r].ord = e.order /\ job'[r].st = e.kind

(* It locks an event's payment, which may not be as it was read.            *)
LocksEvent(r) ==
    /\ job[r].at = "event" /\ job'[r].at \in {"approved", "apply"} /\ job'[r].st = job[r].st
    /\ job'[r].op = job[r].op /\ job'[r].ord = job[r].ord /\ lock = Nobody /\ lock' = r
    /\ job'[r].current = job[r].current /\ job'[r].payable = job[r].payable
    /\ \/ "stale" \in races' \/ ~job[r].current
       \/ payment.order = job[r].ord /\ (job[r].payable \/ booking.status \notin PAYABLE)

(* It was about an order that has ended, as far as it knows, and opens another. *)
Reopens(r) ==
    /\ job[r].at \in Before \ {"open"} /\ job[r].op = "checkout"
    /\ job[r].at = "status" => ~Charged(job[r].ord)
    /\ job[r].at = "approved" => job[r].current /\ (~job[r].payable \/ booking.lapsed)
    /\ job[r].at = "capture" => paypal[job[r].ord] = "unfit"
    /\ job[r].at = "apply" => job[r].st \in {"FAILED", "CANCELED"} /\ Tracks(job[r].ord)

(* It goes on under the lock it has.                                        *)
Continues(r) ==
    /\ job'[r].op = job[r].op /\ lock' = lock
    /\ \/ /\ job[r].at = "status" /\ job'[r].at = "approved" /\ job'[r].ord = job[r].ord
          /\ job'[r].current = job[r].current /\ job'[r].payable = job[r].payable
       \/ /\ job[r].at = "approved" /\ job'[r].at = "capture" /\ job[r].current
          /\ job'[r].ord = job[r].ord
          /\ job'[r].current = job[r].current /\ job'[r].payable = job[r].payable
       \/ /\ job[r].at \in {"status", "approved", "capture"} /\ job'[r].at = "apply"
          /\ job'[r].ord = job[r].ord /\ Says(job'[r].st, job[r].ord)
       \/ Reopens(r) /\ job'[r].at = "open"
       \/ /\ job[r].at = "apply" /\ job'[r].at = "apply" /\ races' # {}
          /\ job'[r].ord = job[r].ord /\ job'[r].st = "FAILED"
       \/ job[r].at = "session" /\ job'[r].at = "attach" /\ job'[r].att = job[r].att

(* Every step of a request but the opening of an attempt.                   *)
JobMove(r) ==
    /\ JobType /\ OthersKept(r)
    /\ \/ job'[r] = Idle
       \/ job'[r].at = "listed" /\ job'[r].op = "reconcile" /\ lock' = lock
       \/ Starts(r) \/ Hears(r) \/ LocksEvent(r) \/ Continues(r)

(* Ending a job is a move.                                                  *)
LEMMA DoneMove ==
  ASSUME TypeOK, NEW r \in Requests, Done(r)
  PROVE  JobMove(r)
  BY DoneStep DEF JobMove

(* Taking up PayPal's answer is a move: the answer is true, or there is a race. *)
LEMMA ApplyMove ==
  ASSUME TypeOK, NEW r \in Requests, NEW s \in Kinds, Goto(r, Apply(job[r], s)),
         \/ job[r].at = "status" /\ Says(s, job[r].ord)
         \/ job[r].at \in {"approved", "capture"} /\ s # "APPROVED" /\ Says(s, job[r].ord)
         \/ job[r].at = "apply" /\ races' # {} /\ s = "FAILED"
  PROVE  JobMove(r)
<1> DEFINE n == Apply(job[r], s)
<1>1. job[r] \in Job
  BY DEF TypeOK
<1>2. /\ n \in Job /\ n.op = job[r].op /\ n.ord = job[r].ord /\ n.st = s
      /\ n.current = job[r].current /\ n.payable = job[r].payable
      /\ n.at = IF s = "APPROVED" THEN "approved" ELSE "apply"
  BY <1>1, ApplyJob
<1> HIDE DEF n
<1>3. JobType /\ OthersKept(r) /\ job'[r] = n /\ lock' = lock
  BY <1>2, GotoStep DEF n
<1>4. Continues(r)
  BY <1>2, <1>3 DEF Continues
<1> QED
  BY <1>3, <1>4 DEF JobMove

(* PayPal tells the truth.                                                  *)
LEMMA StatusSays ==
  ASSUME NEW o \in Attempts, UNCHANGED paypal
  PROVE  /\ PayPalStatus(o) \in Kinds => Says(PayPalStatus(o), o)
         /\ /\ PayPalStatus(o) \in {"PENDING", "SETTLING"}
            /\ PayPalStatus(o) = "SETTLING" => races' # {}
            => Says("CANCELED", o)
         /\ PayPalStatus(o) = "PENDING" => ~Charged(o)
  BY DEF PayPalStatus, Kinds, Says, Charged

(* Starting on an order that exists, under the lock, is a move.             *)
LEMMA StartMove ==
  ASSUME TypeOK, NEW r \in Requests, NEW op \in {"capture", "cancel", "reconcile", "checkout"},
         NEW at \in {"status", "approved"}, NEW o \in Opened,
         op = "checkout" => Free /\ payment.order = o,
         LockAndGoto(r, Reads(op, at, o))
  PROVE  JobMove(r)
<1>0. o \in Orders
  BY CheckoutAssumption DEF Opened, Attempts, Orders
<1> DEFINE n == Reads(op, at, o)
<1>1. /\ n \in Job /\ n.op = op /\ n.at = at /\ n.ord = o
      /\ n.current <=> payment.order = o
      /\ n.payable <=> booking.status \in PAYABLE
  BY <1>0, ReadsJob
<1> HIDE DEF n
<1>3. JobType /\ OthersKept(r) /\ job'[r] = n /\ lock = Nobody /\ lock' = r
  BY <1>1, LockStep DEF n
<1>4. Starts(r)
  BY <1>1, <1>3 DEF Starts
<1> QED
  BY <1>3, <1>4 DEF JobMove

(* The orders a payment names are orders.                                   *)
LEMMA OrderType ==
  ASSUME TypeOK
  PROVE  payment.order \in Orders /\ payment.capture \in Orders /\ Reference \in Orders
  BY DEF TypeOK, Reference

(* The orders a payment names were opened, if any.                          *)
LEMMA OrderOpened ==
  ASSUME RefsOpened
  PROVE  /\ payment.order # 0 => payment.order \in Opened
         /\ Reference # 0 => Reference \in Opened
  BY DEF RefsOpened, Reference

(* Capture, cancel, reconcile and repair start without writing.             *)
LEMMA BeginMove ==
  ASSUME TypeOK, RefsOpened, NEW r \in Requests,
         BeginCapture(r) \/ BeginCancel(r) \/ BeginReconcile(r) \/ ListRepair(r) \/ BeginRepair(r)
  PROVE  JobMove(r) /\ UNCHANGED <<booking, payment, attempt, paypal, events>>
<1>1. UNCHANGED <<booking, payment, attempt, paypal, events>>
  BY DEF BeginCapture, BeginCancel, BeginReconcile, ListRepair, BeginRepair, db, outside
<1>2. CASE BeginCapture(r)
  BY <1>1, <1>2, OrderOpened, StartMove DEF BeginCapture
<1>3. CASE BeginCancel(r)
  BY <1>1, <1>3, OrderOpened, StartMove DEF BeginCancel
<1>4. CASE BeginReconcile(r)
  BY <1>1, <1>4, OrderOpened, StartMove DEF BeginReconcile
<1>5. CASE BeginRepair(r)
  BY <1>1, <1>5, OrderOpened, StartMove, DoneMove DEF BeginRepair
<1>6. CASE ListRepair(r)
  <2> DEFINE n == [Idle EXCEPT !.op = "reconcile", !.at = "listed"]
  <2>1. n \in Job /\ n.op = "reconcile" /\ n.at = "listed"
    BY ListedJob
  <2> HIDE DEF n
  <2>2. JobType /\ OthersKept(r) /\ job'[r] = n /\ lock' = lock
    BY <1>6, <2>1, GotoStep DEF ListRepair, n
  <2> QED
    BY <1>1, <2>1, <2>2 DEF JobMove
<1> QED
  BY <1>2, <1>3, <1>4, <1>5, <1>6

(* So does a checkout.                                                      *)
LEMMA CheckoutMove ==
  ASSUME TypeOK, RefsOpened, NEW r \in Requests, BeginCheckout(r)
  PROVE  JobMove(r) /\ UNCHANGED <<booking, payment, attempt, paypal, events>>
<1>1. UNCHANGED <<booking, payment, attempt, paypal, events>> /\ Free
  BY DEF BeginCheckout, db, outside, Free
<1>2. CASE payment.order # 0 /\ LockAndGoto(r, Reads("checkout", "status", payment.order))
  BY <1>1, <1>2, OrderOpened, StartMove
<1> DEFINE m == Reads("checkout", "open", 0)
           n == [m EXCEPT !.supersede = TRUE, !.exp = payment.order]
<1>3. m \in Job /\ m.at = "open" /\ m.op = "checkout"
  BY ReadsJob, CheckoutAssumption DEF Orders
<1> HIDE DEF m
<1>4. n \in Job /\ n.at = "open" /\ n.op = "checkout"
  BY <1>3, OrderType, CheckoutJob
<1> HIDE DEF n
<1>5. CASE payment.status # "processing" /\ LockAndGoto(r, m)
  BY <1>1, <1>3, <1>5, LockStep DEF JobMove, Starts
<1>6. CASE (payment.status # "processing" \/ payment.order = 0) /\ LockAndGoto(r, n)
  BY <1>1, <1>4, <1>6, LockStep DEF JobMove, Starts
<1> QED
  BY <1>1, <1>2, <1>5, <1>6 DEF BeginCheckout, InFlight, m, n

(* So does a repeated request.                                              *)
LEMMA ReplayMove ==
  ASSUME TypeOK, NEW r \in Requests, NEW a \in Attempts, BeginReplay(r, a)
  PROVE  JobMove(r) /\ UNCHANGED <<booking, payment, attempt, paypal, events>>
<1> DEFINE m == Reads("checkout", "session", 0)
           n == [m EXCEPT !.att = a, !.exp = payment.order]
<1>1. m \in Job /\ m.at = "session" /\ m.op = "checkout"
  BY ReadsJob, CheckoutAssumption DEF Orders
<1> HIDE DEF m
<1>2. n \in Job /\ n.at = "session" /\ n.op = "checkout" /\ n.att = a
  <2>1. a \in Orders /\ payment.order \in Orders
    BY OrderType, CheckoutAssumption DEF Attempts, Orders
  <2> QED
    BY <1>1, <2>1 DEF Job
<1> HIDE DEF n
<1>3. LockAndGoto(r, n) /\ (NoneCharged \/ races' # {})
  BY DEF BeginReplay, m, n, Mishap, Note, NoneCharged, ChargedOrders, Charged
<1>4. a \in Opened
  BY DEF BeginReplay, Opened
<1>5. JobMove(r)
  BY <1>2, <1>3, <1>4, LockStep DEF JobMove, Starts
<1> QED
  BY <1>5 DEF BeginReplay, db, outside

(* A webhook is ignored, or becomes a job.                                  *)
LEMMA ReceiveMove ==
  ASSUME TypeOK, NEW r \in Requests, NEW e \in events, ReceiveEvent(r, e)
  PROVE  /\ JobMove(r) \/ UNCHANGED <<job, lock>>
         /\ events' \subseteq events /\ UNCHANGED <<booking, payment, attempt, paypal>>
<1>1. events' \subseteq events /\ UNCHANGED <<booking, payment, attempt, paypal>>
  BY DEF ReceiveEvent, db
<1>2. CASE UNCHANGED <<lock, job>>
  BY <1>1, <1>2
<1>3. CASE Goto(r, Event(e))
  <2> DEFINE n == Event(e)
  <2>1. n \in Job /\ n.at = "event" /\ n.op = "webhook" /\ n.ord = e.order /\ n.st = e.kind
    BY EventJob DEF TypeOK
  <2> HIDE DEF n
  <2>2. JobType /\ OthersKept(r) /\ job'[r] = n /\ lock' = lock
    BY <1>3, <2>1, GotoStep DEF n
  <2>3. Hears(r)
    BY <2>1, <2>2 DEF Hears
  <2> QED
    BY <1>1, <2>2, <2>3 DEF JobMove
<1> QED
  BY <1>2, <1>3 DEF ReceiveEvent

(* A webhook that read the payment first takes the lock, or is refused.     *)
LEMMA LockEventMove ==
  ASSUME TypeOK, NEW r \in Requests, LockEvent(r) \/ EventRefused(r)
  PROVE  JobMove(r) /\ UNCHANGED <<booking, payment, attempt, paypal, events>>
<1>1. UNCHANGED <<booking, payment, attempt, paypal, events>>
  BY DEF LockEvent, EventRefused, db, outside
<1>2. CASE EventRefused(r)
  BY <1>1, <1>2, DoneMove DEF EventRefused
<1>3. CASE LockEvent(r)
  <2> DEFINE at == IF job[r].kind = "APPROVED" THEN "approved" ELSE "apply"
             n == [job[r] EXCEPT !.at = at]
  <2>1. job[r] \in Job /\ at \in {"approved", "apply"}
    BY DEF TypeOK
  <2>2. LockAndGoto(r, n) /\ job[r].at = "event"
    BY <1>3 DEF LockEvent
  <2> HIDE DEF at
  <2>3. /\ n \in Job /\ n.at = at /\ n.op = job[r].op /\ n.ord = job[r].ord /\ n.st = job[r].st
        /\ n.current = job[r].current /\ n.payable = job[r].payable
    BY <2>1 DEF Job
  <2> HIDE DEF n
  <2>4. JobType /\ OthersKept(r) /\ job'[r] = n /\ lock = Nobody /\ lock' = r
    BY <2>2, <2>3, LockStep
  <2>5. \/ "stale" \in races' \/ ~job[r].current
        \/ payment.order = job[r].ord /\ (job[r].payable \/ booking.status \notin PAYABLE)
    BY <1>3 DEF LockEvent, NoteIf, Note
  <2>6. LocksEvent(r)
    BY <2>1, <2>2, <2>3, <2>4, <2>5 DEF LocksEvent
  <2> QED
    BY <1>1, <2>4, <2>6 DEF JobMove
<1> QED
  BY <1>2, <1>3

(* The answer to a GET is true of the order.                                *)
LEMMA GetStatusMove ==
  ASSUME TypeOK, NEW r \in Requests, job[r].ord \in Attempts, GetStatus(r)
  PROVE  JobMove(r) /\ UNCHANGED <<booking, payment, attempt, paypal, events>>
<1>1. UNCHANGED <<booking, payment, attempt, paypal, events>> /\ job[r].at = "status"
  BY DEF GetStatus, db, outside
<1>2. CASE Done(r)
  BY <1>1, <1>2, DoneMove
<1>3. CASE /\ PayPalStatus(job[r].ord) \in Kinds
           /\ Goto(r, Apply(job[r], PayPalStatus(job[r].ord)))
  BY <1>1, <1>3, StatusSays, ApplyMove
<1>4. CASE /\ PayPalStatus(job[r].ord) \in {"PENDING", "SETTLING"}
           /\ Goto(r, Apply(job[r], "CANCELED"))
           /\ NoteIf(PayPalStatus(job[r].ord) = "SETTLING", "pend")
  <2>1. "CANCELED" \in Kinds /\ (PayPalStatus(job[r].ord) = "SETTLING" => races' # {})
    BY <1>4 DEF Kinds, NoteIf, Note
  <2> QED
    BY <1>1, <1>4, <2>1, StatusSays, ApplyMove
<1>5. CASE /\ job[r].op = "checkout" /\ Supersedable(job[r].ord)
           /\ Goto(r, [job[r] EXCEPT !.at = "open", !.supersede = TRUE, !.exp = job[r].ord])
  <2> DEFINE n == [job[r] EXCEPT !.at = "open", !.supersede = TRUE, !.exp = job[r].ord]
  <2>1. job[r] \in Job /\ job[r].ord \in Orders
    BY DEF TypeOK, Job
  <2>2. n \in Job /\ n.at = "open" /\ n.op = job[r].op
    BY <2>1, OpenJob
  <2> HIDE DEF n
  <2>3. JobType /\ OthersKept(r) /\ job'[r] = n /\ lock' = lock
    BY <1>5, <2>2, GotoStep DEF n
  <2>4. Continues(r)
    BY <1>1, <1>5, <2>2, <2>3, StatusSays DEF Continues, Reopens, Before, Supersedable
  <2> QED
    BY <1>1, <2>3, <2>4 DEF JobMove
<1> QED
  BY <1>2, <1>3, <1>4, <1>5 DEF GetStatus

(* captureApprovedOrder goes on to the capture, or ends.                    *)
LEMMA EnterMove ==
  ASSUME TypeOK, NEW r \in Requests, job[r].ord \in Attempts, EnterCapture(r)
  PROVE  /\ JobMove(r) /\ events' \subseteq events
         /\ UNCHANGED <<booking, payment, attempt, paypal>>
<1>1. /\ job[r].at = "approved" /\ UNCHANGED <<booking, payment, attempt, paypal>>
      /\ events' \subseteq events
  BY DEF EnterCapture, db, Finish, Processed
<1>2. CASE Done(r)
  BY <1>1, <1>2, DoneMove
<1>3. CASE job[r].current /\ Goto(r, [job[r] EXCEPT !.at = "capture"])
  <2> DEFINE n == [job[r] EXCEPT !.at = "capture"]
  <2>1. job[r] \in Job
    BY DEF TypeOK
  <2>2. /\ n \in Job /\ n.at = "capture" /\ n.op = job[r].op /\ n.ord = job[r].ord
        /\ n.current = job[r].current /\ n.payable = job[r].payable
    BY <2>1, MovedJob
  <2> HIDE DEF n
  <2>3. JobType /\ OthersKept(r) /\ job'[r] = n /\ lock' = lock
    BY <1>3, <2>2, GotoStep DEF n
  <2>4. Continues(r)
    BY <1>1, <1>3, <2>2, <2>3 DEF Continues
  <2> QED
    BY <1>1, <2>3, <2>4 DEF JobMove
<1>4. CASE /\ PayPalStatus(job[r].ord) \in Kinds \ {"APPROVED"}
           /\ Goto(r, Apply(job[r], PayPalStatus(job[r].ord)))
  BY <1>1, <1>4, StatusSays, ApplyMove
<1> QED
  BY <1>2, <1>3, <1>4 DEF EnterCapture, Finish, IsCurrent

(* Ends, or goes on to open an attempt.                                     *)
LEMMA EndOrOpenMove ==
  ASSUME TypeOK, NEW r \in Requests, NEW ended, EndOrOpen(r, ended),
         ended /\ job[r].op = "checkout" => Reopens(r)
  PROVE  JobMove(r)
<1>1. CASE Done(r)
  BY <1>1, DoneMove
<1>2. CASE Reopens(r) /\ Goto(r, [job[r] EXCEPT !.at = "open"])
  <2> DEFINE n == [job[r] EXCEPT !.at = "open"]
  <2>1. job[r] \in Job
    BY DEF TypeOK
  <2>2. n \in Job /\ n.at = "open" /\ n.op = job[r].op
    BY <2>1, MovedJob
  <2> HIDE DEF n
  <2>3. JobType /\ OthersKept(r) /\ job'[r] = n /\ lock' = lock
    BY <1>2, <2>2, GotoStep DEF n
  <2>4. Continues(r)
    BY <1>2, <2>2, <2>3 DEF Continues
  <2> QED
    BY <2>3, <2>4 DEF JobMove
<1> QED
  BY <1>1, <1>2 DEF EndOrOpen

-----------------------------------------------------------------------------
(* What steps do to the rows and at PayPal.                                 *)

AttemptRow == [status : {"none", "pending", "processing", "failed_retryable", "failed_final",
                         "superseded", "succeeded"},
               ordered : BOOLEAN, retries : Nat]
PaymentRow == [status : CAPTURED \cup {"none", "awaiting_method", "processing",
                                       "failed_retryable", "failed_final"},
               order : Orders, capture : Orders]
BookingRow == [status : PAYABLE \cup {"paid", "refunded", "cancelled", "expired"},
               lapsed : BOOLEAN, hold : BOOLEAN, flagged : BOOLEAN]

(* No attempt is opened or removed.                                         *)
AttemptsKept ==
    /\ attempt' \in [Attempts -> AttemptRow]
    /\ \A a \in Attempts : attempt'[a].status = "none" <=> attempt[a].status = "none"

(* Untouched attempts are kept.                                             *)
LEMMA AttemptsSame ==
  ASSUME TypeOK, UNCHANGED attempt
  PROVE  AttemptsKept
  BY DEF TypeOK, AttemptsKept, AttemptRow

(* Changing the status of an opened attempt keeps the attempts.             *)
LEMMA AttemptSet ==
  ASSUME TypeOK, NEW a \in Opened,
         NEW s \in {"processing", "failed_retryable", "failed_final", "succeeded"},
         attempt' = [attempt EXCEPT ![a].status = s]
  PROVE  AttemptsKept
<1>1. attempt' \in [Attempts -> AttemptRow]
  <2>1. attempt \in [Attempts -> AttemptRow] /\ a \in Attempts
    BY DEF TypeOK, AttemptRow, Opened
  <2>2. [attempt[a] EXCEPT !.status = s] \in AttemptRow
    BY <2>1 DEF AttemptRow
  <2> QED
    BY <2>1, <2>2
<1>2. ASSUME NEW x \in Attempts
      PROVE  attempt'[x].status = "none" <=> attempt[x].status = "none"
  <2>1. x # a => attempt'[x] = attempt[x]
    BY DEF TypeOK
  <2>2. x = a => attempt'[x].status = s /\ attempt[x].status # "none"
    BY DEF TypeOK, Opened
  <2> QED
    BY <2>1, <2>2
<1> QED
  BY <1>1, <1>2 DEF AttemptsKept

(* The order and the capture of the payment stay, its status may fail.      *)
PaymentFails ==
    /\ payment' \in PaymentRow
    /\ payment'.order = payment.order /\ payment'.capture = payment.capture
    /\ payment'.status \in CAPTURED => payment' = payment

(* A payment set to a status other than succeeded keeps its capture.        *)
LEMMA PaymentSet ==
  ASSUME TypeOK, NEW s \in {"processing", "failed_retryable", "failed_final"},
         payment' = [payment EXCEPT !.status = s]
  PROVE  PaymentFails
  BY DEF TypeOK, PaymentFails, PaymentRow, CAPTURED

(* Setting the booking's status.                                            *)
LEMMA BookingSet ==
  ASSUME TypeOK, NEW s \in PAYABLE \cup {"paid", "refunded", "cancelled", "expired"},
         booking' = [booking EXCEPT !.status = s]
  PROVE  booking' \in BookingRow /\ booking'.status = s /\ booking'.lapsed = booking.lapsed
  BY DEF TypeOK, BookingRow

(* rejectCheckoutAttempt fails payment, attempt and a payable booking.      *)
LEMMA RejectEffect ==
  ASSUME TypeOK, NEW r \in Requests, job[r].ord \in Opened, RejectOrder(r)
  PROVE  /\ JobMove(r) /\ AttemptsKept /\ PaymentFails /\ booking' \in BookingRow
         /\ booking'.status # booking.status =>
               booking.status \in PAYABLE /\ booking'.status = "payment_failed"
         /\ booking'.lapsed = booking.lapsed
         /\ events' \subseteq events /\ UNCHANGED paypal
<1>1. job[r].op = "checkout" => Reopens(r)
  BY DEF RejectOrder, Reopens, Before, IsCurrent
<1>2. JobMove(r)
  BY <1>1, EndOrOpenMove DEF RejectOrder
<1>3. AttemptsKept
  BY AttemptSet DEF RejectOrder
<1>4. CASE UNCHANGED <<payment, booking>>
  BY <1>2, <1>3, <1>4 DEF RejectOrder, Processed, PaymentFails, PaymentRow, BookingRow, TypeOK
<1>5. CASE /\ payment' = [payment EXCEPT !.status = "failed_final"]
           /\ booking' = [booking EXCEPT !.status = IF @ \in PAYABLE THEN "payment_failed" ELSE @]
  <2> DEFINE s == IF booking.status \in PAYABLE THEN "payment_failed" ELSE booking.status
  <2>1. s \in PAYABLE \cup {"paid", "refunded", "cancelled", "expired"}
    BY DEF TypeOK, PAYABLE
  <2>2. booking' = [booking EXCEPT !.status = s]
    BY <1>5 DEF TypeOK
  <2> HIDE DEF s
  <2>3. booking' \in BookingRow /\ booking'.status = s /\ booking'.lapsed = booking.lapsed
    BY <2>1, <2>2, BookingSet
  <2> QED
    BY <1>2, <1>3, <1>5, <2>3, PaymentSet DEF RejectOrder, Processed, s
<1> QED
  BY <1>4, <1>5 DEF RejectOrder

(* PayPal moves one order.                                                  *)
States == {"none", "created", "approved", "unfit", "pending", "completed", "declined",
           "voided", "refunded"}

(* A move of an order at PayPal sends at most one event about it.           *)
LEMMA MovesEffect ==
  ASSUME TypeOK, NEW o \in Attempts, NEW s \in States, NEW k \in Kinds, PayPalMoves(o, s, k)
  PROVE  /\ paypal' \in [Attempts -> States] /\ events' \subseteq Events
         /\ paypal'[o] = s /\ \A x \in Attempts : x # o => paypal'[x] = paypal[x]
         /\ \A e \in events' : e \in events \/ (e.kind = k /\ e.order = o)
  BY DEF TypeOK, PayPalMoves, Events, States

(* A capture, and what the job takes from it.                               *)
LEMMA CaptureEffect ==
  ASSUME TypeOK, NEW r \in Requests, job[r].ord \in Attempts, CaptureOrder(r)
  PROVE  /\ JobMove(r) /\ job[r].at = "capture" /\ UNCHANGED <<booking, payment, attempt>>
         /\ \/ UNCHANGED paypal /\ events' \subseteq events
            \/ /\ paypal[job[r].ord] = "approved"
               /\ payment.status = "processing" \/ races' # {}
               /\ paypal' = [paypal EXCEPT ![job[r].ord] = "pending"] /\ events' \subseteq events
               /\ job'[r] = Idle
            \/ /\ paypal[job[r].ord] = "approved"
               /\ PayPalMoves(job[r].ord, "completed", "COMPLETED")
               /\ \/ job'[r] = Idle /\ (races' # {} \/ ~Unrecorded(job[r].ord))
                  \/ /\ job'[r].at = "apply" /\ job'[r].st = "COMPLETED"
                     /\ job'[r].ord = job[r].ord
            \/ /\ paypal[job[r].ord] = "approved"
               /\ PayPalMoves(job[r].ord, "declined", "FAILED")
<1> DEFINE o == job[r].ord
<1>1. job[r] \in Job /\ job[r].at = "capture" /\ UNCHANGED <<booking, payment, attempt>>
  BY DEF TypeOK, CaptureOrder, db
<1>2. {"COMPLETED", "FAILED"} \subseteq Kinds
  BY DEF Kinds
<1>3. ASSUME Says("COMPLETED", o), Goto(r, Apply(job[r], "COMPLETED")) \/ Done(r)
      PROVE  JobMove(r)
  BY <1>1, <1>2, <1>3, ApplyMove, DoneMove
<1> DEFINE answered(st) == Goto(r, Apply(job[r], st)) /\ UNCHANGED history
           lost(st) == Done(r) /\ Mishap(st = "COMPLETED" /\ Unrecorded(o), "dropped")
<1>4. ASSUME Says("FAILED", o), Goto(r, Apply(job[r], "FAILED")) \/ Done(r)
      PROVE  JobMove(r)
  BY <1>1, <1>2, <1>4, ApplyMove, DoneMove
<1>5. CASE /\ paypal[o] = "approved" /\ PayPalMoves(o, "completed", "COMPLETED")
           /\ answered("COMPLETED") \/ lost("COMPLETED")
  <2>1. Says("COMPLETED", o)
    BY <1>5 DEF PayPalMoves, TypeOK, Says
  <2>2. Goto(r, Apply(job[r], "COMPLETED")) =>
          job'[r].at = "apply" /\ job'[r].st = "COMPLETED" /\ job'[r].ord = o
    BY <1>1, <1>2, GotoStep, ApplyJob
  <2>3. lost("COMPLETED") => job'[r] = Idle /\ (races' # {} \/ ~Unrecorded(o))
    BY DoneStep DEF Mishap, Note
  <2> QED
    BY <1>1, <1>3, <1>5, <2>1, <2>2, <2>3
<1>6. CASE /\ paypal[o] = "approved" /\ PayPalMoves(o, "declined", "FAILED")
           /\ answered("FAILED") \/ lost("FAILED")
  <2>1. Says("FAILED", o)
    BY <1>6 DEF PayPalMoves, TypeOK, Says
  <2> QED
    BY <1>1, <1>4, <1>6, <2>1
<1>7. CASE /\ paypal[o] = "approved" /\ NoteIf(payment.status # "processing", "pend")
           /\ paypal' = [paypal EXCEPT ![o] = "pending"] /\ Finish(r)
  BY <1>1, <1>7, DoneMove, DoneStep DEF Finish, Processed, NoteIf, Note
<1>8. CASE /\ paypal[o] \in {"completed", "refunded"} /\ UNCHANGED outside
           /\ answered("COMPLETED")
  <2>1. Says("COMPLETED", o) /\ UNCHANGED <<paypal, events>>
    BY <1>8 DEF outside, Says
  <2> QED
    BY <1>1, <1>3, <1>8, <2>1
<1>9. CASE Finish(r) /\ UNCHANGED paypal
  BY <1>1, <1>9, DoneMove DEF Finish, Processed
<1>10. CASE Done(r) /\ UNCHANGED outside
  BY <1>1, <1>10, DoneMove DEF outside
<1>11. CASE /\ paypal[o] \in {"approved", "voided", "declined"} /\ UNCHANGED outside
            /\ Goto(r, Apply(job[r], "FAILED")) \/ Done(r)
  <2>1. Says("FAILED", o) /\ UNCHANGED <<paypal, events>>
    BY <1>11 DEF outside, Says
  <2> QED
    BY <1>1, <1>4, <1>11, <2>1
<1> QED
  BY <1>5, <1>6, <1>7, <1>8, <1>9, <1>10, <1>11 DEF CaptureOrder

(* markPaymentSucceeded records the capture of the job's order, or flags an
   order that the payment does not track.                                   *)
LEMMA SettleEffect ==
  ASSUME TypeOK, NEW r \in Requests, job[r].ord \in Opened, Settle(r)
  PROVE  /\ JobMove(r) /\ job'[r] = Idle /\ events' \subseteq events /\ UNCHANGED paypal
         /\ job[r].at = "apply" /\ job[r].st = "COMPLETED" /\ booking' \in BookingRow
         /\ Shut' \/ races' # {}
         /\ \/ /\ payment.status = "succeeded" /\ ~Tracks(job[r].ord)
               /\ UNCHANGED <<payment, attempt>> /\ booking'.status = booking.status
            \/ /\ payment' = [status |-> "succeeded", order |-> job[r].ord,
                              capture |-> job[r].ord]
               /\ AttemptsKept
               /\ booking'.status \in {"paid", booking.status}
<1> DEFINE o == job[r].ord
<1>1. /\ job[r].at = "apply" /\ job[r].st = "COMPLETED" /\ MarkSucceeded(o) /\ Done(r)
      /\ events' \subseteq events /\ UNCHANGED paypal
  BY DEF Settle, Finish, Processed
<1>2. JobMove(r) /\ job'[r] = Idle /\ (Shut' \/ races' # {})
  BY <1>1, DoneMove, DoneStep DEF Settle, NoteIf, Note, Shut
<1>3. CASE /\ payment.status = "succeeded" /\ ~Tracks(o) /\ UNCHANGED <<payment, attempt>>
           /\ booking' = [booking EXCEPT !.flagged = TRUE]
  <2>1. booking' \in BookingRow /\ booking'.status = booking.status
    BY <1>3 DEF TypeOK, BookingRow
  <2> QED
    BY <1>1, <1>2, <1>3, <2>1
<1>4. CASE /\ payment' = [status |-> "succeeded", order |-> o, capture |-> o]
           /\ attempt' = [attempt EXCEPT ![o].status = "succeeded"]
           /\ \/ booking' = [booking EXCEPT !.status = "paid", !.hold = TRUE, !.flagged = FALSE]
              \/ booking' = [booking EXCEPT !.flagged = TRUE]
  <2>1. booking' \in BookingRow /\ booking'.status \in {"paid", booking.status}
    BY <1>4 DEF TypeOK, BookingRow
  <2>2. AttemptsKept
    BY <1>4, AttemptSet
  <2> QED
    BY <1>1, <1>2, <1>4, <2>1, <2>2
<1> QED
  BY <1>1, <1>3, <1>4 DEF MarkSucceeded

(* A busy window lock makes a capture look declined, or leaves it unrecorded. *)
LEMMA BusyMove ==
  ASSUME TypeOK, NEW r \in Requests, SettleBusy(r)
  PROVE  /\ JobMove(r) /\ UNCHANGED <<booking, payment, attempt, paypal, events>>
         /\ races' # {} \/ ~Unrecorded(job[r].ord)
<1>1. /\ UNCHANGED <<booking, payment, attempt, paypal, events>> /\ job[r].at = "apply"
  BY DEF SettleBusy, db, outside
<1>2. CASE Done(r) /\ Mishap(Unrecorded(job[r].ord), "dropped")
  BY <1>1, <1>2, DoneMove DEF Mishap, Note
<1>3. CASE Goto(r, Apply(job[r], "FAILED")) /\ Mishap(TRUE, "busy")
  <2>1. "FAILED" \in Kinds /\ races' # {}
    BY <1>3 DEF Kinds, Mishap, Note
  <2> QED
    BY <1>1, <1>3, <2>1, ApplyMove
<1> QED
  BY <1>2, <1>3 DEF SettleBusy

(* The newest attempt is one that was opened.                               *)
LEMMA LatestOpened ==
  ASSUME TypeOK, InOrder, NEW o \in Opened
  PROVE  Latest \in Opened
<1>1. PICK n \in Orders : \A a \in Attempts : attempt[a].status # "none" <=> a <= n
  BY DEF InOrder
<1>2. o \in Attempts /\ o <= n
  BY <1>1 DEF Opened
<1>3. n \in Attempts
  BY <1>2, CheckoutAssumption DEF Orders, Attempts
<1>4. \A c \in Attempts : c > n => attempt[c].status = "none"
  BY <1>1, <1>3 DEF Attempts
<1>5. attempt[n].status # "none"
  BY <1>1, <1>3 DEF Attempts
<1> QED
  BY <1>3, <1>4, <1>5 DEF Latest, Opened

(* markPaymentFailed writes only if the payment tracks the order.           *)
LEMMA MarkFailedEffect ==
  ASSUME TypeOK, InOrder, NEW r \in Requests, job[r].ord \in Opened, MarkFailed(r)
  PROVE  /\ JobMove(r) /\ events' \subseteq events /\ UNCHANGED paypal
         /\ job[r].at = "apply" /\ job[r].st \in {"FAILED", "CANCELED"}
         /\ \/ UNCHANGED <<booking, payment, attempt>>
            \/ /\ Tracks(job[r].ord) /\ PaymentFails /\ AttemptsKept
               /\ booking' \in BookingRow /\ booking'.status = "payment_failed"
<1>1. /\ job[r].at = "apply" /\ job[r].st \in {"FAILED", "CANCELED"}
      /\ events' \subseteq events /\ UNCHANGED paypal
  BY DEF MarkFailed, Processed
<1>2. JobMove(r)
  <2>1. Tracks(job[r].ord) /\ job[r].op = "checkout" => Reopens(r)
    BY <1>1 DEF Reopens, Before
  <2> QED
    BY <2>1, EndOrOpenMove DEF MarkFailed
<1>3. CASE ~Tracks(job[r].ord)
  BY <1>1, <1>2, <1>3 DEF MarkFailed, db
<1>4. CASE Tracks(job[r].ord)
  <2>1. AttemptsKept
    BY <1>4, LatestOpened, AttemptSet DEF MarkFailed
  <2>2. PaymentFails
    BY <1>4, PaymentSet DEF MarkFailed
  <2>3. booking' \in BookingRow /\ booking'.status = "payment_failed"
    BY <1>4, BookingSet DEF MarkFailed, PAYABLE
  <2> QED
    BY <1>1, <1>2, <1>4, <2>1, <2>2, <2>3
<1> QED
  BY <1>3, <1>4

(* A failed attempt, its payment and its booking.                           *)
Recorded ==
    /\ AttemptsKept /\ PaymentFails
    /\ booking' \in BookingRow
    /\ booking' = booking \/ booking'.status = "payment_failed"

(* Writing nothing is within what a failure may record.                     *)
LEMMA NothingRecorded ==
  ASSUME TypeOK, UNCHANGED <<booking, payment, attempt>>
  PROVE  Recorded
  BY AttemptsSame DEF TypeOK, Recorded, PaymentFails, PaymentRow, BookingRow

(* recordAttemptFailure.                                                    *)
LEMMA FailureEffect ==
  ASSUME TypeOK, NEW a \in Opened, NEW retryable, RecordFailure(a, retryable)
  PROVE  Recorded
<1> DEFINE status == IF retryable /\ attempt[a].retries + 1 < MaxRetries
                     THEN "failed_retryable" ELSE "failed_final"
           n == IF attempt[a].retries < MaxRetries THEN attempt[a].retries + 1
                ELSE attempt[a].retries
           row == [attempt[a] EXCEPT !.status = status, !.retries = n]
<1>1. CASE UNCHANGED db
  BY <1>1, NothingRecorded DEF db
<1>2. CASE /\ attempt' = [attempt EXCEPT ![a].status = status,
                                         ![a].retries = IF @ < MaxRetries THEN @ + 1 ELSE @]
           /\ payment' = [payment EXCEPT !.status = status]
           /\ booking' = [booking EXCEPT !.status = "payment_failed"]
  <2>1. a \in Attempts /\ attempt[a] \in AttemptRow /\ attempt[a].status # "none"
    BY DEF TypeOK, Opened, AttemptRow
  <2>2. status \in {"failed_retryable", "failed_final"}
    OBVIOUS
  <2> HIDE DEF status
  <2>3. attempt' = [attempt EXCEPT ![a] = row]
    BY <1>2, <2>1, <2>2 DEF TypeOK, AttemptRow
  <2>4. n \in Nat
    BY <2>1, CheckoutAssumption DEF AttemptRow
  <2> HIDE DEF n
  <2>5. row \in AttemptRow /\ row.status = status
    BY <2>1, <2>2, <2>4 DEF AttemptRow
  <2> HIDE DEF row
  <2>6. attempt'[a] = row /\ \A x \in Attempts : x # a => attempt'[x] = attempt[x]
    BY <2>1, <2>3 DEF TypeOK
  <2>7. attempt' \in [Attempts -> AttemptRow]
    BY <2>3, <2>5 DEF TypeOK, AttemptRow
  <2>8. AttemptsKept
    BY <2>1, <2>2, <2>5, <2>6, <2>7 DEF AttemptsKept
  <2>9. PaymentFails
    BY <1>2, <2>2, PaymentSet
  <2>10. booking' \in BookingRow /\ booking'.status = "payment_failed"
    BY <1>2, BookingSet DEF PAYABLE
  <2> QED
    BY <2>8, <2>9, <2>10 DEF Recorded
<1> QED
  BY <1>1, <1>2 DEF RecordFailure

(* The order of an attempt is created, or was, or its failure is recorded.  *)
LEMMA CreateOrderEffect ==
  ASSUME TypeOK, NEW r \in Requests, job[r].att \in Opened, CreateOrder(r)
  PROVE  /\ JobMove(r) /\ job[r].at = "session" /\ UNCHANGED events /\ Recorded
         /\ job'[r].at \in {"idle", "attach"}
         /\ paypal' \in [Attempts -> States]
         /\ \A x \in Attempts : \/ paypal'[x] = paypal[x]
                                \/ /\ x = job[r].att /\ paypal[x] = "none"
                                   /\ paypal'[x] = "created"
<1>1. job[r].at = "session" /\ UNCHANGED events /\ job[r] \in Job
  BY DEF CreateOrder, TypeOK
<1>2. /\ paypal' \in [Attempts -> States]
      /\ \A x \in Attempts : \/ paypal'[x] = paypal[x]
                             \/ x = job[r].att /\ paypal[x] = "none" /\ paypal'[x] = "created"
  BY DEF CreateOrder, TypeOK, States, Opened
<1>3. CASE Goto(r, [job[r] EXCEPT !.at = "attach"]) /\ UNCHANGED db
  <2> DEFINE n == [job[r] EXCEPT !.at = "attach"]
  <2>1. n \in Job /\ n.at = "attach" /\ n.op = job[r].op /\ n.att = job[r].att
    BY <1>1, MovedJob
  <2> HIDE DEF n
  <2>2. JobType /\ OthersKept(r) /\ job'[r] = n /\ lock' = lock
    BY <1>3, <2>1, GotoStep DEF n
  <2>3. Continues(r)
    BY <1>1, <2>1, <2>2 DEF Continues
  <2>4. JobMove(r)
    BY <2>2, <2>3 DEF JobMove
  <2>5. Recorded
    BY <1>3, NothingRecorded DEF db
  <2> QED
    BY <1>1, <1>2, <2>1, <2>2, <2>4, <2>5
<1>4. ASSUME NEW retryable, RecordFailure(job[r].att, retryable), Done(r)
      PROVE  JobMove(r) /\ Recorded /\ job'[r].at = "idle"
  BY <1>4, DoneMove, DoneStep, IdleJob, FailureEffect
<1> QED
  BY <1>1, <1>2, <1>3, <1>4 DEF CreateOrder

(* attachPaymentSession makes the attempt's order the payment's, or records
   a failure.                                                               *)
LEMMA AttachEffect ==
  ASSUME TypeOK, NEW r \in Requests, job[r].att \in Opened, Attach(r)
  PROVE  /\ JobMove(r) /\ job'[r] = Idle /\ job[r].at = "attach" /\ UNCHANGED <<paypal, events>>
         /\ \/ /\ AttemptsKept
               /\ payment' = [status |-> "processing", order |-> job[r].att, capture |-> 0]
               /\ booking' \in BookingRow /\ booking'.status = "payment_processing"
            \/ Recorded
<1> DEFINE a == job[r].att
<1>1. job[r].at = "attach" /\ UNCHANGED <<paypal, events>> /\ Done(r)
  BY DEF Attach, outside
<1>2. JobMove(r) /\ job'[r] = Idle
  BY <1>1, DoneMove, DoneStep
<1>3. CASE RecordFailure(a, FALSE)
  BY <1>1, <1>2, <1>3, FailureEffect
<1>4. CASE /\ attempt' = [attempt EXCEPT ![a].status = "processing", ![a].ordered = TRUE]
           /\ payment' = [status |-> "processing", order |-> a, capture |-> 0]
           /\ booking' = [booking EXCEPT !.status = "payment_processing"]
  <2> DEFINE row == [attempt[a] EXCEPT !.status = "processing", !.ordered = TRUE]
  <2>1. a \in Attempts /\ attempt[a] \in AttemptRow /\ attempt[a].status # "none"
    BY DEF TypeOK, Opened, AttemptRow
  <2>2. attempt' = [attempt EXCEPT ![a] = row]
    BY <1>4, <2>1 DEF TypeOK, AttemptRow
  <2>3. row \in AttemptRow /\ row.status = "processing"
    BY <2>1 DEF AttemptRow
  <2> HIDE DEF row
  <2>4. attempt'[a] = row /\ \A x \in Attempts : x # a => attempt'[x] = attempt[x]
    BY <2>1, <2>2 DEF TypeOK
  <2>5. attempt' \in [Attempts -> AttemptRow]
    BY <2>2, <2>3 DEF TypeOK, AttemptRow
  <2>6. AttemptsKept
    BY <2>1, <2>3, <2>4, <2>5 DEF AttemptsKept
  <2>7. booking' \in BookingRow /\ booking'.status = "payment_processing"
    BY <1>4, BookingSet DEF PAYABLE
  <2> QED
    BY <1>1, <1>2, <1>4, <2>6, <2>7
<1> QED
  BY <1>3, <1>4 DEF Attach

(* The retry worker reopens a retryable attempt without the lock.           *)
LEMMA RetryEffect ==
  ASSUME TypeOK, NEW r \in Requests, NEW a \in Attempts, BeginRetry(r, a)
  PROVE  /\ JobType /\ OthersKept(r) /\ lock' = lock /\ UNCHANGED <<paypal, events>>
         /\ job'[r].op = "retry" /\ job'[r].at = "session" /\ job'[r].att = a
         /\ attempt[a].status = "failed_retryable" /\ AttemptsKept /\ PaymentFails
         /\ booking' \in BookingRow /\ booking'.status = "payment_processing"
         /\ "retry" \in races' \/ (lock = Nobody /\ NoneCharged)
<1> DEFINE n == [Idle EXCEPT !.op = "retry", !.at = "session", !.att = a]
<1>1. n \in Job /\ n.at = "session" /\ n.op = "retry" /\ n.att = a
  BY RetryJob
<1> HIDE DEF n
<1>2. JobType /\ OthersKept(r) /\ job'[r] = n /\ lock' = lock
  BY <1>1, GotoStep DEF BeginRetry, n
<1>3. attempt[a].status = "failed_retryable" /\ a \in Opened
  BY DEF BeginRetry, Opened
<1>4. AttemptsKept
  BY <1>3, AttemptSet DEF BeginRetry
<1>5. PaymentFails
  BY PaymentSet DEF BeginRetry
<1>6. booking' \in BookingRow /\ booking'.status = "payment_processing"
  BY BookingSet DEF BeginRetry, PAYABLE
<1>7. "retry" \in races' \/ (lock = Nobody /\ NoneCharged)
  BY DEF BeginRetry, Mishap, Note, NoneCharged, ChargedOrders, Charged
<1> QED
  BY <1>1, <1>2, <1>3, <1>4, <1>5, <1>6, <1>7 DEF BeginRetry, outside

(* The later writes of the retry worker are noted as well.                  *)
LEMMA RetryWrites ==
  ASSUME NEW r \in Requests, job[r].op = "retry", CreateOrder(r) \/ Attach(r)
  PROVE  \/ "retry" \in races' \/ (lock = Nobody /\ NoneCharged)
         \/ UNCHANGED <<booking, payment, attempt>>
<1>1. UNCHANGED db \/ NoteRetry(r)
  BY DEF CreateOrder, Attach
<1> QED
  BY <1>1 DEF NoteRetry, NoteIf, Note, NoneCharged, ChargedOrders, Charged, db

(* The attempt that a checkout opens is the next one.                       *)
LEMMA OpenEffect ==
  ASSUME TypeOK, InOrder, Free, NEW r \in Requests, OpenAttempt(r)
  PROVE  /\ job[r].at = "open" /\ UNCHANGED <<booking, paypal, events>>
         /\ \/ JobMove(r) /\ UNCHANGED <<payment, attempt>>
            \/ /\ CanOpen(job[r]) /\ JobType /\ OthersKept(r) /\ lock' = lock
               /\ job'[r].at = "session" /\ job'[r].op = job[r].op
               /\ job'[r].att \in Opened' /\ InOrder' /\ Opened \subseteq Opened'
               /\ attempt' \in [Attempts -> AttemptRow]
               /\ payment' \in PaymentRow /\ payment'.capture = payment.capture
               /\ payment'.order \in {0, payment.order}
               /\ payment'.status \in CAPTURED => payment'.status = payment.status
<1> DEFINE new == CHOOSE a \in Attempts :
                     /\ attempt[a].status = "none"
                     /\ \A c \in Attempts : c < a => attempt[c].status # "none"
           order == IF InFlight THEN 0 ELSE payment.order
           stops(a) == /\ InFlight
                       /\ attempt[a].status \in {"pending", "processing", "failed_retryable"}
<1>1. job[r].at = "open" /\ UNCHANGED <<booking, paypal, events>> /\ job[r] \in Job
  BY DEF OpenAttempt, outside, db, TypeOK
<1>2. CASE Done(r) /\ UNCHANGED db
  BY <1>1, <1>2, DoneMove DEF db
<1>3. CASE /\ CanOpen(job[r])
           /\ attempt' = [a \in Attempts |->
                 CASE a = new -> [attempt[a] EXCEPT !.status = "pending"]
                   [] stops(a) -> [attempt[a] EXCEPT !.status = "superseded"]
                   [] OTHER -> attempt[a]]
           /\ payment' = [payment EXCEPT !.order = order,
                            !.status = IF InFlight \/ @ = "none" THEN "awaiting_method" ELSE @]
           /\ Goto(r, [job[r] EXCEPT !.at = "session", !.att = new, !.exp = order])
  <2>1. PICK n \in Orders : \A a \in Attempts : attempt[a].status # "none" <=> a <= n
    BY DEF InOrder
  <2>2. n + 1 \in Attempts /\ n \in Nat /\ n + 1 \in Orders
    BY <2>1, CheckoutAssumption DEF Free, Attempts, Orders
  <2>3. new = n + 1
    <3>1. attempt[n + 1].status = "none" /\ \A c \in Attempts : c < n + 1 => attempt[c].status # "none"
      BY <2>1, <2>2, CheckoutAssumption DEF Attempts
    <3>2. ASSUME NEW a \in Attempts, attempt[a].status = "none",
                 \A c \in Attempts : c < a => attempt[c].status # "none"
          PROVE  a = n + 1
      <4>1. a \in Nat /\ ~(a <= n) /\ ~(n + 1 < a)
        BY <2>1, <2>2, <3>1, <3>2, CheckoutAssumption DEF Attempts
      <4> QED
        BY <2>2, <4>1
    <3> QED
      BY <2>2, <3>1, <3>2
  <2> HIDE DEF new
  <2>4. order \in Orders /\ order \in {0, payment.order}
    BY OrderType, CheckoutAssumption DEF Orders
  <2> HIDE DEF order
  <2>5. /\ JobType /\ OthersKept(r) /\ lock' = lock
        /\ job'[r].at = "session" /\ job'[r].op = job[r].op /\ job'[r].att = n + 1
    <3> DEFINE j == [job[r] EXCEPT !.at = "session", !.att = new, !.exp = order]
    <3>1. n + 1 \in Orders
      BY <2>2
    <3>2. j \in Job /\ j.at = "session" /\ j.op = job[r].op /\ j.att = n + 1
      BY <1>1, <2>3, <2>4, <3>1 DEF Job
    <3> HIDE DEF j
    <3>3. Goto(r, j)
      BY <1>3 DEF j
    <3> QED
      BY <3>2, <3>3, GotoStep
  <2>6. ASSUME NEW a \in Attempts
        PROVE  /\ attempt'[a] \in AttemptRow
               /\ attempt'[a].status = "none" <=> attempt[a].status = "none" /\ a # n + 1
    <3>1. attempt[a] \in AttemptRow
      BY DEF TypeOK, AttemptRow
    <3>2. CASE a = n + 1
      <4>0. ~stops(a)
        BY <2>1, <2>2, <3>2
      <4>1. attempt'[a] = [attempt[a] EXCEPT !.status = "pending"]
        BY <1>3, <2>3, <3>2, <4>0
      <4> QED
        BY <3>1, <3>2, <4>1 DEF AttemptRow
    <3>3. CASE a # n + 1 /\ stops(a)
      <4>1. attempt'[a] = [attempt[a] EXCEPT !.status = "superseded"]
        BY <1>3, <2>3, <3>3
      <4> QED
        BY <3>1, <3>3, <4>1 DEF AttemptRow
    <3>4. CASE a # n + 1 /\ ~stops(a)
      <4>1. attempt'[a] = attempt[a]
        BY <1>3, <2>3, <3>4
      <4> QED
        BY <3>1, <3>4, <4>1
    <3> QED
      BY <3>2, <3>3, <3>4
  <2>7. attempt' \in [Attempts -> AttemptRow]
    BY <1>3, <2>6
  <2>8. InOrder'
    <3>1. \A a \in Attempts : attempt'[a].status # "none" <=> a <= n + 1
      BY <2>1, <2>2, <2>6, CheckoutAssumption DEF Attempts
    <3> QED
      BY <2>2, <3>1 DEF InOrder
  <2>9. n + 1 \in Opened' /\ Opened \subseteq Opened'
    BY <2>2, <2>6 DEF Opened
  <2>10. /\ payment' \in PaymentRow /\ payment'.capture = payment.capture
         /\ payment'.order = order
         /\ payment'.status \in CAPTURED => payment'.status = payment.status
    BY <1>3, <2>4 DEF TypeOK, PaymentRow, CAPTURED
  <2> QED
    BY <1>1, <1>3, <2>4, <2>5, <2>6, <2>7, <2>8, <2>9, <2>10
<1> QED
  BY <1>2, <1>3 DEF OpenAttempt

(* PayPal and the buyer.                                                    *)
LEMMA PayPalEffect ==
  ASSUME TypeOK, NEW o \in Attempts, BuyerApproves(o) \/ OrderVoided(o) \/ CaptureSettles(o)
  PROVE  /\ UNCHANGED <<booking, payment, attempt, lock, job>> /\ paypal[o] # "none"
         /\ paypal' \in [Attempts -> States] /\ events' \subseteq Events
         /\ paypal[o] \notin {"completed", "refunded", "declined", "voided", "none"}
         /\ paypal'[o] \in {"approved", "unfit", "voided", "completed", "declined"}
         /\ paypal'[o] \in {"completed", "declined"} => paypal[o] = "pending"
         /\ \A x \in Attempts : x # o => paypal'[x] = paypal[x]
         /\ \A e \in events' : e \in events \/
              (e.order = o /\ e.kind = CASE paypal'[o] = "voided" -> "CANCELED"
                                         [] paypal'[o] = "completed" -> "COMPLETED"
                                         [] paypal'[o] = "declined" -> "FAILED"
                                         [] OTHER -> "APPROVED")
<1>0. /\ {"approved", "unfit", "voided", "completed", "declined"} \subseteq States
      /\ {"APPROVED", "CANCELED", "COMPLETED", "FAILED"} \subseteq Kinds
  BY DEF States, Kinds
<1>1. CASE BuyerApproves(o)
  BY <1>0, <1>1, MovesEffect DEF BuyerApproves, db
<1>2. CASE OrderVoided(o)
  BY <1>0, <1>2, MovesEffect DEF OrderVoided, db
<1>3. CASE CaptureSettles(o)
  BY <1>0, <1>3, MovesEffect DEF CaptureSettles, db
<1> QED
  BY <1>1, <1>2, <1>3

(* The refund and the cancellation, which take no dates into account.       *)
LEMMA RefundEffect ==
  ASSUME TypeOK, Refund \/ CancelBooking
  PROVE  /\ UNCHANGED <<attempt, events, lock, job>>
         /\ booking' \in BookingRow
         /\ booking'.status \in {"refunded", "cancelled"}
         /\ Refund \/ lock = Nobody
         /\ \/ UNCHANGED <<payment, paypal>>
            \/ /\ payment.capture \in Attempts /\ paypal[payment.capture] = "completed"
               /\ payment' \in PaymentRow /\ payment'.order = payment.order
               /\ payment'.capture = payment.capture
               /\ paypal' \in [Attempts -> States] /\ paypal'[payment.capture] = "refunded"
               /\ \A x \in Attempts : x # payment.capture => paypal'[x] = paypal[x]
<1>1. UNCHANGED <<attempt, events, lock, job>> /\ (Refund \/ lock = Nobody)
  BY DEF Refund, CancelBooking
<1>2. booking' \in BookingRow /\ booking'.status \in {"refunded", "cancelled"}
  BY DEF Refund, CancelBooking, TypeOK, BookingRow
<1>3. CASE UNCHANGED <<payment, paypal>>
  BY <1>1, <1>2, <1>3
<1>4. CASE /\ payment.capture # 0 /\ paypal[payment.capture] = "completed"
           /\ payment' = [payment EXCEPT !.status = "refunded"]
           /\ paypal' = [paypal EXCEPT ![payment.capture] = "refunded"]
  <2> DEFINE c == payment.capture
  <2>1. c \in Attempts
    BY <1>4, OrderType, CheckoutAssumption DEF Orders, Attempts
  <2>2. payment' \in PaymentRow /\ payment'.order = payment.order /\ payment'.capture = c
    BY <1>4 DEF TypeOK, PaymentRow, CAPTURED
  <2> HIDE DEF c
  <2>3. /\ paypal' \in [Attempts -> States] /\ paypal'[c] = "refunded"
        /\ \A x \in Attempts : x # c => paypal'[x] = paypal[x]
    BY <1>4, <2>1 DEF TypeOK, States, c
  <2> QED
    BY <1>1, <1>2, <1>4, <2>1, <2>2, <2>3 DEF c
<1> QED
  BY <1>3, <1>4 DEF Refund, CancelBooking

(* The hold lapses, or the booking expires.                                 *)
LEMMA TimeEffect ==
  ASSUME TypeOK, HoldLapses \/ Expire
  PROVE  /\ UNCHANGED <<payment, attempt, paypal, events, lock, job>>
         /\ booking' \in BookingRow /\ Shut'
         /\ booking'.status # booking.status =>
               booking.status \in PAYABLE /\ booking'.status = "expired"
  BY DEF HoldLapses, Expire, TypeOK, BookingRow, outside, Shut, PAYABLE

-----------------------------------------------------------------------------
(* The steps, sorted by what they change.                                   *)

(* A step that only moves a job or drops an event; it gives up a charge that is
   to be recorded only if the database shows it, or in a race.              *)
QuietMove(r) ==
    /\ JobMove(r) \/ UNCHANGED <<job, lock>>
    /\ job[r].at = "apply" /\ job[r].st = "COMPLETED" => races' # {} \/ ~Unrecorded(job[r].ord)
    /\ events' \subseteq events /\ UNCHANGED <<booking, payment, attempt, paypal>>

(* What a job names was opened, and a job about to open an attempt can.     *)
LEMMA JobRefs ==
  ASSUME TypeInv, NEW r \in Requests
  PROVE  /\ job[r].at \in {"event", "status", "approved", "capture", "apply"} =>
               job[r].ord \in Opened
         /\ job[r].at \in {"session", "attach"} => job[r].att \in Opened
         /\ job[r].at = "open" => job[r].op = "checkout" /\ lock = r /\ Free
         /\ Opened \subseteq Attempts /\ TypeOK /\ RefsOpened /\ InOrder
  BY DEF TypeInv, Shape, Opened, Free, Before

(* The kinds of steps: moves that write nothing, the steps that write rows,
   and those of PayPal, the clock and other parts.                          *)
LEMMA StepCases ==
  ASSUME TypeInv, Next
  PROVE  \/ \E r \in Requests :
               \/ QuietMove(r) \/ RejectOrder(r) \/ CaptureOrder(r) \/ Settle(r) \/ MarkFailed(r)
               \/ OpenAttempt(r) \/ CreateOrder(r) \/ Attach(r)
               \/ \E a \in Attempts : BeginRetry(r, a)
         \/ \E o \in Attempts : BuyerApproves(o) \/ OrderVoided(o) \/ CaptureSettles(o)
         \/ Refund \/ CancelBooking \/ HoldLapses \/ Expire
<1>1. ASSUME NEW r \in Requests,
             \/ BeginCapture(r) \/ BeginCancel(r) \/ BeginReconcile(r) \/ ListRepair(r)
             \/ BeginRepair(r)
      PROVE  QuietMove(r)
  BY <1>1, JobRefs, IdleJob, BeginMove
  DEF QuietMove, BeginCapture, BeginCancel, BeginReconcile, ListRepair, BeginRepair
<1>2. ASSUME NEW r \in Requests, BeginCheckout(r) PROVE QuietMove(r)
  BY <1>2, JobRefs, IdleJob, CheckoutMove DEF QuietMove, BeginCheckout
<1>3. ASSUME NEW r \in Requests, NEW a \in Attempts, BeginReplay(r, a) PROVE QuietMove(r)
  BY <1>3, JobRefs, IdleJob, ReplayMove DEF QuietMove, BeginReplay
<1>4. ASSUME NEW r \in Requests, NEW e \in events, ReceiveEvent(r, e) PROVE QuietMove(r)
  BY <1>4, JobRefs, IdleJob, ReceiveMove DEF QuietMove, ReceiveEvent
<1>5. ASSUME NEW r \in Requests, LockEvent(r) \/ EventRefused(r) PROVE QuietMove(r)
  BY <1>5, JobRefs, LockEventMove DEF QuietMove, LockEvent, EventRefused
<1>6. ASSUME NEW r \in Requests, GetStatus(r) PROVE QuietMove(r)
  <2>1. job[r].ord \in Attempts /\ TypeOK
    BY <1>6, JobRefs DEF GetStatus
  <2> QED
    BY <1>6, <2>1, GetStatusMove DEF QuietMove, GetStatus
<1>7. ASSUME NEW r \in Requests, EnterCapture(r) PROVE QuietMove(r)
  <2>1. job[r].ord \in Attempts /\ TypeOK
    BY <1>7, JobRefs DEF EnterCapture
  <2> QED
    BY <1>7, <2>1, EnterMove DEF QuietMove, EnterCapture
<1>8. ASSUME NEW r \in Requests, SettleBusy(r) PROVE QuietMove(r)
  BY <1>8, JobRefs, BusyMove DEF QuietMove, SettleBusy
<1>9. ASSUME NEW r \in Requests, Crash(r) PROVE QuietMove(r)
  BY <1>9, JobRefs, DoneMove DEF QuietMove, Crash, Mishap, Note, db, outside
<1> QED
  BY <1>1, <1>2, <1>3, <1>4, <1>5, <1>6, <1>7, <1>8, <1>9 DEF Next, JobStep

-----------------------------------------------------------------------------
(* Type correctness.                                                        *)

HistoryType ==
    /\ races \subseteq races' /\ races' \subseteq Races
    /\ mishaps' \in 0 .. MaxMishaps

(* A race that happened is remembered.                                      *)
LEMMA NotesKept ==
  ASSUME TypeOK, NEW h, NEW race \in Races,
         UNCHANGED history \/ NoteIf(h, race) \/ Mishap(h, race)
  PROVE  HistoryType
<1>1. races' \in {races, races \cup {race}}
  BY DEF history, NoteIf, Mishap, Note
<1>2. mishaps' = mishaps \/ (mishaps < MaxMishaps /\ mishaps' = mishaps + 1)
  BY DEF history, NoteIf, Mishap
<1> QED
  BY <1>1, <1>2, CheckoutAssumption DEF TypeOK, HistoryType

(* Every step keeps the history.                                            *)
LEMMA HistoryStep ==
  ASSUME TypeOK, Next
  PROVE  HistoryType
<1>0. {"stale", "retry", "replay", "dropped", "busy", "pend", "gone"} \subseteq Races
  BY DEF Races
<1>1. CASE UNCHANGED history
  BY <1>0, <1>1, NotesKept
<1>2. ASSUME NEW r \in Requests,
             \/ BeginCapture(r) \/ BeginCancel(r) \/ BeginReconcile(r) \/ ListRepair(r)
             \/ BeginRepair(r) \/ BeginCheckout(r) \/ EventRefused(r) \/ EnterCapture(r)
             \/ RejectOrder(r) \/ MarkFailed(r) \/ OpenAttempt(r)
             \/ \E e \in events : ReceiveEvent(r, e)
      PROVE  UNCHANGED history
  BY <1>2 DEF BeginCapture, BeginCancel, BeginReconcile, ListRepair, BeginRepair, BeginCheckout,
              EventRefused, EnterCapture, RejectOrder, MarkFailed, OpenAttempt, ReceiveEvent
<1>3. ASSUME NEW r \in Requests, LockEvent(r) PROVE HistoryType
  BY <1>0, <1>3, NotesKept DEF LockEvent
<1>4. ASSUME NEW r \in Requests, GetStatus(r) PROVE HistoryType
  BY <1>0, <1>1, <1>4, NotesKept DEF GetStatus
<1>5. ASSUME NEW r \in Requests, CaptureOrder(r) PROVE HistoryType
  BY <1>0, <1>1, <1>5, NotesKept DEF CaptureOrder
<1>6. ASSUME NEW r \in Requests, Settle(r) \/ SettleBusy(r) PROVE HistoryType
  BY <1>0, <1>6, NotesKept DEF Settle, SettleBusy
<1>7. ASSUME NEW r \in Requests, CreateOrder(r) \/ Attach(r) PROVE HistoryType
  BY <1>0, <1>1, <1>7, NotesKept DEF CreateOrder, Attach, NoteRetry
<1>8. ASSUME NEW r \in Requests, Crash(r) \/ \E a \in Attempts : BeginReplay(r, a) \/ BeginRetry(r, a)
      PROVE  HistoryType
  BY <1>0, <1>8, NotesKept DEF Crash, BeginReplay, BeginRetry
<1>9. CASE \/ \E o \in Attempts : BuyerApproves(o) \/ OrderVoided(o) \/ CaptureSettles(o)
           \/ Refund \/ CancelBooking \/ HoldLapses \/ Expire
  BY <1>1, <1>9
  DEF BuyerApproves, OrderVoided, CaptureSettles, Refund, CancelBooking, HoldLapses, Expire
<1> QED
  BY <1>1, <1>2, <1>3, <1>4, <1>5, <1>6, <1>7, <1>8, <1>9 DEF Next, JobStep

RowsType ==
    /\ booking' \in BookingRow /\ payment' \in PaymentRow
    /\ attempt' \in [Attempts -> AttemptRow] /\ paypal' \in [Attempts -> States]
    /\ events' \subseteq Events /\ HistoryType

(* Rows and jobs make up the type.                                          *)
LEMMA TypeRows ==
  /\ RowsType /\ JobType => TypeOK'
  /\ TypeOK => /\ booking \in BookingRow /\ payment \in PaymentRow
               /\ attempt \in [Attempts -> AttemptRow] /\ paypal \in [Attempts -> States]
               /\ events \subseteq Events
               /\ job \in [Requests -> Job] /\ lock \in Requests \cup {Nobody}
  BY DEF RowsType, HistoryType, JobType, TypeOK, BookingRow, PaymentRow, AttemptRow, States

(* Kept attempts are opened as before.                                      *)
LEMMA KeptOpened ==
  ASSUME AttemptsKept
  PROVE  Opened' = Opened /\ (Free => Free') /\ (InOrder => InOrder')
  BY DEF AttemptsKept, Opened, Free, InOrder

(* A move leaves every job in shape, its own included.                      *)
LEMMA MoveShapes ==
  ASSUME TypeInv, NEW r \in Requests, JobMove(r), Opened \subseteq Opened', Free => Free'
  PROVE  \A q \in Requests : Shape(q)'
<1>1. ASSUME NEW q \in Requests, q # r PROVE Shape(q)'
  BY <1>1 DEF TypeInv, JobMove, OthersKept, Shape, Free
<1> USE DEF Before
<1>2. Shape(r) /\ \A e \in events : e.order \in Opened
  BY DEF TypeInv, RefsOpened
<1>3. CASE job'[r] = Idle
  BY <1>1, <1>3, IdleJob DEF Shape
<1>4. CASE job'[r].at = "listed" /\ job'[r].op = "reconcile"
  BY <1>1, <1>4 DEF Shape
<1>5. CASE Starts(r)
  <2>1. Shape(r)'
    BY <1>5 DEF Shape, Starts, Free
  <2> QED
    BY <1>1, <2>1
<1>6. CASE Hears(r)
  <2>1. Shape(r)'
    BY <1>2, <1>6 DEF Shape, Hears
  <2> QED
    BY <1>1, <2>1
<1>7. CASE LocksEvent(r)
  <2>1. Shape(r)'
    BY <1>2, <1>7 DEF Shape, LocksEvent
  <2> QED
    BY <1>1, <2>1
<1>8. CASE Continues(r)
  <2>1. Shape(r)'
    BY <1>2, <1>8 DEF Shape, Continues, Reopens, Free
  <2> QED
    BY <1>1, <2>1
<1> QED
  BY <1>3, <1>4, <1>5, <1>6, <1>7, <1>8 DEF JobMove

(* So does a step in which no job moves.                                    *)
LEMMA SameShapes ==
  ASSUME TypeInv, UNCHANGED <<job, lock>>, Opened \subseteq Opened', Free => Free'
  PROVE  \A q \in Requests : Shape(q)'
  BY DEF TypeInv, Shape, Free

(* References stay among the opened attempts.                               *)
LEMMA RefsKept ==
  ASSUME RefsOpened, Opened \subseteq Opened',
         {payment'.order, payment'.capture} \subseteq Opened' \cup {0},
         \A o \in Attempts : paypal'[o] # "none" => paypal[o] # "none" \/ o \in Opened',
         \A e \in events' : e \in events \/ e.order \in Opened'
  PROVE  RefsOpened'
  BY DEF RefsOpened

(* The rows stay well formed and refer to attempts that were opened.        *)
RowsStep ==
    /\ RowsType /\ AttemptsKept
    /\ {payment'.order, payment'.capture} \subseteq Opened \cup {0}
    /\ \A o \in Attempts : paypal'[o] # "none" => paypal[o] # "none" \/ o \in Opened
    /\ \A e \in events' : e \in events \/ e.order \in Opened

(* A step of the rows and a move together keep TypeInv.                     *)
LEMMA RowsInv ==
  ASSUME TypeInv, RowsStep, (\E r \in Requests : JobMove(r)) \/ UNCHANGED <<job, lock>>
  PROVE  TypeInv'
<1>1. Opened' = Opened /\ (Free => Free') /\ InOrder'
  BY KeptOpened DEF RowsStep, TypeInv
<1>2. RefsOpened'
  BY <1>1, RefsKept DEF RowsStep, TypeInv
<1>3. JobType
  BY TypeRows DEF JobMove, JobType, TypeInv
<1>4. TypeOK'
  BY <1>3, TypeRows DEF RowsStep
<1>5. \A q \in Requests : Shape(q)'
  BY <1>1, MoveShapes, SameShapes
<1> QED
  BY <1>1, <1>2, <1>4, <1>5 DEF TypeInv

(* Every step keeps TypeInv.                                                *)
LEMMA TypeStep ==
  ASSUME TypeInv, Next
  PROVE  TypeInv'
<1>0. /\ TypeOK /\ RefsOpened /\ InOrder /\ Opened \subseteq Attempts
      /\ booking \in BookingRow /\ payment \in PaymentRow
      /\ attempt \in [Attempts -> AttemptRow] /\ paypal \in [Attempts -> States]
      /\ events \subseteq Events
      /\ {payment.order, payment.capture} \subseteq Opened \cup {0} /\ HistoryType
  BY TypeRows, HistoryStep DEF TypeInv, RefsOpened, Opened
<1>1. ASSUME NEW r \in Requests, QuietMove(r) PROVE TypeInv'
  <2>1. RowsStep
    BY <1>0, <1>1, AttemptsSame DEF QuietMove, RowsStep, RowsType
  <2> QED
    BY <1>1, <2>1, RowsInv DEF QuietMove
<1>2. ASSUME NEW r \in Requests, RejectOrder(r) PROVE TypeInv'
  <2>1. job[r].ord \in Opened
    BY <1>2, JobRefs DEF RejectOrder
  <2>2. RowsStep
    BY <1>0, <1>2, <2>1, RejectEffect DEF RowsStep, RowsType, AttemptsKept, PaymentFails
  <2> QED
    BY <1>0, <1>2, <2>1, <2>2, RejectEffect, RowsInv
<1>3. ASSUME NEW r \in Requests, CaptureOrder(r) PROVE TypeInv'
  <2> DEFINE o == job[r].ord
  <2>1. o \in Opened /\ o \in Attempts
    BY <1>0, <1>3, JobRefs DEF CaptureOrder
  <2>2. JobMove(r) /\ UNCHANGED <<booking, payment, attempt>>
    BY <1>0, <1>3, <2>1, CaptureEffect
  <2>3. /\ paypal' \in [Attempts -> States] /\ events' \subseteq Events
        /\ \A x \in Attempts : x # o => paypal'[x] = paypal[x]
        /\ \A e \in events' : e \in events \/ e.order = o
    <3>1. CASE UNCHANGED paypal /\ events' \subseteq events
      BY <1>0, <3>1
    <3>2. CASE paypal' = [paypal EXCEPT ![o] = "pending"] /\ events' \subseteq events
      BY <1>0, <2>1, <3>2 DEF States
    <3>3. CASE \/ PayPalMoves(o, "completed", "COMPLETED")
               \/ PayPalMoves(o, "declined", "FAILED")
      BY <1>0, <2>1, <3>3, MovesEffect DEF States, Kinds
    <3> QED
      BY <1>0, <1>3, <2>1, <3>1, <3>2, <3>3, CaptureEffect
  <2> HIDE DEF o
  <2>4. RowsStep
    BY <1>0, <2>1, <2>2, <2>3, AttemptsSame DEF RowsStep, RowsType
  <2> QED
    BY <2>2, <2>4, RowsInv
<1>4. ASSUME NEW r \in Requests, Settle(r) PROVE TypeInv'
  <2>0. job[r].ord \in Opened /\ job[r].ord \in Attempts
    BY <1>0, <1>4, JobRefs DEF Settle
  <2>1. job[r].ord \in Opened /\ job[r].ord \in Orders
    BY <2>0, CheckoutAssumption DEF Attempts, Orders
  <2>2. /\ JobMove(r) /\ events' \subseteq events /\ UNCHANGED paypal /\ booking' \in BookingRow
    BY <1>0, <1>4, <2>1, SettleEffect
  <2>3. CASE UNCHANGED <<payment, attempt>>
    <3>1. RowsStep
      BY <1>0, <2>2, <2>3, AttemptsSame DEF RowsStep, RowsType
    <3> QED
      BY <2>2, <3>1, RowsInv
  <2>4. CASE /\ payment' = [status |-> "succeeded", order |-> job[r].ord, capture |-> job[r].ord]
             /\ AttemptsKept
    <3>1. payment' \in PaymentRow
      BY <2>1, <2>4 DEF PaymentRow, CAPTURED
    <3>2. RowsStep
      BY <1>0, <2>1, <2>2, <2>4, <3>1 DEF RowsStep, RowsType, AttemptsKept
    <3> QED
      BY <2>2, <3>2, RowsInv
  <2> QED
    BY <1>0, <1>4, <2>1, <2>3, <2>4, SettleEffect
<1>5. ASSUME NEW r \in Requests, MarkFailed(r) PROVE TypeInv'
  <2>1. job[r].ord \in Opened
    BY <1>5, JobRefs DEF MarkFailed
  <2>2. JobMove(r) /\ events' \subseteq events /\ UNCHANGED paypal
    BY <1>0, <1>5, <2>1, MarkFailedEffect
  <2>3. RowsStep
    <3>1. CASE UNCHANGED <<booking, payment, attempt>>
      BY <1>0, <2>2, <3>1, AttemptsSame DEF RowsStep, RowsType
    <3>2. CASE PaymentFails /\ AttemptsKept /\ booking' \in BookingRow
      BY <1>0, <2>2, <3>2 DEF RowsStep, RowsType, AttemptsKept, PaymentFails
    <3> QED
      BY <1>0, <1>5, <2>1, <3>1, <3>2, MarkFailedEffect
  <2> QED
    BY <2>2, <2>3, RowsInv
<1>6. ASSUME NEW r \in Requests, OpenAttempt(r) PROVE TypeInv'
  <2>1. job[r].op = "checkout" /\ lock = r /\ Free
    BY <1>6, JobRefs DEF OpenAttempt
  <2>2. UNCHANGED <<booking, paypal, events>>
    BY <1>0, <1>6, <2>1, OpenEffect
  <2>3. CASE JobMove(r) /\ UNCHANGED <<payment, attempt>>
    <3>1. RowsStep
      BY <1>0, <2>2, <2>3, AttemptsSame DEF RowsStep, RowsType
    <3> QED
      BY <2>3, <3>1, RowsInv
  <2>4. CASE /\ JobType /\ OthersKept(r) /\ lock' = lock
             /\ job'[r].at = "session" /\ job'[r].op = job[r].op
             /\ job'[r].att \in Opened' /\ InOrder' /\ Opened \subseteq Opened'
             /\ attempt' \in [Attempts -> AttemptRow]
             /\ payment' \in PaymentRow /\ payment'.capture = payment.capture
             /\ payment'.order \in {0, payment.order}
    <3>1. RowsType
      BY <1>0, <2>2, <2>4 DEF RowsType
    <3>2. RefsOpened'
      BY <1>0, <2>2, <2>4, RefsKept
    <3>3. Shape(r)'
      BY <2>1, <2>4 DEF Shape, Before
    <3>4. ASSUME NEW q \in Requests, q # r PROVE Shape(q)'
      <4>1. Shape(q) /\ job[q].op # "checkout"
        BY <2>1, <3>4 DEF TypeInv, Shape
      <4>2. job'[q] = job[q]
        BY <2>4, <3>4 DEF OthersKept
      <4> QED
        BY <2>4, <4>1, <4>2 DEF Shape
    <3> QED
      BY <2>4, <3>1, <3>2, <3>3, <3>4, TypeRows DEF TypeInv
  <2> QED
    BY <1>0, <1>6, <2>1, <2>3, <2>4, OpenEffect
<1>7. ASSUME NEW r \in Requests, CreateOrder(r) PROVE TypeInv'
  <2>1. job[r].att \in Opened
    BY <1>7, JobRefs DEF CreateOrder
  <2>2. /\ JobMove(r) /\ UNCHANGED events /\ Recorded
        /\ paypal' \in [Attempts -> States]
        /\ \A x \in Attempts : paypal'[x] = paypal[x] \/ x = job[r].att
    BY <1>0, <1>7, <2>1, CreateOrderEffect
  <2>3. RowsStep
    BY <1>0, <2>1, <2>2 DEF RowsStep, RowsType, Recorded, AttemptsKept, PaymentFails
  <2> QED
    BY <2>2, <2>3, RowsInv
<1>8. ASSUME NEW r \in Requests, Attach(r) PROVE TypeInv'
  <2>0. job[r].att \in Opened /\ job[r].att \in Attempts
    BY <1>0, <1>8, JobRefs DEF Attach
  <2>1. job[r].att \in Opened /\ job[r].att \in Orders
    BY <2>0, CheckoutAssumption DEF Attempts, Orders
  <2>2. JobMove(r) /\ UNCHANGED <<paypal, events>>
    BY <1>0, <1>8, <2>1, AttachEffect
  <2>3. CASE Recorded
    <3>1. RowsStep
      BY <1>0, <2>2, <2>3 DEF RowsStep, RowsType, Recorded, AttemptsKept, PaymentFails
    <3> QED
      BY <2>2, <3>1, RowsInv
  <2>4. CASE /\ AttemptsKept /\ booking' \in BookingRow
             /\ payment' = [status |-> "processing", order |-> job[r].att, capture |-> 0]
    <3>1. payment' \in PaymentRow
      BY <2>1, <2>4, CheckoutAssumption DEF PaymentRow, Orders
    <3>2. RowsStep
      BY <1>0, <2>1, <2>2, <2>4, <3>1 DEF RowsStep, RowsType, AttemptsKept
    <3> QED
      BY <2>2, <3>2, RowsInv
  <2> QED
    BY <1>0, <1>8, <2>1, <2>3, <2>4, AttachEffect
<1>9. ASSUME NEW r \in Requests, NEW a \in Attempts, BeginRetry(r, a) PROVE TypeInv'
  <2>1. /\ JobType /\ OthersKept(r) /\ lock' = lock /\ UNCHANGED <<paypal, events>>
        /\ job'[r].op = "retry" /\ job'[r].at = "session" /\ job'[r].att = a
        /\ attempt[a].status = "failed_retryable" /\ AttemptsKept /\ PaymentFails
        /\ booking' \in BookingRow
    BY <1>0, <1>9, RetryEffect
  <2>2. Opened' = Opened /\ (Free => Free') /\ InOrder' /\ a \in Opened
    BY <1>0, <2>1, KeptOpened DEF Opened
  <2>3. RowsType /\ RefsOpened'
    BY <1>0, <2>1, <2>2, RefsKept DEF RowsType, AttemptsKept, PaymentFails
  <2>4. Shape(r)'
    BY <2>1, <2>2 DEF Shape, Before
  <2>5. ASSUME NEW q \in Requests, q # r PROVE Shape(q)'
    BY <2>1, <2>2, <2>5 DEF OthersKept, TypeInv, Shape, Free
  <2> QED
    BY <2>1, <2>2, <2>3, <2>4, <2>5, TypeRows DEF TypeInv
<1>10. ASSUME NEW o \in Attempts, BuyerApproves(o) \/ OrderVoided(o) \/ CaptureSettles(o)
       PROVE  TypeInv'
  <2>1. o \in Opened
    BY <1>0, <1>10, PayPalEffect DEF RefsOpened
  <2>2. /\ UNCHANGED <<booking, payment, attempt, lock, job>>
        /\ paypal' \in [Attempts -> States] /\ events' \subseteq Events
        /\ \A x \in Attempts : x # o => paypal'[x] = paypal[x]
        /\ \A e \in events' : e \in events \/ e.order = o
    BY <1>0, <1>10, PayPalEffect
  <2>3. RowsStep
    BY <1>0, <2>1, <2>2, AttemptsSame DEF RowsStep, RowsType
  <2> QED
    BY <2>2, <2>3, RowsInv
<1>11. CASE Refund \/ CancelBooking
  <2>1. RowsStep /\ UNCHANGED <<job, lock>>
    BY <1>0, <1>11, RefundEffect, AttemptsSame DEF RowsStep, RowsType
  <2> QED
    BY <2>1, RowsInv
<1>12. CASE HoldLapses \/ Expire
  <2>1. RowsStep /\ UNCHANGED <<job, lock>>
    BY <1>0, <1>12, TimeEffect, AttemptsSame DEF RowsStep, RowsType
  <2> QED
    BY <2>1, RowsInv
<1> QED
  BY <1>1, <1>2, <1>3, <1>4, <1>5, <1>6, <1>7, <1>8, <1>9, <1>10, <1>11, <1>12, StepCases

(* Nothing is referred to at first.                                         *)
LEMMA InitTypeInv == Init => TypeInv
<1> SUFFICES ASSUME Init PROVE TypeInv
  OBVIOUS
<1>1. 0 \in Orders
  BY CheckoutAssumption DEF Orders
<1>2. TypeOK
  <2>1. booking \in BookingRow /\ payment \in PaymentRow
    BY <1>1 DEF Init, BookingRow, PaymentRow, PAYABLE
  <2>2. attempt \in [Attempts -> AttemptRow] /\ paypal \in [Attempts -> States]
    BY DEF Init, AttemptRow, States
  <2>3. job \in [Requests -> Job] /\ lock \in Requests \cup {Nobody} /\ events \subseteq Events
    BY IdleJob DEF Init
  <2>4. races \subseteq Races /\ mishaps \in 0 .. MaxMishaps
    <3>1. races = {} /\ mishaps = 0
      BY DEF Init
    <3> QED
      BY <3>1, CheckoutAssumption
  <2> QED
    BY <2>1, <2>2, <2>3, <2>4
    DEF TypeOK, BookingRow, PaymentRow, AttemptRow, States
<1>3. \A a \in Attempts : attempt[a].status = "none" /\ ~(a <= 0)
  BY CheckoutAssumption DEF Init, Attempts
<1>4. InOrder
  BY <1>1, <1>3 DEF InOrder
<1>5. RefsOpened
  BY DEF Init, RefsOpened
<1>6. \A r \in Requests : Shape(r)
  BY IdleJob DEF Init, Shape, Before
<1> QED
  BY <1>2, <1>4, <1>5, <1>6 DEF TypeInv

(* A stuttering step keeps TypeInv.                                         *)
LEMMA TypeStutter ==
  ASSUME TypeInv, UNCHANGED vars
  PROVE  TypeInv'
<1> USE DEF vars
<1>1. TypeOK'
  BY DEF TypeInv, TypeOK
<1>2. InOrder' /\ RefsOpened'
  BY DEF TypeInv, InOrder, RefsOpened, Opened
<1>3. \A r \in Requests : Shape(r)'
  BY DEF TypeInv, Shape, Opened
<1> QED
  BY <1>1, <1>2, <1>3 DEF TypeInv

(* Every behaviour has TypeInv.                                             *)
LEMMA TypeInvHolds == Spec => []TypeInv
<1>1. TypeInv /\ [Next]_vars => TypeInv'
  BY TypeStutter, TypeStep
<1> QED
  BY InitTypeInv, <1>1, PTL DEF Spec

(* Every row, order, event and job keeps its type, in any race; a request
   refers only to attempts that were opened.                                *)
THEOREM TypeCorrect == Spec => []TypeOK
<1>1. TypeInv => TypeOK
  BY DEF TypeInv
<1> QED
  BY TypeInvHolds, <1>1, PTL

-----------------------------------------------------------------------------
(* What is paid was captured.                                               *)

(* A capture is never undone, and an event of one is true.                  *)
TookKept ==
    /\ \A o \in Attempts : paypal[o] \in {"completed", "refunded"} =>
          paypal'[o] \in {"completed", "refunded"}
    /\ \A e \in events' : e.kind = "COMPLETED" =>
          e \in events \/ paypal'[e.order] \in {"completed", "refunded"}

(* If PayPal does nothing, what it took stays taken.                        *)
LEMMA SameTook ==
  ASSUME UNCHANGED paypal, events' \subseteq events
  PROVE  TookKept
  BY DEF TookKept

(* COMPLETED events stay true.                                              *)
LEMMA EventsTook ==
  ASSUME CapturedInv, TookKept
  PROVE  \A e \in events' : e.kind = "COMPLETED" => Took(e.order)'
<1>1. \A e \in events : e.order \in Attempts
  BY DEF CapturedInv, TypeInv, TypeOK, Events
<1> QED
  BY <1>1 DEF TookKept, CapturedInv, Took

(* A job that says COMPLETED stays right.                                   *)
LEMMA JobsTook ==
  ASSUME CapturedInv, TookKept, (\E r \in Requests : JobMove(r)) \/ UNCHANGED job
  PROVE  \A q \in Requests : SaysTook(job[q])'
<1>1. /\ \A e \in events : e.order \in Attempts
      /\ \A q \in Requests : job[q].at \in {"event", "apply"} => job[q].ord \in Attempts
  BY JobRefs DEF CapturedInv, TypeInv, TypeOK, Events
<1>2. /\ \A o \in Attempts : Took(o) => paypal'[o] \in {"completed", "refunded"}
      /\ \A e \in events : e.kind = "COMPLETED" => Took(e.order)
      /\ \A q \in Requests : SaysTook(job[q])
  BY DEF TookKept, CapturedInv, Took
<1>3. ASSUME NEW q \in Requests, job'[q] = job[q] PROVE SaysTook(job[q])'
  BY <1>1, <1>2, <1>3 DEF SaysTook, Took
<1>4. ASSUME NEW r \in Requests, JobMove(r) PROVE SaysTook(job[r])'
  <2>1. CASE job'[r] = Idle
    BY <2>1, IdleJob DEF SaysTook
  <2>2. CASE job'[r].at = "listed"
    BY <2>2 DEF SaysTook
  <2>3. CASE Starts(r)
    BY <2>3 DEF SaysTook, Starts
  <2>4. CASE Hears(r)
    BY <1>1, <1>2, <2>4 DEF SaysTook, Hears, Took
  <2>5. CASE LocksEvent(r)
    BY <1>1, <1>2, <2>5 DEF SaysTook, LocksEvent, Took
  <2>6. CASE Continues(r)
    BY <2>6 DEF SaysTook, Continues, Says, Took
  <2> QED
    BY <1>4, <2>1, <2>2, <2>3, <2>4, <2>5, <2>6 DEF JobMove
<1> QED
  BY <1>3, <1>4 DEF JobMove, OthersKept

(* The payment and the booking count as paid as before, or for money taken. *)
PaidKept ==
    /\ payment'.status \in CAPTURED =>
          \/ payment.status \in CAPTURED /\ payment'.capture = payment.capture
          \/ /\ payment'.capture \in Attempts
             /\ paypal'[payment'.capture] \in {"completed", "refunded"}
    /\ booking'.status = "paid" =>
          \/ booking.status = "paid"
          \/ \E o \in Attempts : paypal'[o] \in {"completed", "refunded"}

(* A payment that fails makes nothing paid.                                 *)
LEMMA FailsPaid ==
  ASSUME PaymentFails, booking'.status = "paid" => booking.status = "paid"
  PROVE  PaidKept
  BY DEF PaymentFails, PaidKept

(* What PayPal took and what counts as paid move together.                  *)
LEMMA CapturedKept ==
  ASSUME CapturedInv, TypeInv', TookKept, PaidKept,
         (\E r \in Requests : JobMove(r)) \/ UNCHANGED job
  PROVE  CapturedInv'
<1>1. /\ payment.capture # 0 => payment.capture \in Attempts
      /\ 0 \notin Attempts
  BY OrderType, CheckoutAssumption DEF CapturedInv, TypeInv, Orders, Attempts
<1>2. PaidIsCaptured'
  BY <1>1 DEF CapturedInv, PaidIsCaptured, PaidKept, TookKept
<1> QED
  BY <1>2, EventsTook, JobsTook DEF CapturedInv

(* Every step keeps CapturedInv.                                            *)
LEMMA CapturedStep ==
  ASSUME CapturedInv, Next
  PROVE  CapturedInv'
<1>0. TypeInv /\ TypeOK /\ InOrder /\ TypeInv'
  BY TypeStep DEF CapturedInv, TypeInv
<1>1. ASSUME NEW r \in Requests, QuietMove(r) PROVE CapturedInv'
  <2>1. TookKept /\ PaidKept
    BY <1>1, SameTook DEF QuietMove, PaidKept
  <2> QED
    BY <1>0, <1>1, <2>1, CapturedKept DEF QuietMove
<1>2. ASSUME NEW r \in Requests, RejectOrder(r) PROVE CapturedInv'
  <2>1. job[r].ord \in Opened
    BY <1>0, <1>2, JobRefs DEF RejectOrder
  <2>2. /\ JobMove(r) /\ PaymentFails /\ events' \subseteq events /\ UNCHANGED paypal
        /\ booking'.status = "paid" => booking.status = "paid"
    BY <1>0, <1>2, <2>1, RejectEffect
  <2> QED
    BY <1>0, <2>2, SameTook, FailsPaid, CapturedKept
<1>3. ASSUME NEW r \in Requests, CaptureOrder(r) PROVE CapturedInv'
  <2> DEFINE o == job[r].ord
  <2>1. o \in Attempts
    BY <1>0, <1>3, JobRefs DEF CaptureOrder
  <2>2. JobMove(r) /\ UNCHANGED <<booking, payment, attempt>>
    BY <1>0, <1>3, <2>1, CaptureEffect
  <2>3. TookKept
    <3>1. CASE UNCHANGED paypal /\ events' \subseteq events
      BY <3>1, SameTook
    <3>2. CASE /\ paypal[o] = "approved" /\ events' \subseteq events
               /\ paypal' = [paypal EXCEPT ![o] = "pending"]
      BY <1>0, <2>1, <3>2 DEF TookKept, TypeOK
    <3>3. CASE paypal[o] = "approved" /\ PayPalMoves(o, "completed", "COMPLETED")
      <4>1. /\ paypal'[o] = "completed" /\ \A x \in Attempts : x # o => paypal'[x] = paypal[x]
            /\ \A e \in events' : e \in events \/ e.order = o
        BY <1>0, <2>1, <3>3, MovesEffect DEF States, Kinds
      <4> QED
        BY <4>1 DEF TookKept
    <3>4. CASE paypal[o] = "approved" /\ PayPalMoves(o, "declined", "FAILED")
      <4>1. /\ paypal'[o] = "declined" /\ \A x \in Attempts : x # o => paypal'[x] = paypal[x]
            /\ \A e \in events' : e \in events \/ e.kind = "FAILED"
        BY <1>0, <2>1, <3>4, MovesEffect DEF States, Kinds
      <4> QED
        BY <3>4, <4>1 DEF TookKept
    <3> QED
      BY <1>0, <1>3, <2>1, <3>1, <3>2, <3>3, <3>4, CaptureEffect
  <2>4. PaidKept
    BY <2>2 DEF PaidKept
  <2> QED
    BY <1>0, <2>2, <2>3, <2>4, CapturedKept
<1>4. ASSUME NEW r \in Requests, Settle(r) PROVE CapturedInv'
  <2> DEFINE o == job[r].ord
  <2>1. o \in Opened /\ o \in Attempts
    BY <1>0, <1>4, JobRefs DEF Settle
  <2>2. /\ JobMove(r) /\ events' \subseteq events /\ UNCHANGED paypal
        /\ \/ UNCHANGED payment /\ booking'.status = booking.status
           \/ payment' = [status |-> "succeeded", order |-> o, capture |-> o]
    BY <1>0, <1>4, <2>1, SettleEffect
  <2>3. paypal'[o] \in {"completed", "refunded"}
    BY <1>4, <2>2 DEF CapturedInv, SaysTook, Took, Settle
  <2>4. PaidKept
    BY <2>1, <2>2, <2>3 DEF PaidKept
  <2> QED
    BY <1>0, <2>2, <2>4, SameTook, CapturedKept
<1>5. ASSUME NEW r \in Requests, MarkFailed(r) PROVE CapturedInv'
  <2>1. job[r].ord \in Opened
    BY <1>0, <1>5, JobRefs DEF MarkFailed
  <2>2. /\ JobMove(r) /\ events' \subseteq events /\ UNCHANGED paypal
        /\ \/ UNCHANGED <<booking, payment>>
           \/ PaymentFails /\ booking'.status = "payment_failed"
    BY <1>0, <1>5, <2>1, MarkFailedEffect
  <2>3. PaidKept
    BY <2>2, FailsPaid DEF PaidKept
  <2> QED
    BY <1>0, <2>2, <2>3, SameTook, CapturedKept
<1>6. ASSUME NEW r \in Requests, OpenAttempt(r) PROVE CapturedInv'
  <2>1. Free /\ UNCHANGED <<booking, paypal, events>>
    BY <1>0, <1>6, JobRefs, OpenEffect DEF OpenAttempt
  <2>2. CASE JobMove(r) /\ UNCHANGED <<payment, attempt>>
    BY <1>0, <2>1, <2>2, SameTook, CapturedKept DEF PaidKept
  <2>3. CASE /\ OthersKept(r) /\ job'[r].at = "session" /\ payment'.capture = payment.capture
             /\ payment'.status \in CAPTURED => payment'.status = payment.status
    <3>1. TookKept /\ PaidKept
      BY <2>1, <2>3, SameTook DEF PaidKept
    <3>2. PaidIsCaptured'
      BY <2>1, <2>3 DEF CapturedInv, PaidIsCaptured
    <3>3. \A q \in Requests : SaysTook(job[q])'
      BY <2>1, <2>3 DEF CapturedInv, SaysTook, Took, OthersKept
    <3> QED
      BY <1>0, <3>1, <3>2, <3>3, EventsTook DEF CapturedInv
  <2> QED
    BY <1>0, <1>6, <2>1, <2>2, <2>3, OpenEffect
<1>7. ASSUME NEW r \in Requests, CreateOrder(r) PROVE CapturedInv'
  <2>1. job[r].att \in Opened
    BY <1>0, <1>7, JobRefs DEF CreateOrder
  <2>2. /\ JobMove(r) /\ UNCHANGED events /\ Recorded
        /\ \A x \in Attempts : paypal'[x] = paypal[x] \/ paypal[x] = "none"
    BY <1>0, <1>7, <2>1, CreateOrderEffect
  <2>3. TookKept
    BY <2>2 DEF TookKept
  <2>4. PaidKept
    BY <2>2, FailsPaid DEF Recorded
  <2> QED
    BY <1>0, <2>2, <2>3, <2>4, CapturedKept
<1>8. ASSUME NEW r \in Requests, Attach(r) PROVE CapturedInv'
  <2>1. job[r].att \in Opened
    BY <1>0, <1>8, JobRefs DEF Attach
  <2>2. /\ JobMove(r) /\ UNCHANGED <<paypal, events>>
        /\ \/ /\ payment'.status = "processing"
              /\ booking'.status = "payment_processing"
           \/ Recorded
    BY <1>0, <1>8, <2>1, AttachEffect
  <2>3. PaidKept
    BY <2>2, FailsPaid DEF Recorded, PaidKept, CAPTURED
  <2> QED
    BY <1>0, <2>2, <2>3, SameTook, CapturedKept
<1>9. ASSUME NEW r \in Requests, NEW a \in Attempts, BeginRetry(r, a) PROVE CapturedInv'
  <2>1. /\ OthersKept(r) /\ UNCHANGED <<paypal, events>> /\ job'[r].at = "session"
        /\ PaymentFails /\ booking'.status = "payment_processing"
    BY <1>0, <1>9, RetryEffect
  <2>2. TookKept /\ PaidKept
    BY <2>1, SameTook, FailsPaid
  <2>3. PaidIsCaptured'
    BY <2>1 DEF CapturedInv, PaidIsCaptured, PaymentFails
  <2>4. \A q \in Requests : SaysTook(job[q])'
    BY <2>1 DEF CapturedInv, SaysTook, Took, OthersKept
  <2> QED
    BY <1>0, <2>2, <2>3, <2>4, EventsTook DEF CapturedInv
<1>10. ASSUME NEW o \in Attempts, BuyerApproves(o) \/ OrderVoided(o) \/ CaptureSettles(o)
       PROVE  CapturedInv'
  <2>1. /\ UNCHANGED <<booking, payment, job>> /\ paypal[o] \notin {"completed", "refunded"}
        /\ \A x \in Attempts : x # o => paypal'[x] = paypal[x]
        /\ paypal'[o] \in {"approved", "unfit", "voided", "completed", "declined"}
        /\ \A e \in events' : e \in events \/ (e.order = o /\ (e.kind = "COMPLETED" =>
              paypal'[o] = "completed"))
    BY <1>0, <1>10, PayPalEffect
  <2>2. TookKept /\ PaidKept
    BY <2>1 DEF TookKept, PaidKept
  <2> QED
    BY <1>0, <2>1, <2>2, CapturedKept
<1>11. CASE Refund \/ CancelBooking
  <2>1. /\ UNCHANGED <<events, job>> /\ booking'.status \in {"refunded", "cancelled"}
        /\ \/ UNCHANGED <<payment, paypal>>
           \/ /\ payment.capture \in Attempts /\ payment'.capture = payment.capture
              /\ paypal'[payment.capture] = "refunded"
              /\ \A x \in Attempts : x # payment.capture => paypal'[x] = paypal[x]
    BY <1>0, <1>11, RefundEffect
  <2>2. TookKept /\ PaidKept
    BY <2>1 DEF TookKept, PaidKept
  <2> QED
    BY <1>0, <2>1, <2>2, CapturedKept
<1>12. CASE HoldLapses \/ Expire
  <2>1. /\ UNCHANGED <<payment, paypal, events, job>>
        /\ booking'.status = "paid" => booking.status = "paid"
    BY <1>0, <1>12, TimeEffect
  <2> QED
    BY <1>0, <2>1, SameTook, CapturedKept DEF PaidKept
<1> QED
  BY <1>0, <1>1, <1>2, <1>3, <1>4, <1>5, <1>6, <1>7, <1>8, <1>9, <1>10, <1>11, <1>12, StepCases

(* Every behaviour has CapturedInv.                                         *)
LEMMA CapturedInvHolds == Spec => []CapturedInv
<1>1. Init => CapturedInv
  <2> SUFFICES ASSUME Init PROVE CapturedInv
    OBVIOUS
  <2>1. PaidIsCaptured
    BY DEF Init, PaidIsCaptured, CAPTURED
  <2>2. \A r \in Requests : SaysTook(job[r])
    BY IdleJob DEF Init, SaysTook
  <2>3. events = {}
    BY DEF Init
  <2> QED
    BY <2>1, <2>2, <2>3, InitTypeInv DEF CapturedInv
<1>2. CapturedInv /\ UNCHANGED vars => CapturedInv'
  BY TypeStutter DEF vars, CapturedInv, PaidIsCaptured, SaysTook, Took
<1>3. CapturedInv /\ [Next]_vars => CapturedInv'
  BY <1>2, CapturedStep
<1> QED
  BY <1>1, <1>3, PTL DEF Spec

(* Whatever the faults, retries, crashes, lost answers, held captures and
   refunds: a payment that succeeded or was refunded names a capture that
   PayPal took, and no booking is paid unless PayPal took money for it.     *)
THEOREM NothingPaidUncaptured == Spec => []PaidIsCaptured
<1>1. CapturedInv => PaidIsCaptured
  BY DEF CapturedInv
<1> QED
  BY CapturedInvHolds, <1>1, PTL

-----------------------------------------------------------------------------
(* Only the current order is captured.                                      *)

(* A move keeps CurrentInv, if it keeps the payment's order or ends with it
   while no other request has the lock.                                     *)
LEMMA CurrentKept ==
  ASSUME CurrentInv, TypeInv', HistoryType, NEW r \in Requests, JobMove(r),
         \/ payment'.order = payment.order
         \/ job'[r] = Idle /\ (lock \in {r, Nobody} \/ "retry" \in races')
  PROVE  CurrentInv'
<1>1. /\ Nobody \notin Requests /\ (Ordered' => Ordered)
      /\ \A q \in Requests : q # r => job'[q] = job[q] /\ (lock = q => lock' = q)
      /\ \A q \in Requests : job[q].at \in Before => lock = q
      /\ Ordered => \A q \in Requests : KnowsCurrent(job[q])
      /\ Idle.at = "idle"
  BY CheckoutAssumption, IdleJob DEF CurrentInv, JobMove, OthersKept, HistoryType, Ordered
<1>2. /\ job'[r].at \in Before => lock' = r
      /\ job'[r].at = "capture" => job'[r].current
      /\ job'[r].at = "status" /\ job'[r].op = "checkout" => job'[r].current
  <2> USE DEF Before
  <2>1. CASE job'[r] = Idle \/ job'[r].at = "listed"
    BY <1>1, <2>1
  <2>2. CASE Starts(r)
    BY <2>2 DEF Starts
  <2>3. CASE Hears(r) \/ LocksEvent(r)
    BY <2>3 DEF Hears, LocksEvent
  <2>4. CASE Continues(r)
    BY <1>1, <2>4 DEF Continues, Reopens
  <2> QED
    BY <2>1, <2>2, <2>3, <2>4 DEF JobMove
<1>3. \A q \in Requests :
        /\ job'[q].at \in Before => lock' = q
        /\ job'[q].at = "capture" => job'[q].current
        /\ job'[q].at = "status" /\ job'[q].op = "checkout" => job'[q].current
  BY <1>1, <1>2 DEF CurrentInv
<1>4. ASSUME Ordered', NEW q \in Requests PROVE KnowsCurrent(job[q])'
  <2>1. CASE payment'.order = payment.order /\ q # r
    BY <1>1, <1>4, <2>1 DEF KnowsCurrent
  <2>2. CASE payment'.order = payment.order /\ q = r
    <3>1. CASE job'[r] = Idle \/ job'[r].at = "listed"
      BY <1>1, <2>2, <3>1 DEF KnowsCurrent
    <3>2. CASE Starts(r)
      BY <2>2, <3>2 DEF Starts, KnowsCurrent
    <3>3. CASE Hears(r)
      BY <2>2, <3>3 DEF Hears, KnowsCurrent
    <3>4. CASE LocksEvent(r)
      BY <1>4, <2>2, <3>4 DEF LocksEvent, KnowsCurrent, Ordered
    <3>5. CASE Continues(r)
      BY <1>1, <1>4, <2>2, <3>5 DEF Continues, KnowsCurrent
    <3> QED
      BY <3>1, <3>2, <3>3, <3>4, <3>5 DEF JobMove
  <2>3. CASE job'[r] = Idle /\ lock \in {r, Nobody}
    <3>1. CASE q = r
      BY <1>1, <2>3, <3>1 DEF KnowsCurrent
    <3>2. CASE q # r
      BY <1>1, <2>3, <3>2 DEF KnowsCurrent, Before
    <3> QED
      BY <3>1, <3>2
  <2>4. CASE "retry" \in races'
    BY <1>4, <2>4 DEF Ordered
  <2> QED
    BY <2>1, <2>2, <2>3, <2>4
<1> QED
  BY <1>3, <1>4 DEF CurrentInv

(* So does a step without a move that keeps the payment's order.            *)
LEMMA CurrentSame ==
  ASSUME CurrentInv, TypeInv', HistoryType, UNCHANGED <<job, lock>>,
         payment'.order = payment.order
  PROVE  CurrentInv'
<1>1. Ordered' => Ordered
  BY DEF HistoryType, Ordered
<1> QED
  BY <1>1 DEF CurrentInv, KnowsCurrent, Before

(* Every step keeps CurrentInv.                                             *)
LEMMA CurrentStep ==
  ASSUME CurrentInv, Next
  PROVE  CurrentInv'
<1>0. TypeInv /\ TypeOK /\ InOrder /\ TypeInv' /\ HistoryType
  BY TypeStep, HistoryStep DEF CurrentInv, TypeInv
<1>1. ASSUME NEW r \in Requests, QuietMove(r) PROVE CurrentInv'
  BY <1>0, <1>1, CurrentKept, CurrentSame DEF QuietMove
<1>2. ASSUME NEW r \in Requests, RejectOrder(r) PROVE CurrentInv'
  <2>1. job[r].ord \in Opened
    BY <1>0, <1>2, JobRefs DEF RejectOrder
  <2>2. JobMove(r) /\ payment'.order = payment.order
    BY <1>0, <1>2, <2>1, RejectEffect DEF PaymentFails
  <2> QED
    BY <1>0, <2>2, CurrentKept
<1>3. ASSUME NEW r \in Requests, CaptureOrder(r) PROVE CurrentInv'
  <2>1. job[r].ord \in Attempts
    BY <1>0, <1>3, JobRefs DEF CaptureOrder
  <2>2. JobMove(r) /\ UNCHANGED payment
    BY <1>0, <1>3, <2>1, CaptureEffect
  <2> QED
    BY <1>0, <2>2, CurrentKept
<1>4. ASSUME NEW r \in Requests, Settle(r) PROVE CurrentInv'
  <2>1. job[r].ord \in Opened
    BY <1>0, <1>4, JobRefs DEF Settle
  <2>2. JobMove(r) /\ job'[r] = Idle /\ job[r].at = "apply"
    BY <1>0, <1>4, <2>1, SettleEffect
  <2>3. lock = r
    BY <2>2 DEF CurrentInv, Before
  <2> QED
    BY <1>0, <2>2, <2>3, CurrentKept
<1>5. ASSUME NEW r \in Requests, MarkFailed(r) PROVE CurrentInv'
  <2>1. job[r].ord \in Opened
    BY <1>0, <1>5, JobRefs DEF MarkFailed
  <2>2. JobMove(r) /\ payment'.order = payment.order
    BY <1>0, <1>5, <2>1, MarkFailedEffect DEF PaymentFails
  <2> QED
    BY <1>0, <2>2, CurrentKept
<1>6. ASSUME NEW r \in Requests, OpenAttempt(r) PROVE CurrentInv'
  <2>1. Free /\ job[r].at = "open"
    BY <1>0, <1>6, JobRefs DEF OpenAttempt
  <2>2. CASE JobMove(r) /\ UNCHANGED <<payment, attempt>>
    BY <1>0, <2>2, CurrentKept
  <2>3. CASE OthersKept(r) /\ lock' = lock /\ job'[r].at = "session"
    <3>1. lock = r /\ \A q \in Requests : q # r => job'[q] = job[q] /\ job'[q].at \notin Before
      BY <2>1, <2>3 DEF CurrentInv, Before, OthersKept
    <3>2. \A q \in Requests : job'[q].at \notin Before
      BY <2>3, <3>1 DEF Before
    <3> QED
      BY <1>0, <3>2 DEF CurrentInv, KnowsCurrent, Before
  <2> QED
    BY <1>0, <1>6, <2>1, <2>2, <2>3, OpenEffect
<1>7. ASSUME NEW r \in Requests, CreateOrder(r) PROVE CurrentInv'
  <2>1. job[r].att \in Opened
    BY <1>0, <1>7, JobRefs DEF CreateOrder
  <2>2. JobMove(r) /\ payment'.order = payment.order
    BY <1>0, <1>7, <2>1, CreateOrderEffect DEF Recorded, PaymentFails
  <2> QED
    BY <1>0, <2>2, CurrentKept
<1>8. ASSUME NEW r \in Requests, Attach(r) PROVE CurrentInv'
  <2>1. job[r].att \in Opened /\ job[r].at = "attach"
    BY <1>0, <1>8, JobRefs DEF Attach
  <2>2. JobMove(r) /\ job'[r] = Idle
    BY <1>0, <1>8, <2>1, AttachEffect
  <2>3. \/ job[r].op = "checkout" /\ lock = r
        \/ job[r].op = "retry"
    BY <1>0, <2>1 DEF TypeInv, Shape
  <2>4. \/ payment'.order = payment.order
        \/ lock \in {r, Nobody} \/ "retry" \in races'
    BY <1>8, <2>3, RetryWrites
  <2> QED
    BY <1>0, <2>2, <2>4, CurrentKept
<1>9. ASSUME NEW r \in Requests, NEW a \in Attempts, BeginRetry(r, a) PROVE CurrentInv'
  <2>1. /\ OthersKept(r) /\ job'[r].at = "session" /\ lock' = lock
        /\ payment'.order = payment.order
    BY <1>0, <1>9, RetryEffect DEF PaymentFails
  <2>2. Ordered' => Ordered
    BY <1>0 DEF HistoryType, Ordered
  <2> QED
    BY <1>0, <2>1, <2>2 DEF CurrentInv, KnowsCurrent, Before, OthersKept
<1>10. ASSUME NEW o \in Attempts, BuyerApproves(o) \/ OrderVoided(o) \/ CaptureSettles(o)
       PROVE  CurrentInv'
  BY <1>0, <1>10, PayPalEffect, CurrentSame
<1>11. CASE Refund \/ CancelBooking
  <2>1. UNCHANGED <<job, lock>> /\ payment'.order = payment.order
    BY <1>0, <1>11, RefundEffect
  <2> QED
    BY <1>0, <2>1, CurrentSame
<1>12. CASE HoldLapses \/ Expire
  BY <1>0, <1>12, TimeEffect, CurrentSame
<1> QED
  BY <1>0, <1>1, <1>2, <1>3, <1>4, <1>5, <1>6, <1>7, <1>8, <1>9, <1>10, <1>11, <1>12, StepCases

(* At first nobody runs.                                                    *)
LEMMA InitCurrentInv == Init => CurrentInv
<1> SUFFICES ASSUME Init PROVE CurrentInv
  OBVIOUS
<1>1. \A r \in Requests : job[r].at = "idle"
  BY IdleJob DEF Init
<1> QED
  BY <1>1, InitTypeInv DEF CurrentInv, KnowsCurrent, Before

(* A stuttering step keeps CurrentInv.                                      *)
LEMMA CurrentStutter ==
  ASSUME CurrentInv, UNCHANGED vars
  PROVE  CurrentInv'
  BY TypeStutter DEF vars, CurrentInv, KnowsCurrent, Ordered

(* Every behaviour has CurrentInv.                                          *)
LEMMA CurrentInvHolds == Spec => []CurrentInv
<1>1. CurrentInv /\ [Next]_vars => CurrentInv'
  BY CurrentStep, CurrentStutter
<1> QED
  BY InitCurrentInv, <1>1, PTL DEF Spec

(* captureApprovedOrder: PayPal only ever takes money for the order that the
   payment points at when it does, in spite of crashes, lost answers, replays,
   held captures, refunds, retries and webhooks that read before they lock,
   unless the order was replaced between such a read and its lock, or a retry
   wrote beside a request that had the lock or after a charge.              *)
THEOREM OnlyCurrentCaptured == Spec => OnlyCurrentOrder
<1>1. ASSUME CurrentInv, Next, NEW o \in Attempts, paypal[o] = "approved",
             paypal'[o] \in {"pending", "completed"}
      PROVE  payment.order = o \/ ~Ordered
  <2>0. TypeInv /\ TypeOK /\ InOrder
    BY <1>1 DEF CurrentInv, TypeInv
  <2>1. ASSUME NEW r \in Requests, CaptureOrder(r) PROVE payment.order = o \/ ~Ordered
    <3>1. job[r].ord \in Attempts /\ job[r].at = "capture"
      BY <2>0, <2>1, JobRefs DEF CaptureOrder
    <3>2. payment.order = job[r].ord \/ ~Ordered
      BY <1>1, <3>1 DEF CurrentInv, KnowsCurrent
    <3>3. CASE UNCHANGED paypal
      BY <1>1, <3>3
    <3>4. CASE paypal' = [paypal EXCEPT ![job[r].ord] = "pending"]
      BY <1>1, <2>0, <3>1, <3>2, <3>4 DEF TypeOK
    <3>5. CASE \/ PayPalMoves(job[r].ord, "completed", "COMPLETED")
               \/ PayPalMoves(job[r].ord, "declined", "FAILED")
      BY <1>1, <2>0, <3>1, <3>2, <3>5, MovesEffect DEF States, Kinds
    <3> QED
      BY <2>0, <2>1, <3>1, <3>3, <3>4, <3>5, CaptureEffect
  <2>2. ASSUME NEW r \in Requests, CreateOrder(r) PROVE payment.order = o
    BY <1>1, <2>0, <2>2, JobRefs, CreateOrderEffect DEF CreateOrder
  <2>3. ASSUME NEW x \in Attempts, BuyerApproves(x) \/ OrderVoided(x) \/ CaptureSettles(x)
        PROVE  payment.order = o
    BY <1>1, <2>0, <2>3, PayPalEffect
  <2>4. ASSUME NEW r \in Requests,
               \/ QuietMove(r) \/ RejectOrder(r) \/ Settle(r) \/ MarkFailed(r) \/ OpenAttempt(r)
               \/ Attach(r) \/ \E a \in Attempts : BeginRetry(r, a)
        PROVE  payment.order = o
    BY <1>1, <2>4
    DEF QuietMove, RejectOrder, Settle, MarkFailed, OpenAttempt, Attach, BeginRetry, outside
  <2>5. CASE Refund \/ CancelBooking
    BY <1>1, <2>0, <2>5, RefundEffect
  <2>6. CASE HoldLapses \/ Expire
    BY <1>1, <2>0, <2>6, TimeEffect
  <2> QED
    BY <1>1, <2>0, <2>1, <2>2, <2>3, <2>4, <2>5, <2>6, StepCases
<1>2. CurrentInv /\ [Next]_vars =>
        [\A o \in Attempts : paypal[o] = "approved" /\ paypal'[o] \in {"pending", "completed"}
            => payment.order = o \/ races \cap {"stale", "retry"} # {}]_vars
  BY <1>1 DEF Ordered
<1> QED
  BY CurrentInvHolds, <1>2, PTL DEF Spec, OnlyCurrentOrder

-----------------------------------------------------------------------------
(* The money moves one way.                                                 *)

(* A step that leaves the recorded capture and the refunds alone.           *)
KeepsRecord ==
    /\ payment'.capture = payment.capture
    /\ \A o \in Attempts : /\ Took(o) => Took(o)'
                           /\ paypal'[o] = "refunded" <=> paypal[o] = "refunded"

(* A step that records a charge, one that attaches a new order, and one that
   returns the recorded charge.                                             *)
Records ==
    /\ UNCHANGED paypal
    /\ payment'.capture \in Attempts /\ Took(payment'.capture)

Attaches ==
    /\ UNCHANGED paypal
    /\ payment'.capture = 0
    /\ \/ \E r \in Requests : job[r].at = "attach" /\ job[r].op = "checkout"
       \/ NoneCharged \/ races' # {}

Returns ==
    /\ payment'.capture = payment.capture /\ payment.capture \in Attempts
    /\ paypal[payment.capture] = "completed" /\ paypal'[payment.capture] = "refunded"
    /\ \A o \in Attempts : o # payment.capture => paypal'[o] = paypal[o]

(* A step that leaves PayPal's orders and the recorded capture alone.       *)
LEMMA RecordSame ==
  ASSUME UNCHANGED paypal, payment'.capture = payment.capture
  PROVE  KeepsRecord
  BY DEF KeepsRecord, Took

(* Every step does one of these, whatever fails.                            *)
LEMMA MoneyMoves ==
  ASSUME CapturedInv, Next
  PROVE  KeepsRecord \/ Records \/ Attaches \/ Returns
<1>0. TypeInv /\ TypeOK /\ InOrder
  BY DEF CapturedInv, TypeInv
<1>1. ASSUME NEW r \in Requests, QuietMove(r) PROVE KeepsRecord
  BY <1>1, RecordSame DEF QuietMove
<1>2. ASSUME NEW r \in Requests, RejectOrder(r) PROVE KeepsRecord
  <2>1. job[r].ord \in Opened
    BY <1>0, <1>2, JobRefs DEF RejectOrder
  <2> QED
    BY <1>0, <1>2, <2>1, RejectEffect, RecordSame DEF PaymentFails
<1>3. ASSUME NEW r \in Requests, CaptureOrder(r) PROVE KeepsRecord
  <2> DEFINE o == job[r].ord
  <2>1. o \in Attempts
    BY <1>0, <1>3, JobRefs DEF CaptureOrder
  <2>2. UNCHANGED payment
    BY <1>0, <1>3, <2>1, CaptureEffect
  <2>3. \/ UNCHANGED paypal
        \/ /\ paypal[o] = "approved" /\ paypal'[o] \in {"pending", "completed", "declined"}
           /\ \A x \in Attempts : x # o => paypal'[x] = paypal[x]
    <3>1. CASE PayPalMoves(o, "completed", "COMPLETED") \/ PayPalMoves(o, "declined", "FAILED")
      <4>1. /\ paypal'[o] \in {"completed", "declined"}
            /\ \A x \in Attempts : x # o => paypal'[x] = paypal[x]
        BY <1>0, <2>1, <3>1, MovesEffect DEF States, Kinds
      <4> QED
        BY <1>0, <1>3, <2>1, <4>1, CaptureEffect
    <3>2. CASE paypal[o] = "approved" /\ paypal' = [paypal EXCEPT ![o] = "pending"]
      BY <1>0, <2>1, <3>2 DEF TypeOK
    <3> QED
      BY <1>0, <1>3, <2>1, <3>1, <3>2, CaptureEffect
  <2> HIDE DEF o
  <2> QED
    BY <2>1, <2>2, <2>3, RecordSame DEF KeepsRecord, Took
<1>4. ASSUME NEW r \in Requests, Settle(r) PROVE KeepsRecord \/ Records
  <2> DEFINE o == job[r].ord
  <2>1. o \in Opened /\ o \in Attempts
    BY <1>0, <1>4, JobRefs DEF Settle
  <2>2. Took(o)
    BY <1>4 DEF CapturedInv, SaysTook, Settle
  <2>3. UNCHANGED paypal /\ payment'.capture \in {o, payment.capture}
    BY <1>0, <1>4, <2>1, SettleEffect
  <2> HIDE DEF o
  <2> QED
    BY <2>1, <2>2, <2>3, RecordSame DEF Records
<1>5. ASSUME NEW r \in Requests, MarkFailed(r) PROVE KeepsRecord
  <2>1. job[r].ord \in Opened
    BY <1>0, <1>5, JobRefs DEF MarkFailed
  <2>2. UNCHANGED paypal /\ (UNCHANGED payment \/ PaymentFails)
    BY <1>0, <1>5, <2>1, MarkFailedEffect
  <2> QED
    BY <2>2, RecordSame DEF PaymentFails
<1>6. ASSUME NEW r \in Requests, OpenAttempt(r) PROVE KeepsRecord
  <2>1. Free
    BY <1>0, <1>6, JobRefs DEF OpenAttempt
  <2>2. UNCHANGED paypal /\ payment'.capture = payment.capture
    BY <1>0, <1>6, <2>1, OpenEffect
  <2> QED
    BY <2>2, RecordSame
<1>7. ASSUME NEW r \in Requests, CreateOrder(r) PROVE KeepsRecord
  <2>1. job[r].att \in Opened
    BY <1>0, <1>7, JobRefs DEF CreateOrder
  <2>2. /\ payment'.capture = payment.capture
        /\ \A x \in Attempts : paypal'[x] = paypal[x] \/ (paypal[x] = "none" /\ paypal'[x] = "created")
    BY <1>0, <1>7, <2>1, CreateOrderEffect DEF Recorded, PaymentFails
  <2> QED
    BY <2>2 DEF KeepsRecord, Took
<1>8. ASSUME NEW r \in Requests, Attach(r) PROVE KeepsRecord \/ Attaches
  <2>1. job[r].att \in Opened
    BY <1>0, <1>8, JobRefs DEF Attach
  <2>2. /\ UNCHANGED paypal /\ job[r].at = "attach"
        /\ payment'.capture = 0 \/ payment'.capture = payment.capture
    BY <1>0, <1>8, <2>1, AttachEffect DEF Recorded, PaymentFails
  <2>3. \/ job[r].op = "checkout" \/ NoneCharged \/ races' # {}
        \/ UNCHANGED payment
    BY <1>0, <1>8, <2>2, RetryWrites DEF TypeInv, Shape
  <2> QED
    BY <2>2, <2>3, RecordSame DEF Attaches
<1>9. ASSUME NEW r \in Requests, NEW a \in Attempts, BeginRetry(r, a) PROVE KeepsRecord
  BY <1>0, <1>9, RetryEffect, RecordSame DEF PaymentFails
<1>10. ASSUME NEW o \in Attempts, BuyerApproves(o) \/ OrderVoided(o) \/ CaptureSettles(o)
       PROVE  KeepsRecord
  <2>1. /\ UNCHANGED payment /\ paypal[o] \notin {"completed", "refunded"}
        /\ paypal'[o] # "refunded" /\ \A x \in Attempts : x # o => paypal'[x] = paypal[x]
    BY <1>0, <1>10, PayPalEffect
  <2> QED
    BY <2>1 DEF KeepsRecord, Took
<1>11. CASE Refund \/ CancelBooking
  <2>1. CASE UNCHANGED <<payment, paypal>>
    BY <2>1, RecordSame
  <2> QED
    BY <1>0, <1>11, <2>1, RefundEffect DEF Returns
<1>12. CASE HoldLapses \/ Expire
  BY <1>0, <1>12, TimeEffect, RecordSame
<1> QED
  BY <1>0, <1>1, <1>2, <1>3, <1>4, <1>5, <1>6, <1>7, <1>8, <1>9, <1>10, <1>11, <1>12, StepCases

(* Zero is no attempt.                                                      *)
LEMMA NoneIsNoAttempt == 0 \notin Attempts
  BY CheckoutAssumption DEF Attempts

(* What the payment shows stays real.                                       *)
LEMMA CaptureRealStep ==
  ASSUME CaptureReal, KeepsRecord \/ Records \/ Attaches \/ Returns
  PROVE  CaptureReal'
<1>1. CASE KeepsRecord
  BY <1>1 DEF CaptureReal, KeepsRecord
<1>2. CASE Records
  BY <1>2 DEF CaptureReal, Records, Took
<1>3. CASE Attaches
  BY <1>3 DEF CaptureReal, Attaches
<1>4. CASE Returns
  BY <1>4 DEF CaptureReal, Returns, Took
<1> QED
  BY <1>1, <1>2, <1>3, <1>4

(* The capture a payment shows is PayPal's, whatever fails.                 *)
LEMMA CaptureRealHolds == Spec => []CaptureReal
<1>1. Init => CaptureReal
  BY DEF Init, CaptureReal
<1>2. CapturedInv /\ CaptureReal /\ [Next]_vars => CaptureReal'
  <2>1. CASE UNCHANGED vars
    BY <2>1 DEF vars, CaptureReal, Took
  <2> QED
    BY <2>1, MoneyMoves, CaptureRealStep
<1> QED
  BY <1>1, <1>2, CapturedInvHolds, PTL DEF Spec

-----------------------------------------------------------------------------
(* The renter is charged once.                                              *)

(* No order is charged by the step.                                         *)
NoneNew == \A o \in Attempts : Charged(o)' => Charged(o)

(* If PayPal does nothing, nothing is charged.                              *)
LEMMA SameCharges ==
  ASSUME UNCHANGED paypal
  PROVE  NoneNew
  BY DEF NoneNew, Charged

(* The captures that PayPal is asked for stop before a refusal is announced. *)
LEMMA RefusalsKept ==
  ASSUME TypeInv, RefusalsFit, (\E r \in Requests : JobMove(r)) \/ UNCHANGED job,
         \A o \in Attempts : paypal[o] \in {"declined", "voided"} => paypal'[o] = paypal[o],
         \A e \in events' : e \in events \/ Refusal(e.kind, e.order)'
  PROVE  RefusalsFit'
<1>1. /\ \A e \in events : e.order \in Attempts
      /\ \A q \in Requests : job[q].at = "event" => job[q].ord \in Attempts
  BY JobRefs DEF TypeInv, TypeOK, Events
<1>2. \A e \in events : Refusal(e.kind, e.order)'
  BY <1>1 DEF RefusalsFit, Refusal
<1>3. ASSUME NEW q \in Requests, job'[q] = job[q], job'[q].at = "event"
      PROVE  Refusal(job[q].st, job[q].ord)'
  BY <1>1, <1>3 DEF RefusalsFit, Refusal
<1>4. ASSUME NEW r \in Requests, JobMove(r), job'[r].at = "event"
      PROVE  Refusal(job[r].st, job[r].ord)'
  <2>1. Hears(r)
    BY <1>4, IdleJob DEF JobMove, Starts, LocksEvent, Continues
  <2> QED
    BY <1>2, <2>1 DEF Hears, Refusal
<1>5. \A q \in Requests : job'[q].at = "event" => Refusal(job[q].st, job[q].ord)'
  BY <1>3, <1>4 DEF JobMove, OthersKept
<1> QED
  BY <1>2, <1>5 DEF RefusalsFit

(* Every step keeps RefusalsFit.                                            *)
LEMMA RefusalsStep ==
  ASSUME TypeInv, RefusalsFit, Next
  PROVE  RefusalsFit'
<1>0. TypeOK /\ InOrder
  BY DEF TypeInv
<1>1. ASSUME UNCHANGED paypal, events' \subseteq events,
             (\E r \in Requests : JobMove(r)) \/ UNCHANGED job
      PROVE  RefusalsFit'
  BY <1>1, RefusalsKept
<1>2. ASSUME NEW r \in Requests, QuietMove(r) PROVE RefusalsFit'
  BY <1>1, <1>2 DEF QuietMove
<1>3. ASSUME NEW r \in Requests, RejectOrder(r) PROVE RefusalsFit'
  BY <1>0, <1>1, <1>3, JobRefs, RejectEffect DEF RejectOrder
<1>4. ASSUME NEW r \in Requests, Settle(r) PROVE RefusalsFit'
  BY <1>0, <1>1, <1>4, JobRefs, SettleEffect DEF Settle
<1>5. ASSUME NEW r \in Requests, MarkFailed(r) PROVE RefusalsFit'
  BY <1>0, <1>1, <1>5, JobRefs, MarkFailedEffect DEF MarkFailed
<1>6. ASSUME NEW r \in Requests, Attach(r) PROVE RefusalsFit'
  BY <1>0, <1>1, <1>6, JobRefs, AttachEffect DEF Attach
<1>7. ASSUME NEW r \in Requests, CaptureOrder(r) PROVE RefusalsFit'
  <2> DEFINE o == job[r].ord
  <2>1. o \in Attempts
    BY <1>7, JobRefs DEF CaptureOrder
  <2>2. JobMove(r)
    BY <1>0, <1>7, <2>1, CaptureEffect
  <2>3. CASE UNCHANGED paypal /\ events' \subseteq events
    BY <1>1, <2>2, <2>3
  <2>4. CASE /\ paypal[o] = "approved" /\ paypal' = [paypal EXCEPT ![o] = "pending"]
             /\ events' \subseteq events
    <3>1. \A x \in Attempts : paypal[x] \in {"declined", "voided"} => paypal'[x] = paypal[x]
      BY <1>0, <2>1, <2>4 DEF TypeOK
    <3> QED
      BY <2>2, <2>4, <3>1, RefusalsKept
  <2>5. CASE /\ paypal[o] = "approved"
             /\ \/ PayPalMoves(o, "completed", "COMPLETED")
                \/ PayPalMoves(o, "declined", "FAILED")
    <3>1. /\ \A x \in Attempts : x # o => paypal'[x] = paypal[x]
          /\ \A e \in events' : e \in events \/ e.kind = "COMPLETED"
                                \/ (e.kind = "FAILED" /\ e.order = o /\ paypal'[o] = "declined")
      BY <1>0, <2>1, <2>5, MovesEffect DEF States, Kinds
    <3>2. \A e \in events' : e \in events \/ Refusal(e.kind, e.order)'
      BY <3>1 DEF Refusal
    <3> QED
      BY <2>2, <2>5, <3>1, <3>2, RefusalsKept
  <2> QED
    BY <1>0, <1>7, <2>1, <2>3, <2>4, <2>5, CaptureEffect
<1>8. ASSUME NEW r \in Requests, OpenAttempt(r) PROVE RefusalsFit'
  <2>1. Free /\ UNCHANGED <<paypal, events>>
    BY <1>0, <1>8, JobRefs, OpenEffect DEF OpenAttempt
  <2>2. CASE JobMove(r)
    BY <1>1, <2>1, <2>2
  <2>3. CASE OthersKept(r) /\ job'[r].at = "session"
    BY <2>1, <2>3 DEF RefusalsFit, Refusal, OthersKept
  <2> QED
    BY <1>0, <1>8, <2>1, <2>2, <2>3, OpenEffect
<1>9. ASSUME NEW r \in Requests, CreateOrder(r) PROVE RefusalsFit'
  <2>1. job[r].att \in Opened
    BY <1>9, JobRefs DEF CreateOrder
  <2>2. /\ JobMove(r) /\ UNCHANGED events
        /\ \A x \in Attempts : paypal'[x] = paypal[x] \/ paypal[x] = "none"
    BY <1>0, <1>9, <2>1, CreateOrderEffect
  <2> QED
    BY <2>2, RefusalsKept
<1>10. ASSUME NEW r \in Requests, NEW a \in Attempts, BeginRetry(r, a) PROVE RefusalsFit'
  <2>1. OthersKept(r) /\ job'[r].at = "session" /\ UNCHANGED <<paypal, events>>
    BY <1>0, <1>10, RetryEffect
  <2> QED
    BY <2>1 DEF RefusalsFit, Refusal, OthersKept
<1>11. ASSUME NEW o \in Attempts, BuyerApproves(o) \/ OrderVoided(o) \/ CaptureSettles(o)
       PROVE  RefusalsFit'
  <2>1. /\ UNCHANGED job /\ paypal[o] \notin {"declined", "voided"}
        /\ \A x \in Attempts : x # o => paypal'[x] = paypal[x]
    BY <1>0, <1>11, PayPalEffect
  <2>2. ASSUME NEW e \in events', e \notin events PROVE Refusal(e.kind, e.order)'
    <3>1. e.order = o /\ (e.kind = "CANCELED" => paypal'[o] = "voided")
                      /\ (e.kind = "FAILED" => paypal'[o] = "declined")
      BY <1>0, <1>11, <2>2, PayPalEffect
    <3> QED
      BY <3>1 DEF Refusal
  <2> QED
    BY <2>1, <2>2, RefusalsKept
<1>12. CASE Refund \/ CancelBooking
  <2>1. /\ UNCHANGED <<events, job>>
        /\ \A x \in Attempts : paypal'[x] = paypal[x] \/ paypal[x] = "completed"
    BY <1>0, <1>12, RefundEffect
  <2> QED
    BY <2>1, RefusalsKept
<1>13. CASE HoldLapses \/ Expire
  BY <1>0, <1>1, <1>13, TimeEffect
<1> QED
  BY <1>2, <1>3, <1>4, <1>5, <1>6, <1>7, <1>8, <1>9, <1>10, <1>11, <1>12, <1>13, StepCases

(* What the invariant says before any race.                                 *)
Fits ==
    /\ CurrentInv /\ CapturedInv /\ CaptureReal /\ RefusalsFit
    /\ ChargesFit /\ (\A r \in Requests : SaysUncharged(job[r]))

(* The parts of the invariants that the steps below rest on.                *)
LEMMA CalmParts ==
  ASSUME Fits, races = {}
  PROVE  /\ TypeInv /\ TypeOK /\ InOrder
         /\ \A r \in Requests : KnowsCurrent(job[r]) /\ SaysUncharged(job[r])
         /\ \A r \in Requests : job[r].at \in Before => lock = r
         /\ \A r \in Requests : job[r].at = "capture" => job[r].current
         /\ \A r \in Requests : job[r].op = "checkout" => lock = r
         /\ \A o \in Attempts : Charged(o) => payment.order = o
         /\ Nobody \notin Requests /\ 0 \notin Attempts
<1>1. Ordered
  BY DEF Ordered
<1> QED
  BY <1>1, CheckoutAssumption
  DEF Fits, CurrentInv, ChargesFit, TypeInv, Shape, Attempts

(* Who rejects an order knows that it was not charged, or that the booking is
   shut.                                                                    *)
LEMMA RejectFits ==
  ASSUME Fits, races = {}, NEW r \in Requests,
         \/ job[r].at = "approved" /\ job[r].current /\ (~job[r].payable \/ booking.lapsed)
         \/ job[r].at = "capture" /\ paypal[job[r].ord] = "unfit"
  PROVE  Shut \/ NoneCharged
<1>0. /\ KnowsCurrent(job[r]) /\ SaysUncharged(job[r])
      /\ \A o \in Attempts : Charged(o) => payment.order = o
      /\ job[r].at = "capture" => job[r].current
  BY CalmParts
<1>1. CASE job[r].at = "approved" /\ job[r].current /\ (~job[r].payable \/ booking.lapsed)
  BY <1>0, <1>1 DEF SaysUncharged, Shut
<1>2. CASE job[r].at = "capture" /\ paypal[job[r].ord] = "unfit"
  <2>1. payment.order = job[r].ord /\ ~Charged(job[r].ord)
    BY <1>0, <1>2 DEF KnowsCurrent, Charged
  <2> QED
    BY <1>0, <2>1 DEF NoneCharged
<1> QED
  BY <1>1, <1>2

(* A failure is only written when nothing was charged.                      *)
LEMMA FailsFit ==
  ASSUME Fits, races = {}, NEW r \in Requests,
         job[r].at = "apply", job[r].st \in {"FAILED", "CANCELED"}, Tracks(job[r].ord)
  PROVE  NoneCharged
<1>1. /\ ~Charged(job[r].ord) /\ job[r].ord \in Attempts /\ 0 \notin Attempts
      /\ \A o \in Attempts : Charged(o) => payment.order = o
  BY CalmParts, JobRefs DEF SaysUncharged
<1>2. payment.order = job[r].ord
  BY <1>1 DEF Tracks, Fits, CaptureReal, Took, Charged
<1> QED
  BY <1>1, <1>2 DEF NoneCharged

(* So a checkout opens an attempt after another only when nothing was charged,
   or the booking is shut.                                                  *)
LEMMA EndsFit ==
  ASSUME Fits, races = {}, NEW r \in Requests, Reopens(r)
  PROVE  Shut \/ NoneCharged
<1>1. CASE job[r].at = "status"
  <2>1. payment.order = job[r].ord /\ ~Charged(job[r].ord)
    BY <1>1, CalmParts DEF Fits, CurrentInv, Reopens, KnowsCurrent
  <2> QED
    BY <2>1, CalmParts DEF NoneCharged
<1>2. CASE job[r].at \in {"approved", "capture"}
  BY <1>2, RejectFits DEF Reopens
<1>3. CASE job[r].at = "apply"
  BY <1>3, FailsFit DEF Reopens
<1> QED
  BY <1>1, <1>2, <1>3 DEF Reopens, Before

(* Under the lock of one request nobody else acts on a charge.              *)
LEMMA LoneJob ==
  ASSUME Fits, races = {}, NEW r \in Requests, lock \in {r, Nobody}
  PROVE  \A q \in Requests : q # r => job[q].at \notin Before /\ job[q].op # "checkout"
  BY CalmParts

(* The jobs of the others stay right about charges, when nothing is charged
   and the booking changes under their eyes only while they do not look.    *)
LEMMA SaysOthers ==
  ASSUME Fits, races = {}, NoneNew, NEW q \in Requests, job'[q] = job[q],
         Shut => Shut' \/ NoneCharged,
         \/ booking.status \notin PAYABLE => booking'.status \notin PAYABLE
         \/ job[q].at \notin {"status", "approved", "capture"}
  PROVE  SaysUncharged(job[q])'
<1>1. /\ SaysUncharged(job[q])
      /\ job[q].at = "apply" => job[q].ord \in Attempts
  BY CalmParts, JobRefs
<1>2. NoneCharged => NoneCharged'
  BY DEF NoneNew, NoneCharged
<1>3. job[q].at = "apply" /\ ~Charged(job[q].ord) => ~Charged(job[q].ord)'
  BY <1>1 DEF NoneNew
<1> QED
  BY <1>1, <1>2, <1>3 DEF SaysUncharged

(* So does the job that moves.                                              *)
LEMMA SaysMover ==
  ASSUME Fits, races = {}, races' = {}, NoneNew, NEW r \in Requests, JobMove(r),
         Shut => Shut' \/ NoneCharged,
         \/ booking.status \notin PAYABLE => booking'.status \notin PAYABLE
         \/ job'[r].at \notin {"status", "approved", "capture"}
  PROVE  SaysUncharged(job[r])'
<1>0. /\ SaysUncharged(job[r]) /\ Nobody \notin Requests /\ 0 \notin Attempts
      /\ \A q \in Requests : job[q].at \in Before => lock = q
      /\ \A o \in Attempts : Charged(o) =>
            payment.order = o /\ (Shut \/ payment.status = "processing" \/ Settling(o))
  BY CalmParts DEF Fits, ChargesFit
<1>1. NoneCharged => NoneCharged'
  BY DEF NoneNew, NoneCharged
<1>2. CASE job'[r] = Idle \/ job'[r].at = "listed"
  <2>1. job'[r].at \in {"idle", "listed"}
    BY <1>2, IdleJob
  <2> QED
    BY <2>1 DEF SaysUncharged
<1>3. CASE Starts(r)
  <2>1. CASE job'[r].at \in {"status", "approved"}
    BY <1>3, <2>1 DEF Starts, SaysUncharged
  <2>2. CASE job'[r].at = "open"
    <3>1. \A o : ~Settling(o)
      BY <1>0, <1>3 DEF Starts, Settling, Before
    <3>2. payment.status # "processing" \/ payment.order = 0
      BY <1>3, <2>2 DEF Starts
    <3>3. Shut \/ NoneCharged
      BY <1>0, <3>1, <3>2 DEF NoneCharged
    <3> QED
      BY <1>1, <2>2, <3>3 DEF SaysUncharged
  <2>3. CASE job'[r].at = "session"
    BY <1>1, <1>3, <2>3 DEF Starts, SaysUncharged
  <2> QED
    BY <1>3, <2>1, <2>2, <2>3 DEF Starts
<1>4. CASE Hears(r)
  BY <1>4 DEF Hears, SaysUncharged
<1>5. CASE LocksEvent(r)
  <2>1. Refusal(job[r].st, job[r].ord) /\ job[r].ord \in Attempts
    BY <1>5, CalmParts, JobRefs DEF Fits, RefusalsFit, LocksEvent
  <2>2. job[r].st \in {"FAILED", "CANCELED"} => ~Charged(job[r].ord)'
    <3>1. job[r].st \in {"FAILED", "CANCELED"} => ~Charged(job[r].ord)
      BY <2>1 DEF Refusal, Charged
    <3>2. job'[r].ord = job[r].ord
      BY <1>5 DEF LocksEvent
    <3> QED
      BY <2>1, <3>1, <3>2 DEF NoneNew
  <2>3. job[r].current => job[r].payable \/ booking.status \notin PAYABLE
    BY <1>5 DEF LocksEvent
  <2> QED
    BY <1>5, <2>2, <2>3 DEF LocksEvent, SaysUncharged
<1>6. CASE Continues(r)
  <2>1. CASE job[r].at = "status" /\ job'[r].at = "approved"
    BY <1>0, <1>6, <2>1 DEF Continues, SaysUncharged
  <2>2. CASE job[r].at = "approved" /\ job'[r].at = "capture"
    BY <1>0, <1>6, <2>2 DEF Continues, SaysUncharged
  <2>3. CASE job'[r].at = "apply"
    <3>1. Says(job'[r].st, job'[r].ord)
      BY <1>6, <2>3 DEF Continues
    <3> QED
      BY <2>3, <3>1 DEF SaysUncharged, Says, Charged
  <2>4. CASE Reopens(r) /\ job'[r].at = "open"
    BY <1>1, <2>4, EndsFit DEF SaysUncharged
  <2>5. CASE job[r].at = "session" /\ job'[r].at = "attach"
    BY <1>0, <1>1, <1>6, <2>5 DEF Continues, SaysUncharged
  <2> QED
    BY <1>6, <2>1, <2>2, <2>3, <2>4, <2>5 DEF Continues
<1> QED
  BY <1>2, <1>3, <1>4, <1>5, <1>6 DEF JobMove

(* And all jobs, when the booking stays shut.                               *)
LEMMA SaysKept ==
  ASSUME Fits, races = {}, races' = {}, NoneNew, Shut => Shut',
         booking.status \notin PAYABLE => booking'.status \notin PAYABLE,
         (\E r \in Requests : JobMove(r)) \/ UNCHANGED job
  PROVE  \A q \in Requests : SaysUncharged(job[q])'
<1>1. CASE UNCHANGED job
  BY <1>1, SaysOthers
<1>2. ASSUME NEW r \in Requests, JobMove(r) PROVE \A q \in Requests : SaysUncharged(job[q])'
  BY <1>2, SaysOthers, SaysMover DEF JobMove, OthersKept
<1> QED
  BY <1>1, <1>2

(* A charge about to be recorded stays so, unless its own request moves.    *)
LEMMA SettlingKept ==
  ASSUME NEW r \in Requests, OthersKept(r), NEW o, Settling(o)
  PROVE  Settling(o)' \/ (job[r].at = "apply" /\ job[r].st = "COMPLETED" /\ job[r].ord = o)
  BY DEF Settling, OthersKept

(* Recorded charges stay recorded, or are about to be.                      *)
LEMMA ChargesKept ==
  ASSUME ChargesFit, NoneNew, payment'.order = payment.order,
         payment'.capture \in {0, payment.capture}, Shut => Shut',
         \/ Shut'
         \/ /\ payment'.status = payment.status
            /\ \A o \in Attempts : Settling(o) =>
                  Settling(o)' \/ Shut' \/ payment'.status = "processing"
  PROVE  ChargesFit'
<1>1. payment'.capture # 0 => Shut'
  BY DEF ChargesFit
<1>2. ASSUME NEW o \in Attempts, Charged(o)'
      PROVE  payment'.order = o /\ (Shut' \/ payment'.status = "processing" \/ Settling(o)')
  BY <1>2 DEF ChargesFit, NoneNew
<1> QED
  BY <1>1, <1>2 DEF ChargesFit

(* A step under the lock, when nothing was charged, keeps all that.         *)
LEMMA NoCharges ==
  ASSUME Fits, races = {}, races' = {}, NoneNew, NoneCharged, CaptureReal',
         NEW r \in Requests, OthersKept(r), lock \in {r, Nobody}, SaysUncharged(job[r])'
  PROVE  ChargesFit' /\ \A q \in Requests : SaysUncharged(job[q])'
<1>1. NoneCharged'
  BY DEF NoneNew, NoneCharged
<1>2. ChargesFit'
  BY <1>1 DEF ChargesFit, NoneCharged, CaptureReal, Took, Charged
<1>3. ASSUME NEW q \in Requests, q # r PROVE SaysUncharged(job[q])'
  BY <1>3, LoneJob, SaysOthers DEF OthersKept, Before
<1> QED
  BY <1>2, <1>3

(* A move that leaves the rows alone and gives up no charge keeps it, too.  *)
LEMMA RowsKeep ==
  ASSUME Fits, races = {}, races' = {}, NoneNew, UNCHANGED <<booking, payment>>,
         NEW r \in Requests, JobMove(r) \/ UNCHANGED job,
         job[r].at = "apply" /\ job[r].st = "COMPLETED" => ~Unrecorded(job[r].ord)
  PROVE  ChargesFit' /\ \A q \in Requests : SaysUncharged(job[q])'
<1>1. Shut' <=> Shut
  BY DEF Shut
<1>2. \A o \in Attempts : payment.capture = o => Shut
  BY CalmParts DEF Fits, ChargesFit
<1>3. ASSUME NEW o \in Attempts, Settling(o)
      PROVE  Settling(o)' \/ Shut' \/ payment'.status = "processing"
  <2>1. CASE UNCHANGED job
    BY <1>3, <2>1 DEF Settling
  <2>2. CASE JobMove(r)
    BY <1>1, <1>2, <1>3, <2>2, SettlingKept DEF JobMove, Unrecorded
  <2> QED
    BY <2>1, <2>2
<1>4. ChargesFit'
  BY <1>1, <1>3, ChargesKept DEF Fits
<1> QED
  BY <1>1, <1>4, SaysKept

(* A capture takes money for the payment's own order, when none was taken,
   and either its request is about to record it or the payment shows it.    *)
LEMMA ChargeCapture ==
  ASSUME Fits, races = {}, races' = {}, NEW r \in Requests, CaptureOrder(r)
  PROVE  ChargesFit' /\ \A q \in Requests : SaysUncharged(job[q])'
<1> DEFINE o == job[r].ord
<1>0. /\ TypeOK /\ job[r].at = "capture" /\ o \in Attempts /\ payment.order = o /\ lock = r
      /\ \A x \in Attempts : Charged(x) => payment.order = x
  BY CalmParts, JobRefs DEF CaptureOrder, KnowsCurrent, Before
<1>1. JobMove(r) /\ UNCHANGED <<booking, payment>>
  BY <1>0, CaptureEffect
<1>2. CASE NoneNew
  BY <1>0, <1>1, <1>2, RowsKeep
<1>3. CASE /\ \A x \in Attempts : x # o => paypal'[x] = paypal[x]
           /\ \/ job'[r] = Idle /\ (payment.status = "processing" \/ payment.capture = o)
              \/ job'[r].at = "apply" /\ job'[r].st = "COMPLETED" /\ job'[r].ord = o
  <2>1. /\ Shut' <=> Shut
        /\ payment.capture # 0 => Shut
        /\ 0 \notin Attempts
    BY <1>1, CalmParts DEF Shut, Fits, ChargesFit
  <2>2. ASSUME NEW x \in Attempts, x = o
        PROVE  Settling(x)' \/ payment'.status = "processing" \/ Shut'
    BY <1>0, <1>1, <1>3, <2>1, <2>2 DEF Settling
  <2>3. ASSUME NEW x \in Attempts, Charged(x)' PROVE payment'.order = x /\ x = o
    BY <1>0, <1>1, <1>3, <2>3 DEF Charged
  <2>4. ChargesFit'
    <3>1. payment'.capture # 0 => Shut'
      BY <1>1, <2>1
    <3>2. ASSUME NEW x \in Attempts, Charged(x)'
          PROVE  payment'.order = x /\ (Shut' \/ payment'.status = "processing" \/ Settling(x)')
      BY <2>2, <2>3, <3>2
    <3> QED
      BY <3>1, <3>2 DEF ChargesFit
  <2>5. SaysUncharged(job[r])'
    <3>1. CASE job'[r] = Idle
      BY <3>1, IdleJob DEF SaysUncharged
    <3>2. CASE job'[r].at = "apply" /\ job'[r].st = "COMPLETED"
      BY <3>2 DEF SaysUncharged
    <3> QED
      BY <1>3, <3>1, <3>2
  <2>6. ASSUME NEW q \in Requests, q # r PROVE SaysUncharged(job[q])'
    BY <1>0, <1>1, <2>6, LoneJob DEF JobMove, OthersKept, SaysUncharged, Before
  <2> QED
    BY <2>4, <2>5, <2>6
<1>4. CASE paypal' = [paypal EXCEPT ![o] = "pending"] /\ job'[r] = Idle
           /\ payment.status = "processing"
  BY <1>0, <1>3, <1>4 DEF TypeOK
<1>5. CASE /\ PayPalMoves(o, "completed", "COMPLETED")
           /\ \/ job'[r] = Idle /\ ~Unrecorded(o)
              \/ job'[r].at = "apply" /\ job'[r].st = "COMPLETED" /\ job'[r].ord = o
  <2>1. \A x \in Attempts : x # o => paypal'[x] = paypal[x]
    BY <1>0, <1>5, MovesEffect DEF States, Kinds
  <2> QED
    BY <1>3, <1>5, <2>1 DEF Unrecorded
<1>6. CASE paypal[o] = "approved" /\ PayPalMoves(o, "declined", "FAILED")
  <2>1. paypal'[o] = "declined" /\ \A x \in Attempts : x # o => paypal'[x] = paypal[x]
    BY <1>0, <1>6, MovesEffect DEF States, Kinds
  <2> QED
    BY <1>2, <2>1 DEF NoneNew, Charged
<1> QED
  BY <1>0, <1>2, <1>4, <1>5, <1>6, CaptureEffect, SameCharges

(* Before any race, every step keeps the charge recorded.                   *)
LEMMA ChargeStep ==
  ASSUME Fits, races = {}, races' = {}, CaptureReal', Next
  PROVE  ChargesFit' /\ \A q \in Requests : SaysUncharged(job[q])'
<1>0. /\ TypeInv /\ TypeOK /\ InOrder /\ ChargesFit /\ Nobody \notin Requests
      /\ \A q \in Requests : SaysUncharged(job[q]) /\ (job[q].op = "checkout" => lock = q)
      /\ \A q \in Requests : job[q].at \in Before => lock = q
      /\ \A q \in Requests : job[q].at \in {"session", "attach"} => job[q].op \in {"checkout", "retry"}
      /\ \A o \in Attempts : Charged(o) => payment.order = o
  BY CalmParts DEF Fits, TypeInv, Shape
<1>1. ASSUME NEW r \in Requests, QuietMove(r)
      PROVE  ChargesFit' /\ \A q \in Requests : SaysUncharged(job[q])'
  BY <1>1, SameCharges, RowsKeep DEF QuietMove
<1>2. ASSUME NEW r \in Requests, RejectOrder(r)
      PROVE  ChargesFit' /\ \A q \in Requests : SaysUncharged(job[q])'
  <2>1. job[r].ord \in Opened /\ lock = r
    BY <1>0, <1>2, JobRefs DEF RejectOrder, Before
  <2>2. /\ JobMove(r) /\ PaymentFails /\ NoneNew
        /\ booking'.status # booking.status =>
              booking.status \in PAYABLE /\ booking'.status = "payment_failed"
        /\ booking'.lapsed = booking.lapsed
    BY <1>0, <1>2, <2>1, RejectEffect, SameCharges
  <2>3. /\ Shut => Shut'
        /\ booking.status \notin PAYABLE => booking'.status \notin PAYABLE
    BY <2>2 DEF Shut
  <2>4. Shut \/ NoneCharged
    BY <1>2, RejectFits DEF RejectOrder, IsCurrent
  <2>5. \A q \in Requests : SaysUncharged(job[q])'
    BY <2>2, <2>3, SaysKept
  <2>6. CASE Shut
    BY <1>0, <2>2, <2>3, <2>5, <2>6, ChargesKept DEF PaymentFails
  <2>7. CASE NoneCharged
    BY <2>1, <2>2, <2>5, <2>7, NoCharges DEF JobMove
  <2> QED
    BY <2>4, <2>6, <2>7
<1>3. ASSUME NEW r \in Requests, CaptureOrder(r)
      PROVE  ChargesFit' /\ \A q \in Requests : SaysUncharged(job[q])'
  BY <1>3, ChargeCapture
<1>4. ASSUME NEW r \in Requests, Settle(r)
      PROVE  ChargesFit' /\ \A q \in Requests : SaysUncharged(job[q])'
  <2> DEFINE o == job[r].ord
  <2>1. o \in Opened /\ o \in Attempts /\ lock = r /\ Took(o)
    BY <1>0, <1>4, JobRefs DEF Settle, Before, Fits, CapturedInv, SaysTook
  <2>2. payment.order = o
    BY <1>0, <2>1 DEF Took, Charged
  <2>3. /\ JobMove(r) /\ job'[r] = Idle /\ UNCHANGED paypal /\ Shut'
        /\ UNCHANGED payment \/ payment'.order = o
    BY <1>0, <1>4, <2>1, SettleEffect
  <2>4. ChargesFit'
    <3>1. ASSUME NEW x \in Attempts, Charged(x)' PROVE payment'.order = x
      BY <1>0, <2>2, <2>3, <3>1 DEF Charged
    <3> QED
      BY <2>3, <3>1 DEF ChargesFit
  <2>5. \A q \in Requests : q # r => SaysUncharged(job[q])'
    BY <2>1, <2>3, LoneJob, SaysOthers, SameCharges DEF JobMove, OthersKept, Before
  <2>6. SaysUncharged(job[r])'
    BY <2>3, IdleJob DEF SaysUncharged
  <2> QED
    BY <2>4, <2>5, <2>6
<1>5. ASSUME NEW r \in Requests, MarkFailed(r)
      PROVE  ChargesFit' /\ \A q \in Requests : SaysUncharged(job[q])'
  <2>1. job[r].ord \in Opened /\ lock = r
    BY <1>0, <1>5, JobRefs DEF MarkFailed, Before
  <2>2. /\ JobMove(r) /\ NoneNew /\ job[r].at = "apply" /\ job[r].st \in {"FAILED", "CANCELED"}
        /\ UNCHANGED <<booking, payment>> \/ Tracks(job[r].ord)
    BY <1>0, <1>5, <2>1, MarkFailedEffect, SameCharges
  <2>3. CASE UNCHANGED <<booking, payment>>
    BY <2>2, <2>3, RowsKeep
  <2>4. CASE Tracks(job[r].ord)
    <3>1. NoneCharged
      BY <2>2, <2>4, FailsFit
    <3>2. job'[r].at \notin {"status", "approved", "capture"}
      <4>1. job'[r] = Idle \/ job'[r].at = "open"
        <5>1. CASE Done(r)
          BY <1>0, <5>1, DoneStep
        <5>2. CASE Goto(r, [job[r] EXCEPT !.at = "open"])
          <6> DEFINE j == [job[r] EXCEPT !.at = "open"]
          <6>1. j \in Job /\ j.at = "open"
            BY <1>0, MovedJob DEF TypeOK
          <6> HIDE DEF j
          <6>2. job'[r] = j
            BY <1>0, <5>2, <6>1, GotoStep DEF j
          <6> QED
            BY <6>1, <6>2
        <5> QED
          BY <1>5, <5>1, <5>2 DEF MarkFailed, EndOrOpen
      <4> QED
        BY <4>1, IdleJob
    <3>3. SaysUncharged(job[r])'
      BY <2>2, <3>1, <3>2, SaysMover
    <3> QED
      BY <2>1, <2>2, <3>1, <3>3, NoCharges DEF JobMove
  <2> QED
    BY <2>2, <2>3, <2>4
<1>6. ASSUME NEW r \in Requests, OpenAttempt(r)
      PROVE  ChargesFit' /\ \A q \in Requests : SaysUncharged(job[q])'
  <2>1. Free /\ job[r].at = "open" /\ lock = r /\ UNCHANGED <<booking, paypal>> /\ NoneNew
    BY <1>0, <1>6, JobRefs, OpenEffect, SameCharges DEF OpenAttempt
  <2>2. CASE JobMove(r) /\ UNCHANGED payment
    BY <2>1, <2>2, RowsKeep
  <2>3. CASE CanOpen(job[r]) /\ OthersKept(r) /\ job'[r].at = "session"
    <3>1. NoneCharged
      BY <1>0, <2>1, <2>3 DEF CanOpen, Shut, SaysUncharged
    <3>2. SaysUncharged(job[r])'
      BY <2>1, <2>3, <3>1 DEF SaysUncharged, NoneCharged, NoneNew
    <3> QED
      BY <2>1, <2>3, <3>1, <3>2, NoCharges
  <2> QED
    BY <1>0, <1>6, <2>1, <2>2, <2>3, OpenEffect
<1>7. ASSUME NEW r \in Requests, CreateOrder(r) \/ Attach(r)
      PROVE  ChargesFit' /\ \A q \in Requests : SaysUncharged(job[q])'
  <2>1. /\ job[r].att \in Opened /\ job[r].at \in {"session", "attach"}
        /\ job[r].op \in {"checkout", "retry"}
    BY <1>0, <1>7, JobRefs DEF CreateOrder, Attach
  <2>2. JobMove(r) /\ NoneNew /\ job'[r].at \in {"idle", "attach"}
    <3>1. CASE CreateOrder(r)
      BY <1>0, <2>1, <3>1, CreateOrderEffect DEF NoneNew, Charged
    <3>2. CASE Attach(r)
      BY <1>0, <2>1, <3>2, AttachEffect, SameCharges, IdleJob
    <3> QED
      BY <1>7, <3>1, <3>2
  <2>3. (NoneCharged /\ lock \in {r, Nobody}) \/ UNCHANGED <<booking, payment>>
    <3>1. CASE job[r].op = "checkout"
      BY <1>0, <2>1, <3>1 DEF SaysUncharged
    <3>2. CASE job[r].op = "retry"
      BY <1>7, <3>2, RetryWrites
    <3> QED
      BY <2>1, <3>1, <3>2
  <2>4. CASE UNCHANGED <<booking, payment>>
    BY <2>1, <2>2, <2>4, RowsKeep
  <2>5. CASE NoneCharged /\ lock \in {r, Nobody}
    <3>1. SaysUncharged(job[r])'
      BY <2>2, <2>5, SaysMover
    <3> QED
      BY <2>2, <2>5, <3>1, NoCharges DEF JobMove
  <2> QED
    BY <2>3, <2>4, <2>5
<1>8. ASSUME NEW r \in Requests, NEW a \in Attempts, BeginRetry(r, a)
      PROVE  ChargesFit' /\ \A q \in Requests : SaysUncharged(job[q])'
  <2>1. /\ OthersKept(r) /\ UNCHANGED paypal /\ lock = Nobody /\ NoneCharged
        /\ job'[r].op = "retry" /\ job'[r].at = "session"
    BY <1>0, <1>8, RetryEffect
  <2>2. SaysUncharged(job[r])'
    BY <2>1 DEF SaysUncharged
  <2> QED
    BY <2>1, <2>2, SameCharges, NoCharges
<1>9. ASSUME NEW o \in Attempts, BuyerApproves(o) \/ OrderVoided(o) \/ CaptureSettles(o)
      PROVE  ChargesFit' /\ \A q \in Requests : SaysUncharged(job[q])'
  <2>1. UNCHANGED <<booking, payment, job>> /\ NoneNew
    BY <1>0, <1>9, PayPalEffect DEF NoneNew, Charged
  <2>2. \A x \in Attempts : Settling(x) => Settling(x)'
    BY <2>1 DEF Settling
  <2>3. Shut => Shut'
    BY <2>1 DEF Shut
  <2> QED
    BY <1>0, <2>1, <2>2, <2>3, ChargesKept, SaysKept
<1>10. CASE Refund \/ CancelBooking
  <2>1. /\ UNCHANGED job /\ booking'.status \in {"refunded", "cancelled"} /\ NoneNew
        /\ payment'.order = payment.order /\ payment'.capture = payment.capture
    BY <1>0, <1>10, RefundEffect DEF NoneNew, Charged
  <2>2. Shut' /\ booking'.status \notin PAYABLE
    BY <2>1 DEF Shut, PAYABLE
  <2> QED
    BY <1>0, <2>1, <2>2, ChargesKept, SaysKept
<1>11. CASE HoldLapses \/ Expire
  <2>1. /\ UNCHANGED <<payment, paypal, job>> /\ NoneNew /\ Shut'
        /\ booking.status \notin PAYABLE => booking'.status \notin PAYABLE
    BY <1>0, <1>11, TimeEffect, SameCharges
  <2> QED
    BY <1>0, <2>1, ChargesKept, SaysKept
<1> QED
  BY <1>0, <1>1, <1>2, <1>3, <1>4, <1>5, <1>6, <1>7, <1>8, <1>9, <1>10, <1>11, StepCases

(* Every behaviour has ChargeInv.                                           *)
LEMMA ChargeInvHolds == Spec => []ChargeInv
<1>1. ASSUME Init PROVE ChargeInv
  <2>1. CapturedInv
    <3>1. PaidIsCaptured
      BY <1>1 DEF Init, PaidIsCaptured, CAPTURED
    <3>2. events = {} /\ \A r \in Requests : SaysTook(job[r])
      BY <1>1, IdleJob DEF Init, SaysTook
    <3> QED
      BY <1>1, <3>1, <3>2, InitTypeInv DEF CapturedInv
  <2>2. CaptureReal /\ ChargesFit
    BY <1>1 DEF Init, CaptureReal, ChargesFit, Charged
  <2>3. RefusalsFit /\ \A r \in Requests : SaysUncharged(job[r])
    BY <1>1, IdleJob DEF Init, RefusalsFit, SaysUncharged
  <2> QED
    BY <1>1, <2>1, <2>2, <2>3, InitCurrentInv DEF ChargeInv
<1>2. ASSUME ChargeInv, Next PROVE ChargeInv'
  <2>0. /\ CurrentInv /\ CapturedInv /\ CaptureReal /\ RefusalsFit /\ TypeInv /\ HistoryType
        /\ races = {} => Fits
    BY <1>2, HistoryStep DEF ChargeInv, Fits, CurrentInv, TypeInv
  <2>1. CurrentInv' /\ CapturedInv' /\ RefusalsFit'
    BY <1>2, <2>0, CurrentStep, CapturedStep, RefusalsStep
  <2>2. CaptureReal'
    BY <1>2, <2>0, MoneyMoves, CaptureRealStep
  <2>3. races' = {} => races = {}
    BY <2>0 DEF HistoryType
  <2>4. races' = {} => ChargesFit' /\ \A q \in Requests : SaysUncharged(job[q])'
    BY <1>2, <2>0, <2>2, <2>3, ChargeStep
  <2> QED
    BY <2>1, <2>2, <2>4 DEF ChargeInv
<1>3. ASSUME ChargeInv, UNCHANGED vars PROVE ChargeInv'
  <2>1. CurrentInv' /\ CapturedInv'
    BY <1>3, CurrentStutter, TypeStutter
    DEF ChargeInv, CapturedInv, PaidIsCaptured, SaysTook, Took, vars
  <2>2. CaptureReal' /\ RefusalsFit'
    BY <1>3 DEF ChargeInv, CaptureReal, RefusalsFit, Refusal, Took, vars
  <2>3. ASSUME races' = {} PROVE ChargesFit' /\ \A q \in Requests : SaysUncharged(job[q])'
    BY <1>3, <2>3 DEF ChargeInv, ChargesFit, SaysUncharged, NoneCharged, Charged, Shut, Settling, vars
  <2> QED
    BY <2>1, <2>2, <2>3 DEF ChargeInv
<1>4. ChargeInv /\ [Next]_vars => ChargeInv'
  BY <1>2, <1>3
<1> QED
  BY <1>1, <1>4, PTL DEF Spec

(* The renter pays at most once for a booking, for any number of requests and
   attempts and whatever fails, until one of the races in the code happened:
   the order that was charged is the payment's own, and as long as the booking
   can be paid that is recorded, or about to be under the lock, so no request
   opens an attempt or fails the payment beside it.                         *)
THEOREM ChargedOnce == Spec => []OneCharge
<1>1. ASSUME ChargeInv, races = {} PROVE Cardinality(ChargedOrders) <= 1
  <2>1. ChargedOrders \subseteq {payment.order}
    BY <1>1 DEF ChargeInv, ChargesFit, ChargedOrders, Charged
  <2>2. IsFiniteSet({payment.order}) /\ Cardinality({payment.order}) = 1
    BY FS_Singleton
  <2> QED
    BY <2>1, <2>2, FS_Subset
<1>2. ChargeInv => OneCharge
  BY <1>1 DEF OneCharge
<1> QED
  BY ChargeInvHolds, <1>2, PTL

-----------------------------------------------------------------------------
(* The checkout is one charge.                                              *)

Calm == races = {}

(* The order whose money was taken is the one there is.                     *)
TakenFits ==
    /\ \A o \in Attempts : Took(o) => Taken = o
    /\ Taken # 0 => Taken \in Attempts /\ Took(Taken)

(* It is so before a race.                                                  *)
LEMMA TakenIs ==
  ASSUME ChargeInv, Calm
  PROVE  TakenFits
<1> USE DEF TakenFits
<1>1. CapturedOrders = {o \in Attempts : Took(o)}
  BY DEF CapturedOrders, Took
<1>2. \A o \in Attempts : Took(o) => payment.order = o
  BY DEF ChargeInv, Calm, ChargesFit, Took, Charged
<1>3. CASE CapturedOrders = {}
  BY <1>1, <1>3 DEF Taken
<1>4. CASE CapturedOrders # {}
  <2>1. Taken \in CapturedOrders
    BY <1>4 DEF Taken
  <2>2. Taken \in Attempts /\ Took(Taken)
    BY <1>1, <2>1
  <2> QED
    BY <1>2, <2>2
<1> QED
  BY <1>3, <1>4

(* Before a race, every step of the checkout is a step of the charge, or none. *)
LEMMA ChargePromise ==
  ASSUME ChargeInv, ChargeInv', Next, races' = {}
  PROVE  Promise!Next \/ UNCHANGED <<Taken, payment.capture, Returned>>
<1>0. /\ 0 \notin Attempts /\ CapturedInv /\ CaptureReal /\ races = {}
      /\ \A r \in Requests : job[r].at = "attach" /\ job[r].op = "checkout" => NoneCharged
  <2>1. TypeOK
    BY DEF ChargeInv, CapturedInv, TypeInv
  <2>2. races = {}
    BY <2>1, HistoryStep DEF HistoryType
  <2> QED
    BY <2>2, NoneIsNoAttempt DEF ChargeInv, SaysUncharged
<1>1. /\ \A o \in Attempts : Took(o) => Taken = o
      /\ Taken # 0 => Taken \in Attempts /\ Took(Taken)
  BY <1>0, TakenIs DEF Calm, TakenFits
<1>2. /\ \A o \in Attempts : Took(o)' => Taken' = o
      /\ Taken' # 0 => Taken' \in Attempts
  <2>1. Calm'
    BY DEF Calm
  <2>2. TakenFits'
    BY <2>1, TakenIs, PTL
  <2> QED
    BY <2>2 DEF TakenFits, Attempts
<1>3. CASE KeepsRecord
  <2>1. Returned' = Returned
    BY <1>3 DEF KeepsRecord, Returned
  <2>2. CASE Taken # 0
    <3>1. Taken' = Taken
      BY <1>1, <1>2, <1>3, <2>2 DEF KeepsRecord
    <3> QED
      BY <1>3, <2>1, <3>1 DEF KeepsRecord
  <2>3. CASE Taken = 0
    BY <1>2, <1>3, <2>1, <2>3 DEF KeepsRecord, Promise!Next, Promise!Take
  <2> QED
    BY <2>2, <2>3
<1>4. CASE UNCHANGED paypal
  <2>1. Taken' = Taken /\ Returned' = Returned
    BY <1>4 DEF Taken, CapturedOrders, Returned
  <2>2. CASE Records
    <3>1. payment'.capture = Taken /\ Taken # 0
      BY <1>0, <1>1, <2>2 DEF Records
    <3>2. payment.capture # 0 => payment.capture = Taken
      BY <1>0, <1>1 DEF CaptureReal
    <3> QED
      BY <2>1, <3>1, <3>2 DEF Promise!Next, Promise!Record
  <2>3. CASE Attaches
    <3>1. NoneCharged
      BY <1>0, <2>3 DEF Attaches
    <3>2. payment.capture = 0 /\ payment'.capture = 0
      BY <1>0, <2>3, <3>1 DEF Attaches, CaptureReal, NoneCharged, Charged, Took
    <3> QED
      BY <2>1, <3>2
  <2> QED
    BY <1>0, <1>3, <1>4, <2>2, <2>3, MoneyMoves DEF Returns
<1>5. CASE Returns
  <2> DEFINE c == payment.capture
  <2>1. /\ c \in Attempts /\ Took(c) /\ paypal'[c] = "refunded" /\ c # 0
        /\ payment'.capture = c /\ paypal[c] = "completed"
    BY <1>0, <1>5 DEF Returns, Took
  <2>2. Took(c)'
    BY <2>1 DEF Took
  <2>3. Taken = c /\ Taken' = c
    <3>1. Taken = c
      BY <1>1, <2>1
    <3>2. PICK x \in Attempts : x = c
      BY <2>1
    <3>3. Took(x)'
      BY <2>1, <3>2 DEF Took
    <3> QED
      BY <1>2, <3>1, <3>2, <3>3
  <2>4. ~Returned
    <3>1. \A o \in Attempts : paypal[o] = "refunded" => o = c
      BY <1>1, <2>3 DEF Took
    <3> QED
      BY <2>1, <3>1 DEF Returned
  <2>5. Returned' = TRUE
    BY <2>1 DEF Returned
  <2> QED
    BY <2>1, <2>3, <2>4, <2>5 DEF Promise!Next, Promise!Return
<1> QED
  BY <1>0, <1>3, <1>4, <1>5, MoneyMoves DEF Records, Attaches

(* The checkout implements the charge, for any number of requests and attempts
   and whatever fails, until one of the races in the code happens: money is
   taken once, recorded once under its own order, and returned once after that,
   and no later attempt, failure, expiry or cancellation undoes any of it.  *)
THEOREM CheckoutIsOneCharge == Spec => ImplementsCharge
<1>1. Init => Promise!Init
  <2> SUFFICES ASSUME Init PROVE Promise!Init
    OBVIOUS
  <2>1. CapturedOrders = {} /\ Returned = FALSE /\ payment.capture = 0
    BY DEF Init, CapturedOrders, Returned
  <2> QED
    BY <2>1 DEF Promise!Init, Taken
<1>2. ChargeInv /\ ChargeInv' /\ [Next]_vars
      => [races' # {} \/ Promise!Next]_<<Taken, payment.capture, Returned>>
  <2>1. CASE UNCHANGED vars
    BY <2>1 DEF vars, Taken, CapturedOrders, Returned
  <2> QED
    BY <2>1, ChargePromise
<1> QED
  BY <1>1, <1>2, ChargeInvHolds, PTL DEF Spec, ImplementsCharge
=============================================================================
