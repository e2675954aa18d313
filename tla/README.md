# A TLA+ development of Rentify's backend

Rentify is a rental marketplace: an Express API over MySQL (Prisma), Redis,
RabbitMQ, Elasticsearch and PayPal, with pollers and queue consumers as separate
processes. Its core is the path from a booking request to a paid, converted and
completed renting; around it stand refunds, sessions, uploaded images and the search
index. Each is shared by HTTP requests, webhooks and workers that run concurrently in
several processes over stores that no transaction spans. This directory models these
parts, checks them with TLC and proves part of it with TLAPS.

Paths below are relative to `src/backend/src/app/features/`.

## 1. The system

### 1.1 Parts, their state and their operations

| Part | State | Operations | What makes it hard |
|---|---|---|---|
| Flow locks (`cache/cache-locks.ts`, `cache.service.ts`) | Redis keys with a token and a 15 s TTL | `withFlowLock(s)`, release by token, `extend` | not renewed except by checkouts; a lapsed lock is not noticed |
| Booking requests (`bookings/`) | `booking_requests` rows: status, dates, `holdExpiresAt`, `holdBlockId`, conversion reservation, reconciliation flag | create (cap, instant booking), update, approve, decline, cancel (with refund), expire, reserve / release for conversion | reads and writes are separate statements; the expiry worker takes no lock |
| Availability calendar (`postings/`) | `posting_availability_blocks`: owner, booking-hold and renting blocks | owner create / update / delete; hold on payment; renting block on conversion | overlap query and insert are separate; several tables decide together |
| Rentings (`rentings/`) | `rentings`, `renting_disputes` | convert, instructions, check-in ready / complete, complete, dispute, promotion to `return_due` on reads | unconditional UPDATEs after a check; promotion without a lock |
| Checkout and payments (`payments/`) | `payments`, `payment_attempts`, `payment_webhook_events` | session, capture, cancel, webhook, reconcile, repair and retry workers, refund | PayPal calls between transactions; late, repeated and reordered events; held captures |
| Refunds, ledger, payouts (`payments/`) | `refunds`, `payment_ledger_entries`, `payouts` | create and complete refund, refund webhook, release payout | idempotency keys, sums over rows that other transactions write |
| Posting lifecycle (`postings/`) | `postings.status`, snapshots | draft, publish, pause, unpause, archive, expire, restore | archive and restore take no lock |
| Media (`media/`, `blob/`) | media rows, blobs | upload, complete, scan, moderate, attach, clean up, replay dead letters | queue redelivery, claims, blobs outside the transaction |
| Search (`search/`) | outbox rows, index jobs, reindex runs, alias | relay, versioned index, reindex with alias swap, reconcile | out-of-order jobs, swap during writes |
| Auth (`auth/`) | refresh tokens, sessions, lockout counters, OTPs, pending signups | rotate, revoke, lock out, sign up, change e-mail | token reuse, races on one-time codes |
| Organizations, recommendations, analytics, reports, e-mail, SMS, flags, profile | rows and queues | CRUD, polling, delivery | mostly single-row work around providers |

How the parts meet: an approval makes a booking payable but takes no dates. The
payment takes them: `markPaymentSucceeded` writes the booking's hold block under
the posting's window lock, or flags the booking when the dates are gone. A
conversion replaces the hold by a renting and its block. Cancellation, expiry and
refunds give the dates back. All of these share the booking's row and the calendar.
A cancellation of a paid booking first refunds at PayPal, under the booking's locks. Every
change of a posting, its bookings and reviews included, leaves a row in the search outbox
in the same transaction. A posting, profile or organization refers to an image only while
the image's row is locked and ready. Sessions guard all of it: each request reads the
account's token version in MySQL and its session in Redis.

### 1.2 What must be true

* dates: two bookings never reserve the same dates; a block never outlives its
  reason; an owner cannot block reserved dates;
* money: the renter is charged at most once; nothing is recorded as paid that
  was not captured; captured money is recorded or flagged in the end;
* refunds: the ledger has each settled refund once; the payment's status is what its
  refunds add up to; a cancellation with a refund has that refund at PayPal;
* sessions: what was ended stays ended whatever is in flight; one live refresh token;
* images: what is ready has its bytes, what is attached is never deleted, every upload
  is settled;
* search: no change is lost on the way, the alias moves only to an index that has caught
  up, and search agrees with the database in the end;
* life cycles: a renting is final and was paid for; it only moves forward and
  agrees with its dispute; an unpaid request does not stay open for ever.

The concrete risks, each at its line and with the properties that would catch it,
are the `hazards` of `PROJECT.json`.

## 2. Modules

| Module | Models | Size of its state |
|---|---|---|
| `FlowLock` | the lock table as pure operators | none: used by `BookingWindow` and `RentingLifecycle` |
| `Calendar` | abstract: bookings take, give back and rent date ranges | 1 variable |
| `BookingWindow` | the calendar of one posting: bookings, blocks, rentings, owner commands, and payments as the calendar sees them; implements `Calendar` | 7 variables |
| `Charge` | abstract: the money of one order is taken, recorded and returned, each once | 3 variables |
| `Checkout` | the checkout of one booking against PayPal; implements `Charge` | 9 variables |
| `Renting` | abstract: the commands on a renting, one step each | 3 variables |
| `RentingLifecycle` | one renting after its conversion; implements `Renting` while locks last | 7 variables |
| `Refunds` | the refunds, cancellation and ledger of one paid booking | 11 variables |
| `AuthSessions` | the sessions and refresh tokens of one account | 11 variables |
| `MediaPipeline` | one uploaded image, its jobs, sweeps and references | 12 variables |
| `SearchOutbox` | one posting's way to the search index, and reindex runs | 14 variables |
| `MC...` | small constants and symmetry sets for TLC | |
| `BookingWindow_proofs`, `BookingLapse_proofs`, `RentingLifecycle_proofs`, `Checkout_proofs`, `Refunds_proofs`, `AuthSessions_proofs`, `MediaPipeline_proofs`, `SearchOutbox_proofs` | theorems of section 4 | |

### 2.1 How code becomes actions

A command that runs under locks is a **job** in the function `job`: one step takes
the locks (all or none; a taken key is an immediate 409, so a request that cannot
have its locks simply does not start), reads, and remembers what it read; later
steps write. Steps of others run in between if, and only if, the locks allow it. A
database transaction that reads first and writes later is two steps (`ReadConvert`
/ `CommitConvert`, `BeginSettle` / `CommitSettle`, `BeginRefund` / `CommitRefund`)
in `BookingWindow`, and the second step uses what the first one saw: that is MySQL's
default isolation, which the code leaves alone. Commands whose write is a
compare-and-swap on everything they read (approve, decline, updateOwnPending) are one step.

*BookingWindow.* `bk[b]` is the booking row. Time is three flags: `lapsed`
(`holdExpiresAt` has passed), `live` (the conversion reservation has not expired) and
the posting's status. `holds` has a pair `<<b, n>>` for the n-th hold block of `b`, so
a block that no row points at any more is visible. A payment is `none`, `open` or
`charged`: what PayPal does is the business of `Checkout`.

*Checkout.* `payment`, `attempt` and `booking` are rows; `paypal` is the provider's
truth; `events` are webhooks not yet marked processed. A webhook stays deliverable
until its work ended well, in any order relative to others. The idempotency key of
an attempt is the key of its order, so order *a* belongs to attempt *a*. A request
stops at each PayPal call. A webhook reads the payment without the lock (`ReceiveEvent`), takes
the lock in a later step (`LockEvent`) and goes on with what it read. Every path of the
code is always there: the retry worker, repeated requests, busy window locks, crashes, lost
answers, held captures, dates that are gone. `mishaps` counts those that may happen at any
moment, so that an instance can bound them.

*RentingLifecycle.* Five commands with their four statements each, the promotion to
`return_due` that reads perform without a lock, the clock, and locks that lapse
(`lapsed` remembers it).

*Refunds.* `refund` has the rows by idempotency key, `paypal` what PayPal did under that
key. A refund is a record (`BeginRefund`, or `BeginCancel` under the booking's locks), the
POST (`PostRefund`: answered, answered in vain, refused) and the completion transaction, a
snapshot (`ReadRefund`) and its writes (`CommitRefund`). A webhook finds its row by PayPal's id,
which is stored only by a completion (`known`).

*AuthSessions.* `user` is the database row; `session`, `index`, `token` and `lock` are Redis.
A request is a job that stops between any two reads or writes that matter; `ended` remembers
the sessions that a sign-out, a password, a hold or a reuse ended. `issued` and `held`
are the tokens clients have.

*MediaPipeline.* The row, the quarantined `upload` (which of the client's writes it is, so
its number is its etag), the published `image` (made of which bytes) and the `queue` are
separate stores. Two workers, the cleaner, the client and an operator's replay take one
statement or blob call at a time. `unmoved` is the sweeps' guard on `updated_at`.

*SearchOutbox.* Rows of `outbox` are in the order of `created_at`; `moved` says that
`available_at` was put off. The maintainer runs relay, reindex and reconciliation in turn
(one process, as deployed); the indexer takes messages from `queue` and `delayed`. An index holds
the version it shows. `rebuild` is the process that lists, writes, sets the barrier and
switches the alias.

*Calendar and its refinement.* `BookingWindow!DatesOf` maps a booking to what it has: `rented`
when a renting exists, `held` when it is paid and its row points at a hold block, else
`free`. `ImplementsCalendar` says every step of the tables is a step of `Calendar` or none.

*Charge and its refinement.* The order that was charged (`Taken`), the capture that the payment
shows and whether PayPal returned the money (`Returned`) are the abstract state.
`ImplementsCharge` is more than `OneCharge`: the recorded capture is the order that was
charged, an attach, a failure or an expiry never wipes it out, and nothing is returned before
it was recorded, or twice.

*Renting and its refinement.* The row, the dispute and the clock are the abstract state as they
are; a command's lock, read and checks are no steps of it. `CommandsAreAtomic` says that, until
a lock lapses, the four statements of a command have the effect of one: each write is
a step that the abstract command allows on the row at that moment, although promotions run
in between.

**Histories instead of excluded cases.** The code leaves some races open. Rather than remove
them from the model, `BookingWindow`, `Checkout`, `Refunds`, `AuthSessions`, `MediaPipeline`, `SearchOutbox`
and `RentingLifecycle` record them when they happen (`races`, `late`, `excused`, `lapsed`), and a
property says exactly without which of them it holds. In `BookingWindow` and `Checkout` no action
reads the history, except that `mishaps` is bounded. The races
of `Checkout` and `BookingWindow` are listed in section 3.1, and section 3.3 tells what
the others lead to.

### 2.2 What the models leave out

Access checks, amounts, prices, e-mails, analytics and search notifications; other
postings (nothing in the calendar of one posting depends on another). In `Checkout`:
conversion (it has `BookingWindow`), partial refunds (they have `Refunds`), and an answer of PayPal that
cannot be parsed after it took effect. PayPal is assumed to answer GETs truthfully or
not at all, to capture an order at most once, and to refuse a capture with a 4xx only
if nothing was captured. In `BookingWindow` an attempt left pending by a crash is not
repeated by its client (in `Checkout` it is, `BeginReplay`), and restoring a posting
snapshot, which rewrites owner blocks, is not an action.

## 3. Runs

### 3.1 Passing runs

| Run | Instance | Distinct states | Shows |
|---|---|---|---|
| `booking_window` | 2 bookings of 2 renters, 1 date range, 2 requests, 2 holds per booking | 1.6 M | `NoDoubleBooking`, `ChargedIsReservedOrFlagged`, the inductive invariant `CalendarInv`, the refinement `ImplementsCalendar` |
| `booking_expiry` | 1 booking, 1 range, 2 requests, 1 hold block, lapsing locks, crashes, retries and repeated requests, fairness | 1.0 M | `HoldsAccounted`, `ConvertedIsFinal`, `ConversionNeedsPaid`, `UnpaidBookingEnds` |
| `renting_lifecycle` | 2 requests, lapsing locks | 80 K | `DisputeMatchesStatus`, `ProgressIsEarned`, `StatusAdvances`, the refinement `CommandsAreAtomic` |
| `checkout` | 2 attempts, 2 requests, every path, 1 mishap, up to the first race | 4.0 M | `OneCharge`, `OnlyCurrentOrder`, the refinement `ImplementsCharge` |
| `checkout_recovery` | 1 attempt, 2 requests, every path, mishaps and races without limit, fairness | 94 K | `PaidIsCaptured`, `ChargeIsRecorded` |
| `refunds` | a manager's key and the cancellation's, a charge of 2 refunded in parts of 1, 2 requests, 1 crash, overlapping completions and resettlement, fairness | 0.39 M | `LedgerIsExact`, `SettledIsReal`, `BooksWithinCharge`, `PaymentMatchesRefunds`, `CancelledIsRefunded`, `SettledIsFinal`, `RefundIsRecorded` |
| `auth_sessions` | 2 sessions, 3 tokens, 1 version rotation, 4 operations by 2 requests, every operation, lapsing locks | 0.41 M | `TypeOK`, `EndedUnlessUnindexed`, `OneLiveToken`, `DeadStaysDead`, `SuspensionHolds` |
| `media` | 2 workers, 2 attempts, 1 re-queue, 2 writes of the upload, 1 further event (failure, crash, save, delete, replay, rewrite), fairness | 0.34 M | `TypeOK`, `ReadyHasImageUnlessLate`, `AttachedIsReady`, `KeptForReplay`, `RefusalIsFinal`, `UploadIsSettled` |
| `search` | 1 indexer batch, 2 attempts, 2 changes, 2 runs, 3 events in all (changes, runs, failures, crashes), fairness | 0.16 M | `TypeOK`, `DrainedIsIndexedUnlessExcused`, `SwapIsCaughtUp`, `ReindexEnds`, `SearchConverges` |

The type invariants of `BookingWindow`, `RentingLifecycle`, `Checkout` and `Refunds` are proved
(`TypeCorrect`, section 4) and not repeated in these runs.

Bounds. Two bookings and one range are the smallest instance in which dates can be
sold twice, and the overlap of intervals adds nothing to identical dates that the
proof does not cover. `booking_expiry` was also checked, without its liveness, with two
adjacent ranges, between which an update moves the booking, and two hold blocks (1.4 M states);
only `booking_window` pauses and archives the posting (`MayPause`). Two
requests are needed for every interleaving of a pair; anything unlocked (expiry,
owner commands, approvals) needs no request of its own. Two attempts let a superseded order
and its successor meet, and one mishap suffices for each race of the table below that
needs one; `MaxMishaps` is 100 in `checkout_recovery`, which its states never reach. The
`CONSTRAINT` `NoRace` of `checkout` stops a behaviour where the first race has happened: of the three
properties only `OnlyCurrentOrder` goes on after some of the races, and the theorem
`OnlyCurrentCaptured` covers it there. `VIEW WithoutHistory` leaves the history out of the
fingerprint where no property of the run reads it. Bounds are named: `MaxHolds`,
`MaxAttempts`, `MaxRetries`, `MaxMishaps`, `MaxActive` (the program's own limit), `MaxCrashes`, `MaxSessions`,
`MaxTokens`, `MaxVersion`, `MaxBegun`, `MaxRequeues` (configured), `MaxWrites`, `MaxChanges`, `MaxRuns`,
`MaxEvents`. A failed delivery costs an event only the first time, so a whole series of
retries up to the dead letter fits into one event. Two keys are the fewest with which two
refunds add up; two sessions and three tokens let a refresh, its repetition and another
session's sign-out meet; two runs are needed for the overlap of their starts. A second
indexer batch was checked once (`Indexers = {w1, w2}`, four minutes): the same properties
hold. Deadlock is not
checked where a finished booking may simply rest; `RentingLifecycle` is checked for it.
Symmetry is over requests, and not used in the runs with fairness. `booking_window`
leaves crashes out to stay within a few minutes; the theorems `CalendarHolds` and
`CalendarImplemented` cover them.

What some properties except, by name. A race is recorded in the step in which it happens, and
only if it did: the actions themselves are never restricted.

* *Bookings* (`BookingWindow!races`, one set per booking). `HoldsAccounted`, `ConvertedIsFinal` and
  `ConversionNeedsPaid` speak of a booking until one of two things happened to it:

  | Race | Where | What happens |
  |---|---|---|
  | `overlap` | `rentings.repository.ts:168`, `payments.repository.ts:966`, `:1343` | a cancellation, conversion, settlement or refund of the booking was written between the reads and the writes of another one's transaction |
  | `reopen` | `payments.repository.ts:1639`, `:174` | an attempt is tried again, by the worker or a repeated request, although the booking cannot be paid any more |

  Lapsing locks, crashes, repeated settlements, and a cancellation or a conversion that
  began before the other wrote are no exceptions unless a transaction was open in between.
  `ConvertedIsFinal` is sharpened by `ImplementsCalendar`, which has no exception but holds only
  while locks last.

* *Charges* (`Checkout!races`). `OneCharge` and `ImplementsCharge` hold until one of these happened,
  `OnlyCurrentOrder` until `stale` or `retry`. After each of them the renter can be charged twice, or the
  charge can be lost from the payment's record:

  | Race | Where | What happens |
  |---|---|---|
  | `stale` | `payments.service.ts:539`, `:595` | between a webhook's read of the payment and its lock the payment got another order, or the booking can be paid again; the webhook captures or settles by what it read (run `superseded_capture`) |
  | `retry` | `payments.service.ts:676` | the retry worker, which has no checkout lock, writes beside a request that has it, or after the money was taken |
  | `replay` | `payments.repository.ts:174` | a repeated request asks for an order after the money was taken, and fails the booking that was paid |
  | `dropped` | `payments.service.ts:921` | a request that knows of the capture ends (crash, lost answer, busy window) while the payment is not recorded as processing, so that the next checkout does not ask PayPal about it |
  | `busy` | `payments.service.ts:353` | a busy window lock after the capture is taken for a decline: the catch that is for "Declined instruments and similar rejections" (`:362`) marks the payment failed |
  | `pend` | `payments.service.ts:439` | a checkout whose capture PayPal holds is cancelled, or a capture is held while the payment is not recorded as processing |
  | `gone` | `payments.service.ts:921` | the booking is charged without dates and stays payable |

  So a crash, a lost answer, a busy checkout lock, a repeated request or a retry alone is no exception: the
  renter is still charged once as long as the payment says that an order is in process, which
  makes the next checkout ask PayPal first. `PaidIsCaptured` and `ChargeIsRecorded` have no exception at all.

### 3.2 Disagreements between the code and what it says

Each is a run that TLC must find violated; `findings` in `PROJECT.json` quotes the
line of a comment, message or test that says otherwise.

| Run | What happens |
|---|---|
| `retry_double_booking` | the retry worker moves a paid booking to `payment_processing`; its hold block stops blocking; another booking pays for the same dates |
| `superseded_capture` | a webhook reads the payment; a new checkout finds the order not approved yet, supersedes it and ends; the buyer approved it meanwhile, and the webhook, under the lock by now, captures it because it was current when it was read; no crash or lost answer is needed |
| `search_coalescing` | a job whose publish failed comes back behind a newer job of the posting, supersedes it, and is skipped by the indexer because a newer job exists; both are marked indexed and the index misses the change until reconciliation |

### 3.3 Other behaviours a reader of the models will meet

The models contain them because the code does; no run is kept for them.

* *Owner blocks over paid dates* (`WriteOwnerBlock`): the conflict query
  (`postings.repository.ts:452`) leaves out bookings whose `holdExpiresAt` has passed or
  whose conversion is reserved, paid ones too, and looks at no hold block.
* *A refunded booking converted* (`BookingWindow`, race `overlap`): a refund, which takes no lock, is
  written between the conversion's check and its write, and a refunded booking becomes a
  renting, although the message there says "Only paid booking requests can be converted into
  rentings." (`rentings.repository.ts:75`). `ConversionNeedsPaid` without its exception fails in this way.
* *A refund beside a settlement* (the same race): both read the booking before either writes; the
  refund sets `holdBlockId` to null, or the settlement creates a block that the refund did not
  see, and a hold block is left that no paid booking points at, which blocks its dates for good
  (`hasBlockingAvailabilityOverlap`).
* *Expired bookings reopened* (`BookingWindow!Attach`, `SessionFails`): `attachPaymentSession`
  and `recordAttemptFailure` (`payments.repository.ts:383`, `:515`) set the booking's status
  whatever it is. `UnpaidBookingEnds` shows that the expiry worker closes it again.
* *Refunded payments restored* (`Checkout!MarkSucceeded`): PayPal reports a refunded capture
  as paid, and `markPaymentSucceeded` (`payments.repository.ts:1292`) has no case for
  a refunded payment, so a late webhook or a reconcile makes it `succeeded` again.
* *Flag of a double charge cleared* (`Checkout!MarkSucceeded`): the next repair of the
  payment's own order resets `reconciliationRequired` (`payments.repository.ts:1430`).
* *A late `APPROVED` event* (`Checkout!EnterCapture`, `RejectOrder`): handled after the capture it
  finds the booking paid, not payable, and `captureApprovedOrder` (`payments.service.ts:818`)
  rejects the order, so a succeeded payment becomes `failed_final`. The adapter
  says "A second capture (e.g. webhook and return page racing) is not a failure"
  (`paypal.adapter.ts:189`).
* *Refunds that overlap* (`Refunds`, race `overlap`): no lock keeps two completions apart. Two of
  the same refund both read `pending` and write two ledger entries; two of different
  refunds each see only their own amount, and a payment refunded in full stays
  `partially_refunded` (`payments.repository.ts:1022`, `:1084`).
* *Keys used again* (races `repeat`, `reprice`, not allowed in the run): a repeated key writes
  a stale `PENDING` over a settled refund; a cancellation is retried under the same
  key with the amount of the new day, while PayPal answers with its first refund, so
  the booking's refund amount is not PayPal's; and a cancellation whose refund PayPal
  failed fails for ever, because its key never changes.
* *Resettlement* (race `resettle`): a reconcile or repair after a refund makes the payment
  `succeeded` again with a second `charge_succeeded` entry.
* *Sign out the others* (`AuthSessions`, race `unindexed`): a list that began before a version
  rotation prunes the newer sessions from the index (`token.service.ts:916`), and the next
  "revoke others" does not find them.
* *Password against suspension* (`AuthSessions!Rotate`): a password change that read an active
  account issues a session after the account was locked or suspended. It is useless until
  the account is reinstated, and works then.
* *Renditions of a reopened item* (`MediaPipeline`, history `late`): an overtaken attempt reads the
  item as rejected and decides to delete the renditions; an operator reopens the item,
  another attempt publishes it, and then the deletion happens. The comment says "a ready
  image always has them" (`media-processing.service.ts:120`); `ReadyHasImage` fails in exactly
  this case.
* *Two reindex runs* (`SearchOutbox!StartReindex`): the start lock is released in a `finally`
  inside the transaction, before the commit, so a second start may see no active run. Changes
  then go to the newer run's index only (`unheard`).
* *Stale documents* (`overwritten`): documents carry no version, so one that was read first and
  written last stays until reconciliation.
* *The barrier* (`SwapIsCaughtUp`): a job before the barrier that a job after it superseded counts
  as indexed, so the alias may move before that change is in the new index; jobs that were
  given up are not waited for.

### 3.4 Fairness

`BookingWindow!Fairness`: the expiry worker polls (`WF` on `Expire`) and clocks advance,
and nothing else: no user is obliged to act and no request to end. `Checkout!Fairness`: requests end; PayPal delivers a
`COMPLETED` event again and again until it is marked processed, and often enough
that some deliveries meet a free checkout lock and a free window lock (`SF`). That is
what the code relies on: "A lock conflict does throw, so PayPal redelivers the event
once the in-flight checkout request finishes" (`payments.service.ts:592`). Nothing is
assumed about the repair worker. `Refunds!Fairness`: requests end, and PayPal repeats a
completion event until it is answered. `MediaPipeline!Fairness`: workers consume, the cleanup
sweeps, time passes; neither the client nor the operator is obliged to act.
`SearchOutbox!Fairness`: transactions end and the indexer consumes (`WF`); each of the
maintainer's three tasks gets its turn again and again (`SF`), which is what its loop
does. `SearchConverges` rests on reconciliation and therefore on the posting being among
the `limit` most recently updated ones. `AuthSessions` and `RentingLifecycle` state no liveness.

## 4. Proofs

TLC settles small instances; these theorems hold for every value of the constants: any
number of bookings, ranges, requests, attempts, keys, sessions, tokens, workers, crashes
and repetitions. The only assumptions on constants are the named ones of each module
(`BookingWindowAssumption` and the like: bounds are natural numbers, "nobody" is not a
request, ranges end after they start, the keys of `Refunds` are finite) and those stated in a
theorem.

`RentingLifecycle_proofs`
* `TypeCorrect`: `Spec => []TypeOK`.
* `DisputeAgrees`, `StatusNeverRegresses`: until a lock has lapsed. The properties are not
  inductive: a command writes a status it checked two statements earlier.
  `LifecycleInv` adds that the running command has the lock alone
  (`LockHeldByRunner`) and that what it read is still true up to promotions
  (`ReadStillTrue`).
* `CommandsAtomic`: `Spec => CommandsAreAtomic`. Every write of a command is a step of
  `Renting` on the row as it is then, because what the command checked is still true when it
  writes; the proof asked `ReadStillTrue` for one more clause, that the instructions a
  `markCheckInReady` saw are still there.
* `ProgressEarned`: a renting is completed or disputed only after a check-in, lapsed locks
  included. `EarnedInv` is the inductive form: whoever is about to complete or dispute has
  seen a status that only a check-in leads to, and no step undoes a check-in.

`BookingWindow_proofs`
* `TypeCorrect`: `Spec => []TypeOK`, under every fault.
* `CalendarHolds` and `DatesAreDisjoint`: `Spec => []CalendarInv` and
  `Spec => []NoDoubleBooking`, assuming `~LockMayLapse` and `~AttemptsReopen`, for
  crashes and snapshot reads. Both assumptions are needed: the second is
  what `retry_double_booking` drops, and a lock that lapses under `markPaymentSucceeded`
  lets two payments check the calendar before either writes.

`NoDoubleBooking` is far from inductive. `CalendarInv` says in addition: every running job
has its locks and no key has two owners (`LocksHeld`); a booking that was never approved
has neither money nor blocks (`UndecidedIsClean`); only a paid, charged, unconverted
booking points at a block, which exists (`HoldIsPaid`); any booking with a block of
its own or a renting keeps all others off its dates, even after a refund cut the
pointer to the block (`TakenApart`); and what a job learned is still true when it
writes (`JobsStillRight`), above all that a settlement which saw the dates free still
has nobody on them. The argument: only `CommitSettle` and `CommitConvert` take dates; both
run under the window lock; every action that could take dates under their feet needs
that lock (`OneWindowJob`); all other actions only give dates back or touch
unrelated fields (`Mild`, `MildStep`). The proof has one step per action.

* `CalendarImplemented`: `Spec => ImplementsCalendar`, under the same assumptions. Every step
  changes at most one booking's row, never undoes a renting and never moves reserved dates
  (`Steady`, `SteadyStep`, one case per action); so what `Calendar` sees of the step is a
  `Hold`, a `Rent`, a `GiveBack` or nothing (`PromiseStep`). That a `Hold` or `Rent` finds the
  dates clear follows from `NoDoubleBooking` after the step, because nobody else's dates
  changed in it (`TakenWasClear`): the refinement rests on `CalendarHolds`.

`BookingLapse_proofs` asks what is left of the calendar when flow locks lapse under their
owners, processes die and attempts are tried again, which `CalendarInv` excludes.
* `HoldsAreAccounted`, `RentingsAreFinal`, `OnlyPaidIsRented`: `HoldsAccounted`, `ConvertedIsFinal` and
  `ConversionNeedsPaid` follow from `Spec` alone. Their only exceptions are those the properties name.
* `ChargesAreNeverSilent`: `Spec => []ChargedIsReservedOrFlagged`, assuming `~AttemptsReopen`: a retry
  that reopens a paid booking takes its status away and flags nothing.

`LapseInv` (`LapseHolds`) does without any lock but the checkout's, which the code renews. It says
what each row may look like, given the races of its booking (`RowSafe`: paid means charged; a
charge without dates is flagged unless the booking was reopened; without races a
renting was paid for), what a job may still rely on (`JobSafe`: while a checkout whose attempt
is current is under way nobody makes its booking paid; a transaction on a booking without races
knows all its blocks, and a conversion that it is still paid or already rented), that a
booking is created once, and `HoldsAccounted` itself. The argument: every action moves one
request and writes one row (`SafeMove`); all writes but those of `CommitCreate`, `CommitSettle`,
`CommitConvert` and those that end a paid booking (cancellation, refund) are `Quiet`, that is,
harmless to any job of any other request; and those meet no rival whose transaction is open
on the booking, or the step itself records the overlap (`OverlapNoted`).

`Checkout_proofs`
* `TypeCorrect`: in any race. It needs `TypeInv`: attempts are opened in order and a
  request refers only to opened ones.
* `NothingPaidUncaptured`: `Spec => []PaidIsCaptured`, in any race. `CapturedInv` adds
  that whoever says "captured" is right: the events in flight and the requests
  that carry PayPal's answer to the database. Money that PayPal took stays taken, and
  that is why a stale answer is harmless here.
* `OnlyCurrentCaptured`: `Spec => OnlyCurrentOrder`. `CurrentInv`: until `stale` or `retry` happened, the order
  that a request under the lock took for the current one is the payment's order; a webhook
  without the lock yet claims nothing, and `LockEvent` either finds its read still right or
  records `stale`.
* `ChargedOnce`: `Spec => []OneCharge`, any number of attempts, requests and mishaps. `ChargeInv`: until a race,
  a charged order is the payment's own; and either the booking cannot be paid any more (`Shut`, and a
  recorded capture always shuts it), or the payment says that it is processing, or a request under
  the lock is about to record the charge (`ChargesFit`). Nobody else therefore opens or fails an
  attempt (`SaysUncharged`). `RefusalsFit` is the other half: a refusal on its way to the database is
  PayPal's last word on that order, so it never wipes out a charge.
* `CheckoutIsOneCharge`: `Spec => ImplementsCharge`. `MoneyMoves`, which holds in any race, says what a step can do
  to the money: leave record and refunds alone, record an order that was charged, attach a new
  order, or return the recorded one. From it follows `CaptureReal`, also in any race: the capture
  a payment shows was taken, whatever its status says. `ChargeInv` adds that there is one charged
  order and none while a request attaches, so that until a race each kind of step is a `Take`, a
  `Record`, a `Return` or nothing (`ChargePromise`).

None of the three has an assumption; the seven races they except are the table of section 3.1, and
a step is excepted only once the race is in the history.

`Refunds_proofs`
* `TypeCorrect`, `LedgerExact`, `SettledRefunds`, `PaymentMatches`, `CancelledRefunds`,
  `SettledFinal` (`SettledIsFinal`) and `BooksWithin` (`BooksWithinCharge`): the safety properties of
  the run for any keys, amounts, requests and crashes, and with the reuse of keys that the run
  excludes.

`RefundsInv` has three layers. What PayPal said stays true (`EventsFit`, `RefundsFit`, `JobsFit`);
amounts agree until a key comes back with another (`AmountsFit`); a key has one user
until it has PayPal's id (`OneUse`), and what an open completion read is still so
(`OneCommit`), each until the race that breaks it was recorded. The sums are
cardinalities of sets of units, so that adding one row's amount is a fact about disjoint
sets. `SettledFinal` rests on `OneUse`: a request's own answer, which may be an old PENDING, is
stored before the record has PayPal's id and so before any webhook finds it, and a webhook's
answer is final (`SettledStays`); overlapping completions do not matter to it. `BooksWithin`
needs an invariant of its own, `WithinCharge`: what PayPal made or is making stays
within the charge. That the books stay below it is `SettledIsReal` as a fact about sums:
`createRefundRecord` alone does not keep them there, since pending refunds do not reduce what
remains. The proof showed that `CancelledIsRefunded` needs one exception fewer than was
first stated: only `reprice` breaks it.

`AuthSessions_proofs`
* `TypeCorrect`, `EndedSessions` (`EndedUnlessUnindexed`), `OneTokenPerSession` (`OneLiveToken`),
  `DeadSessions` (`DeadStaysDead`) and `Suspensions` (`SuspensionHolds`): no assumption but the
  races that the properties name.

`SessionsInv`: tokens belong to sessions that exist and versions only grow (`StoresFit`); what a
request read is still true as far as it acts on it (`JobsFit`), above all that the version
it carries is its session's, so a rotation of the account's version kills whatever it
issues; an ended session is dead or behind the account's version, and a sign-out still
under way has on its list what it must end (`EndedIsDead`); while locks last, a session
has one token that can be rotated and obtained, counting the ones that a rotation has
written but not handed out yet (`OneLine`).

`MediaPipeline_proofs`
* `TypeCorrect`, `ReadyImages` (`ReadyHasImageUnlessLate`), `AttachedImages` (`AttachedIsReady`),
  `UploadsKept` (`KeptForReplay`) and `RefusalsAreFinal` (`RefusalIsFinal`): any number of workers,
  attempts, crashes, redeliveries and rewrites.

`MediaInv` says which blobs a process may be about to delete given the row
(`DeletesOnlyFinished`), that attempts work on the bytes completion saw and in the order of
their claims (`AttemptsAgree`), that the latest attempt's renditions are in place before it
marks the item (`RenditionsInPlace`), and that a sweep's guard on `updated_at` sees a save
(`ListedIsUnattached`). The proof asked for one fact nobody had written down: an item whose
processing failed has an etag, without which a replay could bring back an item that
no upload belongs to.

`SearchOutbox_proofs`
* `TypeCorrect`, `NoChangeIsSkipped` (`DrainedIsIndexedUnlessExcused`) and `SwapsAreCaughtUp`
  (`SwapIsCaughtUp`): any number of indexers, changes, reindex runs, attempts, failures
  and crashes.

`SearchInv`: every document on its way is of a version the posting had, and right when
that is the latest (`DocsFit`); the jobs of one index are in the order of versions, and a
run's jobs come from changes that saw the run (`RowsFit`); and unless a gap was recorded
in `excused`, nothing is lost (`NothingLost`): the newest job of an index is still awaited or
the index shows the latest version (`JobsReach`), a run past its listing is covered
(`Listed`), and a run before it holds no older document unless changes know of it
(`Unlisted`). `Covered` ties jobs to runs: the index shows the latest version, or a job of
that very run exists for it. A first form that let any job count was circular for the index the
alias starts at, and the proof of `SwapAliases` failed on it. The argument has three parts. The
newest job cannot be superseded or skipped, because rows are in the order of versions and a
relay that coalesces out of that order is an excused gap (`reordered`). A
write of an older document over a newer one is an excused gap (`overwritten`). A change that
commits without seeing an active run is one too (`unheard`). `TypeOK` itself needs
`RowsBounded`: the outbox grows by two rows per change and one barrier per run.

Only model-checked: liveness (`UnpaidBookingEnds`, `ChargeIsRecorded`, `RefundIsRecorded`,
`UploadIsSettled`, `ReindexEnds`, `SearchConverges`), which is beyond this prover.

## 5. Plan

Done: the modules of section 2 and the proofs of section 4.

Next, in this order:
1. `PostingLifecycle`: publish, pause, archive, expiry, snapshots and restore, which
   rewrites owner blocks without the window lock.
2. Organizations: invitations, membership and ownership transfer.

### Not modelled

* The frontend, the HTTP layer, dependency injection, configuration and the generated OpenAPI
  description, more than two thirds of the repository's lines: presentation and I/O.
* Pricing arithmetic, ranking, recommendations and analytics: numeric scoring over data sets
  beyond TLC's reach.
* E-mail, SMS, reports, logging, feature flags, profiles, feedback: single-row work around
  providers.
* Of the modelled parts: payouts; lockout counters, one-time codes, pending signups, e-mail
  change, OAuth, MFA and personal access tokens; audit holds, the backfill of variants,
  orphan blobs and status pushes of images; the cleanup of retained indices, the repair of a
  missing alias and the search copies of organizations, blogs and reports.
* The expiry of refresh-token records, and the reads inside one token verification, which
  `AuthSessions` takes as one step.
