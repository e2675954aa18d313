--------------------------- MODULE Refunds_proofs ---------------------------
(***************************************************************************)
(* Proofs about Refunds, for any requests, keys and amounts.               *)
(***************************************************************************)
EXTENDS Refunds, FiniteSetTheorems, TLAPS

-----------------------------------------------------------------------------
(* The inductive invariant.                                                 *)

(* An answer of PayPal is final and agrees with the refund.                 *)
AnswerFits(answer, k) ==
    /\ answer = "COMPLETED" => paypal[k].status = "completed"
    /\ answer = "FAILED" => paypal[k].status = "failed"

EventsFit == \A e \in events : AnswerFits(e.status, e.key)

(* A record without PayPal's id has no outcome, and one that settled did so at
   PayPal.                                                                  *)
RefundsFit ==
    \A k \in AllKeys :
        /\ ~refund[k].known => refund[k].status \in {"none", "pending"}
        /\ refund[k].status = "none" => ~refund[k].known
        /\ refund[k].status = "succeeded" => paypal[k].status = "completed"

(* A request for a key has the key's record; a webhook found its id.        *)
JobFits(j) ==
    /\ j.at \in {"post", "read", "commit"} => refund[j.key].status # "none" /\ j.op # "none"
    /\ j.at \in {"read", "commit"} => AnswerFits(j.answer, j.key)
    /\ j.at = "post" => j.op # "webhook"
    /\ j.at \in {"read", "commit"} /\ j.op = "webhook" =>
          refund[j.key].known /\ j.answer # "PENDING"
    /\ j.op = "cancel" => j.key = CANCEL
    /\ j.at = "cancel" => j.op = "cancel"

JobsFit == \A r \in Requests : JobFits(job[r])

(* The same amount everywhere, unless a key was used with another amount.   *)
AmountFits(j) ==
    /\ j.at = "post" => j.amount = refund[j.key].amount
    /\ j.op = "cancel" /\ j.at \in {"read", "commit", "cancel"} /\ j.amount > 0 =>
          paypal[CANCEL].status # "none" /\ paypal[CANCEL].amount = j.amount

AmountsFit ==
    "reprice" \notin races =>
        /\ \A k \in AllKeys : paypal[k].status # "none" =>
              refund[k].status # "none" /\ paypal[k].amount = refund[k].amount
        /\ \A r \in Requests : AmountFits(job[r])
        /\ booking.status = "cancelled" /\ booking.refundAmount > 0 =>
              paypal[CANCEL].status # "none" /\ paypal[CANCEL].amount = booking.refundAmount

(* A key is in use once, and until its record has PayPal's id.              *)
Using(r) == job[r].op # "webhook" /\ job[r].at \in {"post", "read", "commit"}

OneUse ==
    "repeat" \notin races =>
        \A r \in Requests : Using(r) =>
            /\ ~refund[job[r].key].known
            /\ \A q \in Requests : Using(q) /\ job[q].key = job[r].key => q = r

(* What an open transaction read is still so, as far as it goes by it.      *)
ViewFits(j) ==
    /\ j.view.refund[j.key].status # "none"
    /\ \A k \in AllKeys :
          /\ j.view.refund[k].status = "succeeded" <=> refund[k].status = "succeeded"
          /\ j.view.refund[k].status # "none" =>
                refund[k].status # "none" /\ j.view.refund[k].amount = refund[k].amount

OneCommit ==
    "overlap" \notin races =>
        \A r \in Requests : job[r].at = "commit" =>
            /\ ViewFits(job[r])
            /\ "resettle" \notin races => job[r].view.payment = payment
            /\ \A q \in Requests : job[q].at = "commit" => q = r

RefundsInv ==
    /\ TypeOK /\ EventsFit /\ RefundsFit /\ JobsFit /\ AmountsFit /\ OneUse /\ OneCommit
    /\ LedgerIsExact /\ PaymentMatchesRefunds

-----------------------------------------------------------------------------
(* Sums.                                                                    *)

(* The units of money of some rows can be counted.                          *)
LEMMA UnitsFinite ==
  ASSUME NEW keys \in SUBSET AllKeys, NEW table
  PROVE  IsFiniteSet(Units(keys, table)) /\ AmountTotal(keys, table) \in Nat
<1>1. IsFiniteSet(AllKeys)
  BY RefundsAssumption, FS_AddElement DEF AllKeys
<1>2. IsFiniteSet(1 .. Total)
  BY RefundsAssumption, FS_Interval
<1>3. IsFiniteSet(AllKeys \X (1 .. Total))
  BY <1>1, <1>2, FS_Product
<1>4. Units(keys, table) \in SUBSET (AllKeys \X (1 .. Total))
  BY DEF Units
<1>5. IsFiniteSet(Units(keys, table))
  BY <1>3, <1>4, FS_Subset
<1> QED
  BY <1>5, FS_CardinalityType DEF AmountTotal

(* The sum of the settled refunds is a number.                              *)
LEMMA SucceededTotalType ==
  ASSUME NEW table
  PROVE  SucceededTotal(table) \in Nat
  BY UnitsFinite DEF SucceededTotal, Succeeded

(* More settled refunds, with the same amounts, add up to no less.          *)
LEMMA TotalGrows ==
  ASSUME NEW s, NEW t,
         \A k \in AllKeys : s[k].status = "succeeded" =>
            t[k].status = "succeeded" /\ t[k].amount = s[k].amount
  PROVE  SucceededTotal(s) <= SucceededTotal(t)
<1>1. Units(Succeeded(s), s) \in SUBSET Units(Succeeded(t), t)
  BY DEF Units, Succeeded
<1>2. IsFiniteSet(Units(Succeeded(t), t))
  BY UnitsFinite DEF Succeeded
<1> QED
  BY <1>1, <1>2, FS_Subset DEF SucceededTotal, AmountTotal

(* The total goes by the statuses and amounts alone.                        *)
LEMMA TotalSame ==
  ASSUME NEW s, NEW t,
         \A k \in AllKeys : s[k].status = "succeeded" <=> t[k].status = "succeeded",
         \A k \in AllKeys : s[k].status = "succeeded" => t[k].amount = s[k].amount
  PROVE  SucceededTotal(s) = SucceededTotal(t)
<1>1. SucceededTotal(s) <= SucceededTotal(t) /\ SucceededTotal(t) <= SucceededTotal(s)
  BY TotalGrows
<1> QED
  BY <1>1, SucceededTotalType

(* What is left to refund is between nothing and the charge.                *)
LEMMA RemainingType == Remaining \in 0 .. Total
  BY RefundsAssumption, SucceededTotalType DEF Remaining

-----------------------------------------------------------------------------
(* Type correctness.                                                        *)

Views == [refund : [AllKeys -> RefundRow], payment : PaymentStatuses,
          booking : {"paid", "cancelled", "refunded"}]

(* A key without a record.                                                  *)
LEMMA NoRefundType == NoRefund \in RefundRow
  BY RefundsAssumption DEF NoRefund, RefundRow

(* A transaction that has not read.                                         *)
LEMMA NoViewType == NoView \in Views
  BY NoRefundType DEF NoView, Views, PaymentStatuses

(* An idle request has a job record.                                        *)
LEMMA IdleType == Idle \in Job
  BY NoViewType, RefundsAssumption DEF Idle, Job, AllKeys, Answers, Views

(* What a transaction reads.                                                *)
LEMMA ViewType ==
  ASSUME TypeOK
  PROVE  View \in Views
  BY DEF TypeOK, View, Views, BookingRow

(* The stores start with their types.                                       *)
LEMMA InitType == Init => TypeOK
<1> SUFFICES ASSUME Init PROVE TypeOK
  OBVIOUS
<1>1. refund \in [AllKeys -> RefundRow] /\ job \in [Requests -> Job]
  BY NoRefundType, IdleType DEF Init
<1>2. booking \in BookingRow /\ payment \in PaymentStatuses
  BY RefundsAssumption DEF Init, BookingRow, PaymentStatuses
<1>3. ledger \in [refund : [AllKeys -> Nat], charge : Nat]
  BY DEF Init
<1>4. paypal \in [AllKeys -> [status : {"none", "pending", "completed", "failed"},
                             amount : 0 .. Total]]
  BY RefundsAssumption DEF Init
<1> QED
  BY <1>1, <1>2, <1>3, <1>4, RefundsAssumption DEF Init, TypeOK

(* A request's job keeps its type, and no other request's job changes.      *)
OthersKept(r) == \A q \in Requests : q # r => job'[q] = job[q]

(* One job changes.                                                         *)
LEMMA MoveStep ==
  ASSUME TypeOK, NEW r \in Requests, NEW j \in Job, job' = [job EXCEPT ![r] = j]
  PROVE  job' \in [Requests -> Job] /\ job'[r] = j /\ OthersKept(r)
  BY DEF TypeOK, OthersKept

(* A finished request is idle and returns the lock it has.                  *)
LEMMA FinishStep ==
  ASSUME TypeOK, NEW r \in Requests, Finish(r)
  PROVE  /\ job' \in [Requests -> Job] /\ job'[r] = Idle /\ OthersKept(r)
         /\ lock' \in Requests \cup {Nobody}
  BY IdleType, MoveStep DEF TypeOK, Finish

(* createRefundRecord writes a refund row.                                  *)
LEMMA CreateType ==
  ASSUME TypeOK, NEW k \in AllKeys, NEW a \in 0 .. Total, CreateRefundRecord(k, a)
  PROVE  refund' \in [AllKeys -> RefundRow]
<1>1. [status |-> "pending", amount |-> a, known |-> FALSE] \in RefundRow
  BY DEF RefundRow
<1> QED
  BY <1>1 DEF TypeOK, CreateRefundRecord

(* A completion sets status and PayPal's id, and keeps the amount.          *)
LEMMA CompletedRow ==
  ASSUME NEW row \in RefundRow, NEW s \in {"pending", "succeeded", "failed"}
  PROVE  /\ [row EXCEPT !.status = s, !.known = TRUE] \in RefundRow
         /\ [row EXCEPT !.status = s, !.known = TRUE].status = s
         /\ [row EXCEPT !.status = s, !.known = TRUE].amount = row.amount
         /\ [row EXCEPT !.status = s, !.known = TRUE].known
  BY DEF RefundRow

(* The history of reused keys.                                              *)
LEMMA ReuseType ==
  ASSUME TypeOK, NEW k, NEW a, Reuse(k, a)
  PROVE  races' \subseteq Races
  BY RefundsAssumption DEF TypeOK, Reuse, Happens

PayPalType ==
    /\ paypal' \in [AllKeys -> [status : {"none", "pending", "completed", "failed"},
                                amount : 0 .. Total]]
    /\ events' \subseteq Events

(* The events PayPal sends about a refund.                                  *)
LEMMA RefundEventsType ==
  ASSUME NEW k \in AllKeys, NEW s \in {"pending", "completed", "failed"}
  PROVE  RefundEvents(k, s) \subseteq Events
  BY DEF RefundEvents, RefundStatus, Events

(* PayPal's side of a POST keeps its type.                                  *)
LEMMA AcceptType ==
  ASSUME TypeOK, NEW k \in AllKeys, NEW a \in 0 .. Total, PayPalAccepts(k, a)
  PROVE  PayPalType
<1>1. CASE UNCHANGED <<paypal, events>>
  BY <1>1 DEF TypeOK, PayPalType
<1>2. ASSUME NEW s \in {"pending", "completed", "failed"},
             paypal' = [paypal EXCEPT ![k] = [status |-> s, amount |-> a]],
             events' = events \cup RefundEvents(k, s)
      PROVE  PayPalType
  BY <1>2, RefundEventsType DEF TypeOK, PayPalType
<1> QED
  BY <1>1, <1>2 DEF PayPalAccepts

(* Every step keeps the types.                                              *)
LEMMA NextType == TypeOK /\ [Next]_vars => TypeOK'
<1> SUFFICES ASSUME TypeOK, [Next]_vars PROVE TypeOK'
  OBVIOUS
<1> USE DEF rows, outside
<1>0. CANCEL \in AllKeys /\ \A r \in Requests : job[r] \in Job
  BY DEF AllKeys, TypeOK
<1>1. CASE UNCHANGED vars
  BY <1>1 DEF vars, TypeOK
<1>2. ASSUME NEW r \in Requests, NEW k \in Keys, NEW a \in Amounts, BeginRefund(r, k, a)
      PROVE  TypeOK'
  <2>1. k \in AllKeys /\ a \in 0 .. Total
    BY RefundsAssumption DEF AllKeys
  <2>2. [Idle EXCEPT !.op = "refund", !.at = "post", !.key = k, !.amount = a] \in Job
    BY <2>1, IdleType DEF Job
  <2>3. job' \in [Requests -> Job] /\ UNCHANGED lock
    BY <1>2, <2>2, MoveStep DEF BeginRefund, Goto
  <2>4. refund' \in [AllKeys -> RefundRow] /\ races' \subseteq Races
    BY <1>2, <2>1, CreateType, ReuseType DEF BeginRefund
  <2> QED
    BY <1>2, <2>3, <2>4 DEF BeginRefund, TypeOK
<1>3. ASSUME NEW r \in Requests, NEW a \in CancellationRefundAmounts, BeginCancel(r, a)
      PROVE  TypeOK'
  <2>1. a \in 0 .. Total
    BY RemainingType, RefundsAssumption DEF CancellationRefundAmounts
  <2>2. /\ [Idle EXCEPT !.op = "cancel", !.at = "post", !.amount = a] \in Job
        /\ [Idle EXCEPT !.op = "cancel", !.at = "cancel"] \in Job
    BY <2>1, IdleType DEF Job
  <2>3. job' \in [Requests -> Job]
    BY <1>3, <2>2, MoveStep DEF BeginCancel
  <2>4. refund' \in [AllKeys -> RefundRow] /\ races' \subseteq Races
    BY <1>0, <1>3, <2>1, CreateType, ReuseType DEF BeginCancel, TypeOK
  <2> QED
    BY <1>3, <2>3, <2>4 DEF BeginCancel, TypeOK
<1>4. ASSUME NEW r \in Requests, PostRefund(r) PROVE TypeOK'
  <2> DEFINE j == job[r]
  <2>1. j.key \in AllKeys /\ j.amount \in 0 .. Total
    BY <1>0 DEF Job
  <2>2. PayPalType
    BY <1>4, <2>1, AcceptType DEF PostRefund, TypeOK, PayPalType
  <2>3. RefundStatus(paypal'[j.key].status) \in Answers
    BY <2>1 DEF RefundStatus, Answers
  <2>4. [j EXCEPT !.at = "read", !.answer = RefundStatus(paypal'[j.key].status)] \in Job
    BY <1>0, <2>3 DEF Job
  <2>5. job' \in [Requests -> Job] /\ lock' \in Requests \cup {Nobody}
    <3>1. \/ Finish(r)
          \/ Goto(r, [j EXCEPT !.at = "read", !.answer = RefundStatus(paypal'[j.key].status)])
      BY <1>4 DEF PostRefund, RefundCallFails
    <3> QED
      BY <2>4, <3>1, FinishStep, MoveStep DEF Goto, TypeOK
  <2> QED
    BY <1>4, <2>2, <2>5 DEF PostRefund, PayPalType, TypeOK
<1>5. ASSUME NEW r \in Requests, ReadRefund(r) PROVE TypeOK'
  <2>1. [job[r] EXCEPT !.at = "commit", !.view = View] \in Job
    BY <1>0, ViewType DEF Job, Views
  <2>2. job' \in [Requests -> Job] /\ UNCHANGED lock
    BY <1>5, <2>1, MoveStep DEF ReadRefund, Goto
  <2>3. races' \subseteq Races
    BY <1>5, RefundsAssumption DEF ReadRefund, Happens, TypeOK
  <2> QED
    BY <1>5, <2>2, <2>3 DEF ReadRefund, TypeOK
<1>6. ASSUME NEW r \in Requests, CommitRefund(r) PROVE TypeOK'
  <2> DEFINE j == job[r]
             seen == [j.view.refund EXCEPT ![j.key].status = Stored(j.answer)]
  <2>1. /\ j \in Job /\ j.key \in AllKeys /\ j.view.payment \in PaymentStatuses
    BY <1>0 DEF Job
  <2>2. Stored(j.answer) \in {"pending", "succeeded", "failed"}
    BY DEF Stored
  <2> HIDE DEF j, seen
  <2>3. refund' \in [AllKeys -> RefundRow]
    <3>1. refund' = [refund EXCEPT ![j.key] =
                       [refund[j.key] EXCEPT !.status = Stored(j.answer), !.known = TRUE]]
      BY <1>6, <2>1 DEF CommitRefund, TypeOK, j
    <3>2. [refund[j.key] EXCEPT !.status = Stored(j.answer), !.known = TRUE] \in RefundRow
      <4>1. refund[j.key] \in RefundRow
        BY <2>1 DEF TypeOK
      <4> QED
        BY <2>2, <4>1, CompletedRow
    <3> QED
      BY <3>1, <3>2 DEF TypeOK
  <2>4. payment' \in PaymentStatuses
    BY <1>6, <2>1 DEF CommitRefund, RefundedStatus, PaymentStatuses, j
  <2>5. booking' \in BookingRow
    <3>1. booking' \in {booking, [booking EXCEPT !.status = "refunded"]}
      BY <1>6 DEF CommitRefund
    <3> QED
      BY <3>1 DEF TypeOK, BookingRow
  <2>6. ledger' \in [refund : [AllKeys -> Nat], charge : Nat]
    <3>1. ledger' = [ledger EXCEPT !.refund[j.key] = @ + LedgerEntries(j)]
      BY <1>6 DEF CommitRefund, j
    <3>2. LedgerEntries(j) \in {0, 1}
      BY DEF LedgerEntries
    <3> QED
      BY <2>1, <3>1, <3>2 DEF TypeOK
  <2>7. job' \in [Requests -> Job] /\ lock' \in Requests \cup {Nobody}
    <3>1. [j EXCEPT !.at = "cancel", !.view = NoView] \in Job
      BY <2>1, NoViewType DEF Job, Views
    <3>2. Finish(r) \/ Goto(r, [j EXCEPT !.at = "cancel", !.view = NoView])
      BY <1>6 DEF CommitRefund, AfterCompletion, j
    <3> QED
      BY <3>1, <3>2, FinishStep, MoveStep DEF Goto, TypeOK
  <2>8. events' \subseteq Events
    BY <1>6 DEF CommitRefund, TypeOK
  <2> QED
    BY <1>6, <2>3, <2>4, <2>5, <2>6, <2>7, <2>8 DEF CommitRefund, TypeOK
<1>7. ASSUME NEW r \in Requests, CommitCancel(r) PROVE TypeOK'
  <2>1. job[r].amount \in 0 .. Total
    BY <1>0 DEF Job
  <2>2. booking' \in BookingRow
    BY <1>7, <2>1 DEF CommitCancel, TypeOK, BookingRow
  <2>3. job' \in [Requests -> Job] /\ lock' \in Requests \cup {Nobody}
    BY <1>7, FinishStep DEF CommitCancel
  <2> QED
    BY <1>7, <2>2, <2>3 DEF CommitCancel, TypeOK
<1>8. ASSUME NEW r \in Requests, NEW e \in events, ReceiveEvent(r, e) PROVE TypeOK'
  <2>1. e.key \in AllKeys /\ e.status \in Answers
    BY DEF TypeOK, Events, Answers
  <2>2. [Idle EXCEPT !.op = "webhook", !.at = "read", !.key = e.key, !.answer = e.status] \in Job
    BY <2>1, IdleType DEF Job
  <2>3. job' \in [Requests -> Job]
    BY <1>8, <2>2, MoveStep DEF ReceiveEvent, TypeOK
  <2>4. events' \subseteq Events /\ parked' \subseteq Events
    BY <1>8 DEF ReceiveEvent, UnknownRefund, TypeOK
  <2> QED
    BY <1>8, <2>3, <2>4 DEF ReceiveEvent, TypeOK
<1>9. ASSUME NEW k \in AllKeys, RefundSettles(k) PROVE TypeOK'
  <2>1. PayPalType
    <3>1. PICK s \in {"completed", "failed"} :
              /\ paypal' = [paypal EXCEPT ![k].status = s]
              /\ events' = events \cup RefundEvents(k, s)
      BY <1>9 DEF RefundSettles
    <3> QED
      BY <3>1, RefundEventsType DEF TypeOK, PayPalType
  <2> QED
    BY <1>9, <2>1 DEF RefundSettles, PayPalType, TypeOK
<1>10. CASE Resettle
  <2>1. booking' \in BookingRow /\ payment' \in PaymentStatuses
    BY <1>10 DEF Resettle, TypeOK, BookingRow, PaymentStatuses
  <2>2. ledger' \in [refund : [AllKeys -> Nat], charge : Nat]
    BY <1>10 DEF Resettle, TypeOK
  <2>3. races' \subseteq Races
    BY <1>10, RefundsAssumption DEF Resettle, Happens, TypeOK
  <2> QED
    BY <1>10, <2>1, <2>2, <2>3 DEF Resettle, TypeOK
<1>11. ASSUME NEW r \in Requests, Crash(r) PROVE TypeOK'
  <2>1. crashes' \in 0 .. MaxCrashes
    BY <1>11, RefundsAssumption DEF Crash, TypeOK
  <2> QED
    BY <1>11, <2>1, FinishStep DEF Crash, TypeOK
<1> QED
  BY <1>1, <1>2, <1>3, <1>4, <1>5, <1>6, <1>7, <1>8, <1>9, <1>10, <1>11 DEF Next, JobStep

(* Every row, event and job keeps its type.                                 *)
THEOREM TypeCorrect == Spec => []TypeOK
  BY InitType, NextType, PTL DEF Spec

-----------------------------------------------------------------------------
(* What each step does, field by field.                                     *)

(* The other records stay.                                                  *)
RefundsKept(k) == \A x \in AllKeys : x # k => refund'[x] = refund[x]

(* createRefundRecord finds the record of the key or makes a pending one.   *)
LEMMA CreateEffect ==
  ASSUME TypeOK, NEW k \in AllKeys, NEW a \in 0 .. Total, CreateRefundRecord(k, a)
  PROVE  \/ refund[k].status # "none" /\ refund' = refund
         \/ /\ refund[k].status = "none" /\ RefundsKept(k)
            /\ refund'[k].status = "pending" /\ refund'[k].amount = a /\ ~refund'[k].known
  BY DEF TypeOK, CreateRefundRecord, RefundsKept

(* A manager's refund starts with its record.                               *)
LEMMA BeginRefundEffect ==
  ASSUME TypeOK, NEW r \in Requests, NEW k \in Keys, NEW a \in Amounts, BeginRefund(r, k, a)
  PROVE  /\ k \in AllKeys /\ a \in 0 .. Total /\ CreateRefundRecord(k, a) /\ Reuse(k, a)
         /\ OthersKept(r) /\ job[r] = Idle
         /\ job'[r].op = "refund" /\ job'[r].at = "post" /\ job'[r].key = k /\ job'[r].amount = a
         /\ UNCHANGED <<payment, booking, ledger, paypal, events, parked, crashes>>
<1>1. k \in AllKeys /\ a \in 0 .. Total
  BY RefundsAssumption DEF AllKeys
<1>2. OthersKept(r)
      /\ job'[r] = [Idle EXCEPT !.op = "refund", !.at = "post", !.key = k, !.amount = a]
  BY DEF BeginRefund, Goto, TypeOK, OthersKept
<1>3. /\ job'[r].op = "refund" /\ job'[r].at = "post" /\ job'[r].key = k /\ job'[r].amount = a
  BY <1>2 DEF Idle
<1> QED
  BY <1>1, <1>2, <1>3 DEF BeginRefund, outside

(* A cancellation with a refund starts with its record, one without goes
   straight to the booking.                                                 *)
LEMMA BeginCancelEffect ==
  ASSUME TypeOK, NEW r \in Requests, NEW a \in CancellationRefundAmounts, BeginCancel(r, a)
  PROVE  /\ a \in 0 .. Total /\ OthersKept(r) /\ job[r] = Idle
         /\ booking.status = "paid" /\ job'[r].op = "cancel" /\ job'[r].key = CANCEL
         /\ \/ /\ a > 0 /\ CreateRefundRecord(CANCEL, a) /\ Reuse(CANCEL, a)
               /\ job'[r].at = "post" /\ job'[r].amount = a
            \/ /\ job'[r].at = "cancel" /\ job'[r].amount = 0 /\ UNCHANGED <<refund, races>>
         /\ UNCHANGED <<payment, booking, ledger, paypal, events, parked, crashes>>
<1>1. a \in 0 .. Total
  BY RemainingType, RefundsAssumption DEF CancellationRefundAmounts
<1>2. CASE /\ a > 0 /\ CreateRefundRecord(CANCEL, a) /\ Reuse(CANCEL, a)
           /\ job' = [job EXCEPT ![r] = [Idle EXCEPT !.op = "cancel", !.at = "post", !.amount = a]]
  <2>1. OthersKept(r) /\ job'[r] = [Idle EXCEPT !.op = "cancel", !.at = "post", !.amount = a]
    BY <1>2 DEF TypeOK, OthersKept
  <2>2. /\ job'[r].op = "cancel" /\ job'[r].at = "post" /\ job'[r].key = CANCEL
        /\ job'[r].amount = a
    BY <2>1 DEF Idle
  <2> QED
    BY <1>1, <1>2, <2>1, <2>2 DEF BeginCancel, outside
<1>3. CASE /\ job' = [job EXCEPT ![r] = [Idle EXCEPT !.op = "cancel", !.at = "cancel"]]
           /\ UNCHANGED <<refund, races>>
  <2>1. OthersKept(r) /\ job'[r] = [Idle EXCEPT !.op = "cancel", !.at = "cancel"]
    BY <1>3 DEF TypeOK, OthersKept
  <2>2. /\ job'[r].op = "cancel" /\ job'[r].at = "cancel" /\ job'[r].key = CANCEL
        /\ job'[r].amount = 0
    BY <2>1 DEF Idle
  <2> QED
    BY <1>1, <1>3, <2>1, <2>2 DEF BeginCancel, outside
<1> QED
  BY <1>2, <1>3 DEF BeginCancel

(* PayPal makes one refund per key and tells what becomes of it.            *)
PayPalKept(k) == \A x \in AllKeys : x # k => paypal'[x] = paypal[x]
NewEvents(k) == \A e \in events' : e \notin events => e.key = k /\ AnswerFits(e.status, k)'

(* PayPal makes the refund of a key once.                                   *)
LEMMA AcceptEffect ==
  ASSUME TypeOK, NEW k \in AllKeys, NEW a \in 0 .. Total, PayPalAccepts(k, a)
  PROVE  /\ paypal'[k].status # "none" /\ NewEvents(k)
         /\ \/ paypal[k].status # "none" /\ paypal' = paypal
            \/ paypal[k].status = "none" /\ paypal'[k].amount = a /\ PayPalKept(k)
<1>1. CASE paypal[k].status # "none" /\ UNCHANGED <<paypal, events>>
  BY <1>1 DEF NewEvents
<1>2. ASSUME paypal[k].status = "none", NEW s \in {"pending", "completed", "failed"},
             paypal' = [paypal EXCEPT ![k] = [status |-> s, amount |-> a]],
             events' = events \cup RefundEvents(k, s)
      PROVE  /\ paypal'[k].status # "none" /\ paypal'[k].amount = a /\ PayPalKept(k)
             /\ NewEvents(k)
  <2>1. paypal'[k].status = s /\ paypal'[k].amount = a /\ PayPalKept(k)
    BY <1>2 DEF TypeOK, PayPalKept
  <2>2. NewEvents(k)
    BY <1>2, <2>1 DEF NewEvents, RefundEvents, RefundStatus, AnswerFits
  <2> QED
    BY <2>1, <2>2
<1> QED
  BY <1>1, <1>2 DEF PayPalAccepts

(* A pending refund completes or fails at PayPal.                           *)
LEMMA SettlesEffect ==
  ASSUME TypeOK, NEW k \in AllKeys, RefundSettles(k)
  PROVE  /\ paypal[k].status = "pending" /\ paypal'[k].status # "none"
         /\ paypal'[k].amount = paypal[k].amount /\ PayPalKept(k) /\ NewEvents(k)
         /\ UNCHANGED <<refund, payment, booking, ledger, parked, lock, job, races, crashes>>
<1>1. PICK s \in {"completed", "failed"} :
          /\ paypal' = [paypal EXCEPT ![k].status = s]
          /\ events' = events \cup RefundEvents(k, s)
  BY DEF RefundSettles
<1>2. paypal'[k].status = s /\ paypal'[k].amount = paypal[k].amount /\ PayPalKept(k)
  BY <1>1 DEF TypeOK, PayPalKept
<1>3. NewEvents(k)
  BY <1>1, <1>2 DEF NewEvents, RefundEvents, RefundStatus, AnswerFits
<1> QED
  BY <1>2, <1>3 DEF RefundSettles, rows

(* The POST is answered, answered in vain or refused.                       *)
LEMMA PostEffect ==
  ASSUME TypeOK, NEW r \in Requests, PostRefund(r)
  PROVE  /\ job[r].key \in AllKeys /\ job[r].amount \in 0 .. Total /\ job[r].at = "post"
         /\ OthersKept(r)
         /\ UNCHANGED <<refund, payment, booking, ledger, parked, races, crashes>>
         /\ PayPalAccepts(job[r].key, job[r].amount) \/ UNCHANGED <<paypal, events>>
         /\ \/ job'[r] = Idle
            \/ /\ PayPalAccepts(job[r].key, job[r].amount) /\ job'[r].at = "read"
               /\ job'[r].op = job[r].op /\ job'[r].key = job[r].key
               /\ job'[r].amount = job[r].amount
               /\ job'[r].answer = RefundStatus(paypal'[job[r].key].status)
<1> DEFINE j == job[r]
           new == [j EXCEPT !.at = "read", !.answer = RefundStatus(paypal'[j.key].status)]
<1>1. j \in Job /\ j.key \in AllKeys /\ j.amount \in 0 .. Total /\ j.at = "post"
  BY DEF TypeOK, Job, PostRefund
<1>2. /\ new.at = "read" /\ new.op = j.op /\ new.key = j.key /\ new.amount = j.amount
      /\ new.answer = RefundStatus(paypal'[j.key].status)
  BY <1>1 DEF Job
<1>3. CASE Finish(r)
  BY <1>1, <1>3, FinishStep DEF PostRefund, rows
<1>4. CASE PayPalAccepts(j.key, j.amount) /\ Goto(r, new)
  <2> HIDE DEF new
  <2>1. job'[r] = new /\ OthersKept(r)
    BY <1>4 DEF Goto, TypeOK, OthersKept
  <2> QED
    BY <1>1, <1>2, <1>4, <2>1 DEF PostRefund, rows
<1> QED
  BY <1>3, <1>4 DEF PostRefund, RefundCallFails

(* completeRefund reads refunds and payment.                                *)
LEMMA ReadEffect ==
  ASSUME TypeOK, NEW r \in Requests, ReadRefund(r)
  PROVE  /\ job[r].at = "read" /\ OthersKept(r) /\ job'[r].at = "commit"
         /\ job'[r].op = job[r].op /\ job'[r].key = job[r].key
         /\ job'[r].amount = job[r].amount /\ job'[r].answer = job[r].answer
         /\ job'[r].view.refund = refund /\ job'[r].view.payment = payment
         /\ UNCHANGED <<refund, payment, booking, ledger, paypal, events, parked, crashes>>
         /\ Happens({x \in {"overlap"} : \E q \in Requests : job[q].at = "commit"})
<1>1. job[r] \in Job
  BY DEF TypeOK
<1>2. job'[r] = [job[r] EXCEPT !.at = "commit", !.view = View] /\ OthersKept(r)
  BY DEF ReadRefund, Goto, TypeOK, OthersKept
<1>3. /\ job'[r].at = "commit" /\ job'[r].op = job[r].op /\ job'[r].key = job[r].key
      /\ job'[r].amount = job[r].amount /\ job'[r].answer = job[r].answer /\ job'[r].view = View
  BY <1>1, <1>2 DEF Job
<1> QED
  BY <1>2, <1>3 DEF ReadRefund, View, rows, outside

(* completeRefund writes the refund, its ledger entry, payment and booking. *)
LEMMA CommitEffect ==
  ASSUME TypeOK, NEW r \in Requests, CommitRefund(r)
  PROVE  /\ job[r] \in Job /\ job[r].key \in AllKeys /\ job[r].at = "commit"
         /\ RefundsKept(job[r].key) /\ refund'[job[r].key].status = Stored(job[r].answer)
         /\ refund'[job[r].key].amount = refund[job[r].key].amount
         /\ refund'[job[r].key].known
         /\ ledger'.refund[job[r].key] = ledger.refund[job[r].key] + LedgerEntries(job[r])
         /\ \A x \in AllKeys : x # job[r].key => ledger'.refund[x] = ledger.refund[x]
         /\ OthersKept(r)
         /\ \/ job'[r] = Idle
            \/ /\ job[r].op = "cancel" /\ job'[r].op = "cancel" /\ job'[r].at = "cancel"
               /\ job'[r].key = job[r].key /\ job'[r].amount = job[r].amount
         /\ booking' \in {booking, [booking EXCEPT !.status = "refunded"]}
         /\ events' \subseteq events /\ UNCHANGED <<paypal, parked, races, crashes>>
<1> DEFINE j == job[r]
           new == [j EXCEPT !.at = "cancel", !.view = NoView]
           row == [refund[j.key] EXCEPT !.status = Stored(j.answer), !.known = TRUE]
<1>1. /\ j \in Job /\ j.key \in AllKeys /\ j.at = "commit"
  BY DEF TypeOK, Job, CommitRefund
<1>2. /\ new.at = "cancel" /\ new.op = j.op /\ new.key = j.key /\ new.amount = j.amount
  BY <1>1 DEF Job
<1> HIDE DEF j, new
<1>3. /\ row.status = Stored(j.answer) /\ row.amount = refund[j.key].amount /\ row.known
  <2>1. PICK x \in RefundRow : x = refund[j.key]
    BY <1>1 DEF TypeOK
  <2>2. PICK s \in {"pending", "succeeded", "failed"} : s = Stored(j.answer)
    BY DEF Stored
  <2>3. row = [x EXCEPT !.status = s, !.known = TRUE]
    BY <2>1, <2>2
  <2> HIDE DEF row
  <2>4. row.status = s /\ row.amount = x.amount /\ row.known
    BY <2>3, CompletedRow
  <2> QED
    BY <2>1, <2>2, <2>4
<1>4. refund' = [refund EXCEPT ![j.key] = row]
  BY <1>1 DEF CommitRefund, TypeOK, j
<1> HIDE DEF row
<1>5. refund'[j.key] = row /\ RefundsKept(j.key)
  BY <1>1, <1>4 DEF TypeOK, RefundsKept
<1>6. /\ ledger'.refund[j.key] = ledger.refund[j.key] + LedgerEntries(j)
      /\ \A x \in AllKeys : x # j.key => ledger'.refund[x] = ledger.refund[x]
  <2>1. ledger' = [ledger EXCEPT !.refund[j.key] = @ + LedgerEntries(j)]
    BY DEF CommitRefund, j
  <2> QED
    BY <1>1, <2>1 DEF TypeOK
<1>7. /\ OthersKept(r)
      /\ \/ job'[r] = Idle
         \/ /\ j.op = "cancel" /\ job'[r].op = "cancel" /\ job'[r].at = "cancel"
            /\ job'[r].key = j.key /\ job'[r].amount = j.amount
  <2>1. Finish(r) \/ (j.op = "cancel" /\ Goto(r, new))
    BY DEF CommitRefund, AfterCompletion, j, new
  <2>2. CASE Finish(r)
    BY <2>2, FinishStep
  <2>3. CASE j.op = "cancel" /\ Goto(r, new)
    BY <1>2, <2>3 DEF Goto, TypeOK, OthersKept
  <2> QED
    BY <2>1, <2>2, <2>3
<1>8. /\ booking' \in {booking, [booking EXCEPT !.status = "refunded"]}
      /\ events' \subseteq events /\ UNCHANGED <<paypal, parked, races, crashes>>
  BY DEF CommitRefund
<1> QED
  BY <1>1, <1>3, <1>5, <1>6, <1>7, <1>8 DEF j

(* A refund webhook is parked, ignored or becomes a completion.             *)
LEMMA ReceiveEffect ==
  ASSUME TypeOK, NEW r \in Requests, NEW e \in events, ReceiveEvent(r, e)
  PROVE  /\ events' \subseteq events
         /\ UNCHANGED <<refund, payment, booking, ledger, paypal, lock, races, crashes>>
         /\ \/ UNCHANGED job
            \/ /\ OthersKept(r) /\ refund[e.key].known /\ refund[e.key].status = "pending"
               /\ job'[r].op = "webhook" /\ job'[r].at = "read" /\ job'[r].key = e.key
               /\ job'[r].answer = e.status
<1>1. CASE UNCHANGED job
  BY <1>1 DEF ReceiveEvent, UnknownRefund, rows
<1>2. CASE /\ refund[e.key].known /\ refund[e.key].status = "pending" /\ UNCHANGED events
           /\ job' = [job EXCEPT ![r] = [Idle EXCEPT !.op = "webhook", !.at = "read",
                                                     !.key = e.key, !.answer = e.status]]
  <2>1. OthersKept(r) /\ job'[r] = [Idle EXCEPT !.op = "webhook", !.at = "read",
                                               !.key = e.key, !.answer = e.status]
    BY <1>2 DEF TypeOK, OthersKept
  <2>2. /\ job'[r].op = "webhook" /\ job'[r].at = "read" /\ job'[r].key = e.key
        /\ job'[r].answer = e.status
    BY <2>1 DEF Idle
  <2> QED
    BY <1>2, <2>1, <2>2 DEF ReceiveEvent, rows
<1> QED
  BY <1>1, <1>2 DEF ReceiveEvent, FindsRecord

(* The requests that end: a commit of a cancellation, and a crash.          *)
LEMMA EndEffect ==
  ASSUME TypeOK, NEW r \in Requests, CommitCancel(r) \/ Crash(r)
  PROVE  /\ OthersKept(r) /\ job'[r] = Idle
         /\ UNCHANGED <<refund, payment, ledger, paypal, events, parked, races>>
  BY FinishStep DEF CommitCancel, Crash, rows, outside

-----------------------------------------------------------------------------
(* What no step takes back: a record, its amount and its id, a refund at
   PayPal and its outcome, and what has happened.                           *)
Kept ==
    /\ races \subseteq races'
    /\ \A k \in AllKeys :
          /\ refund[k].status # "none" =>
                refund'[k].status # "none" /\ refund'[k].amount = refund[k].amount
          /\ refund[k].known => refund'[k].known
          /\ paypal[k].status # "none" =>
                paypal'[k].status # "none" /\ paypal'[k].amount = paypal[k].amount
          /\ paypal[k].status \in {"completed", "failed"} => paypal'[k].status = paypal[k].status

(* Leaving refunds and PayPal alone keeps what others rely on.              *)
LEMMA KeptSame ==
  ASSUME races \subseteq races', UNCHANGED <<refund, paypal>>
  PROVE  Kept
  BY DEF Kept

(* So does a new record.                                                    *)
LEMMA CreateKept ==
  ASSUME TypeOK, NEW k \in AllKeys, NEW a \in 0 .. Total, CreateRefundRecord(k, a), Reuse(k, a),
         RefundsFit, UNCHANGED paypal
  PROVE  Kept
<1>1. races \subseteq races'
  BY DEF Reuse, Happens
<1>2. CASE refund' = refund
  BY <1>1, <1>2, KeptSame
<1>3. CASE refund[k].status = "none" /\ RefundsKept(k)
  BY <1>1, <1>3 DEF Kept, RefundsKept, RefundsFit
<1> QED
  BY <1>2, <1>3, CreateEffect

(* So does a POST.                                                          *)
LEMMA AcceptKept ==
  ASSUME TypeOK, NEW k \in AllKeys, NEW a \in 0 .. Total,
         PayPalAccepts(k, a) \/ UNCHANGED <<paypal, events>>, UNCHANGED <<refund, races>>
  PROVE  Kept
<1>1. CASE paypal' = paypal
  BY <1>1, KeptSame
<1>2. CASE paypal[k].status = "none" /\ PayPalKept(k)
  BY <1>2 DEF Kept, PayPalKept
<1> QED
  BY <1>1, <1>2, AcceptEffect

(* So does every step: refunds only progress, and amounts stay unless a key
   is used again.                                                           *)
LEMMA KeptStep ==
  ASSUME TypeOK, RefundsFit, Next
  PROVE  Kept
<1>0. CANCEL \in AllKeys
  BY DEF AllKeys
<1>1. ASSUME NEW r \in Requests, NEW k \in Keys, NEW a \in Amounts, BeginRefund(r, k, a)
      PROVE  Kept
  BY <1>1, BeginRefundEffect, CreateKept
<1>2. ASSUME NEW r \in Requests, NEW a \in CancellationRefundAmounts, BeginCancel(r, a)
      PROVE  Kept
  BY <1>0, <1>2, BeginCancelEffect, CreateKept, KeptSame
<1>3. ASSUME NEW r \in Requests, PostRefund(r) PROVE Kept
  BY <1>3, PostEffect, AcceptKept
<1>4. ASSUME NEW r \in Requests, ReadRefund(r) PROVE Kept
  BY <1>4, ReadEffect, KeptSame DEF Happens
<1>5. ASSUME NEW r \in Requests, CommitRefund(r) PROVE Kept
  BY <1>5, CommitEffect DEF Kept, RefundsKept, Stored
<1>6. ASSUME NEW r \in Requests, CommitCancel(r) \/ Crash(r) PROVE Kept
  BY <1>6, EndEffect, KeptSame
<1>7. ASSUME NEW r \in Requests, NEW e \in events, ReceiveEvent(r, e) PROVE Kept
  BY <1>7, ReceiveEffect, KeptSame
<1>8. ASSUME NEW k \in AllKeys, RefundSettles(k) PROVE Kept
  <2>1. /\ paypal[k].status = "pending" /\ paypal'[k].status # "none" /\ PayPalKept(k)
        /\ paypal'[k].amount = paypal[k].amount /\ UNCHANGED <<refund, races>>
    BY <1>8, SettlesEffect
  <2> QED
    BY <2>1 DEF Kept, PayPalKept
<1>9. CASE Resettle
  BY <1>9, KeptSame DEF Resettle, Happens, outside
<1> QED
  BY <1>1, <1>2, <1>3, <1>4, <1>5, <1>6, <1>7, <1>8, <1>9 DEF Next, JobStep

-----------------------------------------------------------------------------
(* What PayPal says agrees with what it did.                                *)

(* A job that a request keeps still fits.                                   *)
LEMMA JobFitsKept ==
  ASSUME Kept
  PROVE  \A j \in Job : JobFits(j) => JobFits(j)'
<1>1. \A j \in Job : j.key \in AllKeys
  BY DEF Job
<1> QED
  BY <1>1 DEF Kept, JobFits, AnswerFits

(* The jobs that do not move still fit.                                     *)
LEMMA OthersFit ==
  ASSUME TypeOK, JobsFit, Kept, NEW r \in Requests, OthersKept(r), JobFits(job[r])'
  PROVE  JobsFit'
<1>1. ASSUME NEW q \in Requests, q # r PROVE JobFits(job[q])'
  BY <1>1, JobFitsKept DEF TypeOK, JobsFit, OthersKept, JobFits, AnswerFits
<1> QED
  BY <1>1 DEF JobsFit

(* An idle request fits.                                                    *)
LEMMA IdleFits == \A j : j = Idle => JobFits(j) /\ JobFits(j)' /\ AmountFits(j)'
  BY DEF Idle, JobFits, AmountFits

(* Events that remain stay true.                                            *)
LEMMA EventsKept ==
  ASSUME TypeOK, EventsFit, Kept, \A e \in events' : e \in events
  PROVE  EventsFit'
<1>1. \A e \in events : e.key \in AllKeys
  BY DEF TypeOK, Events
<1> QED
  BY <1>1 DEF Kept, EventsFit, AnswerFits

(* New events are true.                                                     *)
LEMMA EventsNew ==
  ASSUME TypeOK, EventsFit, Kept, NEW k \in AllKeys, NewEvents(k)
  PROVE  EventsFit'
<1>1. \A e \in events : e.key \in AllKeys
  BY DEF TypeOK, Events
<1> QED
  BY <1>1 DEF Kept, EventsFit, AnswerFits, NewEvents

Basics == EventsFit /\ RefundsFit /\ JobsFit

(* Records that stay fit PayPal as it moves on.                             *)
LEMMA RefundsFitSame ==
  ASSUME RefundsFit, Kept, UNCHANGED refund
  PROVE  RefundsFit'
  BY DEF RefundsFit, Kept

(* A new record fits.                                                       *)
LEMMA CreateFits ==
  ASSUME TypeOK, Basics, Kept, NEW k \in AllKeys, NEW a \in 0 .. Total, CreateRefundRecord(k, a)
  PROVE  RefundsFit' /\ refund'[k].status # "none"
<1>1. CASE refund[k].status # "none" /\ refund' = refund
  BY <1>1, RefundsFitSame DEF Basics
<1>2. CASE /\ refund'[k].status = "pending" /\ ~refund'[k].known /\ RefundsKept(k)
  BY <1>2 DEF Basics, RefundsFit, RefundsKept, Kept
<1> QED
  BY <1>1, <1>2, CreateEffect

(* Every step keeps events, records and jobs in agreement with PayPal.      *)
LEMMA BasicsStep ==
  ASSUME TypeOK, Basics, Next
  PROVE  Basics'
<1>0. CANCEL \in AllKeys /\ Kept /\ RefundsFit /\ \A r \in Requests : job[r] \in Job
  BY KeptStep DEF AllKeys, Basics, TypeOK
<1>1. ASSUME NEW r \in Requests, NEW k \in Keys, NEW a \in Amounts, BeginRefund(r, k, a)
      PROVE  Basics'
  <2>1. RefundsFit' /\ refund'[k].status # "none" /\ OthersKept(r) /\ UNCHANGED events
    BY <1>0, <1>1, BeginRefundEffect, CreateFits
  <2>2. JobFits(job[r])'
    BY <1>1, <2>1, BeginRefundEffect DEF JobFits
  <2> QED
    BY <1>0, <2>1, <2>2, OthersFit, EventsKept DEF Basics
<1>2. ASSUME NEW r \in Requests, NEW a \in CancellationRefundAmounts, BeginCancel(r, a)
      PROVE  Basics'
  <2>1. OthersKept(r) /\ UNCHANGED events
    BY <1>2, BeginCancelEffect
  <2>2. RefundsFit' /\ (job'[r].at = "post" => refund'[CANCEL].status # "none")
    BY <1>0, <1>2, BeginCancelEffect, CreateFits, RefundsFitSame
  <2>3. JobFits(job[r])'
    BY <1>2, <2>2, BeginCancelEffect DEF JobFits
  <2> QED
    BY <1>0, <2>1, <2>2, <2>3, OthersFit, EventsKept DEF Basics
<1>3. ASSUME NEW r \in Requests, PostRefund(r) PROVE Basics'
  <2>1. /\ job[r].key \in AllKeys /\ job[r].amount \in 0 .. Total /\ job[r].at = "post"
        /\ OthersKept(r) /\ UNCHANGED refund /\ JobFits(job[r])
    BY <1>3, PostEffect DEF Basics, JobsFit
  <2>2. EventsFit' /\ RefundsFit'
    BY <1>0, <1>3, <2>1, PostEffect, AcceptEffect, EventsNew, EventsKept, RefundsFitSame
       DEF Basics
  <2>3. CASE job'[r] = Idle
    BY <1>0, <2>1, <2>2, <2>3, IdleFits, OthersFit DEF Basics
  <2>4. CASE /\ job'[r].at = "read" /\ job'[r].op = job[r].op /\ job'[r].key = job[r].key
             /\ job'[r].answer = RefundStatus(paypal'[job[r].key].status)
    <3>1. JobFits(job[r])'
      BY <2>1, <2>4 DEF JobFits, AnswerFits, RefundStatus
    <3> QED
      BY <1>0, <2>1, <2>2, <3>1, OthersFit DEF Basics
  <2> QED
    BY <1>3, <2>3, <2>4, PostEffect
<1>4. ASSUME NEW r \in Requests, ReadRefund(r) PROVE Basics'
  <2>1. JobFits(job[r])'
    <3>1. /\ JobFits(job[r]) /\ job[r].at = "read" /\ job'[r].at = "commit"
          /\ job'[r].op = job[r].op /\ job'[r].key = job[r].key /\ job'[r].answer = job[r].answer
          /\ UNCHANGED <<refund, paypal>>
      BY <1>4, ReadEffect DEF Basics, JobsFit
    <3> QED
      BY <3>1 DEF JobFits, AnswerFits
  <2> QED
    BY <1>0, <1>4, <2>1, ReadEffect, OthersFit, EventsKept, RefundsFitSame DEF Basics
<1>5. ASSUME NEW r \in Requests, CommitRefund(r) PROVE Basics'
  <2>1. JobFits(job[r])
    BY DEF Basics, JobsFit
  <2>2. JobFits(job[r])'
    <3>1. CASE job'[r] = Idle
      BY <3>1, IdleFits
    <3>2. CASE /\ job'[r].op = "cancel" /\ job'[r].at = "cancel" /\ job'[r].key = job[r].key
               /\ job[r].op = "cancel"
      BY <2>1, <3>2 DEF JobFits
    <3> QED
      BY <1>5, <3>1, <3>2, CommitEffect
  <2>3. RefundsFit'
    <3>1. /\ job[r].at = "commit" /\ RefundsKept(job[r].key)
          /\ refund'[job[r].key].status = Stored(job[r].answer)
          /\ refund'[job[r].key].known /\ UNCHANGED paypal
      BY <1>5, CommitEffect
    <3>2. Stored(job[r].answer) = "succeeded" => job[r].answer = "COMPLETED"
      BY DEF Stored
    <3>3. Stored(job[r].answer) # "none"
      BY DEF Stored
    <3> QED
      BY <1>0, <2>1, <3>1, <3>2, <3>3 DEF RefundsFit, RefundsKept, JobFits, AnswerFits
  <2> QED
    BY <1>0, <1>5, <2>2, <2>3, CommitEffect, OthersFit, EventsKept DEF Basics
<1>6. ASSUME NEW r \in Requests, CommitCancel(r) \/ Crash(r) PROVE Basics'
  BY <1>0, <1>6, EndEffect, IdleFits, OthersFit, EventsKept, RefundsFitSame DEF Basics
<1>7. ASSUME NEW r \in Requests, NEW e \in events, ReceiveEvent(r, e) PROVE Basics'
  <2>1. events' \subseteq events /\ UNCHANGED <<refund, paypal>>
    BY <1>7, ReceiveEffect
  <2>2. RefundsFit' /\ EventsFit'
    BY <1>0, <2>1, EventsKept, RefundsFitSame DEF Basics
  <2>3. CASE UNCHANGED job
    BY <2>1, <2>2, <2>3 DEF Basics, JobsFit, JobFits, AnswerFits
  <2>4. CASE /\ OthersKept(r) /\ refund[e.key].known /\ refund[e.key].status = "pending"
             /\ job'[r].op = "webhook" /\ job'[r].at = "read" /\ job'[r].key = e.key
             /\ job'[r].answer = e.status
    <3>1. e.status # "PENDING" /\ AnswerFits(e.status, e.key)
      BY DEF TypeOK, Events, Basics, EventsFit
    <3>2. JobFits(job[r])'
      BY <2>1, <2>4, <3>1 DEF JobFits, AnswerFits
    <3> QED
      BY <1>0, <2>2, <2>4, <3>2, OthersFit DEF Basics
  <2> QED
    BY <1>7, <2>3, <2>4, ReceiveEffect
<1>8. ASSUME NEW k \in AllKeys, RefundSettles(k) PROVE Basics'
  <2>1. NewEvents(k) /\ UNCHANGED <<refund, job>>
    BY <1>8, SettlesEffect
  <2>2. JobsFit'
    BY <1>0, <2>1, JobFitsKept DEF Basics, JobsFit, JobFits, AnswerFits
  <2> QED
    BY <1>0, <2>1, <2>2, EventsNew, RefundsFitSame DEF Basics
<1>9. CASE Resettle
  BY <1>9 DEF Resettle, outside, Basics, EventsFit, RefundsFit, JobsFit, JobFits, AnswerFits
<1> QED
  BY <1>1, <1>2, <1>3, <1>4, <1>5, <1>6, <1>7, <1>8, <1>9 DEF Next, JobStep

-----------------------------------------------------------------------------
(* The amounts agree until a key is used with another amount.               *)

PayPalAmounts ==
    \A k \in AllKeys : paypal[k].status # "none" =>
        refund[k].status # "none" /\ paypal[k].amount = refund[k].amount

CancelledAmount ==
    booking.status = "cancelled" /\ booking.refundAmount > 0 =>
        paypal[CANCEL].status # "none" /\ paypal[CANCEL].amount = booking.refundAmount

(* AmountsFit in parts.                                                     *)
LEMMA AmountsParts ==
  ASSUME "reprice" \notin races
  PROVE  AmountsFit <=> PayPalAmounts /\ (\A r \in Requests : AmountFits(job[r])) /\ CancelledAmount
  BY DEF AmountsFit, PayPalAmounts, CancelledAmount

(* A job's amount stays right.                                              *)
LEMMA AmountFitsKept ==
  ASSUME Kept
  PROVE  \A j \in Job : JobFits(j) /\ AmountFits(j) => AmountFits(j)'
<1>1. CANCEL \in AllKeys /\ \A j \in Job : j.key \in AllKeys
  BY DEF Job, AllKeys
<1> QED
  BY <1>1 DEF Kept, JobFits, AmountFits

(* The amounts of the jobs that do not move stay right.                     *)
LEMMA OthersAmountFit ==
  ASSUME TypeOK, JobsFit, Kept, NEW r \in Requests, OthersKept(r),
         \A q \in Requests : AmountFits(job[q]), AmountFits(job[r])'
  PROVE  \A q \in Requests : AmountFits(job[q])'
<1>1. ASSUME NEW q \in Requests, q # r PROVE AmountFits(job[q])'
  BY <1>1, AmountFitsKept DEF TypeOK, JobsFit, OthersKept, AmountFits
<1> QED
  BY <1>1

(* One refund at PayPal moves with the amount of its record.                *)
LEMMA PayPalAmountsKept ==
  ASSUME PayPalAmounts, Kept, NEW k \in AllKeys, PayPalKept(k),
         paypal'[k].status # "none" =>
            refund'[k].status # "none" /\ paypal'[k].amount = refund'[k].amount
  PROVE  PayPalAmounts'
  BY DEF PayPalAmounts, Kept, PayPalKept

(* None moves.                                                              *)
LEMMA PayPalAmountsSame ==
  ASSUME PayPalAmounts, Kept, UNCHANGED paypal
  PROVE  PayPalAmounts'
  BY DEF PayPalAmounts, Kept

(* A cancelled booking keeps its amount.                                    *)
LEMMA CancelledSame ==
  ASSUME CancelledAmount, Kept, booking'.status = "cancelled" => booking' = booking
  PROVE  CancelledAmount'
<1>1. CANCEL \in AllKeys
  BY DEF AllKeys
<1> QED
  BY <1>1 DEF CancelledAmount, Kept

(* The record that a request uses has its amount.                           *)
LEMMA CreateAmount ==
  ASSUME TypeOK, NEW k \in AllKeys, NEW a \in 0 .. Total, CreateRefundRecord(k, a), Reuse(k, a),
         "reprice" \notin races'
  PROVE  refund'[k].amount = a
<1>1. CASE refund[k].status # "none" /\ refund' = refund
  BY <1>1 DEF Reuse, Happens
<1>2. CASE refund'[k].amount = a
  BY <1>2
<1> QED
  BY <1>1, <1>2, CreateEffect

(* Every step keeps the amounts, unless a key is used with another.         *)
LEMMA AmountsStep ==
  ASSUME TypeOK, Basics, AmountsFit, Next, "reprice" \notin races'
  PROVE  AmountsFit'
<1> USE DEF Basics
<1>0. /\ CANCEL \in AllKeys /\ Kept /\ "reprice" \notin races
      /\ \A r \in Requests : job[r] \in Job /\ JobFits(job[r])
  BY KeptStep DEF AllKeys, JobsFit, TypeOK, Kept
<1>00. /\ PayPalAmounts /\ CancelledAmount /\ \A r \in Requests : AmountFits(job[r])
  BY <1>0, AmountsParts
<1> SUFFICES PayPalAmounts' /\ (\A r \in Requests : AmountFits(job[r])') /\ CancelledAmount'
  BY AmountsParts DEF AmountsFit, PayPalAmounts, CancelledAmount
<1> DEFINE Goal == PayPalAmounts' /\ (\A r \in Requests : AmountFits(job[r])') /\ CancelledAmount'
<1>1. ASSUME NEW r \in Requests, NEW k \in Keys, NEW a \in Amounts, BeginRefund(r, k, a)
      PROVE  Goal
  <2>1. OthersKept(r) /\ UNCHANGED <<paypal, booking>>
    BY <1>1, BeginRefundEffect
  <2>2. AmountFits(job[r])'
    <3>1. refund'[k].amount = a
      BY <1>1, BeginRefundEffect, CreateAmount
    <3> QED
      BY <1>1, <3>1, BeginRefundEffect DEF AmountFits
  <2> QED
    BY <1>0, <1>00, <2>1, <2>2, OthersAmountFit, PayPalAmountsSame, CancelledSame
<1>2. ASSUME NEW r \in Requests, NEW a \in CancellationRefundAmounts, BeginCancel(r, a)
      PROVE  Goal
  <2>1. OthersKept(r) /\ UNCHANGED <<paypal, booking>>
    BY <1>2, BeginCancelEffect
  <2>2. AmountFits(job[r])'
    <3>1. job'[r].at = "post" => refund'[CANCEL].amount = a /\ job'[r].amount = a
      BY <1>0, <1>2, BeginCancelEffect, CreateAmount
    <3> QED
      BY <1>2, <3>1, BeginCancelEffect DEF AmountFits
  <2> QED
    BY <1>0, <1>00, <2>1, <2>2, OthersAmountFit, PayPalAmountsSame, CancelledSame
<1>3. ASSUME NEW r \in Requests, PostRefund(r) PROVE Goal
  <2> DEFINE k == job[r].key
             a == job[r].amount
  <2>1. /\ k \in AllKeys /\ a \in 0 .. Total /\ job[r].at = "post" /\ OthersKept(r)
        /\ UNCHANGED <<refund, booking>> /\ refund[k].status # "none" /\ refund[k].amount = a
    BY <1>0, <1>00, <1>3, PostEffect DEF JobFits, AmountFits
  <2>2. PayPalAccepts(k, a) =>
          paypal'[k].status # "none" /\ paypal'[k].amount = a /\ PayPalAmounts'
    <3> SUFFICES ASSUME PayPalAccepts(k, a)
                 PROVE  paypal'[k].status # "none" /\ paypal'[k].amount = a /\ PayPalAmounts'
      OBVIOUS
    <3> HIDE DEF k, a
    <3>1. CASE paypal[k].status # "none" /\ paypal' = paypal
      BY <1>0, <1>00, <2>1, <3>1, PayPalAmountsSame DEF PayPalAmounts
    <3>2. CASE /\ paypal'[k].status # "none" /\ paypal'[k].amount = a /\ PayPalKept(k)
      BY <1>0, <1>00, <2>1, <3>2, PayPalAmountsKept
    <3> QED
      BY <2>1, <3>1, <3>2, AcceptEffect
  <2>3. PayPalAmounts'
    BY <1>0, <1>00, <1>3, <2>2, PostEffect, PayPalAmountsSame
  <2>4. AmountFits(job[r])'
    <3>1. CASE job'[r] = Idle
      BY <3>1, IdleFits
    <3>2. CASE /\ PayPalAccepts(k, a) /\ job'[r].at = "read" /\ job'[r].op = job[r].op
               /\ job'[r].key = k /\ job'[r].amount = a
      <4>1. paypal'[k].status # "none" /\ paypal'[k].amount = a
        BY <2>2, <3>2
      <4>2. job[r].op = "cancel" => k = CANCEL
        BY <1>0 DEF JobFits
      <4> QED
        BY <3>2, <4>1, <4>2 DEF AmountFits
    <3> QED
      BY <1>3, <3>1, <3>2, PostEffect
  <2> QED
    BY <1>0, <1>00, <2>1, <2>3, <2>4, OthersAmountFit, CancelledSame
<1>4. ASSUME NEW r \in Requests, ReadRefund(r) PROVE Goal
  <2>1. AmountFits(job[r])'
    BY <1>00, <1>4, ReadEffect DEF AmountFits
  <2> QED
    BY <1>0, <1>00, <1>4, <2>1, ReadEffect, OthersAmountFit, PayPalAmountsSame, CancelledSame
<1>5. ASSUME NEW r \in Requests, CommitRefund(r) PROVE Goal
  <2>1. AmountFits(job[r])'
    <3>1. CASE job'[r] = Idle
      BY <3>1, IdleFits
    <3>2. CASE /\ job'[r].op = "cancel" /\ job'[r].at = "cancel" /\ job[r].op = "cancel"
               /\ job'[r].amount = job[r].amount
      BY <1>00, <1>5, <3>2, CommitEffect DEF AmountFits
    <3> QED
      BY <1>5, <3>1, <3>2, CommitEffect
  <2>2. booking'.status = "cancelled" => booking' = booking
    BY <1>5, CommitEffect DEF TypeOK, BookingRow
  <2> QED
    BY <1>0, <1>00, <1>5, <2>1, <2>2, CommitEffect, OthersAmountFit, PayPalAmountsSame,
       CancelledSame
<1>6. ASSUME NEW r \in Requests, CommitCancel(r) \/ Crash(r) PROVE Goal
  <2>1. CancelledAmount'
    <3>1. CASE UNCHANGED booking
      BY <1>0, <1>00, <3>1, CancelledSame
    <3>2. CASE /\ job[r].at = "cancel"
               /\ booking' = [status |-> "cancelled", refundAmount |-> job[r].amount]
      BY <1>0, <1>00, <1>6, <3>2, EndEffect DEF JobFits, AmountFits, CancelledAmount
    <3> QED
      BY <1>6, <3>1, <3>2 DEF CommitCancel, Crash, rows
  <2> QED
    BY <1>0, <1>00, <1>6, <2>1, EndEffect, IdleFits, OthersAmountFit, PayPalAmountsSame
<1>7. ASSUME NEW r \in Requests, NEW e \in events, ReceiveEvent(r, e) PROVE Goal
  <2>1. UNCHANGED <<paypal, booking, refund>>
    BY <1>7, ReceiveEffect
  <2>2. CASE UNCHANGED job
    BY <1>00, <2>1, <2>2 DEF PayPalAmounts, CancelledAmount, AmountFits
  <2>3. CASE OthersKept(r) /\ job'[r].op = "webhook" /\ job'[r].at = "read"
    <3>1. AmountFits(job[r])'
      BY <2>3 DEF AmountFits
    <3> QED
      BY <1>0, <1>00, <2>1, <2>3, <3>1, OthersAmountFit, PayPalAmountsSame, CancelledSame
  <2> QED
    BY <1>7, <2>2, <2>3, ReceiveEffect
<1>8. ASSUME NEW k \in AllKeys, RefundSettles(k) PROVE Goal
  <2>1. /\ paypal[k].status = "pending" /\ paypal'[k].amount = paypal[k].amount /\ PayPalKept(k)
        /\ UNCHANGED <<refund, job, booking>>
    BY <1>8, SettlesEffect
  <2>2. \A r \in Requests : AmountFits(job[r])'
    BY <1>0, <1>00, <2>1, AmountFitsKept DEF AmountFits
  <2>3. PayPalAmounts'
    BY <1>0, <1>00, <2>1, PayPalAmountsKept DEF PayPalAmounts
  <2> QED
    BY <1>0, <1>00, <2>1, <2>2, <2>3, CancelledSame
<1>9. CASE Resettle
  <2>1. UNCHANGED <<paypal, refund, job>> /\ (booking'.status = "cancelled" => booking' = booking)
    BY <1>9 DEF Resettle, outside, TypeOK, BookingRow
  <2>2. \A r \in Requests : AmountFits(job[r])'
    BY <1>00, <2>1 DEF AmountFits
  <2> QED
    BY <1>0, <1>00, <2>1, <2>2, PayPalAmountsSame, CancelledSame
<1> QED
  BY <1>1, <1>2, <1>3, <1>4, <1>5, <1>6, <1>7, <1>8, <1>9 DEF Next, JobStep

-----------------------------------------------------------------------------
(* A key is in use once.                                                    *)

(* Requests that wait keep their keys to themselves.                        *)
LEMMA UseFrame ==
  ASSUME OneUse, "repeat" \notin races, NEW r \in Requests, OthersKept(r),
         \A q \in Requests : q # r /\ Using(q) => ~refund'[job[q].key].known,
         Using(r)' => /\ ~refund'[job'[r].key].known
                      /\ \A q \in Requests : q # r /\ Using(q) => job[q].key # job'[r].key
  PROVE  OneUse'
<1>1. \A q \in Requests : q # r => (Using(q)' <=> Using(q)) /\ job'[q] = job[q]
  BY DEF Using, OthersKept
<1> QED
  BY <1>1 DEF OneUse

(* A step without jobs and records keeps the use of keys.                   *)
LEMMA UseSame ==
  ASSUME OneUse, "repeat" \notin races, UNCHANGED <<job, refund>>
  PROVE  OneUse'
  BY DEF OneUse, Using

(* A key that a request begins with is free.                                *)
LEMMA CreateUse ==
  ASSUME TypeOK, Basics, NEW k \in AllKeys, NEW a \in 0 .. Total,
         CreateRefundRecord(k, a), Reuse(k, a), "repeat" \notin races'
  PROVE  /\ ~refund'[k].known /\ RefundsKept(k)
         /\ \A q \in Requests : Using(q) => job[q].key # k
<1>1. ASSUME NEW q \in Requests, Using(q)
      PROVE  /\ job[q].op \in {"refund", "cancel"} /\ refund[job[q].key].status # "none"
  BY <1>1 DEF Using, Basics, JobsFit, JobFits, TypeOK, Job
<1>2. refund[k].status # "none" =>
        ~refund[k].known /\ ~(\E q \in Requests : job[q].op \in {"refund", "cancel"}
                                                 /\ job[q].key = k)
  BY DEF Reuse, Happens
<1>3. CASE refund[k].status # "none" /\ refund' = refund
  BY <1>1, <1>2, <1>3 DEF RefundsKept
<1>4. CASE refund[k].status = "none" /\ ~refund'[k].known /\ RefundsKept(k)
  BY <1>1, <1>4
<1> QED
  BY <1>3, <1>4, CreateEffect

(* Every step keeps a key's single use, unless it is used again.            *)
LEMMA UseStep ==
  ASSUME TypeOK, Basics, OneUse, Next, "repeat" \notin races'
  PROVE  OneUse'
<1>0. /\ CANCEL \in AllKeys /\ "repeat" \notin races
      /\ \A r \in Requests : job[r].key \in AllKeys /\ JobFits(job[r])
  BY KeptStep DEF AllKeys, Basics, JobsFit, TypeOK, Job, Kept
<1>00. \A r \in Requests : Using(r) =>
          /\ ~refund[job[r].key].known
          /\ \A q \in Requests : Using(q) /\ job[q].key = job[r].key => q = r
  BY <1>0 DEF OneUse
<1>1. ASSUME NEW r \in Requests, NEW k \in AllKeys, NEW a \in 0 .. Total, OthersKept(r),
             CreateRefundRecord(k, a), Reuse(k, a), job'[r].key = k
      PROVE  OneUse'
  <2>1. /\ ~refund'[k].known /\ RefundsKept(k) /\ \A q \in Requests : Using(q) => job[q].key # k
    BY <1>1, CreateUse
  <2>2. \A q \in Requests : q # r /\ Using(q) => ~refund'[job[q].key].known
    BY <1>0, <1>00, <2>1 DEF RefundsKept
  <2> QED
    BY <1>0, <1>1, <2>1, <2>2, UseFrame
<1>2. ASSUME NEW r \in Requests, OthersKept(r), UNCHANGED refund, ~Using(r)' PROVE OneUse'
  BY <1>0, <1>00, <1>2, UseFrame
<1>3. ASSUME NEW r \in Requests, OthersKept(r), UNCHANGED refund, Using(r)' => Using(r),
             job'[r].key = job[r].key
      PROVE  OneUse'
  BY <1>0, <1>00, <1>3, UseFrame
<1>4. ASSUME NEW r \in Requests, NEW k \in Keys, NEW a \in Amounts, BeginRefund(r, k, a)
      PROVE  OneUse'
  BY <1>1, <1>4, BeginRefundEffect
<1>5. ASSUME NEW r \in Requests, NEW a \in CancellationRefundAmounts, BeginCancel(r, a)
      PROVE  OneUse'
  <2>1. CASE job'[r].at = "cancel" /\ UNCHANGED refund
    <3>1. ~Using(r)'
      BY <2>1 DEF Using
    <3> QED
      BY <1>2, <1>5, <2>1, <3>1, BeginCancelEffect
  <2>2. CASE CreateRefundRecord(CANCEL, a) /\ Reuse(CANCEL, a)
    BY <1>0, <1>1, <1>5, <2>2, BeginCancelEffect
  <2> QED
    BY <1>5, <2>1, <2>2, BeginCancelEffect
<1>6. ASSUME NEW r \in Requests, PostRefund(r) PROVE OneUse'
  <2>1. CASE job'[r] = Idle
    <3>1. ~Using(r)'
      BY <2>1 DEF Using, Idle
    <3> QED
      BY <1>2, <1>6, <3>1, PostEffect
  <2>2. CASE job'[r].op = job[r].op /\ job'[r].key = job[r].key
    <3>1. Using(r)' => Using(r)
      BY <1>6, <2>2, PostEffect DEF Using
    <3> QED
      BY <1>3, <1>6, <2>2, <3>1, PostEffect
  <2> QED
    BY <1>6, <2>1, <2>2, PostEffect
<1>7. ASSUME NEW r \in Requests, ReadRefund(r) PROVE OneUse'
  <2>1. Using(r)' => Using(r)
    BY <1>7, ReadEffect DEF Using
  <2> QED
    BY <1>3, <1>7, <2>1, ReadEffect
<1>8. ASSUME NEW r \in Requests, CommitRefund(r) PROVE OneUse'
  <2>1. /\ job[r].at = "commit" /\ RefundsKept(job[r].key) /\ OthersKept(r)
    BY <1>8, CommitEffect
  <2>2. ~Using(r)'
    BY <1>8, CommitEffect DEF Using, Idle
  <2>3. \A q \in Requests : q # r /\ Using(q) => job[q].key # job[r].key
    <3>1. CASE job[r].op = "webhook"
      BY <1>0, <1>00, <2>1, <3>1 DEF JobFits
    <3>2. CASE job[r].op # "webhook"
      BY <1>00, <2>1, <3>2 DEF Using
    <3> QED
      BY <3>1, <3>2
  <2>4. \A q \in Requests : q # r /\ Using(q) => ~refund'[job[q].key].known
    BY <1>0, <1>00, <2>1, <2>3 DEF RefundsKept
  <2> QED
    BY <1>0, <2>1, <2>2, <2>4, UseFrame
<1>9. ASSUME NEW r \in Requests, CommitCancel(r) \/ Crash(r) PROVE OneUse'
  <2>1. ~Using(r)'
    BY <1>9, EndEffect DEF Using, Idle
  <2> QED
    BY <1>2, <1>9, <2>1, EndEffect
<1>10. ASSUME NEW r \in Requests, NEW e \in events, ReceiveEvent(r, e) PROVE OneUse'
  <2>1. CASE UNCHANGED job
    BY <1>0, <1>10, <2>1, ReceiveEffect, UseSame
  <2>2. CASE OthersKept(r) /\ job'[r].op = "webhook"
    <3>1. ~Using(r)'
      BY <2>2 DEF Using
    <3> QED
      BY <1>2, <1>10, <2>2, <3>1, ReceiveEffect
  <2> QED
    BY <1>10, <2>1, <2>2, ReceiveEffect
<1>11. ASSUME NEW k \in AllKeys, RefundSettles(k) PROVE OneUse'
  BY <1>0, <1>11, SettlesEffect, UseSame
<1>12. CASE Resettle
  BY <1>0, <1>12, UseSame DEF Resettle
<1> QED
  BY <1>4, <1>5, <1>6, <1>7, <1>8, <1>9, <1>10, <1>11, <1>12 DEF Next, JobStep

-----------------------------------------------------------------------------
(* What an open transaction read stays so.                                  *)

(* Outside the completions, records are only created.                       *)
OnlyCreates ==
    \A k \in AllKeys : \/ refund'[k] = refund[k]
                       \/ refund[k].status = "none" /\ refund'[k].status = "pending"

(* createRefundRecord changes no record that exists.                        *)
LEMMA CreateOnly ==
  ASSUME TypeOK, NEW k \in AllKeys, NEW a \in 0 .. Total, CreateRefundRecord(k, a)
  PROVE  OnlyCreates
  BY CreateEffect DEF OnlyCreates, RefundsKept

(* What a transaction read outlives new records.                            *)
LEMMA ViewKept ==
  ASSUME OnlyCreates
  PROVE  \A j : ViewFits(j) => ViewFits(j)'
  BY DEF OnlyCreates, ViewFits

(* Steps beside an open completion leave what it read true.                 *)
LEMMA CommitFrame ==
  ASSUME OneCommit, "overlap" \notin races, Kept, OnlyCreates,
         UNCHANGED payment \/ "resettle" \in races',
         \A q \in Requests : job'[q].at = "commit" => job'[q] = job[q]
  PROVE  OneCommit'
<1>1. ASSUME NEW r \in Requests, job'[r].at = "commit"
      PROVE  /\ ViewFits(job[r])'
             /\ "resettle" \notin races' => job'[r].view.payment = payment'
             /\ \A q \in Requests : job'[q].at = "commit" => q = r
  <2>1. /\ job'[r] = job[r] /\ ViewFits(job[r])
        /\ "resettle" \notin races => job[r].view.payment = payment
        /\ \A q \in Requests : job[q].at = "commit" => q = r
    BY <1>1 DEF OneCommit
  <2>2. ViewFits(job[r])'
    <3>1. PICK j : j = job[r] /\ j = job'[r]
      BY <2>1
    <3>2. ViewFits(j) /\ ViewFits(j)'
      BY <2>1, <3>1, ViewKept
    <3> QED
      BY <3>1, <3>2 DEF ViewFits
  <2> QED
    BY <2>1, <2>2 DEF Kept
<1> QED
  BY <1>1 DEF OneCommit

(* Every step but a completion leaves what is settled, the ledger and, but for
   a resettlement, the payment alone.                                       *)
Quiet ==
    /\ OnlyCreates
    /\ ledger'.refund = ledger.refund
    /\ \/ "resettle" \in races'
       \/ UNCHANGED payment /\ (booking'.status = "refunded" => booking.status = "refunded")

(* No request opens a transaction.                                          *)
NoneOpens == \A q \in Requests : job'[q].at = "commit" => job'[q] = job[q]

(* Writing none of the three is quiet.                                      *)
LEMMA QuietSame ==
  ASSUME UNCHANGED <<refund, payment, ledger>>,
         booking'.status = "refunded" => booking.status = "refunded"
  PROVE  Quiet
  BY DEF Quiet, OnlyCreates

(* A step completes a refund, opens a completion or does neither.           *)
LEMMA StepKinds ==
  ASSUME TypeOK, Next
  PROVE  \/ \E r \in Requests : CommitRefund(r)
         \/ Quiet /\ \E r \in Requests : ReadRefund(r)
         \/ Quiet /\ NoneOpens
<1>0. CANCEL \in AllKeys
  BY DEF AllKeys
<1>1. ASSUME NEW r \in Requests, OthersKept(r), job'[r].at # "commit" PROVE NoneOpens
  BY <1>1 DEF NoneOpens, OthersKept
<1>2. ASSUME NEW k \in AllKeys, NEW a \in 0 .. Total, CreateRefundRecord(k, a),
             UNCHANGED <<payment, booking, ledger>>
      PROVE  Quiet
  BY <1>2, CreateOnly DEF Quiet
<1>3. ASSUME NEW r \in Requests, NEW k \in Keys, NEW a \in Amounts, BeginRefund(r, k, a)
      PROVE  Quiet /\ NoneOpens
  <2>1. job'[r].at # "commit"
    BY <1>3, BeginRefundEffect
  <2> QED
    BY <1>1, <1>2, <1>3, <2>1, BeginRefundEffect
<1>4. ASSUME NEW r \in Requests, NEW a \in CancellationRefundAmounts, BeginCancel(r, a)
      PROVE  Quiet /\ NoneOpens
  <2>1. job'[r].at # "commit"
    BY <1>4, BeginCancelEffect
  <2> QED
    BY <1>0, <1>1, <1>2, <1>4, <2>1, BeginCancelEffect, QuietSame
<1>5. ASSUME NEW r \in Requests, PostRefund(r) PROVE Quiet /\ NoneOpens
  <2>1. job'[r].at # "commit"
    BY <1>5, PostEffect DEF Idle
  <2> QED
    BY <1>1, <1>5, <2>1, PostEffect, QuietSame
<1>6. ASSUME NEW r \in Requests, ReadRefund(r) PROVE Quiet
  BY <1>6, ReadEffect, QuietSame
<1>7. ASSUME NEW r \in Requests, CommitCancel(r) \/ Crash(r) PROVE Quiet /\ NoneOpens
  <2>1. job'[r].at # "commit"
    BY <1>7, EndEffect DEF Idle
  <2>2. booking'.status = "refunded" => booking.status = "refunded"
    BY <1>7 DEF CommitCancel, Crash, rows
  <2> QED
    BY <1>1, <1>7, <2>1, <2>2, EndEffect, QuietSame
<1>8. ASSUME NEW r \in Requests, NEW e \in events, ReceiveEvent(r, e)
      PROVE  Quiet /\ NoneOpens
  <2>1. UNCHANGED <<refund, payment, booking, ledger>>
    BY <1>8, ReceiveEffect
  <2>2. CASE UNCHANGED job
    BY <2>1, <2>2, QuietSame DEF NoneOpens
  <2>3. CASE OthersKept(r) /\ job'[r].at = "read"
    BY <1>1, <2>1, <2>3, QuietSame
  <2> QED
    BY <1>8, <2>2, <2>3, ReceiveEffect
<1>9. ASSUME NEW k \in AllKeys, RefundSettles(k) PROVE Quiet /\ NoneOpens
  BY <1>9, SettlesEffect, QuietSame DEF NoneOpens
<1>10. CASE Resettle
  <2>1. ledger'.refund = ledger.refund
    BY <1>10 DEF Resettle, TypeOK
  <2> QED
    BY <1>10, <2>1 DEF Resettle, Happens, Quiet, OnlyCreates, NoneOpens
<1> QED
  BY <1>3, <1>4, <1>5, <1>6, <1>7, <1>8, <1>9, <1>10 DEF Next, JobStep

(* Every step keeps the open completion alone with what it read, unless
   another overlaps.                                                        *)
LEMMA OneCommitStep ==
  ASSUME TypeOK, Basics, OneCommit, Next, "overlap" \notin races'
  PROVE  OneCommit'
<1>0. Kept /\ "overlap" \notin races /\ JobsFit
  BY KeptStep DEF Basics, Kept
<1>1. ASSUME NEW r \in Requests, CommitRefund(r) PROVE OneCommit'
  <2>1. job[r].at = "commit" /\ OthersKept(r) /\ job'[r].at # "commit"
    BY <1>1, CommitEffect DEF Idle
  <2>2. \A q \in Requests : job'[q].at # "commit"
    BY <1>0, <2>1 DEF OneCommit, OthersKept
  <2> QED
    BY <2>2 DEF OneCommit
<1>2. ASSUME NEW r \in Requests, ReadRefund(r) PROVE OneCommit'
  <2>1. /\ job[r].at = "read" /\ OthersKept(r) /\ job'[r].at = "commit"
        /\ job'[r].key = job[r].key /\ job'[r].view.refund = refund
        /\ job'[r].view.payment = payment /\ UNCHANGED <<refund, payment>>
        /\ Happens({x \in {"overlap"} : \E q \in Requests : job[q].at = "commit"})
    BY <1>2, ReadEffect
  <2>2. \A q \in Requests : job'[q].at = "commit" => q = r
    BY <2>1 DEF Happens, OthersKept
  <2>3. ViewFits(job[r])'
    BY <1>0, <2>1 DEF ViewFits, JobsFit, JobFits
  <2> QED
    BY <2>1, <2>2, <2>3 DEF OneCommit
<1>3. CASE Quiet /\ NoneOpens
  BY <1>0, <1>3, CommitFrame DEF Quiet, NoneOpens
<1> QED
  BY <1>1, <1>2, <1>3, StepKinds

-----------------------------------------------------------------------------
(* The ledger.                                                              *)

(* A completion takes no settled refund back, whatever it read: a request's
   answer comes before the record has PayPal's id, a webhook's is final.    *)
LEMMA SettledStays ==
  ASSUME TypeOK, Basics, OneUse, "repeat" \notin races, NEW r \in Requests, CommitRefund(r)
  PROVE  \A k \in AllKeys : refund[k].status = "succeeded" =>
            refund'[k].status = "succeeded" /\ refund'[k].amount = refund[k].amount
<1> DEFINE k == job[r].key
<1>1. /\ job[r].at = "commit" /\ RefundsKept(k) /\ refund'[k].status = Stored(job[r].answer)
      /\ refund'[k].amount = refund[k].amount
      /\ k \in AllKeys /\ job[r].answer \in Answers /\ JobFits(job[r])
  BY CommitEffect DEF Job, Basics, JobsFit
<1>2. refund[k].status = "succeeded" => job[r].answer = "COMPLETED"
  <2> SUFFICES ASSUME refund[k].status = "succeeded" PROVE job[r].answer = "COMPLETED"
    OBVIOUS
  <2>1. refund[k].known /\ paypal[k].status = "completed"
    BY <1>1 DEF Basics, RefundsFit
  <2>2. job[r].op = "webhook"
    BY <1>1, <2>1 DEF OneUse, Using
  <2>3. job[r].answer # "PENDING" /\ job[r].answer # "FAILED"
    BY <1>1, <2>1, <2>2 DEF JobFits, AnswerFits
  <2> QED
    BY <1>1, <2>3 DEF Answers
<1>3. job[r].answer = "COMPLETED" => Stored(job[r].answer) = "succeeded"
  BY DEF Stored
<1> HIDE DEF k
<1> QED
  BY <1>1, <1>2, <1>3 DEF RefundsKept

(* A completion, unless it overlaps another one or its key is used again,
   takes back no settled refund, sees which are settled and counts once.    *)
LEMMA Completion ==
  ASSUME TypeOK, Basics, OneUse, OneCommit, "overlap" \notin races, "repeat" \notin races,
         NEW r \in Requests, CommitRefund(r)
  PROVE  /\ ViewFits(job[r])
         /\ \A k \in AllKeys : refund[k].status = "succeeded" => refund'[k].status = "succeeded"
         /\ refund'[job[r].key].status = "succeeded" <=> job[r].answer = "COMPLETED"
<1>1. /\ job[r].at = "commit" /\ refund'[job[r].key].status = Stored(job[r].answer)
      /\ job[r].answer \in Answers
  BY CommitEffect DEF Job
<1>2. ViewFits(job[r])
  BY <1>1 DEF OneCommit
<1>3. Stored(job[r].answer) = "succeeded" <=> job[r].answer = "COMPLETED"
  BY DEF Stored
<1> QED
  BY <1>1, <1>2, <1>3, SettledStays

(* Every step keeps the ledger exact.                                       *)
LEMMA LedgerStep ==
  ASSUME TypeOK, Basics, OneUse, OneCommit, LedgerIsExact, Next,
         "overlap" \notin races', "repeat" \notin races'
  PROVE  LedgerIsExact'
<1>0. "overlap" \notin races /\ "repeat" \notin races
  BY KeptStep DEF Basics, Kept
<1>1. \A k \in AllKeys : ledger.refund[k] = IF refund[k].status = "succeeded" THEN 1 ELSE 0
  BY <1>0 DEF LedgerIsExact
<1>2. CASE Quiet
  BY <1>1, <1>2 DEF Quiet, OnlyCreates, LedgerIsExact
<1>3. ASSUME NEW r \in Requests, CommitRefund(r) PROVE LedgerIsExact'
  <2> DEFINE k == job[r].key
  <2>1. /\ k \in AllKeys /\ RefundsKept(k)
        /\ ledger'.refund[k] = ledger.refund[k] + LedgerEntries(job[r])
        /\ \A x \in AllKeys : x # k => ledger'.refund[x] = ledger.refund[x]
    BY <1>3, CommitEffect
  <2>2. /\ job[r].view.refund[k].status = "succeeded" <=> refund[k].status = "succeeded"
        /\ refund[k].status = "succeeded" => refund'[k].status = "succeeded"
        /\ refund'[k].status = "succeeded" <=> job[r].answer = "COMPLETED"
    BY <1>0, <1>3, <2>1, Completion DEF ViewFits
  <2>3. ledger'.refund[k] = IF refund'[k].status = "succeeded" THEN 1 ELSE 0
    BY <1>1, <2>1, <2>2 DEF LedgerEntries
  <2> HIDE DEF k
  <2>4. \A x \in AllKeys : ledger'.refund[x] = IF refund'[x].status = "succeeded" THEN 1 ELSE 0
    BY <1>1, <2>1, <2>3 DEF RefundsKept
  <2> QED
    BY <2>4 DEF LedgerIsExact
<1> QED
  BY <1>2, <1>3, StepKinds

-----------------------------------------------------------------------------
(* The payment.                                                             *)

(* What a completion adds up is what the records then add up to.            *)
LEMMA SeenTotal ==
  ASSUME TypeOK, NEW r \in Requests, CommitRefund(r), ViewFits(job[r])
  PROVE  SucceededTotal([job[r].view.refund EXCEPT ![job[r].key].status = Stored(job[r].answer)])
            = SucceededTotal(refund')
<1> DEFINE j == job[r]
           seen == [j.view.refund EXCEPT ![j.key].status = Stored(j.answer)]
<1>1. /\ j.key \in AllKeys /\ RefundsKept(j.key)
      /\ refund'[j.key].status = Stored(j.answer)
      /\ refund'[j.key].amount = refund[j.key].amount
      /\ j.view.refund \in [AllKeys -> RefundRow]
  BY CommitEffect DEF Job
<1>2. /\ seen[j.key].status = Stored(j.answer)
      /\ seen[j.key].amount = j.view.refund[j.key].amount
      /\ \A x \in AllKeys : x # j.key => seen[x] = j.view.refund[x]
  BY <1>1 DEF RefundRow
<1>3. /\ j.view.refund[j.key].status # "none"
      /\ \A k \in AllKeys :
            /\ j.view.refund[k].status = "succeeded" <=> refund[k].status = "succeeded"
            /\ j.view.refund[k].status # "none" => j.view.refund[k].amount = refund[k].amount
  BY DEF ViewFits
<1> HIDE DEF seen, j
<1>4. \A k \in AllKeys : seen[k].status = "succeeded" <=> refund'[k].status = "succeeded"
  BY <1>1, <1>2, <1>3 DEF RefundsKept
<1>5. \A k \in AllKeys : seen[k].status = "succeeded" => refund'[k].amount = seen[k].amount
  BY <1>1, <1>2, <1>3 DEF RefundsKept
<1>6. SucceededTotal(seen) = SucceededTotal(refund')
  BY <1>4, <1>5, TotalSame
<1> QED
  BY <1>6 DEF seen, j

(* Every step keeps the payment's status in line with its refunds.          *)
LEMMA PaymentStep ==
  ASSUME TypeOK, Basics, OneUse, OneCommit, PaymentMatchesRefunds, Next,
         "overlap" \notin races', "repeat" \notin races', "resettle" \notin races'
  PROVE  PaymentMatchesRefunds'
<1>0. "overlap" \notin races /\ "repeat" \notin races /\ "resettle" \notin races
  BY KeptStep DEF Basics, Kept
<1> DEFINE T == SucceededTotal(refund)
           U == SucceededTotal(refund')
<1>1. /\ payment = "refunded" <=> T >= Total
      /\ payment = "succeeded" <=> T = 0
      /\ booking.status = "refunded" => payment = "refunded"
  BY <1>0 DEF PaymentMatchesRefunds
<1>2. T \in Nat /\ U \in Nat /\ Total \in Nat \ {0}
  BY SucceededTotalType, RefundsAssumption
<1> SUFFICES /\ payment' = "refunded" <=> U >= Total
             /\ payment' = "succeeded" <=> U = 0
             /\ booking'.status = "refunded" => payment' = "refunded"
  BY DEF PaymentMatchesRefunds, SucceededTotal, Succeeded, AmountTotal, Units
<1> HIDE DEF T, U
<1>3. CASE Quiet
  <2>1. \A k \in AllKeys : refund[k].status = "succeeded" <=> refund'[k].status = "succeeded"
    BY <1>3 DEF Quiet, OnlyCreates
  <2>2. \A k \in AllKeys : refund[k].status = "succeeded" => refund'[k].amount = refund[k].amount
    BY <1>3 DEF Quiet, OnlyCreates
  <2>3. T = U
    BY <2>1, <2>2, TotalSame DEF T, U
  <2> QED
    BY <1>1, <1>3, <2>3 DEF Quiet
<1>4. ASSUME NEW r \in Requests, CommitRefund(r)
      PROVE  /\ payment' = "refunded" <=> U >= Total
             /\ payment' = "succeeded" <=> U = 0
             /\ booking'.status = "refunded" => payment' = "refunded"
  <2> DEFINE j == job[r]
             seen == [j.view.refund EXCEPT ![j.key].status = Stored(j.answer)]
  <2>1. ViewFits(j) /\ j.at = "commit" /\ j.view.payment = payment
    BY <1>0, <1>4, Completion, CommitEffect DEF OneCommit
  <2>2. SucceededTotal(seen) = U
    BY <1>4, <2>1, SeenTotal DEF U
  <2>3. T <= U
    <3>1. \A k \in AllKeys : refund[k].status = "succeeded" =>
             refund'[k].status = "succeeded" /\ refund'[k].amount = refund[k].amount
      BY <1>0, <1>4, Completion, CommitEffect DEF RefundsKept
    <3> QED
      BY <3>1, TotalGrows DEF T, U
  <2>4. payment' = IF U >= Total THEN "refunded"
                   ELSE IF U > 0 THEN "partially_refunded" ELSE payment
    BY <1>4, <2>1, <2>2 DEF CommitRefund, RefundedStatus
  <2>5. booking'.status = "refunded" => U >= Total \/ booking.status = "refunded"
    <3>1. \/ booking' = booking
          \/ SucceededTotal(seen) >= Total
      BY <1>4 DEF CommitRefund
    <3> QED
      BY <2>2, <3>1
  <2> QED
    BY <1>1, <1>2, <2>3, <2>4, <2>5
<1> QED
  BY <1>3, <1>4, StepKinds

-----------------------------------------------------------------------------
(* The invariant holds.                                                     *)

(* The invariant holds at first.                                            *)
LEMMA InitInv == Init => RefundsInv
<1> SUFFICES ASSUME Init PROVE RefundsInv
  OBVIOUS
<1>1. /\ \A k \in AllKeys : refund[k] = NoRefund /\ ledger.refund[k] = 0
                            /\ paypal[k].status = "none"
      /\ \A r \in Requests : job[r] = Idle
      /\ payment = "succeeded" /\ booking.status = "paid" /\ events = {}
  BY DEF Init
<1>2. Basics
  BY <1>1, IdleFits DEF Basics, EventsFit, RefundsFit, JobsFit, NoRefund
<1>3. AmountsFit
  BY <1>1 DEF AmountsFit, AmountFits, Idle
<1>4. OneUse /\ OneCommit
  BY <1>1 DEF OneUse, Using, OneCommit, Idle
<1>5. LedgerIsExact
  BY <1>1 DEF LedgerIsExact, NoRefund
<1>6. PaymentMatchesRefunds
  <2>1. Units(Succeeded(refund), refund) = {}
    BY <1>1 DEF Units, Succeeded, NoRefund
  <2>2. SucceededTotal(refund) = 0
    BY <2>1, FS_EmptySet DEF SucceededTotal, AmountTotal
  <2> QED
    BY <1>1, <2>2, RefundsAssumption DEF PaymentMatchesRefunds
<1> QED
  BY <1>2, <1>3, <1>4, <1>5, <1>6, InitType DEF RefundsInv, Basics

(* Every step keeps the invariant.                                          *)
LEMMA NextInv == RefundsInv /\ [Next]_vars => RefundsInv'
<1>1. CASE UNCHANGED vars
  <2> SUFFICES ASSUME RefundsInv PROVE RefundsInv'
    BY <1>1
  <2>1. TypeOK'
    BY <1>1, NextType DEF RefundsInv
  <2>2. Basics'
    BY <1>1 DEF vars, RefundsInv, Basics, EventsFit, RefundsFit, JobsFit, JobFits, AnswerFits
  <2>3. AmountsFit' /\ OneUse'
    BY <1>1 DEF vars, RefundsInv, AmountsFit, AmountFits, OneUse, Using
  <2>4. OneCommit' /\ LedgerIsExact'
    BY <1>1 DEF vars, RefundsInv, OneCommit, ViewFits, LedgerIsExact
  <2>5. PaymentMatchesRefunds'
    BY <1>1 DEF vars, RefundsInv, PaymentMatchesRefunds, SucceededTotal, Succeeded, AmountTotal,
                Units
  <2> QED
    BY <2>1, <2>2, <2>3, <2>4, <2>5 DEF RefundsInv, Basics
<1>2. CASE Next
  <2> SUFFICES ASSUME RefundsInv PROVE RefundsInv'
    BY <1>2
  <2>1. TypeOK /\ Basics
    BY DEF RefundsInv, Basics
  <2>2. TypeOK' /\ Basics'
    BY <1>2, <2>1, NextType, BasicsStep
  <2>3. AmountsFit'
    BY <1>2, <2>1, AmountsStep DEF RefundsInv, AmountsFit
  <2>4. OneUse'
    BY <1>2, <2>1, UseStep DEF RefundsInv, OneUse
  <2>5. OneCommit'
    BY <1>2, <2>1, OneCommitStep DEF RefundsInv, OneCommit
  <2>6. LedgerIsExact'
    <3>1. CASE races' \cap {"overlap", "repeat"} = {}
      BY <1>2, <2>1, <3>1, LedgerStep DEF RefundsInv
    <3>2. CASE races' \cap {"overlap", "repeat"} # {}
      BY <3>2 DEF LedgerIsExact
    <3> QED
      BY <3>1, <3>2
  <2>7. PaymentMatchesRefunds'
    <3>1. CASE races' \cap {"overlap", "repeat", "resettle"} = {}
      BY <1>2, <2>1, <3>1, PaymentStep DEF RefundsInv
    <3>2. CASE races' \cap {"overlap", "repeat", "resettle"} # {}
      BY <3>2 DEF PaymentMatchesRefunds
    <3> QED
      BY <3>1, <3>2
  <2> QED
    BY <2>2, <2>3, <2>4, <2>5, <2>6, <2>7 DEF RefundsInv, Basics
<1> QED
  BY <1>1, <1>2

(* The inductive invariant holds in every state of the refunds.             *)
THEOREM RefundsInvHolds == Spec => []RefundsInv
  BY InitInv, NextInv, PTL DEF Spec

(* The ledger has one entry for each settled refund and none for the others
   (completeRefund), as long as completions of the payment do not overlap and a
   key is not used again while or after its first use was answered.         *)
THEOREM LedgerExact == Spec => []LedgerIsExact
<1>1. RefundsInv => LedgerIsExact
  BY DEF RefundsInv
<1> QED
  BY <1>1, RefundsInvHolds, PTL

(* A refund that counts as succeeded was made by PayPal, whatever overlaps, and
   with the amount of its record unless its key came back with another.     *)
THEOREM SettledRefunds == Spec => []SettledIsReal
<1>1. RefundsInv => SettledIsReal
  BY DEF RefundsInv, SettledIsReal, RefundsFit, AmountsFit
<1> QED
  BY <1>1, RefundsInvHolds, PTL

(* The payment's status is what its settled refunds add up to, while nothing
   overlaps, repeats or resettles it.                                       *)
THEOREM PaymentMatches == Spec => []PaymentMatchesRefunds
<1>1. RefundsInv => PaymentMatchesRefunds
  BY DEF RefundsInv
<1> QED
  BY <1>1, RefundsInvHolds, PTL

(* A booking that was cancelled against a refund has it at PayPal, with the
   amount it shows (refundCancelledPaidBooking), unless the cancellation was
   begun again with another amount.                                         *)
THEOREM CancelledRefunds == Spec => []CancelledIsRefunded
<1>1. RefundsInv => CancelledIsRefunded
  BY DEF RefundsInv, CancelledIsRefunded, AmountsFit
<1> QED
  BY <1>1, RefundsInvHolds, PTL

-----------------------------------------------------------------------------
(* Settled refunds stay, and stay within the charge.                        *)

(* No answer, however late, takes a settled refund back or changes its amount
   (completeRefund), even when completions overlap, as long as a key is not used
   again while its first use runs.                                          *)
THEOREM SettledFinal == Spec => SettledIsFinal
<1> DEFINE Stays == \A k \in AllKeys : "repeat" \notin races' /\ refund[k].status = "succeeded" =>
                       refund'[k].status = "succeeded" /\ refund'[k].amount = refund[k].amount
<1>1. RefundsInv /\ [Next]_vars => [Stays]_vars
  <2> SUFFICES ASSUME RefundsInv, Next, "repeat" \notin races' PROVE Stays
    OBVIOUS
  <2>1. TypeOK /\ Basics /\ OneUse
    BY DEF RefundsInv, Basics
  <2>2. "repeat" \notin races
    BY <2>1, KeptStep DEF Basics, Kept
  <2>3. CASE Quiet
    BY <2>3 DEF Quiet, OnlyCreates
  <2>4. ASSUME NEW r \in Requests, CommitRefund(r) PROVE Stays
    BY <2>1, <2>2, <2>4, SettledStays
  <2> QED
    BY <2>1, <2>3, <2>4, StepKinds
<1> QED
  BY <1>1, RefundsInvHolds, PTL DEF Spec, SettledIsFinal

(* The refunds PayPal made or is making.                                    *)
Made(table) == {k \in AllKeys : table[k].status \in {"pending", "completed"}}

WithinCharge == AmountTotal(Made(paypal), paypal) <= Total

(* Rows of which no other has become more add up to no more.                *)
LEMMA MadeShrinks ==
  ASSUME NEW s, NEW t,
         \A k \in AllKeys : s[k].status \in {"pending", "completed"} =>
            t[k].status \in {"pending", "completed"} /\ t[k].amount = s[k].amount
  PROVE  AmountTotal(Made(s), s) <= AmountTotal(Made(t), t)
<1>1. Units(Made(s), s) \in SUBSET Units(Made(t), t)
  BY DEF Units, Made
<1>2. IsFiniteSet(Units(Made(t), t))
  BY UnitsFinite DEF Made
<1> QED
  BY <1>1, <1>2, FS_Subset DEF AmountTotal

(* One more row adds no more than its amount.                               *)
LEMMA MadeGrows ==
  ASSUME NEW s, NEW t, NEW k \in AllKeys, NEW a \in 0 .. Total, t[k].amount = a,
         \A x \in AllKeys : x # k => t[x] = s[x]
  PROVE  AmountTotal(Made(t), t) <= AmountTotal(Made(s), s) + a
<1> DEFINE Old == Units(Made(s), s)
           New == {k} \X (1 .. a)
           All == Units(Made(t), t)
<1>1. IsFiniteSet(Old) /\ Cardinality(Old) \in Nat
  BY UnitsFinite DEF Made, AmountTotal
<1>2. IsFiniteSet(New) /\ Cardinality(New) = a
  <2>1. a \in Nat /\ IsFiniteSet(1 .. a) /\ Cardinality(1 .. a) = a
    BY RefundsAssumption, FS_Interval
  <2>2. IsFiniteSet({k}) /\ Cardinality({k}) = 1
    BY FS_Singleton
  <2>3. IsFiniteSet(New) /\ Cardinality(New) = 1 * a
    BY <2>1, <2>2, FS_Product
  <2> QED
    BY <2>1, <2>3
<1>3. All \in SUBSET (Old \cup New)
  BY RefundsAssumption DEF Units, Made
<1> HIDE DEF Old, New, All
<1>4. /\ IsFiniteSet(Old \cup New) /\ IsFiniteSet(Old \cap New)
      /\ Cardinality(Old \cup New) = Cardinality(Old) + Cardinality(New) - Cardinality(Old \cap New)
  <2>1. Old \cap New \in SUBSET Old
    OBVIOUS
  <2> QED
    BY <1>1, <1>2, <2>1, FS_Union, FS_Subset
<1>5. IsFiniteSet(All) /\ Cardinality(All) <= Cardinality(Old \cup New)
  BY <1>3, <1>4, FS_Subset
<1>6. /\ Cardinality(All) \in Nat /\ Cardinality(Old \cup New) \in Nat
      /\ Cardinality(Old \cap New) \in Nat /\ a \in Nat
  BY <1>4, <1>5, FS_CardinalityType, RefundsAssumption
<1>7. Cardinality(All) <= Cardinality(Old) + a
  BY <1>1, <1>2, <1>4, <1>5, <1>6
<1> QED
  BY <1>7 DEF AmountTotal, Old, All

(* PayPal makes a refund only within what was captured.                     *)
LEMMA AcceptWithin ==
  ASSUME TypeOK, WithinCharge, NEW k \in AllKeys, NEW a \in 0 .. Total, PayPalAccepts(k, a)
  PROVE  WithinCharge'
<1>1. CASE UNCHANGED paypal
  BY <1>1 DEF WithinCharge, AmountTotal, Units, Made
<1>2. CASE paypal[k].status = "none" /\ a <= Total - PayPalRefunded
  <2>1. paypal'[k].amount = a /\ \A x \in AllKeys : x # k => paypal'[x] = paypal[x]
    BY <1>2, AcceptEffect DEF PayPalKept
  <2>2. AmountTotal(Made(paypal'), paypal') <= AmountTotal(Made(paypal), paypal) + a
    BY <2>1, MadeGrows
  <2>3. a <= Total - AmountTotal(Made(paypal), paypal)
    BY <1>2 DEF PayPalRefunded, Made
  <2>4. /\ AmountTotal(Made(paypal), paypal) \in Nat /\ AmountTotal(Made(paypal'), paypal') \in Nat
        /\ Total \in Nat /\ a \in Nat
    BY UnitsFinite, RefundsAssumption DEF Made
  <2>5. AmountTotal(Made(paypal'), paypal') <= Total
    BY <2>2, <2>3, <2>4
  <2> QED
    BY <2>5 DEF WithinCharge, AmountTotal, Units, Made
<1> QED
  BY <1>1, <1>2 DEF PayPalAccepts

(* Every step keeps PayPal's refunds within the charge.                     *)
LEMMA WithinStep ==
  ASSUME TypeOK, WithinCharge, Next
  PROVE  WithinCharge'
<1>1. CASE UNCHANGED paypal
  BY <1>1 DEF WithinCharge, AmountTotal, Units, Made
<1>2. ASSUME NEW r \in Requests, PostRefund(r) PROVE WithinCharge'
  BY <1>1, <1>2, PostEffect, AcceptWithin
<1>3. ASSUME NEW k \in AllKeys, RefundSettles(k) PROVE WithinCharge'
  <2>1. /\ paypal[k].status = "pending" /\ paypal'[k].amount = paypal[k].amount
        /\ \A x \in AllKeys : x # k => paypal'[x] = paypal[x]
    BY <1>3, SettlesEffect DEF PayPalKept
  <2>2. AmountTotal(Made(paypal'), paypal') <= AmountTotal(Made(paypal), paypal)
    BY <2>1, MadeShrinks
  <2>3. AmountTotal(Made(paypal), paypal) \in Nat /\ AmountTotal(Made(paypal'), paypal') \in Nat
    BY UnitsFinite DEF Made
  <2>4. AmountTotal(Made(paypal'), paypal') <= Total
    BY <2>2, <2>3, RefundsAssumption DEF WithinCharge
  <2> QED
    BY <2>4 DEF WithinCharge, AmountTotal, Units, Made
<1>4. ASSUME NEW r \in Requests, NEW k \in Keys, NEW a \in Amounts, BeginRefund(r, k, a)
      PROVE  WithinCharge'
  BY <1>1, <1>4 DEF BeginRefund, outside
<1>5. ASSUME NEW r \in Requests, NEW a \in CancellationRefundAmounts, BeginCancel(r, a)
      PROVE  WithinCharge'
  BY <1>1, <1>5 DEF BeginCancel, outside
<1>6. ASSUME NEW r \in Requests, NEW e \in events, ReceiveEvent(r, e) PROVE WithinCharge'
  BY <1>1, <1>6 DEF ReceiveEvent
<1>7. ASSUME NEW r \in Requests, ReadRefund(r) \/ CommitCancel(r) \/ Crash(r)
      PROVE  WithinCharge'
  BY <1>1, <1>7 DEF ReadRefund, CommitCancel, Crash, outside
<1>8. ASSUME NEW r \in Requests, CommitRefund(r) PROVE WithinCharge'
  BY <1>1, <1>8 DEF CommitRefund
<1>9. CASE Resettle
  BY <1>1, <1>9 DEF Resettle, outside
<1> QED
  BY <1>2, <1>3, <1>4, <1>5, <1>6, <1>7, <1>8, <1>9 DEF Next, JobStep

(* What counts as settled is among what PayPal made, with the same amounts. *)
LEMMA BooksBelowPayPal ==
  ASSUME RefundsInv, WithinCharge, "reprice" \notin races
  PROVE  SucceededTotal(refund) <= Total
<1>1. \A k \in AllKeys : refund[k].status = "succeeded" =>
         paypal[k].status \in {"pending", "completed"} /\ paypal[k].amount = refund[k].amount
  BY DEF RefundsInv, RefundsFit, AmountsFit
<1>2. Units(Succeeded(refund), refund) \in SUBSET Units(Made(paypal), paypal)
  BY <1>1 DEF Units, Succeeded, Made
<1>3. IsFiniteSet(Units(Made(paypal), paypal))
  BY UnitsFinite DEF Made
<1>4. SucceededTotal(refund) <= AmountTotal(Made(paypal), paypal)
  BY <1>2, <1>3, FS_Subset DEF SucceededTotal, AmountTotal
<1>5. SucceededTotal(refund) \in Nat /\ AmountTotal(Made(paypal), paypal) \in Nat
  BY SucceededTotalType, UnitsFinite DEF Made
<1> QED
  BY <1>4, <1>5, RefundsAssumption DEF WithinCharge

(* The refunds that count as settled never add up to more than the charge
   (createRefundRecord, completeRefund), although records that together exceed
   it are admitted while others are pending, whatever overlaps, repeats or
   resettles the payment, unless a key comes back with another amount.      *)
THEOREM BooksWithin == Spec => []BooksWithinCharge
<1>1. Init => WithinCharge
  <2> SUFFICES ASSUME Init PROVE WithinCharge
    OBVIOUS
  <2>1. Units(Made(paypal), paypal) = {}
    BY DEF Init, Units, Made
  <2> QED
    BY <2>1, FS_EmptySet, RefundsAssumption DEF WithinCharge, AmountTotal
<1>2. TypeOK /\ WithinCharge /\ [Next]_vars => WithinCharge'
  <2>1. CASE UNCHANGED vars
    BY <2>1 DEF vars, WithinCharge, AmountTotal, Units, Made
  <2> QED
    BY <2>1, WithinStep
<1>3. Spec => []WithinCharge
  BY <1>1, <1>2, TypeCorrect, PTL DEF Spec
<1>4. RefundsInv /\ WithinCharge => BooksWithinCharge
  BY BooksBelowPayPal DEF BooksWithinCharge
<1> QED
  BY <1>3, <1>4, RefundsInvHolds, PTL
=============================================================================
