------------------------- MODULE BookingLapse_proofs -------------------------
(***************************************************************************)
(* What BookingWindow keeps although flow locks lapse under their jobs,    *)
(* processes die and transactions read snapshots: money is never silent,   *)
(* and, on a booking without races, a renting is final and no hold block   *)
(* is left behind.  Only the checkout lock, which is renewed, and the      *)
(* compare-and-swaps of the rows are relied on.                            *)
(***************************************************************************)
EXTENDS BookingWindow_proofs

-----------------------------------------------------------------------------
(* The inductive invariant.                                                 *)

(* The checkout lock is the one lock relied on: a checkout and a settlement
   renew it, and no lock has two owners.                                    *)
CheckoutLocked ==
    /\ \A r \in Requests : job[r].op \in {"checkout", "settle"} => State(job[r].b) \in held[r]
    /\ \A r, q \in Requests : r # q => held[r] \cap held[q] = {}

(* A request is created once.                                               *)
CreatedOnce ==
    \A r, q \in Requests :
        r # q /\ job[r].op = "create" /\ job[q].op = "create" => job[r].b # job[q].b

(* A row and the races of its booking: only decided bookings have money or are
   rented; paid means charged; a charge without dates is flagged, unless an
   attempt was tried again; without races, a renting was paid for.          *)
RowSafe(row, rs) ==
    /\ AttemptsReopen \/ (~row.retry /\ "reopen" \notin rs)
    /\ row.status \in {"none", "pending"} => row.pay = "none" /\ ~row.converted /\ ~row.retry
    /\ row.status = "paid" => row.pay = "charged"
    /\ "reopen" \notin rs /\ row.pay = "charged" /\ ~row.converted =>
          row.status \in {"paid", "refunded", "cancelled"} \/ row.flagged
    /\ rs = {} /\ row.converted => row.status \in {"paid", "refunded"} /\ row.pay = "charged"

(* What a job relies on.  A checkout whose attempt is current keeps its booking
   from being paid; a transaction without races sees the blocks it read, and a
   conversion a paid booking.                                               *)
Transaction(j) == j.op \in {"settle", "refund"} \/ (j.op = "convert" /\ j.at = "checked")

JobSafe(j) ==
    /\ AttemptsReopen \/ (j.op # "retry" /\ (j.op = "checkout" => j.clear))
    /\ j.op = "create" /\ j.at = "read" => bk[j.b].status = "none"
    /\ j.op = "cancel" => j.seen # "none"
    /\ j.op \in {"checkout", "retry", "settle", "refund", "convert"} => ~Undecided(j.b)
    /\ j.op = "checkout" /\ j.clear =>
          /\ bk[j.b].status # "paid"
          /\ "reopen" \notin races[j.b] /\ bk[j.b].pay = "charged" => bk[j.b].flagged
          /\ races[j.b] = {} => ~bk[j.b].converted
    /\ j.op = "settle" =>
          /\ j.conv => bk[j.b].converted
          /\ races[j.b] = {} /\ bk[j.b].converted => j.conv
    /\ Transaction(j) /\ races[j.b] = {} =>
          /\ \A n \in HoldIds : <<j.b, n>> \in holds => j.hold = n
          /\ j.op = "convert" => bk[j.b].converted \/ bk[j.b].status = "paid"

LapseInv ==
    /\ CheckoutLocked /\ CreatedOnce
    /\ \A b \in Bookings : RowSafe(bk[b], races[b])
    /\ \A r \in Requests : JobSafe(job[r])
    /\ HoldsAccounted

-----------------------------------------------------------------------------
(* What a step may do.                                                      *)

(* Request q goes on with the job it had; its attempt may be replaced, if
   attempts are tried again.                                                *)
GoesOn(q) ==
    /\ job'[q].op = job[q].op /\ job'[q].b = job[q].b
    /\ job'[q].at = job[q].at /\ job'[q].seen = job[q].seen
    /\ job'[q].hold = job[q].hold /\ job'[q].conv = job[q].conv
    /\ job'[q].clear => job[q].clear
    /\ job[q].op = "checkout" /\ job[q].clear => job'[q].clear \/ AttemptsReopen

(* At most request r moves: it takes only free locks, has the checkout lock when
   it needs it, is the only one to create its booking, and its job is safe.  *)
Moves(r) ==
    /\ \A q \in Requests : q # r => GoesOn(q) /\ held'[q] = held[q]
    /\ \A q \in Requests : q # r => (held'[r] \ held[r]) \cap held[q] = {}
    /\ job'[r].op \in {"checkout", "settle"} => State(job'[r].b) \in held'[r]
    /\ GoesOn(r) \/ JobSafe(job[r])'
    /\ job'[r].op = "create" =>
          \A q \in Requests : q # r => ~(job[q].op = "create" /\ job[q].b = job'[r].b)

(* The row of a booking stays safe; a decision and a renting are never undone,
   and, without races, a renting is made of a paid booking.                 *)
RowMoves(old, new, rs) ==
    /\ RowSafe(new, rs)
    /\ new.status \in {"none", "pending"} => old.status \in {"none", "pending"}
    /\ old.converted => new.converted /\ new.win = old.win
    /\ rs = {} /\ ~old.converted /\ new.converted => old.status = "paid"

(* Races of b may happen, and are remembered.                               *)
Remembers(b) ==
    /\ races[b] \subseteq races'[b]
    /\ \A c \in Bookings : c # b => races'[c] = races[c]
    /\ "reopen" \in races'[b] => "reopen" \in races[b] \/ AttemptsReopen

(* Only b is written, and without races its hold blocks remain accounted for. *)
Writes(b) ==
    /\ \A c \in Bookings : c # b =>
          bk'[c] = bk[c] /\ \A n \in HoldIds : <<c, n>> \in holds' => <<c, n>> \in holds
    /\ Remembers(b)
    /\ RowMoves(bk[b], bk'[b], races'[b])
    /\ races'[b] = {} => \A n \in HoldIds : <<b, n>> \in holds' =>
          bk'[b].hold = n /\ bk'[b].status = "paid" /\ ~bk'[b].converted

(* What a job on b may rely on, and a step does not take away.              *)
Created(b)   == bk[b].status = "none" /\ bk'[b].status # "none"
MadePaid(b)  == bk'[b].status = "paid" /\ bk[b].status # "paid"
Charged(b)   == /\ bk'[b].pay = "charged" /\ ~bk'[b].flagged
                /\ ~(bk[b].pay = "charged" /\ ~bk[b].flagged)
Rented(b)    == races'[b] = {} /\ bk'[b].converted /\ ~bk[b].converted
HoldMade(b)  == races'[b] = {} /\ \E n \in HoldIds : <<b, n>> \in holds' \ holds
PaidLost(b)  == races'[b] = {} /\ bk[b].status = "paid" /\ bk'[b].status # "paid" /\ ~bk'[b].converted

Spares(j, b) ==
    /\ j.op = "create" /\ j.at = "read" => ~Created(b)
    /\ j.op = "checkout" /\ j.clear => ~MadePaid(b) /\ ~Charged(b) /\ ~Rented(b)
    /\ j.op = "settle" => ~Rented(b)
    /\ Transaction(j) => ~HoldMade(b)
    /\ j.op = "convert" /\ j.at = "checked" => ~PaidLost(b)

SparesAll(b) == \A q \in Requests : GoesOn(q) /\ job[q].b = b => Spares(job[q], b)

(* An update that no job can mind.                                          *)
Quiet(b) ==
    ~Created(b) /\ ~MadePaid(b) /\ ~Charged(b) /\ ~Rented(b) /\ ~HoldMade(b) /\ ~PaidLost(b)

LEMMA QuietSpares ==
  ASSUME NEW b, Quiet(b)
  PROVE  SparesAll(b)
  BY DEF Quiet, SparesAll, Spares

(* A row that is safe may stay as it is.                                    *)
LEMMA RowStays == \A x, rs : RowSafe(x, rs) => RowMoves(x, x, rs)
  BY DEF RowMoves

(* Checkouts and settlements keep the checkout lock of their bookings.      *)
LEMMA LocksMove ==
  ASSUME TypeOK, CheckoutLocked, NEW r \in Requests, Moves(r)
  PROVE  CheckoutLocked'
  <1>1. \A q \in Requests : job'[q].op \in {"checkout", "settle"} => State(job'[q].b) \in held'[q]
    BY DEF CheckoutLocked, Moves, GoesOn
  <1>2. ASSUME NEW q \in Requests, q # r PROVE held'[r] \cap held'[q] = {}
    <2>1. held'[q] = held[q] /\ (held'[r] \ held[r]) \cap held[q] = {} /\ held[r] \cap held[q] = {}
      BY <1>2 DEF Moves, CheckoutLocked
    <2> QED BY <2>1
  <1>3. \A p, q \in Requests : p # q => held'[p] \cap held'[q] = {}
    <2>1. \A p, q \in Requests : p # r /\ q # r /\ p # q => held'[p] \cap held'[q] = {}
      BY DEF Moves, CheckoutLocked
    <2> QED BY <1>2, <2>1
  <1> QED BY <1>1, <1>3 DEF CheckoutLocked, State

(* A job that goes on stays safe.                                           *)
LEMMA GoesOnSafely ==
  ASSUME TypeOK, LapseInv, NEW b \in Bookings, Writes(b), SparesAll(b),
         NEW q \in Requests, GoesOn(q)
  PROVE  JobSafe(job[q])'
  <1>1. CASE job[q].op \notin Ops
    BY <1>1 DEF GoesOn, JobSafe, Transaction, Ops
  <1>2. CASE job[q].op \in Ops
    <2>1. PICK c \in Bookings : c = job[q].b
      BY <1>2 DEF TypeOK
    <2>2. JobSafe(job[q])
      BY DEF LapseInv
    <2>3. /\ job'[q].b = c /\ job'[q].op = job[q].op /\ job'[q].at = job[q].at
          /\ job'[q].seen = job[q].seen /\ job'[q].hold = job[q].hold /\ job'[q].conv = job[q].conv
          /\ job'[q].clear => job[q].clear
          /\ job[q].op = "checkout" /\ job[q].clear => job'[q].clear \/ AttemptsReopen
      BY <2>1 DEF GoesOn
    <2>4. CASE c # b
      <3>1. /\ bk'[c] = bk[c] /\ races'[c] = races[c]
            /\ \A n \in HoldIds : <<c, n>> \in holds' => <<c, n>> \in holds
        BY <2>4 DEF Writes, Remembers
      <3> QED BY <2>1, <2>2, <2>3, <3>1 DEF JobSafe, Transaction, Undecided
    <2>5. CASE c = b
      <3>1. /\ bk'[c].status \in {"none", "pending"} => bk[c].status \in {"none", "pending"}
            /\ bk[c].converted => bk'[c].converted
            /\ races[c] \subseteq races'[c]
        BY <2>5 DEF Writes, Remembers, RowMoves
      <3>2. Spares(job[q], c)
        BY <2>1, <2>5 DEF SparesAll
      <3>3. /\ AttemptsReopen \/ (job'[q].op # "retry" /\ (job'[q].op = "checkout" => job'[q].clear))
            /\ job'[q].op = "cancel" => job'[q].seen # "none"
            /\ job'[q].op \in {"checkout", "retry", "settle", "refund", "convert"} => ~Undecided(c)'
        BY <2>1, <2>2, <2>3, <3>1 DEF JobSafe, Undecided
      <3>4. job'[q].op = "create" /\ job'[q].at = "read" => bk'[c].status = "none"
        BY <2>1, <2>2, <2>3, <3>2 DEF JobSafe, Spares, Created
      <3>5. ASSUME job'[q].op = "checkout", job'[q].clear
            PROVE  /\ bk'[c].status # "paid"
                   /\ "reopen" \notin races'[c] /\ bk'[c].pay = "charged" => bk'[c].flagged
                   /\ races'[c] = {} => ~bk'[c].converted
        <4>1. job[q].op = "checkout" /\ job[q].clear
          BY <2>3, <3>5
        <4> QED BY <2>1, <2>2, <3>1, <3>2, <4>1 DEF JobSafe, Spares, MadePaid, Charged, Rented
      <3>6. ASSUME job'[q].op = "settle"
            PROVE  /\ job'[q].conv => bk'[c].converted
                   /\ races'[c] = {} /\ bk'[c].converted => job'[q].conv
        BY <2>1, <2>2, <2>3, <3>1, <3>2, <3>6 DEF JobSafe, Spares, Rented
      <3>7. ASSUME Transaction(job'[q]), races'[c] = {}
            PROVE  /\ \A n \in HoldIds : <<c, n>> \in holds' => job'[q].hold = n
                   /\ job'[q].op = "convert" => bk'[c].converted \/ bk'[c].status = "paid"
        <4>1. Transaction(job[q]) /\ races[c] = {}
          BY <2>3, <3>1, <3>7 DEF Transaction
        <4>2. ~HoldMade(c)
          BY <3>2, <4>1 DEF Spares
        <4>3. \A n \in HoldIds : <<c, n>> \in holds' => job'[q].hold = n
          BY <2>1, <2>2, <2>3, <3>7, <4>1, <4>2 DEF JobSafe, HoldMade
        <4>4. job[q].op = "convert" => bk[c].converted \/ bk[c].status = "paid"
          BY <2>1, <2>2, <4>1 DEF JobSafe
        <4>5. job[q].op = "convert" => ~PaidLost(c)
          BY <3>2, <4>1 DEF Spares, Transaction
        <4> QED BY <2>3, <3>1, <3>7, <4>3, <4>4, <4>5 DEF PaidLost
      <3> QED BY <2>3, <3>3, <3>4, <3>5, <3>6, <3>7 DEF JobSafe, Transaction
    <2> QED BY <2>4, <2>5
  <1> QED BY <1>1, <1>2

(* A step in which one request moves and one row is written keeps the
   invariant.                                                               *)
LEMMA SafeStep ==
  ASSUME TypeOK, TypeOK', LapseInv, NEW r \in Requests, NEW b \in Bookings,
         Moves(r), Writes(b), SparesAll(b)
  PROVE  LapseInv' /\ \A c \in Bookings : RowMoves(bk[c], bk'[c], races'[c])
  <1>1. CheckoutLocked'
    BY LocksMove DEF LapseInv
  <1>2. CreatedOnce'
    BY DEF LapseInv, CreatedOnce, Moves, GoesOn
  <1>3. \A c \in Bookings : RowMoves(bk[c], bk'[c], races'[c])
    BY RowStays DEF Writes, Remembers, LapseInv
  <1>4. \A c \in Bookings : RowSafe(bk'[c], races'[c])
    BY <1>3 DEF RowMoves
  <1>5. \A q \in Requests : JobSafe(job[q])'
    BY GoesOnSafely DEF Moves
  <1>6. HoldsAccounted'
    <2> SUFFICES ASSUME NEW h \in holds', races'[h[1]] = {}
                 PROVE  bk'[h[1]].hold = h[2] /\ bk'[h[1]].status = "paid" /\ ~bk'[h[1]].converted
      BY DEF HoldsAccounted
    <2>1. PICK c \in Bookings, n \in HoldIds : h = <<c, n>>
      BY MaxHoldsNat DEF TypeOK, HoldIds
    <2>2. CASE c = b
      BY <2>1, <2>2 DEF Writes
    <2>3. CASE c # b
      <3>1. bk'[c] = bk[c] /\ races'[c] = races[c] /\ <<c, n>> \in holds
        BY <2>1, <2>3 DEF Writes, Remembers
      <3>2. bk[c].hold = n /\ bk[c].status = "paid" /\ ~bk[c].converted
        BY <2>1, <3>1 DEF LapseInv, HoldsAccounted
      <3> QED BY <2>1, <3>1, <3>2
    <2> QED BY <2>2, <2>3
  <1>7. \A c \in Bookings : RowSafe(bk[c], races[c])'
    BY <1>4 DEF RowSafe
  <1> QED BY <1>1, <1>2, <1>3, <1>5, <1>6, <1>7 DEF LapseInv

-----------------------------------------------------------------------------
(* The parts of a step.                                                     *)

(* A request that finishes gives its locks back and has nothing to keep.    *)
LEMMA FinishMoves ==
  ASSUME TypeOK, NEW r \in Requests, Finish(r)
  PROVE  Moves(r) /\ job'[r].op = "none" /\ \A q \in Requests : q # r => job'[q] = job[q]
  <1>1. /\ held'[r] = {} /\ job'[r] = Idle
        /\ \A q \in Requests : q # r => held'[q] = held[q] /\ job'[q] = job[q]
    BY DEF TypeOK, Finish, ReleaseLocks
  <1>2. job'[r].op = "none"
    BY <1>1 DEF Idle
  <1>3. JobSafe(job[r])'
    BY <1>2 DEF JobSafe, Transaction
  <1> QED BY <1>1, <1>2, <1>3 DEF Moves, GoesOn

(* A request that starts a safe job takes free locks.                       *)
LEMMA StartMoves ==
  ASSUME TypeOK, NEW r \in Requests, NEW keys, NEW j, Start(r, keys, j),
         j.op \in {"checkout", "settle"} => State(j.b) \in keys,
         j.op = "create" => \A q \in Requests : ~(job[q].op = "create" /\ job[q].b = j.b),
         JobSafe(job[r])'
  PROVE  Moves(r)
  <1>1. \A q \in Requests : held[q] \cap keys = {}
    BY DEF TypeOK, Start, LocksFree
  <1>2. /\ held'[r] = held[r] \cup keys /\ job'[r] = j
        /\ \A q \in Requests : q # r => held'[q] = held[q] /\ job'[q] = job[q]
    BY DEF TypeOK, Start, AcquireLocks
  <1>3. \A q \in Requests : q # r => (held'[r] \ held[r]) \cap held[q] = {}
    BY <1>1, <1>2
  <1>4. State(job'[r].b) = State(j.b)
    BY <1>2
  <1> QED BY <1>2, <1>3, <1>4 DEF Moves, GoesOn

(* Nobody moves, or one request only goes on to a safe point of its job.    *)
LEMMA StayMoves ==
  ASSUME TypeOK, LapseInv, NEW r \in Requests, held' = held,
         \A q \in Requests : q # r => job'[q] = job[q],
         GoesOn(r) \/ JobSafe(job[r])',
         (job'[r].op = job[r].op /\ job'[r].b = job[r].b) \/ job'[r].op = "dead"
  PROVE  Moves(r)
  <1>1. job'[r].op \in {"checkout", "settle"} => State(job'[r].b) \in held'[r]
    BY DEF LapseInv, CheckoutLocked
  <1>2. job'[r].op = "create" =>
          \A q \in Requests : q # r => ~(job[q].op = "create" /\ job[q].b = job'[r].b)
    BY DEF LapseInv, CreatedOnce
  <1>3. \A q \in Requests : (held'[r] \ held[r]) \cap held[q] = {}
    OBVIOUS
  <1> QED BY <1>1, <1>2, <1>3 DEF Moves, GoesOn

(* Races of b are noted, or none is.                                        *)
LEMMA NoteRemembers ==
  ASSUME TypeOK, NEW b \in Bookings,
         \/ races' = races
         \/ \E happened : Note(b, happened, "overlap")
         \/ \E happened : Note(b, happened, "reopen") /\ (happened => AttemptsReopen)
  PROVE  Remembers(b)
  BY DEF TypeOK, Note, Remembers

(* The hold blocks of a booking without races.                              *)
LEMMA HoldOf ==
  ASSUME LapseInv, NEW b \in Bookings, races[b] = {}, NEW n, <<b, n>> \in holds
  PROVE  bk[b].hold = n /\ bk[b].status = "paid" /\ ~bk[b].converted
  BY DEF LapseInv, HoldsAccounted

(* Writing one row, whose hold blocks stay accounted for.                   *)
LEMMA RowWritten ==
  ASSUME TypeOK, NEW b \in Bookings, NEW row, bk' = UpdateRow(b, row), Remembers(b),
         RowMoves(bk[b], row, races'[b]),
         \/ holds' = holds
         \/ \E h : holds' = WithoutHold(b, h)
         \/ \E h : holds' = holds \cup {<<b, h>>},
         races'[b] = {} => \A n \in HoldIds : <<b, n>> \in holds' =>
             row.hold = n /\ row.status = "paid" /\ ~row.converted
  PROVE  Writes(b) /\ bk'[b] = row
  <1>1. bk'[b] = row /\ \A c \in Bookings : c # b => bk'[c] = bk[c]
    BY DEF UpdateRow, TypeOK
  <1>2. \A c \in Bookings : c # b => \A n \in HoldIds : <<c, n>> \in holds' => <<c, n>> \in holds
    <2>1. CASE holds' = holds
      BY <2>1
    <2>2. CASE \E h : holds' = WithoutHold(b, h)
      BY <2>2 DEF WithoutHold
    <2>3. CASE \E h : holds' = holds \cup {<<b, h>>}
      <3>1. PICK h : holds' = holds \cup {<<b, h>>}
        BY <2>3
      <3>2. ASSUME NEW c, NEW n, c # b, <<c, n>> \in holds' PROVE <<c, n>> \in holds
        <4>1. <<c, n>> # <<b, h>>
          BY <3>2
        <4> QED BY <3>1, <3>2, <4>1
      <3> QED BY <3>2
    <2> QED BY <2>1, <2>2, <2>3
  <1> QED BY <1>1, <1>2 DEF Writes

(* Writing no row and, at most, dropping a block.                           *)
LEMMA NothingWritten ==
  ASSUME TypeOK, LapseInv, NEW b \in Bookings, bk' = bk, Remembers(b),
         holds' = holds \/ \E h : holds' = WithoutHold(b, h)
  PROVE  Writes(b) /\ Quiet(b)
  <1>1. RowMoves(bk[b], bk'[b], races'[b])
    BY RowStays DEF LapseInv, RowMoves, RowSafe, Remembers
  <1>2. holds' \subseteq holds
    BY DEF WithoutHold
  <1>3. races'[b] = {} => \A n \in HoldIds : <<b, n>> \in holds' =>
          bk'[b].hold = n /\ bk'[b].status = "paid" /\ ~bk'[b].converted
    BY <1>2, HoldOf DEF Remembers
  <1>4. Quiet(b)
    BY <1>2 DEF Quiet, Created, MadePaid, Charged, Rented, HoldMade, PaidLost
  <1> QED BY <1>1, <1>2, <1>3, <1>4 DEF Writes

(* Writing a row that keeps status, money, conversion, hold and window.     *)
LEMMA MarkWritten ==
  ASSUME TypeOK, LapseInv, NEW b \in Bookings, NEW row, bk' = UpdateRow(b, row), holds' = holds,
         races' = races,
         /\ row.status = bk[b].status /\ row.pay = bk[b].pay /\ row.converted = bk[b].converted
         /\ row.hold = bk[b].hold /\ row.win = bk[b].win /\ row.retry = bk[b].retry
         /\ row.flagged = bk[b].flagged
  PROVE  Writes(b) /\ Quiet(b)
  <1>1. RowSafe(row, races[b])
    BY DEF LapseInv, RowSafe
  <1>2. RowMoves(bk[b], row, races'[b])
    BY <1>1 DEF RowMoves
  <1>3. races'[b] = {} => \A n \in HoldIds : <<b, n>> \in holds' =>
          row.hold = n /\ row.status = "paid" /\ ~row.converted
    BY HoldOf
  <1>4. Writes(b) /\ bk'[b] = row
    BY <1>2, <1>3, RowWritten, NoteRemembers
  <1> QED BY <1>4 DEF Quiet, Created, MadePaid, Charged, Rented, HoldMade, PaidLost

-----------------------------------------------------------------------------
(* Every action is such a step.                                             *)
SafeMove ==
    \E r \in Requests, b \in Bookings : Moves(r) /\ Writes(b) /\ SparesAll(b)

(* A request moves and no job can mind what is written.                     *)
LEMMA QuietMove ==
  ASSUME NEW r \in Requests, NEW b \in Bookings, Moves(r), Writes(b), Quiet(b)
  PROVE  SafeMove
  BY QuietSpares DEF SafeMove

(* A command that is one step writes while nobody moves.                    *)
LEMMA OneStepMove ==
  ASSUME TypeOK, LapseInv, NEW b \in Bookings, held' = held, job' = job, Writes(b), Quiet(b)
  PROVE  SafeMove
  <1>1. PICK r \in Requests : TRUE
    BY BookingWindowAssumption
  <1>2. Moves(r)
    BY StayMoves DEF GoesOn
  <1> QED BY <1>2, QuietMove

(* Approving a pending request writes a row without money.                  *)
LEMMA ApprovedWrites ==
  ASSUME TypeOK, LapseInv, NEW b \in Bookings, CanApprove(b), bk' = Approved(b), holds' = holds,
         races' = races
  PROVE  Writes(b) /\ Quiet(b)
  <1> DEFINE row == [bk[b] EXCEPT !.status = "awaiting_payment", !.lapsed = FALSE, !.hold = 0]
  <1>1. bk[b] \in Row /\ bk[b].status = "pending" /\ RowSafe(bk[b], races[b])
    BY RowType DEF CanApprove, LapseInv
  <1>2. /\ row.status = "awaiting_payment" /\ row.pay = bk[b].pay /\ row.win = bk[b].win
        /\ row.converted = bk[b].converted /\ row.retry = bk[b].retry
    BY <1>1 DEF Row
  <1>3. bk' = UpdateRow(b, row)
    BY DEF Approved
  <1>4. races'[b] = {} => \A n \in HoldIds : <<b, n>> \notin holds'
    BY <1>1, HoldOf
  <1> HIDE DEF row
  <1>5. RowMoves(bk[b], row, races'[b])
    BY <1>1, <1>2 DEF RowSafe, RowMoves
  <1>6. Writes(b) /\ bk'[b] = row
    BY <1>3, <1>4, <1>5, RowWritten, NoteRemembers
  <1> QED BY <1>1, <1>2, <1>6 DEF Quiet, Created, MadePaid, Charged, Rented, HoldMade, PaidLost, RowSafe

(* Giving the dates of an unconverted booking back, on a cancellation or on the
   expiry of a request whose charge, if any, is flagged.                    *)
LEMMA ReleasedWrites ==
  ASSUME TypeOK, LapseInv, NEW b \in Bookings, NEW s \in {"cancelled", "expired"}, Remembers(b),
         bk' = Released(b, s), ~bk[b].converted, bk[b].status # "none",
         s = "expired" /\ bk[b].pay = "charged" /\ "reopen" \notin races[b] => bk[b].flagged,
         \/ holds' = WithoutHold(b, bk[b].hold)
         \/ holds' = holds /\ bk[b].status # "paid"
  PROVE  Writes(b) /\ (PaidLost(b) \/ Quiet(b))
                   /\ ~Created(b) /\ ~MadePaid(b) /\ ~Charged(b) /\ ~Rented(b) /\ ~HoldMade(b)
  <1> DEFINE row == [bk[b] EXCEPT !.status = s, !.hold = 0, !.resv = Nobody, !.live = FALSE]
  <1>1. bk[b] \in Row /\ RowSafe(bk[b], races[b])
    BY RowType DEF LapseInv
  <1>2. /\ row.status = s /\ row.pay = bk[b].pay /\ row.win = bk[b].win
        /\ row.converted = bk[b].converted /\ row.retry = bk[b].retry /\ row.flagged = bk[b].flagged
    BY <1>1 DEF Row
  <1>3. bk' = UpdateRow(b, row)
    BY DEF Released
  <1>4. races'[b] = {} => races[b] = {} /\ \A n \in HoldIds : <<b, n>> \notin holds'
    BY HoldOf DEF WithoutHold, Remembers
  <1> HIDE DEF row
  <1>5. RowMoves(bk[b], row, races'[b])
    BY <1>1, <1>2, <1>4 DEF RowSafe, RowMoves, Remembers
  <1>6. Writes(b) /\ bk'[b] = row
    BY <1>3, <1>4, <1>5, RowWritten
  <1>7. ~Created(b) /\ ~MadePaid(b) /\ ~Charged(b) /\ ~Rented(b) /\ ~HoldMade(b)
    BY <1>1, <1>2, <1>4, <1>6 DEF Created, MadePaid, Charged, Rented, HoldMade
  <1> QED BY <1>6, <1>7 DEF Quiet

(* What a step writes on b beside another transaction on b is noted.        *)
LEMMA OverlapNoted ==
  ASSUME TypeOK, NEW r \in Requests, NEW b \in Bookings, b = job[r].b, NoteOverlap(r), bk' # bk,
         NEW q \in Requests, job[q].op # job[r].op, job[q].b = b, Transaction(job[q])
  PROVE  races'[b] # {}
  <1>1. \E p \in Requests : job[p].op # job[r].op /\ InTransaction(p, b)
    BY DEF InTransaction, Transaction
  <1>2. races' = [races EXCEPT ![b] = @ \cup {"overlap"}]
    BY <1>1 DEF NoteOverlap, Note
  <1>3. "overlap" \in races'[b]
    BY <1>2 DEF TypeOK
  <1> QED BY <1>3

(* Inserting the row of a new request.                                      *)
LEMMA CreatedMove ==
  ASSUME TypeOK, LapseInv, NEW r \in Requests, CommitCreate(r)
  PROVE  SafeMove
  <1>1. PICK b \in Bookings : b = job[r].b
    BY DEF CommitCreate, TypeOK, Ops
  <1>2. /\ job[r] \in Job /\ job[r].op = "create" /\ job[r].at = "read" /\ bk[b].status = "none"
        /\ Remembers(b) /\ races' = races
    BY <1>1, NoteRemembers DEF CommitCreate, LapseInv, JobSafe, TypeOK
  <1>3. Moves(r) /\ ~GoesOn(r) /\ \A q \in Requests : q # r => job'[q] = job[q]
    <2>1. CASE Finish(r)
      BY <1>2, <2>1, FinishMoves DEF GoesOn
    <2>2. CASE job' = [job EXCEPT ![r].at = "instant"] /\ UNCHANGED held
      <3>1. /\ job'[r] = [job[r] EXCEPT !.at = "instant"]
            /\ \A q \in Requests : q # r => job'[q] = job[q]
        BY <2>2 DEF TypeOK
      <3>2. job'[r].op = "create" /\ job'[r].b = job[r].b /\ job'[r].at = "instant"
        BY <1>2, <3>1 DEF Job
      <3>3. JobSafe(job[r])'
        BY <3>2 DEF JobSafe, Transaction
      <3> QED BY <1>2, <2>2, <3>1, <3>2, <3>3, StayMoves DEF GoesOn
    <2> QED BY <2>1, <2>2 DEF CommitCreate
  <1>4. CASE BelowCap(b)
    <2> DEFINE row == [NewRow EXCEPT !.status = "pending", !.win = job[r].win]
    <2>1. bk' = UpdateRow(b, row) /\ holds' = holds
      BY <1>1, <1>4 DEF CommitCreate
    <2>2. row.status = "pending" /\ row.pay = "none" /\ row.converted = FALSE /\ row.retry = FALSE
      BY DEF NewRow
    <2>3. RowSafe(bk[b], races[b])
      BY DEF LapseInv
    <2>4. races'[b] = {} => \A n \in HoldIds : <<b, n>> \notin holds'
      BY <1>2, <2>1, HoldOf
    <2> HIDE DEF row
    <2>5. RowMoves(bk[b], row, races'[b])
      BY <1>2, <2>2, <2>3 DEF RowSafe, RowMoves
    <2>6. Writes(b) /\ bk'[b] = row
      BY <1>2, <2>1, <2>4, <2>5, RowWritten
    <2>7. SparesAll(b)
      <3> SUFFICES ASSUME NEW q \in Requests, GoesOn(q), job[q].b = b
                   PROVE  Spares(job[q], b)
        BY DEF SparesAll
      <3>1. q # r
        BY <1>3
      <3>2. job[q].op # "create"
        BY <1>1, <1>2, <3>1 DEF LapseInv, CreatedOnce
      <3> QED BY <1>2, <2>1, <2>2, <2>6, <3>2
              DEF Spares, MadePaid, Charged, Rented, HoldMade, PaidLost
    <2> QED BY <1>3, <2>6, <2>7 DEF SafeMove
  <1>5. CASE ~BelowCap(b)
    <2>1. Writes(b) /\ Quiet(b)
      BY <1>1, <1>2, <1>5, NothingWritten DEF CommitCreate
    <2> QED BY <1>3, <2>1, QuietMove
  <1> QED BY <1>4, <1>5

(* The steps of the bookings service.                                       *)
LEMMA BookingMoves ==
  ASSUME TypeOK, LapseInv, NEW r \in Requests, NEW b \in Bookings
  PROVE  /\ \A w \in Windows : BeginCreate(r, b, w) => SafeMove
         /\ InstantApprove(r) => SafeMove
         /\ Approve(b) => SafeMove
         /\ \A w \in Windows : UpdateOwnPending(b, w) => SafeMove
         /\ Decline(b) => SafeMove
         /\ BeginCancel(r, b) => SafeMove
         /\ CancelRefundFails(r) => SafeMove
         /\ Expire(b) => SafeMove
  <1>0. /\ bk[b] \in Row /\ RowSafe(bk[b], races[b])
        /\ \A c \in Bookings : races' = races => Remembers(c)
    BY RowType, NoteRemembers DEF LapseInv
  <1>1. ASSUME NEW w \in Windows, BeginCreate(r, b, w) PROVE SafeMove
    <2> DEFINE j == [NewJob("create", b) EXCEPT !.win = w]
    <2>1. Start(r, {Window, Cap(b)}, j) /\ bk' = bk /\ holds' = holds /\ races' = races
      BY <1>1 DEF BeginCreate
    <2>2. j.op = "create" /\ j.b = b /\ j.at = "read"
      BY DEF NewJob, Idle
    <2>3. job'[r] = j
      BY <2>1, StartedJob
    <2> HIDE DEF j
    <2>4. JobSafe(job[r])'
      <3>1. bk[b].status = "none"
        BY <1>1 DEF BeginCreate
      <3> QED BY <2>1, <2>2, <2>3, <3>1 DEF JobSafe, Transaction
    <2>5. \A q \in Requests : ~(job[q].op = "create" /\ job[q].b = b)
      BY <1>1 DEF BeginCreate
    <2>6. Moves(r)
      BY <2>1, <2>2, <2>4, <2>5, StartMoves
    <2> QED BY <1>0, <2>1, <2>6, NothingWritten, QuietMove
  <1>2. ASSUME InstantApprove(r) PROVE SafeMove
    <2>1. PICK c \in Bookings : c = job[r].b
      BY <1>2 DEF InstantApprove, TypeOK, Ops
    <2>2. Moves(r)
      BY <1>2, FinishMoves DEF InstantApprove
    <2>3. Writes(c) /\ Quiet(c)
      BY <1>0, <1>2, <2>1, ApprovedWrites, NothingWritten DEF InstantApprove
    <2> QED BY <2>2, <2>3, QuietMove
  <1>3. ASSUME Approve(b) PROVE SafeMove
    BY <1>3, ApprovedWrites, OneStepMove DEF Approve
  <1>4. ASSUME NEW w \in Windows, UpdateOwnPending(b, w) PROVE SafeMove
    <2> DEFINE row == [bk[b] EXCEPT !.win = w]
    <2>1. bk' = UpdateRow(b, row) /\ holds' = holds /\ races' = races /\ bk[b].status = "pending"
      BY <1>4 DEF UpdateOwnPending
    <2>2. /\ row.status = "pending" /\ row.pay = bk[b].pay
          /\ row.converted = bk[b].converted /\ row.retry = bk[b].retry
      BY <1>0, <2>1 DEF Row
    <2> HIDE DEF row
    <2>3. RowMoves(bk[b], row, races'[b])
      BY <1>0, <2>1, <2>2 DEF RowSafe, RowMoves
    <2>4. races'[b] = {} => \A n \in HoldIds : <<b, n>> \notin holds'
      BY <2>1, HoldOf
    <2>5. Writes(b) /\ bk'[b] = row
      BY <1>0, <2>1, <2>3, <2>4, RowWritten
    <2>6. Quiet(b)
      BY <1>0, <2>1, <2>2, <2>5
         DEF Quiet, Created, MadePaid, Charged, Rented, HoldMade, PaidLost, RowSafe
    <2> QED BY <1>4, <2>5, <2>6, OneStepMove DEF UpdateOwnPending
  <1>5. ASSUME Decline(b) PROVE SafeMove
    <2> DEFINE row == [bk[b] EXCEPT !.status = "declined"]
    <2>1. bk' = UpdateRow(b, row) /\ holds' = holds /\ races' = races /\ bk[b].status = "pending"
      BY <1>5 DEF Decline
    <2>2. /\ row.status = "declined" /\ row.pay = bk[b].pay /\ row.win = bk[b].win
          /\ row.converted = bk[b].converted /\ row.retry = bk[b].retry
      BY <1>0 DEF Row
    <2> HIDE DEF row
    <2>3. RowMoves(bk[b], row, races'[b])
      BY <1>0, <2>1, <2>2 DEF RowSafe, RowMoves
    <2>4. races'[b] = {} => \A n \in HoldIds : <<b, n>> \notin holds'
      BY <2>1, HoldOf
    <2>5. Writes(b) /\ bk'[b] = row
      BY <1>0, <2>1, <2>3, <2>4, RowWritten
    <2>6. Quiet(b)
      BY <1>0, <2>1, <2>2, <2>5
         DEF Quiet, Created, MadePaid, Charged, Rented, HoldMade, PaidLost, RowSafe
    <2> QED BY <1>5, <2>5, <2>6, OneStepMove DEF Decline
  <1>6. ASSUME BeginCancel(r, b) PROVE SafeMove
    <2> DEFINE j == [NewJob("cancel", b) EXCEPT !.seen = bk[b].status]
    <2>1. Start(r, {Decision(b), State(b), Window}, j) /\ bk' = bk /\ holds' = holds /\ races' = races
      BY <1>6 DEF BeginCancel
    <2>2. j.op = "cancel" /\ j.seen = bk[b].status
      BY DEF NewJob, Idle
    <2>3. job'[r] = j
      BY <2>1, StartedJob
    <2>4. bk[b].status # "none"
      BY <1>6 DEF BeginCancel, CancellableStatuses
    <2> HIDE DEF j
    <2>5. JobSafe(job[r])'
      BY <2>2, <2>3, <2>4 DEF JobSafe, Transaction
    <2>6. Moves(r)
      BY <2>1, <2>2, <2>5, StartMoves
    <2> QED BY <1>0, <2>1, <2>6, NothingWritten, QuietMove
  <1>7. ASSUME CancelRefundFails(r) PROVE SafeMove
    BY <1>0, <1>7, FinishMoves, NothingWritten, QuietMove DEF CancelRefundFails
  <1>8. ASSUME Expire(b) PROVE SafeMove
    <2>1. /\ bk[b].status \in {"pending"} \cup PAYABLE /\ ~bk[b].converted /\ bk' = Released(b, "expired")
          /\ races' = races
      BY <1>8 DEF Expire, Expirable
    <2>2. /\ bk[b].status # "none" /\ bk[b].status # "paid"
          /\ "reopen" \notin races[b] /\ bk[b].pay = "charged" => bk[b].flagged
      BY <1>0, <2>1 DEF RowSafe, PAYABLE
    <2>3. holds' = WithoutHold(b, bk[b].hold) \/ holds' = holds
      BY <1>8 DEF Expire
    <2>4. Writes(b) /\ Quiet(b)
      BY <1>0, <2>1, <2>2, <2>3, ReleasedWrites DEF PaidLost
    <2> QED BY <1>8, <2>4, OneStepMove DEF Expire
  <1> QED BY <1>1, <1>2, <1>3, <1>4, <1>5, <1>6, <1>7, <1>8

(* The cancellation: a conversion that looked before it was written is noted. *)
LEMMA CancelMove ==
  ASSUME TypeOK, LapseInv, NEW r \in Requests, CommitCancel(r)
  PROVE  SafeMove
  <1>1. PICK b \in Bookings : b = job[r].b
    BY DEF CommitCancel, TypeOK, Ops
  <1>2. Moves(r) /\ Remembers(b) /\ NoteOverlap(r) /\ job[r].op = "cancel"
    BY <1>1, FinishMoves, NoteRemembers DEF CommitCancel, NoteOverlap
  <1>3. CASE CancelStillApplies(r)
    <2>1. bk[b].status # "none" /\ ~bk[b].converted
      BY <1>1, <1>3 DEF CommitCancel, CancelStillApplies, LapseInv, JobSafe
    <2>2. bk' = Released(b, "cancelled") /\ holds' = WithoutHold(b, bk[b].hold)
      BY <1>1, <1>3 DEF CommitCancel
    <2>3. /\ Writes(b) /\ ~Created(b) /\ ~MadePaid(b) /\ ~Charged(b) /\ ~Rented(b) /\ ~HoldMade(b)
      BY <1>2, <2>1, <2>2, ReleasedWrites
    <2>4. SparesAll(b)
      <3> SUFFICES ASSUME NEW q \in Requests, job[q].op = "convert", job[q].at = "checked",
                          job[q].b = b, PaidLost(b)
                   PROVE  FALSE
        BY <2>3 DEF SparesAll, Spares
      <3>1. bk' # bk /\ races'[b] = {}
        BY DEF PaidLost
      <3> QED BY <1>1, <1>2, <3>1, OverlapNoted DEF Transaction
    <2> QED BY <1>2, <2>3, <2>4 DEF SafeMove
  <1>4. CASE ~CancelStillApplies(r)
    BY <1>2, <1>4, NothingWritten, QuietMove DEF CommitCancel
  <1> QED BY <1>3, <1>4

(* Releasing the reservation of a failed conversion.                        *)
LEMMA ConvertFailsMove ==
  ASSUME TypeOK, LapseInv, NEW r \in Requests, job[r].b \in Bookings, ConvertFails(r)
  PROVE  SafeMove
  <1>1. PICK b \in Bookings : b = job[r].b
    OBVIOUS
  <1>2. Moves(r) /\ Remembers(b) /\ races' = races
    BY FinishMoves, NoteRemembers DEF ConvertFails
  <1>3. CASE bk' = bk
    BY <1>2, <1>3, NothingWritten, QuietMove DEF ConvertFails
  <1>4. CASE bk' # bk
    <2> DEFINE row == [bk[b] EXCEPT !.resv = Nobody, !.live = FALSE]
    <2>1. bk' = UpdateRow(b, row) /\ holds' = holds
      BY <1>1, <1>4 DEF ConvertFails, ReleaseReservation
    <2>2. bk[b] \in Row
      BY RowType
    <2>3. /\ row.status = bk[b].status /\ row.pay = bk[b].pay /\ row.converted = bk[b].converted
          /\ row.hold = bk[b].hold /\ row.win = bk[b].win /\ row.retry = bk[b].retry
          /\ row.flagged = bk[b].flagged
      BY <2>2 DEF Row
    <2> HIDE DEF row
    <2>4. Writes(b) /\ Quiet(b)
      BY <1>2, <2>1, <2>3, MarkWritten
    <2> QED BY <1>2, <2>4, QuietMove
  <1> QED BY <1>3, <1>4

(* The steps of the conversion.                                             *)
LEMMA ConversionMoves ==
  ASSUME TypeOK, LapseInv, NEW r \in Requests, NEW b \in Bookings
  PROVE  /\ BeginConvert(r, b) => SafeMove
         /\ ReadConvert(r) => SafeMove
         /\ CommitConvert(r) => SafeMove
  <1>1. ASSUME BeginConvert(r, b) PROVE SafeMove
    <2> DEFINE row == [bk[b] EXCEPT !.resv = r, !.live = TRUE]
               j == NewJob("convert", b)
    <2>1. /\ Start(r, {Convert(b), Window}, j) /\ bk' = UpdateRow(b, row) /\ holds' = holds
          /\ races' = races
      BY <1>1 DEF BeginConvert
    <2>2. bk[b] \in Row /\ bk[b].status = "paid"
      BY <1>1, RowType DEF BeginConvert
    <2>3. /\ row.status = bk[b].status /\ row.pay = bk[b].pay /\ row.converted = bk[b].converted
          /\ row.hold = bk[b].hold /\ row.win = bk[b].win /\ row.retry = bk[b].retry
          /\ row.flagged = bk[b].flagged
      BY <2>2 DEF Row
    <2>4. j.op = "convert" /\ j.b = b /\ j.at = "read"
      BY DEF NewJob, Idle
    <2>5. job'[r] = j
      BY <2>1, StartedJob
    <2>6. bk'[b] = row
      BY <2>1 DEF UpdateRow, TypeOK
    <2> HIDE DEF row, j
    <2>7. Writes(b) /\ Quiet(b)
      BY <2>1, <2>3, MarkWritten
    <2>8. JobSafe(job[r])'
      BY <2>2, <2>3, <2>4, <2>5, <2>6 DEF JobSafe, Undecided, Transaction
    <2>9. Moves(r)
      BY <2>1, <2>4, <2>8, StartMoves
    <2> QED BY <2>7, <2>9, QuietMove
  <1>2. ASSUME ReadConvert(r) PROVE SafeMove
    <2>1. job[r] \in Job /\ job[r].op = "convert" /\ job[r].b \in Bookings
      BY <1>2 DEF ReadConvert, TypeOK, Ops
    <2>2. CASE ConvertFails(r)
      BY <2>1, <2>2, ConvertFailsMove
    <2>3. CASE ~ConvertFails(r)
      <3>0. PICK c \in Bookings : c = job[r].b
        BY <2>1
      <3> DEFINE j == [job[r] EXCEPT !.at = "checked", !.hold = bk[job[r].b].hold]
      <3>1. /\ job' = [job EXCEPT ![r] = j] /\ bk' = bk /\ holds' = holds /\ held' = held
            /\ races' = races /\ bk[c].status = "paid"
        BY <1>2, <2>3, <3>0 DEF ReadConvert, CanConvert
      <3>2. j.op = "convert" /\ j.b = c /\ j.hold = bk[c].hold
        BY <2>1, <3>0 DEF Job
      <3>3. job'[r] = j /\ \A q \in Requests : q # r => job'[q] = job[q]
        BY <3>1 DEF TypeOK
      <3> HIDE DEF j
      <3>4. JobSafe(job[r])'
        <4>1. races[c] = {} => \A n \in HoldIds : <<c, n>> \in holds => j.hold = n
          BY <3>2, HoldOf
        <4> QED BY <3>1, <3>2, <3>3, <4>1 DEF JobSafe, Undecided
      <3>5. Moves(r)
        BY <2>1, <3>0, <3>1, <3>2, <3>3, <3>4, StayMoves
      <3> QED BY <3>1, <3>5, NothingWritten, NoteRemembers, QuietMove
    <2> QED BY <2>2, <2>3
  <1>3. ASSUME CommitConvert(r) PROVE SafeMove
    <2>1. PICK c \in Bookings : c = job[r].b
      BY <1>3 DEF CommitConvert, TypeOK, Ops
    <2>2. CASE ConvertFails(r)
      BY <2>1, <2>2, ConvertFailsMove
    <2>3. CASE ~ConvertFails(r)
      <3> DEFINE row == [bk[c] EXCEPT !.converted = TRUE, !.hold = 0, !.resv = Nobody, !.live = FALSE]
      <3>1. /\ bk' = UpdateRow(c, row) /\ holds' = WithoutHold(c, job[r].hold) /\ NoteOverlap(r)
            /\ Finish(r) /\ job[r].op = "convert" /\ job[r].at = "checked" /\ ~bk[c].converted
        BY <1>3, <2>1, <2>3 DEF CommitConvert
      <3>2. /\ bk[c] \in Row /\ RowSafe(bk[c], races[c]) /\ bk[c].status \notin {"none", "pending"}
            /\ Remembers(c)
            /\ races[c] = {} => /\ bk[c].status = "paid"
                                /\ \A n \in HoldIds : <<c, n>> \in holds => job[r].hold = n
        <4>1. JobSafe(job[r])
          BY DEF LapseInv
        <4> QED BY <2>1, <3>1, <4>1, RowType, NoteRemembers
                DEF LapseInv, JobSafe, Undecided, Transaction, NoteOverlap
      <3>3. /\ row.status = bk[c].status /\ row.pay = bk[c].pay /\ row.converted = TRUE
            /\ row.win = bk[c].win /\ row.retry = bk[c].retry /\ row.flagged = bk[c].flagged
        BY <3>2 DEF Row
      <3>4. races'[c] = {} => races[c] = {} /\ \A n \in HoldIds : <<c, n>> \notin holds'
        BY <3>1, <3>2 DEF WithoutHold, Remembers
      <3>5. Moves(r)
        BY <3>1, FinishMoves
      <3> HIDE DEF row
      <3>6. RowMoves(bk[c], row, races'[c])
        BY <3>1, <3>2, <3>3, <3>4 DEF RowMoves, RowSafe, Remembers
      <3>7. Writes(c) /\ bk'[c] = row
        BY <3>1, <3>2, <3>4, <3>6, RowWritten
      <3>8. ~Created(c) /\ ~MadePaid(c) /\ ~Charged(c) /\ ~HoldMade(c) /\ ~PaidLost(c)
        BY <3>1, <3>2, <3>3, <3>7 DEF Created, MadePaid, Charged, HoldMade, PaidLost, WithoutHold
      <3>9. SparesAll(c)
        <4> SUFFICES ASSUME NEW q \in Requests, job[q].b = c, Rented(c),
                            (job[q].op = "checkout" /\ job[q].clear) \/ job[q].op = "settle"
                     PROVE  FALSE
          BY <3>8 DEF SparesAll, Spares
        <4>1. bk' # bk /\ races'[c] = {} /\ bk[c].status = "paid"
          BY <3>2, <3>4 DEF Rented
        <4>2. CASE job[q].op = "settle"
          BY <2>1, <3>1, <4>1, <4>2, OverlapNoted DEF Transaction
        <4>3. CASE job[q].op = "checkout" /\ job[q].clear
          BY <4>1, <4>3 DEF LapseInv, JobSafe
        <4> QED BY <4>2, <4>3
      <3> QED BY <3>5, <3>7, <3>9 DEF SafeMove
    <2> QED BY <2>2, <2>3
  <1> QED BY <1>1, <1>2, <1>3

(* Opening an attempt, or trying a failed one again.                        *)
LEMMA OpeningMoves ==
  ASSUME TypeOK, LapseInv, NEW r \in Requests, NEW b \in Bookings
  PROVE  /\ BeginCheckout(r, b) => SafeMove
         /\ BeginRetry(r, b) => SafeMove
         /\ BeginReplay(r, b) => SafeMove
  <1>0. bk[b] \in Row /\ RowSafe(bk[b], races[b])
    BY RowType DEF LapseInv
  <1>1. ASSUME BeginCheckout(r, b) PROVE SafeMove
    <2> DEFINE row == [bk[b] EXCEPT !.pay = "none", !.retry = FALSE]
               j == [NewJob("checkout", b) EXCEPT !.clear = TRUE]
    <2>1. /\ bk[b].status \in {"awaiting_payment", "payment_processing", "payment_failed"}
          /\ ~bk[b].converted /\ holds' = holds /\ races' = races
          /\ bk' = UpdateRow(b, row) \/ bk' = bk
      BY <1>1 DEF BeginCheckout, PAYABLE
    <2>2. /\ row.status = bk[b].status /\ row.pay = "none" /\ row.converted = bk[b].converted
          /\ row.win = bk[b].win /\ row.retry = FALSE
      BY <1>0 DEF Row
    <2>3. j.op = "checkout" /\ j.b = b /\ j.clear
      BY DEF NewJob, Idle
    <2>4. /\ job'[r] = j
          /\ \A q \in Requests : q # r => job'[q] = job[q] \/ job'[q] = Replaced("retry", b)[q]
      BY <1>1 DEF BeginCheckout
    <2>5. /\ held'[r] = held[r] \cup {State(b)}
          /\ \A q \in Requests : held[q] \cap {State(b)} = {}
          /\ \A q \in Requests : q # r => held'[q] = held[q]
      BY <1>1 DEF BeginCheckout, AcquireLocks, LocksFree, TypeOK
    <2> HIDE DEF row, j
    <2>6. Writes(b) /\ Quiet(b) /\ (bk'[b] = bk[b] \/ bk'[b] = row)
      <3>1. CASE bk' = bk
        BY <2>1, <3>1, NothingWritten, NoteRemembers
      <3>2. CASE bk' = UpdateRow(b, row)
        <4>1. RowMoves(bk[b], row, races'[b])
          BY <1>0, <2>1, <2>2 DEF RowMoves, RowSafe
        <4>2. races'[b] = {} => \A n \in HoldIds : <<b, n>> \notin holds'
          BY <2>1, HoldOf
        <4>3. Writes(b) /\ bk'[b] = row
          BY <2>1, <3>2, <4>1, <4>2, RowWritten, NoteRemembers
        <4> QED BY <2>1, <2>2, <4>3 DEF Quiet, Created, MadePaid, Charged, Rented, HoldMade, PaidLost
      <3> QED BY <2>1, <3>1, <3>2
    <2>7. JobSafe(job[r])'
      <3>1. "reopen" \notin races'[b] /\ bk'[b].pay = "charged" => bk'[b].flagged
        BY <1>0, <2>1, <2>2, <2>6 DEF RowSafe
      <3> QED BY <2>1, <2>2, <2>3, <2>4, <2>6, <3>1 DEF JobSafe, Undecided, Transaction
    <2>8. \A q \in Requests : q # r => GoesOn(q)
      BY <2>4 DEF GoesOn, Replaced, TypeOK, Job
    <2>9. \A q \in Requests : q # r => (held'[r] \ held[r]) \cap held[q] = {}
      BY <2>5
    <2>10. Moves(r)
      BY <2>3, <2>4, <2>5, <2>7, <2>8, <2>9 DEF Moves
    <2> QED BY <2>6, <2>10, QuietMove
  <1>2. ASSUME BeginRetry(r, b) PROVE SafeMove
    <2> DEFINE row == [bk[b] EXCEPT !.retry = FALSE, !.status = "payment_processing"]
               j == [NewJob("retry", b) EXCEPT !.clear = TRUE]
    <2>1. /\ bk[b].retry /\ Start(r, {}, j) /\ bk' = UpdateRow(b, row) /\ holds' = holds
          /\ Note(b, ~Open(b), "reopen")
      BY <1>2 DEF BeginRetry
    <2>2. AttemptsReopen /\ bk[b].status \notin {"none", "pending"} /\ Remembers(b)
      BY <1>0, <2>1, NoteRemembers DEF RowSafe
    <2>3. ~Open(b) => "reopen" \in races'[b]
      BY <2>1 DEF Note, TypeOK
    <2>4. /\ row.status = "payment_processing" /\ row.pay = bk[b].pay
          /\ row.converted = bk[b].converted
          /\ row.win = bk[b].win /\ row.retry = FALSE /\ row.flagged = bk[b].flagged
      BY <1>0 DEF Row
    <2>5. j.op = "retry" /\ j.b = b /\ job'[r] = j
      BY <2>1, StartedJob DEF NewJob, Idle
    <2> HIDE DEF row, j
    <2>6. RowMoves(bk[b], row, races'[b])
      BY <1>0, <2>2, <2>3, <2>4 DEF RowMoves, RowSafe, Open, PAYABLE, Remembers
    <2>7. races'[b] = {} => \A n \in HoldIds : <<b, n>> \notin holds'
      BY <2>1, <2>2, <2>3, HoldOf DEF Remembers, Open, PAYABLE
    <2>8. Writes(b) /\ bk'[b] = row
      BY <2>1, <2>2, <2>6, <2>7, RowWritten
    <2>9. Quiet(b)
      BY <2>1, <2>2, <2>3, <2>4, <2>8
         DEF Quiet, Created, MadePaid, Charged, Rented, HoldMade, PaidLost, Open, PAYABLE
    <2>10. JobSafe(job[r])'
      BY <2>2, <2>4, <2>5, <2>8 DEF JobSafe, Undecided, Transaction
    <2>11. Moves(r)
      BY <2>1, <2>5, <2>10, StartMoves
    <2> QED BY <2>8, <2>9, <2>11, QuietMove
  <1>3. ASSUME BeginReplay(r, b) PROVE SafeMove
    <2>1. /\ bk[b].retry /\ Start(r, {State(b)}, NewJob("checkout", b))
          /\ bk' = bk /\ holds' = holds /\ races' = races
      BY <1>3 DEF BeginReplay
    <2>2. NewJob("checkout", b).op = "checkout" /\ NewJob("checkout", b).b = b
          /\ NewJob("checkout", b).clear = FALSE
      BY DEF NewJob, Idle
    <2>3. job'[r] = NewJob("checkout", b)
      BY <2>1, StartedJob
    <2>4. AttemptsReopen /\ bk[b].status \notin {"none", "pending"}
      BY <1>0, <2>1 DEF RowSafe
    <2>5. JobSafe(job[r])'
      BY <2>1, <2>2, <2>3, <2>4 DEF JobSafe, Undecided, Transaction
    <2>6. Moves(r)
      BY <2>1, <2>2, <2>5, StartMoves
    <2> QED BY <2>1, <2>6, NothingWritten, NoteRemembers, QuietMove
  <1> QED BY <1>1, <1>2, <1>3

(* Ending an attempt.  One whose booking is no longer open is either current,
   and then the booking is not paid, or noted as tried again.               *)
LEMMA ClosingMoves ==
  ASSUME TypeOK, LapseInv, NEW r \in Requests, NEW b \in Bookings
  PROVE  /\ Attach(r) => SafeMove
         /\ SessionFails(r) => SafeMove
         /\ PaymentFails(b) => SafeMove
         /\ OrderRejected(b) => SafeMove
  <1>0. bk[b] \in Row /\ RowSafe(bk[b], races[b])
    BY RowType DEF LapseInv
  <1>1. ASSUME NEW c \in Bookings, c = job[r].b, job[r].op \in {"checkout", "retry"}, NoteReopen(r)
        PROVE  /\ bk[c] \in Row /\ RowSafe(bk[c], races[c]) /\ Remembers(c)
               /\ bk[c].status \notin {"none", "pending"}
               /\ bk' # bk /\ "reopen" \notin races'[c] =>
                     /\ bk[c].status # "paid"
                     /\ bk[c].pay = "charged" => bk[c].flagged
                     /\ races'[c] = {} => ~bk[c].converted
    <2>1. JobSafe(job[r])
      BY DEF LapseInv
    <2>2. bk[c] \in Row /\ RowSafe(bk[c], races[c])
      BY RowType DEF LapseInv
    <2>3. bk[c].status \notin {"none", "pending"}
      BY <1>1, <2>1 DEF JobSafe, Undecided
    <2>4. Remembers(c)
      <3>1. (job[r].op = "retry" \/ ~job[r].clear) => AttemptsReopen
        BY <1>1, <2>1 DEF JobSafe
      <3> QED BY <1>1, <3>1, NoteRemembers DEF NoteReopen
    <2>5. ASSUME bk' # bk, "reopen" \notin races'[c]
          PROVE  /\ bk[c].status # "paid"
                 /\ bk[c].pay = "charged" => bk[c].flagged
                 /\ races'[c] = {} => ~bk[c].converted
      <3>1. "reopen" \notin races[c] /\ (races'[c] = {} => races[c] = {})
        BY <2>4, <2>5 DEF Remembers
      <3>2. CASE Open(c)
        BY <2>2, <3>1, <3>2 DEF Open, PAYABLE, RowSafe
      <3>3. CASE ~Open(c)
        <4>1. ~(job[r].op = "retry" \/ ~job[r].clear)
          BY <1>1, <2>5, <3>3 DEF NoteReopen, Note, TypeOK
        <4> QED BY <1>1, <2>1, <3>1, <4>1 DEF JobSafe
      <3> QED BY <3>2, <3>3
    <2> QED BY <2>2, <2>3, <2>4, <2>5
  <1>2. ASSUME Attach(r) PROVE SafeMove
    <2>1. PICK c \in Bookings : c = job[r].b
      BY <1>2 DEF Attach, TypeOK, Ops
    <2> DEFINE row == [bk[c] EXCEPT !.status = "payment_processing", !.pay = "open"]
    <2>2. /\ bk' = UpdateRow(c, row) /\ holds' = holds /\ job[r].op \in {"checkout", "retry"}
          /\ NoteReopen(r)
      BY <1>2, <2>1 DEF Attach
    <2>3. /\ row.status = "payment_processing" /\ row.pay = "open" /\ row.converted = bk[c].converted
          /\ row.win = bk[c].win /\ row.retry = bk[c].retry
      BY RowType DEF Row
    <2> HIDE DEF row
    <2>4. /\ bk[c] \in Row /\ RowSafe(bk[c], races[c]) /\ Remembers(c)
          /\ bk[c].status \notin {"none", "pending"}
      BY <1>1, <2>1, <2>2
    <2>5. bk'[c] = row /\ (bk' = bk => bk[c] = row)
      BY <2>2 DEF UpdateRow, TypeOK
    <2>6. races'[c] = {} => bk[c].status # "paid" /\ ~bk[c].converted
      <3>1. CASE bk' # bk
        BY <1>1, <2>1, <2>2, <3>1
      <3>2. CASE bk' = bk
        BY <2>3, <2>4, <2>5, <3>2 DEF RowSafe, Remembers
      <3> QED BY <3>1, <3>2
    <2>7. RowMoves(bk[c], row, races'[c])
      BY <2>3, <2>4, <2>6 DEF RowMoves, RowSafe, Remembers
    <2>8. races'[c] = {} => \A n \in HoldIds : <<c, n>> \notin holds'
      BY <2>2, <2>4, <2>6, HoldOf DEF Remembers
    <2>9. Writes(c) /\ bk'[c] = row
      BY <2>2, <2>4, <2>7, <2>8, RowWritten
    <2>10. Quiet(c)
      BY <2>2, <2>3, <2>4, <2>6, <2>9
         DEF Quiet, Created, MadePaid, Charged, Rented, HoldMade, PaidLost
    <2>11. /\ job'[r] = Idle /\ held'[r] = {}
           /\ \A q \in Requests : q # r => held'[q] = held[q] /\ job'[q] = Replaced("checkout", c)[q]
      <3>1. Replaced("checkout", c) \in [Requests -> Job]
        BY ReplacedType
      <3> QED BY <1>2, <2>1, <3>1 DEF Attach, ReleaseLocks, TypeOK
    <2>12. ASSUME NEW q \in Requests, q # r PROVE GoesOn(q)
      <3>1. job[q] \in Job /\ job'[q] = IF job[q].op = "checkout" /\ job[q].b = c
                                        THEN [job[q] EXCEPT !.clear = FALSE] ELSE job[q]
        BY <2>11, <2>12 DEF Replaced, TypeOK
      <3>2. /\ job'[q].op = job[q].op /\ job'[q].b = job[q].b
            /\ job'[q].at = job[q].at /\ job'[q].seen = job[q].seen
            /\ job'[q].hold = job[q].hold /\ job'[q].conv = job[q].conv
            /\ job'[q].clear => job[q].clear
        BY <3>1 DEF Job
      <3>3. job[q].op = "checkout" /\ job[q].clear => job'[q].clear \/ AttemptsReopen
        <4>1. CASE job[r].op = "retry"
          BY <4>1 DEF LapseInv, JobSafe
        <4>2. CASE job[r].op = "checkout"
          <5>1. ~(job[q].op = "checkout" /\ job[q].b = c)
            BY <2>1, <2>12, <4>2 DEF LapseInv, CheckoutLocked
          <5> QED BY <3>1, <5>1
        <4> QED BY <2>2, <4>1, <4>2
      <3> QED BY <3>2, <3>3 DEF GoesOn
    <2>13. job'[r].op = "none"
      BY <2>11 DEF Idle
    <2>14. JobSafe(job[r])'
      BY <2>13 DEF JobSafe, Transaction
    <2>15. Moves(r)
      BY <2>11, <2>12, <2>13, <2>14 DEF Moves
    <2> QED BY <2>9, <2>10, <2>15, QuietMove
  <1>3. ASSUME SessionFails(r) PROVE SafeMove
    <2>1. PICK c \in Bookings : c = job[r].b
      BY <1>3 DEF SessionFails, TypeOK, Ops
    <2>2. job[r].op \in {"checkout", "retry"} /\ holds' = holds /\ Finish(r) /\ NoteReopen(r)
      BY <1>3 DEF SessionFails
    <2>3. Moves(r)
      BY <2>2, FinishMoves
    <2>4. CASE bk' = bk
      BY <1>1, <2>1, <2>2, <2>3, <2>4, NothingWritten, QuietMove
    <2>5. CASE bk' # bk
      <3>1. PICK again \in (IF AttemptsReopen THEN BOOLEAN ELSE {FALSE}) :
              bk' = UpdateRow(c, [bk[c] EXCEPT !.status = "payment_failed", !.retry = again])
        BY <1>3, <2>1, <2>5, Zenon DEF SessionFails
      <3> DEFINE row == [bk[c] EXCEPT !.status = "payment_failed", !.retry = again]
      <3>2. /\ row.status = "payment_failed" /\ row.pay = bk[c].pay /\ row.converted = bk[c].converted
            /\ row.win = bk[c].win /\ row.retry = again /\ row.flagged = bk[c].flagged
        BY RowType DEF Row
      <3>3. AttemptsReopen \/ ~row.retry
        <4>1. AttemptsReopen \/ again = FALSE
          OBVIOUS
        <4> QED BY <3>2, <4>1
      <3>4. bk' = UpdateRow(c, row)
        BY <3>1
      <3> HIDE DEF row
      <3>5. /\ bk[c] \in Row /\ RowSafe(bk[c], races[c]) /\ Remembers(c)
            /\ bk[c].status \notin {"none", "pending"}
            /\ "reopen" \notin races'[c] =>
                  /\ bk[c].status # "paid"
                  /\ bk[c].pay = "charged" => bk[c].flagged
                  /\ races'[c] = {} => ~bk[c].converted
        BY <1>1, <2>1, <2>2, <2>5
      <3>6. RowMoves(bk[c], row, races'[c])
        BY <3>2, <3>3, <3>5 DEF RowMoves, RowSafe, Remembers
      <3>7. races'[c] = {} => \A n \in HoldIds : <<c, n>> \notin holds'
        BY <2>2, <3>5, HoldOf DEF Remembers
      <3>8. Writes(c) /\ bk'[c] = row
        BY <2>2, <3>4, <3>5, <3>6, <3>7, RowWritten
      <3>9. Quiet(c)
        BY <2>2, <3>2, <3>5, <3>8 DEF Quiet, Created, MadePaid, Charged, Rented, HoldMade, PaidLost
      <3> QED BY <2>3, <3>8, <3>9, QuietMove
    <2> QED BY <2>4, <2>5
  <1>4. ASSUME PaymentFails(b) \/ OrderRejected(b) PROVE SafeMove
    <2> DEFINE row == [bk[b] EXCEPT !.status = "payment_failed"]
    <2>1. /\ bk' = UpdateRow(b, row) /\ holds' = holds /\ bk[b].pay = "open"
          /\ held' = held /\ job' = job /\ races' = races
      BY <1>4 DEF PaymentFails, OrderRejected
    <2>2. /\ row.status = "payment_failed" /\ row.pay = bk[b].pay /\ row.converted = bk[b].converted
          /\ row.win = bk[b].win /\ row.retry = bk[b].retry
      BY <1>0 DEF Row
    <2>3. /\ bk[b].status \notin {"none", "pending", "paid"} /\ Remembers(b)
          /\ races[b] = {} => ~bk[b].converted
      BY <1>0, <2>1, NoteRemembers DEF RowSafe
    <2> HIDE DEF row
    <2>4. RowMoves(bk[b], row, races'[b])
      BY <1>0, <2>1, <2>2, <2>3 DEF RowMoves, RowSafe
    <2>5. races'[b] = {} => \A n \in HoldIds : <<b, n>> \notin holds'
      BY <2>1, <2>3, HoldOf
    <2>6. Writes(b) /\ bk'[b] = row
      BY <2>1, <2>3, <2>4, <2>5, RowWritten
    <2>7. Quiet(b)
      BY <2>1, <2>2, <2>3, <2>6 DEF Quiet, Created, MadePaid, Charged, Rented, HoldMade, PaidLost
    <2> QED BY <2>1, <2>6, <2>7, OneStepMove
  <1> QED BY <1>2, <1>3, <1>4

(* markPaymentSucceeded: under the checkout lock no checkout of the booking is
   open, so the booking may become paid, charged or flagged; a transaction that
   read its blocks before is noted.                                         *)
LEMMA SettleMove ==
  ASSUME TypeOK, LapseInv, NEW r \in Requests, CommitSettle(r)
  PROVE  SafeMove
  <1>0. job[r].op = "settle" /\ Finish(r) /\ NoteOverlap(r)
    BY Zenon DEF CommitSettle
  <1>1. PICK b \in Bookings : b = job[r].b
    BY <1>0 DEF TypeOK, Ops
  <1>2. /\ bk[b] \in Row /\ RowSafe(bk[b], races[b]) /\ bk[b].status \notin {"none", "pending"}
        /\ Remembers(b) /\ bk[b].made \in Nat
        /\ job[r].conv => bk[b].converted
        /\ races[b] = {} =>
              /\ bk[b].converted => job[r].conv
              /\ \A n \in HoldIds : <<b, n>> \in holds => job[r].hold = n
    <2>1. JobSafe(job[r])
      BY DEF LapseInv
    <2> QED BY <1>0, <1>1, <2>1, RowType, NoteRemembers
            DEF LapseInv, JobSafe, Undecided, Transaction, NoteOverlap
  <1>3. Moves(r) /\ ~GoesOn(r)
    BY <1>0, FinishMoves DEF GoesOn
  <1> DEFINE h == job[r].hold
             n == bk[b].made + 1
             flag == [bk[b] EXCEPT !.flagged = TRUE]
             charge == [bk[b] EXCEPT !.pay = "charged"]
             new == [PaidWith(b, n) EXCEPT !.made = n]
             recon == [bk[b] EXCEPT !.flagged = TRUE, !.pay = "charged"]
             same == PaidWith(b, h)
  <1>4. \/ bk' = UpdateRow(b, flag) /\ bk[b].pay = "charged" /\ holds' = holds
        \/ bk' = UpdateRow(b, charge) /\ job[r].conv /\ holds' = holds
        \/ bk' = UpdateRow(b, new) /\ ~job[r].conv /\ h = 0 /\ holds' = holds \cup {<<b, n>>}
        \/ bk' = UpdateRow(b, recon) /\ ~job[r].conv /\ holds' = holds
        \/ bk' = UpdateRow(b, same) /\ ~job[r].conv /\ holds' = holds
        \/ bk' = bk /\ holds' = holds
    BY <1>1 DEF CommitSettle, NeedsReconciliation
  <1>5. /\ flag.status = bk[b].status /\ flag.pay = bk[b].pay /\ flag.converted = bk[b].converted
        /\ flag.win = bk[b].win /\ flag.retry = bk[b].retry /\ flag.flagged = TRUE
        /\ flag.hold = bk[b].hold
    BY <1>2 DEF Row
  <1>6. /\ charge.status = bk[b].status /\ charge.pay = "charged" /\ charge.converted = bk[b].converted
        /\ charge.win = bk[b].win /\ charge.retry = bk[b].retry /\ charge.hold = bk[b].hold
    BY <1>2 DEF Row
  <1>7. /\ new.status = "paid" /\ new.pay = "charged" /\ new.converted = bk[b].converted
        /\ new.win = bk[b].win /\ new.retry = bk[b].retry /\ new.hold = n /\ new.made = n
    BY <1>2 DEF Row, PaidWith
  <1>8. /\ recon.status = bk[b].status /\ recon.pay = "charged" /\ recon.converted = bk[b].converted
        /\ recon.win = bk[b].win /\ recon.retry = bk[b].retry /\ recon.flagged = TRUE
        /\ recon.hold = bk[b].hold
    BY <1>2 DEF Row
  <1>9. /\ same.status = "paid" /\ same.pay = "charged" /\ same.converted = bk[b].converted
        /\ same.win = bk[b].win /\ same.retry = bk[b].retry /\ same.hold = h
    BY <1>2 DEF Row, PaidWith
  <1>10. races'[b] = {} => races[b] = {}
    BY <1>2 DEF Remembers
  <1>11. n # bk[b].made
    BY <1>2
  <1> HIDE DEF h, n, flag, charge, new, recon, same
  <1>12. races'[b] = {} /\ <<b, 0>> \in holds => FALSE
    BY DEF TypeOK
  <1> DEFINE Done == /\ Writes(b) /\ ~PaidLost(b) /\ ~Rented(b)
                     /\ (HoldMade(b) => bk' # bk)
  <1>13. ASSUME bk' = UpdateRow(b, flag) /\ bk[b].pay = "charged" /\ holds' = holds
         PROVE  Done
    <2>1. RowMoves(bk[b], flag, races'[b])
      BY <1>2, <1>5, <1>13 DEF RowMoves, RowSafe, Remembers
    <2>2. Writes(b) /\ bk'[b] = flag
      BY <1>2, <1>5, <1>10, <1>13, <2>1, HoldOf, RowWritten
    <2> QED BY <1>5, <1>13, <2>2 DEF PaidLost, Rented, HoldMade
  <1>14. ASSUME bk' = UpdateRow(b, charge) /\ job[r].conv /\ holds' = holds
         PROVE  Done
    <2>1. RowMoves(bk[b], charge, races'[b])
      BY <1>2, <1>6, <1>14 DEF RowMoves, RowSafe, Remembers
    <2>2. Writes(b) /\ bk'[b] = charge
      BY <1>2, <1>6, <1>10, <1>14, <2>1, HoldOf, RowWritten
    <2> QED BY <1>6, <1>14, <2>2 DEF PaidLost, Rented, HoldMade
  <1>15. ASSUME bk' = UpdateRow(b, new) /\ ~job[r].conv /\ h = 0 /\ holds' = holds \cup {<<b, n>>}
         PROVE  Done
    <2>1. RowMoves(bk[b], new, races'[b])
      BY <1>2, <1>7, <1>15 DEF RowMoves, RowSafe, Remembers
    <2>2. ASSUME races'[b] = {}, NEW k \in HoldIds, <<b, k>> \in holds' PROVE k = n
      <3>1. CASE <<b, k>> \in holds
        <4>1. k = 0
          BY <1>2, <1>10, <1>15, <2>2, <3>1 DEF h
        <4> QED BY <1>12, <2>2, <3>1, <4>1
      <3> QED BY <1>15, <2>2, <3>1
    <2>3. Writes(b) /\ bk'[b] = new
      BY <1>2, <1>7, <1>10, <1>15, <2>1, <2>2, RowWritten
    <2> QED BY <1>7, <1>11, <2>3 DEF PaidLost, Rented
  <1>16. ASSUME bk' = UpdateRow(b, recon) /\ ~job[r].conv /\ holds' = holds
         PROVE  Done
    <2>1. RowMoves(bk[b], recon, races'[b])
      BY <1>2, <1>8, <1>16 DEF RowMoves, RowSafe, Remembers
    <2>2. Writes(b) /\ bk'[b] = recon
      BY <1>2, <1>8, <1>10, <1>16, <2>1, HoldOf, RowWritten
    <2> QED BY <1>8, <1>16, <2>2 DEF PaidLost, Rented, HoldMade
  <1>17. ASSUME bk' = UpdateRow(b, same) /\ ~job[r].conv /\ holds' = holds
         PROVE  Done
    <2>1. RowMoves(bk[b], same, races'[b])
      BY <1>2, <1>9, <1>17 DEF RowMoves, RowSafe, Remembers
    <2>2. Writes(b) /\ bk'[b] = same
      BY <1>2, <1>9, <1>10, <1>17, <2>1, RowWritten DEF h
    <2> QED BY <1>9, <1>17, <2>2 DEF PaidLost, Rented, HoldMade
  <1>18. ASSUME bk' = bk /\ holds' = holds
         PROVE  Done
    BY <1>2, <1>18, NothingWritten DEF Quiet, HoldMade
  <1>19. Done
    BY <1>4, <1>13, <1>14, <1>15, <1>16, <1>17, <1>18
  <1>20. SparesAll(b)
    <2> SUFFICES ASSUME NEW q \in Requests, GoesOn(q), job[q].b = b
                 PROVE  Spares(job[q], b)
      BY DEF SparesAll
    <2>1. ~Created(b) /\ ~Rented(b) /\ ~PaidLost(b)
      BY <1>2, <1>19 DEF Created
    <2>2. job[q].op # "checkout" /\ job[q].op # "settle"
      BY <1>0, <1>1, <1>3 DEF LapseInv, CheckoutLocked
    <2>3. Transaction(job[q]) => ~HoldMade(b)
      <3> SUFFICES ASSUME Transaction(job[q]), HoldMade(b) PROVE FALSE
        OBVIOUS
      <3>1. bk' # bk /\ races'[b] = {}
        BY <1>19 DEF HoldMade
      <3> QED BY <1>0, <1>1, <2>2, <3>1, OverlapNoted
    <2> QED BY <2>1, <2>2, <2>3 DEF Spares
  <1> QED BY <1>3, <1>19, <1>20 DEF SafeMove

(* Settlements and refunds.                                                 *)
LEMMA MoneyMoves ==
  ASSUME TypeOK, LapseInv, NEW r \in Requests, NEW b \in Bookings
  PROVE  /\ BeginSettle(r, b) => SafeMove
         /\ BeginRefund(r, b) => SafeMove
         /\ CommitRefund(r) => SafeMove
  <1>0. bk[b] \in Row /\ RowSafe(bk[b], races[b])
    BY RowType DEF LapseInv
  <1>1. ASSUME BeginSettle(r, b) PROVE SafeMove
    <2>1. Start(r, {State(b), Window}, SettleJob(b)) /\ bk' = bk /\ holds' = holds /\ races' = races
      BY <1>1 DEF BeginSettle
    <2>2. /\ SettleJob(b).op = "settle" /\ SettleJob(b).b = b
          /\ SettleJob(b).hold = bk[b].hold /\ SettleJob(b).conv = bk[b].converted
      BY DEF SettleJob, NewJob, Idle
    <2>3. job'[r] = SettleJob(b)
      BY <2>1, StartedJob
    <2>4. bk[b].status \notin {"none", "pending"}
      BY <1>0, <1>1 DEF BeginSettle, RowSafe
    <2>5. races[b] = {} => \A n \in HoldIds : <<b, n>> \in holds => bk[b].hold = n
      BY HoldOf
    <2>6. JobSafe(job[r])'
      BY <2>1, <2>2, <2>3, <2>4, <2>5 DEF JobSafe, Undecided
    <2>7. Moves(r)
      BY <2>1, <2>2, <2>6, StartMoves
    <2> QED BY <2>1, <2>7, NothingWritten, NoteRemembers, QuietMove
  <1>2. ASSUME BeginRefund(r, b) PROVE SafeMove
    <2> DEFINE j == [NewJob("refund", b) EXCEPT !.hold = bk[b].hold, !.seen = bk[b].status]
    <2>1. Start(r, {}, j) /\ bk' = bk /\ holds' = holds /\ races' = races
      BY <1>2 DEF BeginRefund
    <2>2. j.op = "refund" /\ j.b = b /\ j.hold = bk[b].hold
      BY DEF NewJob, Idle
    <2>3. job'[r] = j
      BY <2>1, StartedJob
    <2>4. bk[b].status \notin {"none", "pending"}
      BY <1>0, <1>2 DEF BeginRefund, RowSafe
    <2>5. races[b] = {} => \A n \in HoldIds : <<b, n>> \in holds => bk[b].hold = n
      BY HoldOf
    <2> HIDE DEF j
    <2>6. JobSafe(job[r])'
      BY <2>1, <2>2, <2>3, <2>4, <2>5 DEF JobSafe, Undecided
    <2>7. Moves(r)
      BY <2>1, <2>2, <2>6, StartMoves
    <2> QED BY <2>1, <2>7, NothingWritten, NoteRemembers, QuietMove
  <1>3. ASSUME CommitRefund(r) PROVE SafeMove
    <2>1. PICK c \in Bookings : c = job[r].b
      BY <1>3 DEF CommitRefund, TypeOK, Ops
    <2> DEFINE st == IF job[r].seen = "cancelled" THEN bk[c].status ELSE "refunded"
               row == [bk[c] EXCEPT !.hold = 0, !.status = st]
    <2>2. /\ bk' = UpdateRow(c, row) /\ holds' = WithoutHold(c, job[r].hold)
          /\ job[r].op = "refund" /\ Finish(r) /\ NoteOverlap(r)
      BY <1>3, <2>1 DEF CommitRefund
    <2>3. st \in {bk[c].status, "refunded"}
      OBVIOUS
    <2>4. /\ bk[c] \in Row /\ RowSafe(bk[c], races[c]) /\ bk[c].status \notin {"none", "pending"}
          /\ Remembers(c)
          /\ races[c] = {} => \A n \in HoldIds : <<c, n>> \in holds => job[r].hold = n
      <3>1. JobSafe(job[r])
        BY DEF LapseInv
      <3> QED BY <2>1, <2>2, <3>1, RowType, NoteRemembers
              DEF LapseInv, JobSafe, Undecided, Transaction, NoteOverlap
    <2>5. races'[c] = {} => races[c] = {} /\ \A n \in HoldIds : <<c, n>> \notin holds'
      BY <2>2, <2>4 DEF WithoutHold, Remembers
    <2>6. /\ row.status = st /\ row.pay = bk[c].pay /\ row.converted = bk[c].converted
          /\ row.win = bk[c].win /\ row.retry = bk[c].retry /\ row.flagged = bk[c].flagged
      BY <2>4 DEF Row
    <2> HIDE DEF st, row
    <2>7. RowMoves(bk[c], row, races'[c])
      BY <2>3, <2>4, <2>5, <2>6 DEF RowMoves, RowSafe, Remembers
    <2>8. Writes(c) /\ bk'[c] = row
      BY <2>2, <2>4, <2>5, <2>7, RowWritten
    <2>9. ~Created(c) /\ ~MadePaid(c) /\ ~Charged(c) /\ ~Rented(c) /\ ~HoldMade(c)
      BY <2>2, <2>3, <2>4, <2>6, <2>8 DEF Created, MadePaid, Charged, Rented, HoldMade, WithoutHold
    <2>10. SparesAll(c)
      <3> SUFFICES ASSUME NEW q \in Requests, job[q].op = "convert", job[q].at = "checked",
                          job[q].b = c, PaidLost(c)
                   PROVE  FALSE
        BY <2>9 DEF SparesAll, Spares
      <3>1. bk' # bk /\ races'[c] = {}
        BY DEF PaidLost
      <3> QED BY <2>1, <2>2, <3>1, OverlapNoted DEF Transaction
    <2> QED BY <2>2, <2>8, <2>10, FinishMoves DEF SafeMove
  <1> QED BY <1>1, <1>2, <1>3

(* Clocks, crashes, owners and steps that change nothing here.              *)
LEMMA OtherMoves ==
  ASSUME TypeOK, LapseInv, NEW r \in Requests, NEW b \in Bookings
  PROVE  /\ HoldLapses(b) \/ ReservationLapses(b) => SafeMove
         /\ \A k \in held[r] : LockLapses(r, k) => SafeMove
         /\ Crash(r) => SafeMove
         /\ DeadLocksLapse(r) => SafeMove
         /\ bk' = bk /\ holds' = holds /\ held' = held /\ job' = job /\ races' = races => SafeMove
  <1>1. ASSUME HoldLapses(b) \/ ReservationLapses(b) PROVE SafeMove
    <2>1. PICK row \in {[bk[b] EXCEPT !.lapsed = TRUE], [bk[b] EXCEPT !.live = FALSE]} :
            bk' = UpdateRow(b, row)
      BY <1>1 DEF HoldLapses, ReservationLapses
    <2>2. bk[b] \in Row
      BY RowType
    <2>3. /\ row.status = bk[b].status /\ row.pay = bk[b].pay /\ row.converted = bk[b].converted
          /\ row.hold = bk[b].hold /\ row.win = bk[b].win /\ row.retry = bk[b].retry
          /\ row.flagged = bk[b].flagged
      BY <2>2 DEF Row
    <2>4. holds' = holds /\ held' = held /\ job' = job /\ races' = races
      BY <1>1 DEF HoldLapses, ReservationLapses
    <2> QED BY <2>1, <2>3, <2>4, MarkWritten, OneStepMove
  <1>2. ASSUME NEW k \in held[r], LockLapses(r, k) PROVE SafeMove
    <2>1. /\ held'[r] = held[r] \ {k} /\ \A q \in Requests : q # r => held'[q] = held[q]
          /\ job' = job /\ bk' = bk /\ holds' = holds /\ races' = races
          /\ ~(job[r].op \in {"checkout", "settle"} /\ k = State(job[r].b))
      BY <1>2 DEF LockLapses, LapseLock, TypeOK
    <2>2. job'[r].op \in {"checkout", "settle"} => State(job'[r].b) \in held'[r]
      BY <2>1 DEF LapseInv, CheckoutLocked
    <2>3. \A q \in Requests : GoesOn(q) /\ (held'[r] \ held[r]) \cap held[q] = {}
      BY <2>1 DEF GoesOn
    <2>4. job'[r].op = "create" =>
            \A q \in Requests : q # r => ~(job[q].op = "create" /\ job[q].b = job'[r].b)
      BY <2>1 DEF LapseInv, CreatedOnce
    <2>5. Moves(r)
      BY <2>1, <2>2, <2>3, <2>4 DEF Moves
    <2> QED BY <2>1, <2>5, NothingWritten, NoteRemembers, QuietMove
  <1>3. ASSUME Crash(r) PROVE SafeMove
    <2>1. /\ job'[r] = [Idle EXCEPT !.op = "dead"] /\ \A q \in Requests : q # r => job'[q] = job[q]
          /\ held' = held /\ bk' = bk /\ holds' = holds /\ races' = races
      BY <1>3 DEF Crash, TypeOK
    <2>2. job'[r].op = "dead"
      BY <2>1 DEF Idle
    <2>3. JobSafe(job[r])'
      BY <2>2 DEF JobSafe, Transaction
    <2>4. Moves(r)
      BY <2>1, <2>2, <2>3, StayMoves
    <2> QED BY <2>1, <2>4, NothingWritten, NoteRemembers, QuietMove
  <1>4. ASSUME DeadLocksLapse(r) PROVE SafeMove
    BY <1>4, FinishMoves, NothingWritten, NoteRemembers, QuietMove DEF DeadLocksLapse
  <1>5. ASSUME bk' = bk, holds' = holds, held' = held, job' = job, races' = races PROVE SafeMove
    BY <1>5, NothingWritten, NoteRemembers, OneStepMove
  <1> QED BY <1>1, <1>2, <1>3, <1>4, <1>5

-----------------------------------------------------------------------------
(* The theorems.                                                            *)

(* The calendar starts safe.                                                *)
LEMMA InitLapse == Init => LapseInv
  <1> SUFFICES ASSUME Init PROVE LapseInv
    OBVIOUS
  <1>1. /\ \A r \in Requests : job[r].op = "none" /\ held[r] = {}
        /\ \A b \in Bookings : bk[b] = NewRow /\ races[b] = {}
        /\ holds = {}
    BY DEF Init, Idle
  <1>2. CheckoutLocked /\ CreatedOnce
    BY <1>1 DEF CheckoutLocked, CreatedOnce
  <1>3. \A b \in Bookings : RowSafe(bk[b], races[b])
    BY <1>1 DEF RowSafe, NewRow
  <1>4. \A r \in Requests : JobSafe(job[r])
    BY <1>1 DEF JobSafe, Transaction
  <1>5. HoldsAccounted
    BY <1>1 DEF HoldsAccounted
  <1> QED BY <1>2, <1>3, <1>4, <1>5 DEF LapseInv

(* Every step is a safe move.                                               *)
LEMMA NextMoves ==
  ASSUME TypeOK, LapseInv, [Next]_vars
  PROVE  SafeMove
  <1>0. PICK r0 \in Requests, b0 \in Bookings : TRUE
    BY BookingWindowAssumption
  <1>1. ASSUME NEW r \in Requests, JobStep(r) PROVE SafeMove
    BY <1>0, <1>1, CreatedMove, BookingMoves, CancelMove, ConversionMoves, ClosingMoves, SettleMove,
       MoneyMoves, OtherMoves DEF JobStep
  <1>2. ASSUME NEW r \in Requests, Crash(r) \/ \E k \in held[r] : LockLapses(r, k) PROVE SafeMove
    BY <1>0, <1>2, OtherMoves
  <1>3. ASSUME NEW r \in Requests, NEW b \in Bookings,
               \/ \E w \in Windows : BeginCreate(r, b, w)
               \/ BeginCancel(r, b) \/ BeginConvert(r, b) \/ BeginCheckout(r, b)
               \/ BeginRetry(r, b) \/ BeginReplay(r, b) \/ BeginSettle(r, b) \/ BeginRefund(r, b)
        PROVE  SafeMove
    BY <1>3, BookingMoves, ConversionMoves, OpeningMoves, MoneyMoves
  <1>4. ASSUME NEW b \in Bookings,
               \/ Approve(b) \/ Decline(b) \/ (\E w \in Windows : UpdateOwnPending(b, w))
               \/ PaymentFails(b) \/ OrderRejected(b) \/ Expire(b)
               \/ HoldLapses(b) \/ ReservationLapses(b)
        PROVE  SafeMove
    BY <1>0, <1>4, BookingMoves, ClosingMoves, OtherMoves
  <1>5. ASSUME NEW w \in Windows,
               DeleteOwnerBlock(w) \/ \E old \in ownerBlocks \cup {NoWindow} : WriteOwnerBlock(w, old)
        PROVE  SafeMove
    BY <1>0, <1>5, OtherMoves DEF DeleteOwnerBlock, WriteOwnerBlock
  <1>6. ASSUME PausePosting \/ UnpausePosting \/ ArchivePosting PROVE SafeMove
    BY <1>0, <1>6, OtherMoves DEF PausePosting, UnpausePosting, ArchivePosting
  <1>7. CASE UNCHANGED vars
    BY <1>0, <1>7, OtherMoves DEF vars
  <1> QED BY <1>1, <1>2, <1>3, <1>4, <1>5, <1>6, <1>7 DEF Next

(* Every step keeps the invariant and moves the rows as they may move.      *)
LEMMA NextLapse ==
  ASSUME TypeOK, LapseInv, [Next]_vars
  PROVE  LapseInv' /\ \A b \in Bookings : RowMoves(bk[b], bk'[b], races'[b])
  <1>1. TypeOK'
    BY NextType
  <1>2. SafeMove
    BY NextMoves
  <1> QED BY <1>1, <1>2, SafeStep DEF SafeMove

(* LapseInv holds in every reachable state: also when locks lapse under jobs,
   processes die, attempts are tried again and transactions read snapshots.  *)
THEOREM LapseHolds == Spec => [](TypeOK /\ LapseInv)
  <1>1. Init => TypeOK /\ LapseInv
    BY InitType, InitLapse
  <1>2. TypeOK /\ LapseInv /\ [Next]_vars => (TypeOK /\ LapseInv)'
    BY NextType, NextLapse
  <1> QED BY <1>1, <1>2, PTL DEF Spec

(* Money without dates is never silent, although flow locks lapse and refunds
   take none: what markPaymentSucceeded, the expiry worker and a failing
   checkout leave of a charged booking is paid, given back or flagged.      *)
THEOREM ChargesAreNeverSilent ==
  ASSUME ~AttemptsReopen
  PROVE  Spec => []ChargedIsReservedOrFlagged
  <1>1. LapseInv => ChargedIsReservedOrFlagged
    BY DEF LapseInv, RowSafe, ChargedIsReservedOrFlagged
  <1> QED BY <1>1, LapseHolds, PTL

(* No hold block outlives its reason, whichever locks lapse and processes die,
   on a booking on which no transactions overlapped and no attempt was tried
   again after it was paid.                                                 *)
THEOREM HoldsAreAccounted == Spec => []HoldsAccounted
  <1>1. LapseInv => HoldsAccounted
    BY DEF LapseInv
  <1> QED BY <1>1, LapseHolds, PTL

(* There a renting is final: nothing that started before the conversion
   cancels, expires, moves or unpays its booking.                           *)
THEOREM RentingsAreFinal == Spec => ConvertedIsFinal
  <1>1. TypeOK /\ LapseInv /\ [Next]_vars =>
          [\A b \in Bookings : bk[b].converted /\ races'[b] = {}
             => bk'[b].converted /\ bk'[b].status \in {"paid", "refunded"}
                   /\ bk'[b].win = bk[b].win]_vars
    BY NextLapse DEF RowMoves, RowSafe
  <1> QED BY <1>1, LapseHolds, PTL DEF Spec, ConvertedIsFinal

(* And there only paid booking requests are converted into rentings: a status
   that changed under convertApprovedBookingRequest was changed by a refund, a
   cancellation or a retried attempt that the history names.                *)
THEOREM OnlyPaidIsRented == Spec => ConversionNeedsPaid
  <1>1. TypeOK /\ LapseInv /\ [Next]_vars =>
          [\A b \in Bookings : ~bk[b].converted /\ bk'[b].converted /\ races'[b] = {}
             => bk[b].status = "paid"]_vars
    BY NextLapse DEF RowMoves
  <1> QED BY <1>1, LapseHolds, PTL DEF Spec, ConversionNeedsPaid
=============================================================================
