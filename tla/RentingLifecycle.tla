-------------------------- MODULE RentingLifecycle --------------------------
(***************************************************************************)
(* One renting, from its creation (confirmed) to completion or dispute:    *)
(* RentingsService and RentingsRepository.                                 *)
(*                                                                         *)
(* Every command runs under the rentingState flow lock, but its database   *)
(* work is a sequence of separate statements: promoteReturnDueForRenting,  *)
(* the service's read, the repository's read with the status check, and an *)
(* unconditional UPDATE by id.  Reads of other requests run the promotion  *)
(* too, with no lock at all.                                               *)
(***************************************************************************)
EXTENDS FlowLock, Integers

CONSTANT Requests   \* concurrent HTTP requests

VARIABLES
    renting,        \* the rentings row (status and the columns that matter)
    dispute,        \* TRUE once the renting_disputes row exists
    ended,          \* endAt <= now
    disputeClosed,  \* completedAt + RENTING_DISPUTE_WINDOW_DAYS < now
    held,           \* flow locks, see FlowLock
    job,            \* what each request is doing
    lapsed          \* history: a command has outlived its 15 s lock

vars == <<renting, dispute, ended, disputeClosed, held, job, lapsed>>

Statuses == {"confirmed", "check_in_ready", "active", "return_due",
             "completed", "disputed"}

Commands == {"instructions", "checkInReady", "checkInComplete",
             "complete", "dispute"}

rentingState == "renting:state"

Idle == [cmd |-> "none", at |-> "idle"]

Jobs == [cmd : Commands \cup {"none"},
         at : {"idle", "locked", "promoted", "assessed", "checked"}]

Init ==
    /\ renting = [status |-> "confirmed", instructions |-> FALSE,
                  checkedIn |-> FALSE, completed |-> FALSE]
    /\ dispute = FALSE
    /\ ended = FALSE
    /\ disputeClosed = FALSE
    /\ held = [r \in Requests |-> {}]
    /\ job = [r \in Requests |-> Idle]
    /\ lapsed = FALSE

-----------------------------------------------------------------------------
(* Steps every command shares.                                              *)

Goto(r, at) == job' = [job EXCEPT ![r].at = at]

(* The finally block of withFlowLock.                                       *)
Finish(r) ==
    /\ job' = [job EXCEPT ![r] = Idle]
    /\ held' = ReleaseLocks(held, r)

(* Mutant: a command that runs without the lock.                            *)
BeginUnlocked(r, c) ==
    /\ job[r] = Idle
    /\ job' = [job EXCEPT ![r] = [cmd |-> c, at |-> "locked"]]
    /\ UNCHANGED <<renting, dispute, ended, disputeClosed, held, lapsed>>

(* withFlowLock: a request that finds the key set answers 409 at once.      *)
Begin(r, c) ==
    /\ job[r] = Idle
    /\ LocksFree(held, {rentingState})
    /\ held' = AcquireLocks(held, r, {rentingState})
    /\ job' = [job EXCEPT ![r] = [cmd |-> c, at |-> "locked"]]
    /\ UNCHANGED <<renting, dispute, ended, disputeClosed, lapsed>>

(* Mutant: a promotion that does not look at the status.                    *)
ReturnDueAnyStatus(rent) ==
    IF ended THEN [rent EXCEPT !.status = "return_due"] ELSE rent

(* updateMany WHERE status = 'active' AND endAt <= now.                     *)
ReturnDue(rent) ==
    IF rent.status = "active" /\ ended THEN [rent EXCEPT !.status = "return_due"] ELSE rent

Promote(r) ==
    /\ job[r].at = "locked"
    /\ renting' = ReturnDue(renting)
    /\ Goto(r, "promoted")
    /\ UNCHANGED <<dispute, ended, disputeClosed, held, lapsed>>

(* Mutant: a dispute on a renting nobody has checked in to.                 *)
DisputeAllowedAnyStatus == ~dispute

(* assertDisputeAllowed.                                                    *)
DisputeAllowed ==
    /\ ~dispute
    /\ \/ renting.status \in {"active", "return_due"}
       \/ renting.status = "completed" /\ ~disputeClosed

(* The service's read: requireAccessibleRenting and, for a dispute, the
   status and window check.  The access checks are left out.                *)
Assess(r) ==
    /\ job[r].at = "promoted"
    /\ \/ /\ job[r].cmd = "dispute" => DisputeAllowed
          /\ Goto(r, "assessed")
          /\ UNCHANGED held
       \/ /\ job[r].cmd = "dispute" /\ ~DisputeAllowed
          /\ Finish(r)
    /\ UNCHANGED <<renting, dispute, ended, disputeClosed, lapsed>>

(* The repository's read and its guard, per command.                        *)
CheckPasses(c) ==
    CASE c = "instructions"    -> TRUE
      [] c = "checkInReady"    -> renting.status = "confirmed" /\ renting.instructions
      [] c = "checkInComplete" -> renting.status \in {"confirmed", "check_in_ready"}
      [] c = "complete"        -> renting.status \in {"active", "return_due"}
      [] c = "dispute"         -> ~dispute

Check(r) ==
    /\ job[r].at = "assessed"
    /\ \/ CheckPasses(job[r].cmd) /\ Goto(r, "checked") /\ UNCHANGED held
       \/ ~CheckPasses(job[r].cmd) /\ Finish(r)
    /\ UNCHANGED <<renting, dispute, ended, disputeClosed, lapsed>>

-----------------------------------------------------------------------------
(* The final statement of each command: an UPDATE by id, with no condition
   on the status that was read.                                             *)

UpdateInstructions(r) ==
    /\ job[r] = [cmd |-> "instructions", at |-> "checked"]
    /\ renting' = [renting EXCEPT !.instructions = TRUE]
    /\ Finish(r)
    /\ UNCHANGED <<dispute, ended, disputeClosed, lapsed>>

MarkCheckInReady(r) ==
    /\ job[r] = [cmd |-> "checkInReady", at |-> "checked"]
    /\ renting' = [renting EXCEPT !.status = "check_in_ready"]
    /\ Finish(r)
    /\ UNCHANGED <<dispute, ended, disputeClosed, lapsed>>

MarkCheckInComplete(r) ==
    /\ job[r] = [cmd |-> "checkInComplete", at |-> "checked"]
    /\ renting' = [renting EXCEPT !.status = "active", !.checkedIn = TRUE]
    /\ Finish(r)
    /\ UNCHANGED <<dispute, ended, disputeClosed, lapsed>>

MarkCompleted(r) ==
    /\ job[r] = [cmd |-> "complete", at |-> "checked"]
    /\ renting' = [renting EXCEPT !.status = "completed", !.completed = TRUE]
    /\ disputeClosed' = FALSE
    /\ Finish(r)
    /\ UNCHANGED <<dispute, ended, lapsed>>

(* One transaction: the dispute row, unique per renting, and the status.  A
   second row violates the unique index and the transaction rolls back.     *)
CreateDispute(r) ==
    /\ job[r] = [cmd |-> "dispute", at |-> "checked"]
    /\ \/ /\ ~dispute
          /\ dispute' = TRUE
          /\ renting' = [renting EXCEPT !.status = "disputed"]
       \/ dispute /\ UNCHANGED <<dispute, renting>>
    /\ Finish(r)
    /\ UNCHANGED <<ended, disputeClosed, lapsed>>

-----------------------------------------------------------------------------
(* getById, listMine and the dashboards promote with no lock.               *)
PromoteReturnDue ==
    /\ renting # ReturnDue(renting)
    /\ renting' = ReturnDue(renting)
    /\ UNCHANGED <<dispute, ended, disputeClosed, held, job, lapsed>>

(* Time.                                                                    *)
EndPasses ==
    /\ ~ended
    /\ ended' = TRUE
    /\ UNCHANGED <<renting, dispute, disputeClosed, held, job, lapsed>>

DisputeWindowCloses ==
    /\ renting.completed /\ ~disputeClosed
    /\ disputeClosed' = TRUE
    /\ UNCHANGED <<renting, dispute, ended, held, job, lapsed>>

LockLapses(r) ==
    /\ held[r] # {}
    /\ held' = LapseLock(held, r, rentingState)
    /\ lapsed' = TRUE
    /\ UNCHANGED <<renting, dispute, ended, disputeClosed, job>>

Next ==
    \/ \E r \in Requests :
          \/ \E c \in Commands : Begin(r, c)
          \/ Promote(r) \/ Assess(r) \/ Check(r)
          \/ UpdateInstructions(r) \/ MarkCheckInReady(r)
          \/ MarkCheckInComplete(r) \/ MarkCompleted(r) \/ CreateDispute(r)
          \/ LockLapses(r)
    \/ PromoteReturnDue
    \/ EndPasses
    \/ DisputeWindowCloses

Spec == Init /\ [][Next]_vars

-----------------------------------------------------------------------------
Rank(s) ==
    CASE s = "confirmed"      -> 0
      [] s = "check_in_ready" -> 1
      [] s = "active"         -> 2
      [] s = "return_due"     -> 3
      [] s = "completed"      -> 4
      [] s = "disputed"       -> 5

(* Every variable keeps its type, and a request that is past its first step
   is running one of the commands.                                          *)
TypeOK ==
    /\ renting \in [status : Statuses, instructions : BOOLEAN,
                    checkedIn : BOOLEAN, completed : BOOLEAN]
    /\ dispute \in BOOLEAN
    /\ ended \in BOOLEAN
    /\ disputeClosed \in BOOLEAN
    /\ held \in [Requests -> SUBSET {rentingState}]
    /\ job \in [Requests -> Jobs]
    /\ lapsed \in BOOLEAN
    /\ \A r \in Requests : job[r].at = "idle" <=> job[r].cmd = "none"

(* Nobody undoes progress: the status a renter and an owner see only moves
   forward (confirmed, check-in ready, active, return due, completed,
   disputed), although every command writes a status it read earlier and the
   unlocked promotion of other requests runs in between.  The rentingState
   lock is what makes it so, until a command outlives it.                   *)
StatusAdvances == [][~lapsed => Rank(renting'.status) >= Rank(renting.status)]_vars

DisputeAndStatus == dispute <=> renting.status = "disputed"

(* The dispute row and the status agree: a renting shows as disputed exactly
   when a dispute was opened, so no later command buries one, as long as no
   command outlived the lock.                                               *)
DisputeMatchesStatus == ~lapsed => DisputeAndStatus

(* A renting is completed or disputed only after somebody checked in, even
   when commands outlive their lock and overwrite each other's status.      *)
ProgressIsEarned == renting.completed \/ dispute => renting.checkedIn

(* The commands are atomic: what the separate statements of a command do under
   the lock, with promotions of other requests in between, is what the command
   would do in one step on the row as it finds it, until a command outlives the
   lock.  Only the closing of the dispute window, which the service looks at
   first, may pass unseen.                                                  *)
Promise == INSTANCE Renting
CommandsAreAtomic ==
    Promise!Init /\ [][lapsed \/ Promise!Next]_<<renting, dispute, ended>>

-----------------------------------------------------------------------------
(* The inductive invariant behind the three properties that need the lock.  *)

(* While no lock lapses, the running command holds the lock, alone.         *)
LockHeldByRunner ==
    /\ \A r \in Requests : job[r] # Idle => held[r] = {rentingState}
    /\ \A r, q \in Requests : held[r] # {} /\ held[q] # {} => r = q

(* What a command read under the lock is still true when it writes, up to
   the promotions of other requests.                                        *)
ReadStillTrue ==
    \A r \in Requests :
        /\ job[r] = [cmd |-> "dispute", at |-> "assessed"]
              => renting.status \in {"active", "return_due", "completed"}
        /\ job[r].at = "checked" =>
              /\ job[r].cmd = "checkInReady"
                    => renting.status = "confirmed" /\ renting.instructions
              /\ job[r].cmd = "checkInComplete"
                    => renting.status \in {"confirmed", "check_in_ready"}
              /\ job[r].cmd = "complete"
                    => renting.status \in {"active", "return_due"}
              /\ job[r].cmd = "dispute"
                    => /\ ~dispute
                       /\ renting.status \in {"active", "return_due", "completed"}

LifecycleInv ==
    TypeOK /\ (~lapsed => LockHeldByRunner /\ ReadStillTrue /\ DisputeAndStatus)

(* The inductive invariant behind ProgressIsEarned: whoever is about to complete
   or dispute has seen a status that only a check-in leads to, and a check-in
   is never undone, lock or no lock.                                        *)
EarnedInv ==
    /\ TypeOK
    /\ \/ renting.status \in {"active", "return_due", "completed", "disputed"}
       \/ renting.completed \/ dispute
       \/ \E r \in Requests :
             \/ job[r] = [cmd |-> "complete", at |-> "checked"]
             \/ job[r].cmd = "dispute" /\ job[r].at \in {"assessed", "checked"}
       => renting.checkedIn
=============================================================================
