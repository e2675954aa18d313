----------------------- MODULE RentingLifecycle_proofs -----------------------
(***************************************************************************)
(* Proofs about RentingLifecycle, for any number of concurrent requests.   *)
(***************************************************************************)
EXTENDS RentingLifecycle, TLAPS

(* The row, the dispute and the jobs start in their types.                  *)
LEMMA InitType == Init => TypeOK
<1> SUFFICES ASSUME Init PROVE TypeOK
  OBVIOUS
<1>1. job \in [Requests -> Jobs]
  BY DEF Init, Idle, Jobs
<1>2. \A r \in Requests : job[r].at = "idle" <=> job[r].cmd = "none"
  BY DEF Init, Idle
<1>3. renting \in [status : Statuses, instructions : BOOLEAN,
                   checkedIn : BOOLEAN, completed : BOOLEAN]
  BY DEF Init, Statuses
<1> QED
  BY <1>1, <1>2, <1>3 DEF Init, TypeOK

(* Each step of each command keeps the types.                               *)
LEMMA NextType == TypeOK /\ [Next]_vars => TypeOK'
<1> SUFFICES ASSUME TypeOK, [Next]_vars PROVE TypeOK'
  OBVIOUS
<1> USE DEF TypeOK, Statuses, Commands, Jobs, Idle, rentingState
<1>1. ASSUME NEW r \in Requests, NEW c \in Commands, Begin(r, c) PROVE TypeOK'
  BY <1>1 DEF Begin, AcquireLocks
<1>2. ASSUME NEW r \in Requests, Promote(r) PROVE TypeOK'
  BY <1>2 DEF Promote, ReturnDue, Goto
<1>3. ASSUME NEW r \in Requests, Assess(r) PROVE TypeOK'
  <2>1. CASE Goto(r, "assessed") /\ UNCHANGED held
    BY <1>3, <2>1 DEF Assess, Goto
  <2>2. CASE Finish(r)
    BY <1>3, <2>2 DEF Assess, Finish, ReleaseLocks
  <2> QED
    BY <1>3, <2>1, <2>2 DEF Assess
<1>4. ASSUME NEW r \in Requests, Check(r) PROVE TypeOK'
  <2>1. CASE Goto(r, "checked") /\ UNCHANGED held
    BY <1>4, <2>1 DEF Check, Goto
  <2>2. CASE Finish(r)
    BY <1>4, <2>2 DEF Check, Finish, ReleaseLocks
  <2> QED
    BY <1>4, <2>1, <2>2 DEF Check
<1>5. ASSUME NEW r \in Requests,
             \/ UpdateInstructions(r) \/ MarkCheckInReady(r)
             \/ MarkCheckInComplete(r) \/ MarkCompleted(r)
      PROVE  TypeOK'
  <2>1. CASE UpdateInstructions(r)
    BY <2>1 DEF UpdateInstructions, Finish, ReleaseLocks
  <2>2. CASE MarkCheckInReady(r)
    BY <2>2 DEF MarkCheckInReady, Finish, ReleaseLocks
  <2>3. CASE MarkCheckInComplete(r)
    BY <2>3 DEF MarkCheckInComplete, Finish, ReleaseLocks
  <2>4. CASE MarkCompleted(r)
    BY <2>4 DEF MarkCompleted, Finish, ReleaseLocks
  <2> QED
    BY <1>5, <2>1, <2>2, <2>3, <2>4
<1>6. ASSUME NEW r \in Requests, CreateDispute(r) PROVE TypeOK'
  BY <1>6 DEF CreateDispute, Finish, ReleaseLocks
<1>7. ASSUME NEW r \in Requests, LockLapses(r) PROVE TypeOK'
  BY <1>7 DEF LockLapses, LapseLock
<1>8. CASE PromoteReturnDue
  BY <1>8 DEF PromoteReturnDue, ReturnDue
<1>9. CASE EndPasses
  BY <1>9 DEF EndPasses
<1>10. CASE DisputeWindowCloses
  BY <1>10 DEF DisputeWindowCloses
<1>11. CASE UNCHANGED vars
  BY <1>11 DEF vars
<1> QED
  BY <1>1, <1>2, <1>3, <1>4, <1>5, <1>6, <1>7, <1>8, <1>9, <1>10, <1>11 DEF Next

(* Type correctness of every behaviour, lapsing locks included.             *)
THEOREM TypeCorrect == Spec => []TypeOK
  BY InitType, NextType, PTL DEF Spec

-----------------------------------------------------------------------------
(* Nobody runs and nobody holds the lock at the start.                      *)
LEMMA InitEstablishes == Init => LifecycleInv
<1> SUFFICES ASSUME Init PROVE LifecycleInv
  OBVIOUS
<1>1. TypeOK
  BY InitType
<1>2. LockHeldByRunner
  BY DEF Init, LockHeldByRunner, Idle
<1>3. ReadStillTrue
  BY DEF Init, ReadStillTrue, Idle
<1>4. DisputeAndStatus
  BY DEF Init, DisputeAndStatus
<1> QED
  BY <1>1, <1>2, <1>3, <1>4 DEF LifecycleInv

(* A lock that lapsed is remembered for ever.                               *)
LEMMA LapseStep == TypeOK /\ [Next]_vars /\ ~lapsed' => ~lapsed
  BY DEF TypeOK, Next, vars, Begin, Promote, Assess, Check, UpdateInstructions,
         MarkCheckInReady, MarkCheckInComplete, MarkCompleted, CreateDispute,
         PromoteReturnDue, EndPasses, DisputeWindowCloses, LockLapses

(* While locks outlive their command, every step keeps the lock with its
   one holder: a request enters only when nobody holds the key.             *)
LEMMA LockStep ==
  ASSUME ~lapsed', TypeOK, LockHeldByRunner, [Next]_vars
  PROVE  LockHeldByRunner'
<1> USE DEF TypeOK, LockHeldByRunner, Jobs, Idle, rentingState
<1>1. ASSUME NEW r \in Requests, NEW c \in Commands, Begin(r, c)
      PROVE  LockHeldByRunner'
  BY <1>1 DEF Begin, LocksFree, AcquireLocks
<1>2. ASSUME NEW r \in Requests, Finish(r) PROVE LockHeldByRunner'
  BY <1>2 DEF Finish, ReleaseLocks
<1>3. ASSUME NEW r \in Requests, Promote(r) \/ Assess(r) \/ Check(r)
      PROVE  LockHeldByRunner'
  <2>1. job[r].at # "idle" /\ (Finish(r) \/ UNCHANGED held)
    BY <1>3 DEF Promote, Assess, Check
  <2>2. Finish(r) \/ Goto(r, "promoted") \/ Goto(r, "assessed") \/ Goto(r, "checked")
    BY <1>3 DEF Promote, Assess, Check
  <2>3. CASE Finish(r)
    BY <1>2, <2>3
  <2>4. CASE ~Finish(r)
    <3>1. PICK at \in {"promoted", "assessed", "checked"} : Goto(r, at)
      BY <2>2, <2>4
    <3> QED
      BY <2>1, <2>4, <3>1 DEF Goto
  <2> QED
    BY <2>3, <2>4
<1>4. ASSUME NEW r \in Requests,
             \/ UpdateInstructions(r) \/ MarkCheckInReady(r) \/ MarkCheckInComplete(r)
             \/ MarkCompleted(r) \/ CreateDispute(r)
      PROVE  LockHeldByRunner'
  BY <1>2, <1>4 DEF UpdateInstructions, MarkCheckInReady, MarkCheckInComplete,
                    MarkCompleted, CreateDispute
<1>5. ~\E r \in Requests : LockLapses(r)
  BY DEF LockLapses
<1>6. CASE PromoteReturnDue \/ EndPasses \/ DisputeWindowCloses \/ UNCHANGED vars
  BY <1>6 DEF PromoteReturnDue, EndPasses, DisputeWindowCloses, vars
<1> QED
  BY <1>1, <1>3, <1>4, <1>5, <1>6 DEF Next

(* At most one command runs at a time.                                      *)
LEMMA OneRunner ==
  ASSUME LockHeldByRunner, NEW r \in Requests, NEW q \in Requests,
         job[r] # Idle, job[q] # Idle
  PROVE  r = q
  BY DEF LockHeldByRunner

(* A request that is past its first step is not idle.                       *)
LEMMA AtNotIdle ==
  ASSUME NEW r \in Requests, job[r].at # "idle"
  PROVE  job[r] # Idle
  BY DEF Idle

(* A command's reads stay true until it writes: only the promotion of other
   requests runs meanwhile, and it turns active into return_due.  The same
   case analysis shows that the status only advances.                       *)
LEMMA ReadStep ==
  ASSUME ~lapsed', TypeOK, LockHeldByRunner, ReadStillTrue, DisputeAndStatus, [Next]_vars
  PROVE  /\ ReadStillTrue'
         /\ DisputeAndStatus'
         /\ Rank(renting'.status) >= Rank(renting.status)
<1> DEFINE Goal == /\ ReadStillTrue'
                   /\ DisputeAndStatus'
                   /\ Rank(renting'.status) >= Rank(renting.status)
<1>0. /\ TypeOK /\ TypeOK'
      /\ \A r, q \in Requests : job[r].at # "idle" /\ job[q].at # "idle" => r = q
  BY NextType, OneRunner, AtNotIdle
<1>1. ASSUME NEW r \in Requests, NEW c \in Commands, Begin(r, c) PROVE Goal
  BY <1>0, <1>1 DEF Begin, ReadStillTrue, DisputeAndStatus, Rank, TypeOK,
                    Statuses, Jobs, Idle
<1>2. ASSUME NEW r \in Requests, Promote(r) PROVE Goal
  BY <1>0, <1>2 DEF Promote, Goto, ReturnDue, ReadStillTrue,
                    DisputeAndStatus, Rank, TypeOK, Statuses, Jobs
<1>3. ASSUME NEW r \in Requests, Assess(r) PROVE Goal
  BY <1>0, <1>3 DEF Assess, Goto, Finish, DisputeAllowed, ReadStillTrue,
                    DisputeAndStatus, Rank, TypeOK, Statuses, Jobs, Idle
<1>4. ASSUME NEW r \in Requests, Check(r) PROVE Goal
  <2>1. UNCHANGED <<renting, dispute>> /\ job[r].at = "assessed"
    BY <1>4 DEF Check
  <2>2. CASE CheckPasses(job[r].cmd) /\ Goto(r, "checked")
    <3>1. /\ job' = [job EXCEPT ![r].at = "checked"]
          /\ job'[r].cmd = job[r].cmd
      BY <2>2, <1>0 DEF Goto, TypeOK, Jobs
    <3>2. /\ job[r].cmd = "checkInReady" => renting.status = "confirmed" /\ renting.instructions
          /\ job[r].cmd = "checkInComplete"
                => renting.status \in {"confirmed", "check_in_ready"}
          /\ job[r].cmd = "complete"
                => renting.status \in {"active", "return_due"}
          /\ job[r].cmd = "dispute"
                => ~dispute /\ renting.status \in {"active", "return_due", "completed"}
      <4>1. job[r] \in Jobs
        BY <1>0 DEF TypeOK
      <4>2. job[r].cmd = "dispute"
              => renting.status \in {"active", "return_due", "completed"}
        BY <2>1, <4>1 DEF ReadStillTrue, Jobs
      <4> QED
        BY <2>2, <4>2 DEF CheckPasses
    <3> QED
      BY <1>0, <2>1, <3>1, <3>2 DEF ReadStillTrue, DisputeAndStatus, Rank,
                                    TypeOK, Statuses, Jobs
  <2>3. CASE Finish(r)
    BY <1>0, <2>1, <2>3 DEF Finish, ReadStillTrue, DisputeAndStatus, Rank,
                            TypeOK, Statuses, Jobs, Idle
  <2> QED
    BY <1>4, <2>2, <2>3 DEF Check
<1>5. ASSUME NEW r \in Requests, UpdateInstructions(r) PROVE Goal
  BY <1>0, <1>5 DEF UpdateInstructions, Finish, ReadStillTrue,
                    DisputeAndStatus, Rank, TypeOK, Statuses, Jobs, Idle
<1>6. ASSUME NEW r \in Requests, MarkCheckInReady(r) PROVE Goal
  BY <1>0, <1>6 DEF MarkCheckInReady, Finish, ReadStillTrue,
                    DisputeAndStatus, Rank, TypeOK, Statuses, Jobs, Idle
<1>7. ASSUME NEW r \in Requests, MarkCheckInComplete(r) PROVE Goal
  BY <1>0, <1>7 DEF MarkCheckInComplete, Finish, ReadStillTrue,
                    DisputeAndStatus, Rank, TypeOK, Statuses, Jobs, Idle
<1>8. ASSUME NEW r \in Requests, MarkCompleted(r) PROVE Goal
  BY <1>0, <1>8 DEF MarkCompleted, Finish, ReadStillTrue,
                    DisputeAndStatus, Rank, TypeOK, Statuses, Jobs, Idle
<1>9. ASSUME NEW r \in Requests, CreateDispute(r) PROVE Goal
  BY <1>0, <1>9 DEF CreateDispute, Finish, ReadStillTrue,
                    DisputeAndStatus, Rank, TypeOK, Statuses, Jobs, Idle
<1>10. CASE PromoteReturnDue
  BY <1>0, <1>10 DEF PromoteReturnDue, ReturnDue, ReadStillTrue,
                     DisputeAndStatus, Rank, TypeOK, Statuses, Jobs
<1>11. CASE EndPasses \/ DisputeWindowCloses \/ UNCHANGED vars
  BY <1>0, <1>11 DEF EndPasses, DisputeWindowCloses, vars, ReadStillTrue,
                     DisputeAndStatus, Rank, TypeOK, Statuses
<1>12. ASSUME NEW r \in Requests, LockLapses(r) PROVE FALSE
  BY <1>12 DEF LockLapses
<1> QED
  BY <1>1, <1>2, <1>3, <1>4, <1>5, <1>6, <1>7, <1>8, <1>9, <1>10, <1>11, <1>12
     DEF Next

(* The inductive invariant holds in every behaviour: until the first lock
   lapses, one command runs at a time and its reads stay true.              *)
LEMMA LifecycleInvHolds == Spec => []LifecycleInv
<1>1. LifecycleInv /\ [Next]_vars => LifecycleInv'
  <2> SUFFICES ASSUME LifecycleInv, [Next]_vars PROVE LifecycleInv'
    OBVIOUS
  <2>1. TypeOK'
    BY NextType DEF LifecycleInv
  <2>2. ASSUME ~lapsed' PROVE (LockHeldByRunner /\ ReadStillTrue /\ DisputeAndStatus)'
    <3>1. LockHeldByRunner /\ ReadStillTrue /\ DisputeAndStatus /\ TypeOK
      BY <2>2, LapseStep DEF LifecycleInv
    <3> QED
      BY <2>2, <3>1, LockStep, ReadStep
  <2> QED
    BY <2>1, <2>2 DEF LifecycleInv
<1> QED
  BY InitEstablishes, <1>1, PTL DEF Spec

(* As long as no command has outlived its lock, the dispute row and the disputed
   status agree (rentings.repository.ts createDispute against the other
   commands' unconditional updates), for any number of requests.            *)
THEOREM DisputeAgrees == Spec => []DisputeMatchesStatus
<1>1. LifecycleInv => DisputeMatchesStatus
  BY DEF LifecycleInv, DisputeMatchesStatus
<1> QED
  BY <1>1, LifecycleInvHolds, PTL

(* As long as no command has outlived its lock, the renting's status never moves
   backwards, whatever requests interleave.                                 *)
THEOREM StatusNeverRegresses == Spec => StatusAdvances
<1>1. LifecycleInv /\ [Next]_vars
        => [~lapsed => Rank(renting'.status) >= Rank(renting.status)]_vars
  <2> SUFFICES ASSUME LifecycleInv, [Next]_vars, ~lapsed
               PROVE  Rank(renting'.status) >= Rank(renting.status)
    OBVIOUS
  <2>1. TypeOK /\ LockHeldByRunner /\ ReadStillTrue /\ DisputeAndStatus
    BY DEF LifecycleInv
  <2>2. CASE ~lapsed'
    BY <2>1, <2>2, ReadStep
  <2>3. CASE \E r \in Requests : LockLapses(r)
    BY <2>1, <2>3 DEF LockLapses, Rank, TypeOK, Statuses
  <2>4. CASE lapsed' /\ ~(\E r \in Requests : LockLapses(r))
    BY <2>4 DEF Next, vars, Begin, Promote, Assess, Check, UpdateInstructions,
                MarkCheckInReady, MarkCheckInComplete, MarkCompleted, CreateDispute,
                PromoteReturnDue, EndPasses, DisputeWindowCloses
  <2> QED
    BY <2>2, <2>3, <2>4
<1> QED
  BY <1>1, LifecycleInvHolds, PTL DEF Spec, StatusAdvances

-----------------------------------------------------------------------------
(* A step that changes the row is one of the abstract steps.                *)
LEMMA AtomicStep ==
  ASSUME TypeOK, ReadStillTrue, [Next]_vars
  PROVE  Promise!Next \/ UNCHANGED <<renting, dispute, ended>>
<1> USE DEF Promise!Next
<1>1. ASSUME NEW r \in Requests, (\E c \in Commands : Begin(r, c)) \/ Assess(r) \/ Check(r)
                                \/ LockLapses(r)
      PROVE  UNCHANGED <<renting, dispute, ended>>
  BY <1>1 DEF Begin, Assess, Check, LockLapses
<1>2. ASSUME NEW r \in Requests, Promote(r)
      PROVE  Promise!FallDue \/ UNCHANGED <<renting, dispute, ended>>
  BY <1>2 DEF Promote, ReturnDue, Promise!FallDue
<1>3. ASSUME NEW r \in Requests, UpdateInstructions(r) PROVE Promise!GiveInstructions
  BY <1>3 DEF UpdateInstructions, Promise!GiveInstructions
<1>4. ASSUME NEW r \in Requests, MarkCheckInReady(r) PROVE Promise!ReadyForCheckIn
  <2>1. job[r].at = "checked" /\ job[r].cmd = "checkInReady"
    BY <1>4 DEF MarkCheckInReady
  <2> QED
    BY <1>4, <2>1 DEF MarkCheckInReady, ReadStillTrue, Promise!ReadyForCheckIn
<1>5. ASSUME NEW r \in Requests, MarkCheckInComplete(r) PROVE Promise!CheckIn
  <2>1. job[r].at = "checked" /\ job[r].cmd = "checkInComplete"
    BY <1>5 DEF MarkCheckInComplete
  <2> QED
    BY <1>5, <2>1 DEF MarkCheckInComplete, ReadStillTrue, Promise!CheckIn
<1>6. ASSUME NEW r \in Requests, MarkCompleted(r) PROVE Promise!Complete
  <2>1. job[r].at = "checked" /\ job[r].cmd = "complete"
    BY <1>6 DEF MarkCompleted
  <2> QED
    BY <1>6, <2>1 DEF MarkCompleted, ReadStillTrue, Promise!Complete
<1>7. ASSUME NEW r \in Requests, CreateDispute(r) PROVE Promise!OpenDispute
  <2>1. job[r].at = "checked" /\ job[r].cmd = "dispute"
    BY <1>7 DEF CreateDispute
  <2> QED
    BY <1>7, <2>1 DEF CreateDispute, ReadStillTrue, Promise!OpenDispute
<1>8. CASE PromoteReturnDue
  BY <1>8 DEF PromoteReturnDue, ReturnDue, Promise!FallDue
<1>9. CASE EndPasses
  BY <1>9 DEF EndPasses, Promise!EndPasses
<1>10. CASE DisputeWindowCloses \/ UNCHANGED vars
  BY <1>10 DEF DisputeWindowCloses, vars
<1> QED
  BY <1>1, <1>2, <1>3, <1>4, <1>5, <1>6, <1>7, <1>8, <1>9, <1>10 DEF Next

(* Until a command outlives its lock, the commands of any number of requests
   implement the abstract renting, in which each is one step.               *)
THEOREM CommandsAtomic == Spec => CommandsAreAtomic
<1>1. Init => Promise!Init
  BY DEF Init, Promise!Init
<1>2. LifecycleInv /\ [Next]_vars => [lapsed \/ Promise!Next]_<<renting, dispute, ended>>
  BY AtomicStep DEF LifecycleInv
<1> QED
  BY <1>1, <1>2, LifecycleInvHolds, PTL DEF Spec, CommandsAreAtomic

-----------------------------------------------------------------------------
(* A check-in is never undone and everything later rests on one.            *)
LEMMA EarnedStep == EarnedInv /\ [Next]_vars => EarnedInv'
<1> SUFFICES ASSUME EarnedInv, [Next]_vars PROVE EarnedInv'
  OBVIOUS
<1>0. TypeOK /\ TypeOK'
  BY NextType DEF EarnedInv
<1> USE DEF EarnedInv, TypeOK, Statuses, Jobs, Idle, Commands
<1>1. ASSUME NEW r \in Requests, NEW c \in Commands, Begin(r, c) PROVE EarnedInv'
  <2>1. /\ \A q \in Requests : job'[q] = job[q] \/ job'[q].at = "locked"
        /\ UNCHANGED <<renting, dispute>>
    BY <1>1 DEF Begin
  <2> QED
    BY <1>0, <2>1
<1>2. ASSUME NEW r \in Requests, Promote(r) PROVE EarnedInv'
  BY <1>0, <1>2 DEF Promote, Goto, ReturnDue
<1>3. ASSUME NEW r \in Requests, Assess(r) PROVE EarnedInv'
  BY <1>0, <1>3 DEF Assess, Goto, Finish, DisputeAllowed
<1>4. ASSUME NEW r \in Requests, Check(r) PROVE EarnedInv'
  <2>1. CASE CheckPasses(job[r].cmd) /\ Goto(r, "checked")
    <3>1. job[r].cmd = "complete" => renting.status \in {"active", "return_due"}
      BY <2>1 DEF CheckPasses
    <3> QED
      BY <1>0, <1>4, <2>1, <3>1 DEF Check, Goto
  <2>2. CASE Finish(r)
    BY <1>0, <1>4, <2>2 DEF Check, Finish
  <2> QED
    BY <1>4, <2>1, <2>2 DEF Check
<1>5. ASSUME NEW r \in Requests,
             \/ UpdateInstructions(r) \/ MarkCheckInReady(r)
             \/ MarkCheckInComplete(r) \/ MarkCompleted(r)
      PROVE  EarnedInv'
  <2>1. CASE UpdateInstructions(r)
    BY <1>0, <2>1 DEF UpdateInstructions, Finish
  <2>2. CASE MarkCheckInReady(r)
    BY <1>0, <2>2 DEF MarkCheckInReady, Finish
  <2>3. CASE MarkCheckInComplete(r)
    BY <1>0, <2>3 DEF MarkCheckInComplete, Finish
  <2>4. CASE MarkCompleted(r)
    BY <1>0, <2>4 DEF MarkCompleted, Finish
  <2> QED
    BY <1>5, <2>1, <2>2, <2>3, <2>4
<1>6. ASSUME NEW r \in Requests, CreateDispute(r) PROVE EarnedInv'
  BY <1>0, <1>6 DEF CreateDispute, Finish
<1>7. ASSUME NEW r \in Requests, LockLapses(r) PROVE EarnedInv'
  BY <1>0, <1>7 DEF LockLapses
<1>8. CASE PromoteReturnDue \/ EndPasses \/ DisputeWindowCloses \/ UNCHANGED vars
  BY <1>0, <1>8 DEF PromoteReturnDue, ReturnDue, EndPasses, DisputeWindowCloses, vars
<1> QED
  BY <1>1, <1>2, <1>3, <1>4, <1>5, <1>6, <1>7, <1>8 DEF Next

(* A renting is completed or disputed only after a check-in, for any number of
   requests and although locks lapse under running commands.                *)
THEOREM ProgressEarned == Spec => []ProgressIsEarned
<1>1. Init => EarnedInv
  BY InitType DEF Init, EarnedInv, Idle
<1>2. EarnedInv => ProgressIsEarned
  BY DEF EarnedInv, ProgressIsEarned
<1> QED
  BY <1>1, <1>2, EarnedStep, PTL DEF Spec
=============================================================================
