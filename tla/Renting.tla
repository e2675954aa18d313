------------------------------ MODULE Renting -------------------------------
(***************************************************************************)
(* What a renting promises its owner and its renter: each command is one   *)
(* step, taken on the row as it is at that moment, and the return falls    *)
(* due by itself.                                                          *)
(***************************************************************************)

VARIABLES
    renting,   \* status, instructions, checkedIn, completed
    dispute,   \* a dispute was opened
    ended      \* the last day of the renting is over

Init ==
    /\ renting = [status |-> "confirmed", instructions |-> FALSE,
                  checkedIn |-> FALSE, completed |-> FALSE]
    /\ dispute = FALSE /\ ended = FALSE

GiveInstructions ==
    /\ renting' = [renting EXCEPT !.instructions = TRUE]
    /\ UNCHANGED <<dispute, ended>>

ReadyForCheckIn ==
    /\ renting.status = "confirmed" /\ renting.instructions
    /\ renting' = [renting EXCEPT !.status = "check_in_ready"]
    /\ UNCHANGED <<dispute, ended>>

CheckIn ==
    /\ renting.status \in {"confirmed", "check_in_ready"}
    /\ renting' = [renting EXCEPT !.status = "active", !.checkedIn = TRUE]
    /\ UNCHANGED <<dispute, ended>>

FallDue ==
    /\ renting.status = "active" /\ ended
    /\ renting' = [renting EXCEPT !.status = "return_due"]
    /\ UNCHANGED <<dispute, ended>>

Complete ==
    /\ renting.status \in {"active", "return_due"}
    /\ renting' = [renting EXCEPT !.status = "completed", !.completed = TRUE]
    /\ UNCHANGED <<dispute, ended>>

(* One dispute, which ends the renting for good.                            *)
OpenDispute ==
    /\ ~dispute /\ renting.status \in {"active", "return_due", "completed"}
    /\ dispute' = TRUE
    /\ renting' = [renting EXCEPT !.status = "disputed"]
    /\ UNCHANGED ended

EndPasses == ~ended /\ ended' = TRUE /\ UNCHANGED <<renting, dispute>>

Next ==
    \/ GiveInstructions \/ ReadyForCheckIn \/ CheckIn \/ FallDue \/ Complete \/ OpenDispute
    \/ EndPasses

Spec == Init /\ [][Next]_<<renting, dispute, ended>>
=============================================================================
