------------------------------ MODULE Charge --------------------------------
(***************************************************************************)
(* What a checkout promises the renter: the money for one order is taken   *)
(* at most once, is recorded under that order once, and is returned at     *)
(* most once, after it was recorded.  Nothing of this is undone.           *)
(***************************************************************************)
CONSTANT Orders   \* the orders of the booking
CONSTANT None     \* no order

VARIABLES
    taken,      \* the order whose money was taken
    recorded,   \* the order whose capture the payment shows
    returned    \* the money was returned

Init == taken = None /\ recorded = None /\ returned = FALSE

Take ==
    /\ taken = None
    /\ taken' \in Orders
    /\ UNCHANGED <<recorded, returned>>

Record ==
    /\ taken # None /\ recorded = None
    /\ recorded' = taken
    /\ UNCHANGED <<taken, returned>>

Return ==
    /\ recorded # None /\ ~returned
    /\ returned' = TRUE
    /\ UNCHANGED <<taken, recorded>>

Next == Take \/ Record \/ Return

Spec == Init /\ [][Next]_<<taken, recorded, returned>>
=============================================================================
