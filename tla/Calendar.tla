------------------------------ MODULE Calendar ------------------------------
(***************************************************************************)
(* What the calendar of a posting promises: bookings take date ranges one  *)
(* at a time, a range only while no other booking has a day of it, a range *)
(* that is held may be given back or rented, and a rented one is kept.     *)
(***************************************************************************)
EXTENDS Integers

CONSTANTS
    Bookings,   \* booking requests
    Windows     \* date ranges [start, end), as records

VARIABLE dates  \* what each booking has taken

Free == [kind |-> "free"]
Held(w) == [kind |-> "held", win |-> w]
Rented(w) == [kind |-> "rented", win |-> w]

(* No other booking has a day of w.                                         *)
Clear(b, w) ==
    \A c \in Bookings \ {b} :
        dates[c] # Free => dates[c].win.end <= w.start \/ w.end <= dates[c].win.start

Init == dates = [b \in Bookings |-> Free]

Hold(b, w) ==
    /\ dates[b] = Free /\ Clear(b, w)
    /\ dates' = [dates EXCEPT ![b] = Held(w)]

GiveBack(b, w) ==
    /\ dates[b] = Held(w)
    /\ dates' = [dates EXCEPT ![b] = Free]

Rent(b, w) ==
    /\ dates[b] \in {Free, Held(w)} /\ Clear(b, w)
    /\ dates' = [dates EXCEPT ![b] = Rented(w)]

Next == \E b \in Bookings, w \in Windows : Hold(b, w) \/ GiveBack(b, w) \/ Rent(b, w)

Spec == Init /\ [][Next]_dates
=============================================================================
