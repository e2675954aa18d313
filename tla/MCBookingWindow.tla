-------------------------- MODULE MCBookingWindow --------------------------
(* BookingWindow on a posting with one or two bookings.                     *)
EXTENDS BookingWindow, TLC

CONSTANTS b1, b2, ann, bob

OneRange == {[start |-> 1, end |-> 2]}

(* Two ranges that touch, as [start, end) without overlapping.              *)
Adjacent == {[start |-> 1, end |-> 2], [start |-> 2, end |-> 3]}

TwoRenters == [b \in Bookings |-> IF b = b1 THEN ann ELSE bob]
OneRenter  == [b \in Bookings |-> ann]

(* The state without the history, which no action reads.                   *)
WithoutHistory == <<posting, bk, holds, ownerBlocks, held, job>>

RequestSymmetry == Permutations(Requests)
=============================================================================
