----------------------------- MODULE MCCheckout -----------------------------
(* Instances of Checkout for model checking.                                *)
EXTENDS Checkout, TLC

CONSTANTS r1, r2

TwoRequests == {r1, r2}
RequestSymmetry == Permutations(TwoRequests)

(* Where the properties still bind.                                         *)
NoRace == races = {}

(* The state without the history, which no action but its bound reads.      *)
WithoutHistory == <<booking, payment, attempt, paypal, events, lock, job>>
=============================================================================
