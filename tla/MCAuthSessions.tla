--------------------------- MODULE MCAuthSessions ---------------------------
EXTENDS AuthSessions, TLC
CONSTANTS r1, r2

(* Requests are interchangeable.                                            *)
RequestSymmetry == Permutations({r1, r2})
=============================================================================
