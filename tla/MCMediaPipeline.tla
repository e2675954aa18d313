-------------------------- MODULE MCMediaPipeline ---------------------------
EXTENDS MediaPipeline, TLC
CONSTANTS w1, w2

(* Workers are interchangeable.                                             *)
WorkerSymmetry == Permutations({w1, w2})
=============================================================================
