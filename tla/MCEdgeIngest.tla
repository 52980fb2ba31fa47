------------------------------ MODULE MCEdgeIngest ------------------------------
(* Instances of EdgeIngest for TLC. *)
EXTENDS EdgeIngest, TLC

CONSTANTS w1, w2, w3, e1, e2

\* Workers are interchangeable.
WorkerSymmetry == Permutations(Workers)
================================================================================
