-------------------------- MODULE MCResilientConsumer --------------------------
(* Instances of ResilientConsumer for TLC. *)
EXTENDS ResilientConsumer, TLC

CONSTANTS p1, p2, v1, v2, w1

\* Process p1 may come back under another pid; p2 has a pid of its own.
DistinctNames == (p1 :> {v1, v2}) @@ (p2 :> {w1})

\* Every process keeps its name over a restart.
StableNames == (p1 :> {v1}) @@ (p2 :> {w1})

\* Two containers whose worker has the same pid.
SharedNames == (p1 :> {v1}) @@ (p2 :> {v1})
================================================================================
