--------------------------- MODULE MCStreamPlacement ---------------------------
(* Instances of StreamPlacement for TLC. *)
EXTENDS StreamPlacement, TLC

CONSTANTS x1, x2, k1, k2, q1, q2

\* Extractors, cameras and routers are interchangeable.
Symmetry == Permutations(Extractors) \cup Permutations(Cameras) \cup Permutations(Routers)
================================================================================
