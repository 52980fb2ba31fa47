----------------------------- MODULE MCFrameIndexing -----------------------------
(* Instances of FrameIndexing for TLC. *)
EXTENDS FrameIndexing, TLC

CONSTANTS w1, w2, s1, s2

\* The second frame of the first segment is no image.
OneUnreadable == {<<s1, 2>>}

\* Workers are interchangeable.
Symmetry == Permutations(Workers)
================================================================================
