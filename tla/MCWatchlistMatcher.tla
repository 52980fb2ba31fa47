--------------------------- MODULE MCWatchlistMatcher ---------------------------
(* Instances of WatchlistMatcher for TLC. *)
EXTENDS WatchlistMatcher, TLC

CONSTANTS m1, m2, e1, e2, d1, d2, d3, c1, c2

\* d1 and d2 are seen by one camera, d3 by another.
Views == (d1 :> c1) @@ (d2 :> c1) @@ (d3 :> c2)

TwoViews == (d1 :> c1) @@ (d2 :> c1)

\* Every detection matches the first entry.
OneEntry == {e1} \X {d1, d2, d3}

\* The first detection matches two entries.
TwoEntries == {<<e1, d1>>, <<e2, d1>>, <<e1, d2>>}

\* Matcher processes are interchangeable.
Symmetry == Permutations(Matchers)
================================================================================
