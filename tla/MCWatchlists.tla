------------------------------ MODULE MCWatchlists ------------------------------
(* The watchlist cache and the alert feed share no state: TLC explores one or the other. *)
EXTENDS WatchlistCache, AlertFeed, TLC

CONSTANTS e1, c1, p1, p2, x1, o1, o2

VARIABLE side

vars == <<cacheVars, feedVars, side>>

HostOfStream == x1 :> p1

Init == CacheInit /\ FeedInit /\ side \in {"cache", "feed"}

Next ==
  /\ UNCHANGED side
  /\ \/ side = "cache" /\ CacheNext /\ UNCHANGED feedVars
     \/ side = "feed" /\ FeedNext /\ UNCHANGED cacheVars

\* CacheFairness and FeedFairness, of the side that runs.
FairSpec ==
  /\ Init /\ [][Next]_vars
  /\ SF_cacheVars(side = "cache" /\ TimePasses) /\ WF_cacheVars(side = "cache" /\ Wake)
  /\ WF_cacheVars(side = "cache" /\ Look) /\ WF_cacheVars(side = "cache" /\ Match)
  /\ \A c \in Callers : WF_cacheVars(side = "cache" /\ Invalidate(c))
  /\ \A t \in Threads : WF_cacheVars(side = "cache" /\ Refresh(t))
  /\ \A p \in Processes : WF_feedVars(side = "feed" /\ Raise(p))
  /\ \A s \in Streams : WF_feedVars(side = "feed" /\ Show(s))
  /\ WF_feedVars(side = "feed" /\ Poll)
================================================================================
