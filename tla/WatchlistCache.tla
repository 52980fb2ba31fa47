----------------------------- MODULE WatchlistCache -----------------------------
(***************************************************************************)
(* The watchlist entries of a tenant and a matcher process's cache of      *)
(* them.  The table is changed through the API of this process, which then *)
(* invalidates the cache, and through that of the search service, which    *)
(* does not.  Three kinds of thread refresh the cache: API calls, the      *)
(* background loop, and the matcher when it finds the cache missing or     *)
(* expired.  Each reads the table before it takes the lock to install what *)
(* it read.                                                                *)
(*                                                                         *)
(* Time is kept as ages, no larger than anybody asks.                      *)
(***************************************************************************)
EXTENDS Integers, FiniteSets

CONSTANTS
  EntryIds,      \* watchlist entries of the tenant
  Callers,       \* threads that serve the API
  Loop, Matcher, \* the background thread, the consumer thread
  NoList,        \* no list of entries
  TTL,           \* dsai_ttl_seconds
  Delay,         \* how long a thread may take from its query to the lock
  MaxChanges,    \* bound: changes of the table
  MaxFailures    \* bound: failing queries

Threads == Callers \cup {Loop, Matcher}

ASSUME CacheAssumption ==
  /\ Loop # Matcher /\ {Loop, Matcher} \cap Callers = {} /\ NoList \notin [EntryIds -> Nat]
  /\ TTL \in Nat \ {0} /\ Delay \in Nat /\ MaxChanges \in Nat /\ MaxFailures \in Nat

Horizon == TTL + Delay + 1

VARIABLES
  entryRows,     \* the entries that have a row
  table,         \* version of an entry, 0 when it is not active
  age,           \* time since the last change of an entry
  cached,        \* dsai_entries of the tenant
  cachedAge,     \* time since dsai_last_refresh
  stage,         \* per thread: idle, drop, fetch, install or match
  got, gotAge,   \* per thread: what its query returned, and the time since
  nap,           \* the background loop: time since its last round
  changes, failures,
  failing,       \* history: a query has failed since the last install
  credit         \* history: failures and invalidations, less the events compared with
                 \* nothing for want of a list

tableVars == <<entryRows, table, age, changes>>
history == <<failures, failing, credit>>
cacheVars == <<tableVars, cached, cachedAge, stage, got, gotAge, nap, history>>

\* What is in the table, as dsai_get_active_entries returns it.
Snapshot == table

CacheInit ==
  /\ entryRows = {} /\ table = [e \in EntryIds |-> 0] /\ age = [e \in EntryIds |-> Horizon]
  /\ cached = NoList /\ cachedAge = 0
  /\ stage = [t \in Threads |-> "idle"]
  /\ got = [t \in Threads |-> NoList] /\ gotAge = [t \in Threads |-> 0]
  /\ nap = 0
  /\ changes = 0 /\ failures = 0 /\ failing = FALSE /\ credit = 0

Enter(t, where) == stage' = [stage EXCEPT ![t] = where]

Older(n, max) == IF n < max THEN n + 1 ELSE n

\* Time passes; a thread that has queried gets to the lock within the delay, and a matcher
\* that has checked the list goes on to compare.
TimePasses ==
  /\ stage[Matcher] # "match"
  /\ \A t \in Threads : stage[t] = "install" => gotAge[t] < Delay
  /\ age' = [e \in EntryIds |-> Older(age[e], Horizon)]
  /\ cachedAge' = Older(cachedAge, TTL + 1)
  /\ gotAge' = [t \in Threads |-> IF stage[t] = "install" THEN gotAge[t] + 1 ELSE 0]
  /\ nap' = IF stage[Loop] = "idle" THEN Older(nap, TTL) ELSE 0
  /\ UNCHANGED <<entryRows, table, changes, cached, stage, got, history>>

--------------------------------------------------------------------------------
(* CRUD.                                                                        *)

\* What the cache can see of a commit: the entry is active as v, or not at all.
SetTo(e, v) ==
  /\ changes < MaxChanges /\ changes' = changes + 1 /\ table' = [table EXCEPT ![e] = v]
  /\ age' = IF v = table[e] THEN age ELSE [age EXCEPT ![e] = 0]

Version == changes + 1

\* POST: the new entry is active or not.
Create(e) == e \notin entryRows /\ entryRows' = entryRows \cup {e} /\ \E v \in {0, Version} : SetTo(e, v)

\* PATCH: an entry changes, is switched off, or is switched on again; 404 without a row.
Update(e) == e \in entryRows /\ UNCHANGED entryRows /\ \E v \in {0, Version} : SetTo(e, v)

\* DELETE.
Delete(e) == e \in entryRows /\ entryRows' = entryRows \ {e} /\ SetTo(e, 0)

\* The entry's expires_at passes, and nobody is told.
Expire(e) == table[e] # 0 /\ UNCHANGED entryRows /\ SetTo(e, 0)

\* Through the API of the search service, or by the clock.
ChangeElsewhere(e) ==
  /\ Create(e) \/ Update(e) \/ Delete(e) \/ Expire(e)
  /\ UNCHANGED <<cached, cachedAge, stage, got, gotAge, nap, history>>

\* Through this process, which goes on to invalidate the cache.
Serve(c) ==
  stage[c] = "idle" /\ Enter(c, "drop") /\ UNCHANGED <<cached, cachedAge, got, gotAge, nap, history>>

CreateHere(c, e) == Serve(c) /\ Create(e)
UpdateHere(c, e) == Serve(c) /\ Update(e)
DeleteHere(c, e) == Serve(c) /\ Delete(e)

\* dsai_invalidate drops the tenant's list under the lock, then refreshes it.
Invalidate(c) ==
  /\ stage[c] = "drop" /\ Enter(c, "fetch")
  /\ cached' = NoList /\ cachedAge' = 0 /\ credit' = credit + 1
  /\ UNCHANGED <<tableVars, got, gotAge, nap, failures, failing>>

--------------------------------------------------------------------------------
(* Refreshing.                                                                  *)

After(t) == IF t = Matcher THEN "match" ELSE "idle"

\* The query, before the lock.
Fetch(t) ==
  /\ stage[t] = "fetch" /\ Enter(t, "install")
  /\ got' = [got EXCEPT ![t] = Snapshot] /\ gotAge' = [gotAge EXCEPT ![t] = 0]
  /\ UNCHANGED <<tableVars, cached, cachedAge, nap, history>>

\* A query that fails leaves the cache as it is.
FetchFails(t) ==
  /\ stage[t] = "fetch" /\ Enter(t, After(t))
  /\ failures < MaxFailures /\ failures' = failures + 1 /\ failing' = TRUE
  /\ credit' = credit + 1
  /\ UNCHANGED <<tableVars, cached, cachedAge, got, gotAge, nap>>

\* Mutant: an empty answer is taken for no answer.
InstallIfAny(t) ==
  /\ stage[t] = "install" /\ Enter(t, After(t))
  /\ cached' = IF \A e \in EntryIds : got[t][e] = 0 THEN cached ELSE got[t]
  /\ cachedAge' = 0 /\ failing' = FALSE
  /\ got' = [got EXCEPT ![t] = NoList] /\ gotAge' = [gotAge EXCEPT ![t] = 0]
  /\ UNCHANGED <<tableVars, nap, failures, credit>>

Install(t) ==
  /\ stage[t] = "install" /\ Enter(t, After(t))
  /\ cached' = got[t] /\ cachedAge' = 0 /\ failing' = FALSE
  /\ got' = [got EXCEPT ![t] = NoList] /\ gotAge' = [gotAge EXCEPT ![t] = 0]
  /\ UNCHANGED <<tableVars, nap, failures, credit>>

\* The background loop refreshes the tenants it has a list of, then sleeps for the TTL.
Wake ==
  /\ stage[Loop] = "idle" /\ nap = TTL /\ nap' = 0
  /\ IF cached = NoList THEN UNCHANGED stage ELSE Enter(Loop, "fetch")
  /\ UNCHANGED <<tableVars, cached, cachedAge, got, gotAge, history>>

--------------------------------------------------------------------------------
(* Matching.                                                                    *)

\* Mutant: a list is refreshed by the loop only.
MissingOnly == cached = NoList

NeedsRefresh == cached = NoList \/ cachedAge > TTL

\* An event arrives.
Look ==
  /\ stage[Matcher] = "idle" /\ Enter(Matcher, IF NeedsRefresh THEN "fetch" ELSE "match")
  /\ UNCHANGED <<tableVars, cached, cachedAge, got, gotAge, nap, history>>

\* The event is compared with what is cached now; with nothing if there is no list.
Match ==
  /\ stage[Matcher] = "match" /\ Enter(Matcher, "idle")
  /\ credit' = IF cached = NoList THEN credit - 1 ELSE credit
  /\ UNCHANGED <<tableVars, cached, cachedAge, got, gotAge, nap, failures, failing>>

Refresh(t) == Fetch(t) \/ FetchFails(t) \/ Install(t)

CacheNext ==
  \/ TimePasses \/ Wake \/ Look \/ Match
  \/ \E e \in EntryIds :
       \/ ChangeElsewhere(e)
       \/ \E c \in Callers : CreateHere(c, e) \/ UpdateHere(c, e) \/ DeleteHere(c, e)
  \/ \E c \in Callers : Invalidate(c)
  \/ \E t \in Threads : Refresh(t)

CacheSpec == CacheInit /\ [][CacheNext]_cacheVars

\* Threads are scheduled, time goes on however busy they are, and events keep coming.
CacheFairness ==
  /\ SF_cacheVars(TimePasses) /\ WF_cacheVars(Wake) /\ WF_cacheVars(Look) /\ WF_cacheVars(Match)
  /\ \A c \in Callers : WF_cacheVars(Invalidate(c))
  /\ \A t \in Threads : WF_cacheVars(Refresh(t))

--------------------------------------------------------------------------------
Lists == [EntryIds -> 0 .. MaxChanges]

CacheTypeOK ==
  /\ entryRows \subseteq EntryIds /\ \A e \in EntryIds \ entryRows : table[e] = 0
  /\ table \in Lists /\ age \in [EntryIds -> 0 .. Horizon]
  /\ cached \in Lists \cup {NoList} /\ cachedAge \in 0 .. TTL + 1
  /\ stage \in [Threads -> {"idle", "drop", "fetch", "install", "match"}]
  /\ got \in [Threads -> Lists \cup {NoList}]
  /\ \A t \in Threads : (got[t] \in Lists) = (stage[t] = "install")
  /\ gotAge \in [Threads -> 0 .. Delay] /\ nap \in 0 .. TTL
  /\ changes \in 0 .. MaxChanges /\ failures \in 0 .. MaxFailures
  /\ failing \in BOOLEAN /\ credit \in Int

\* Events are compared with nothing only because of a query that failed or of an
\* invalidation between the check and the comparison; each costs one event.
BlanksPaidFor == credit >= 0

\* However refreshes, invalidations and changes overtake each other: as long as no query
\* has failed, an event is compared with entries that are out of date by no more than the
\* TTL and one refresh; with nothing no more often than failures and invalidations explain.
FreshEnough ==
  [](CacheTypeOK /\ BlanksPaidFor) /\
  [][Match /\ cached # NoList /\ ~failing =>
       \A e \in EntryIds : age[e] > TTL + Delay => cached[e] = table[e]]_cacheVars

\* Once the table no longer changes, matching settles on what is in it, though the process
\* that changed it told nobody.
Converges == <>[][Match => cached = table]_cacheVars
================================================================================
