------------------------------- MODULE TenantData -------------------------------
(***************************************************************************)
(* Where a tenant's data is, and how it is deleted.  A collection is       *)
(* looked up, created, then indexed, each by a call of its own, by whoever *)
(* needs it first: the services that insert, and the search service.  The  *)
(* tenant's deletion cleans three of the places one after another, of what *)
(* it finds there by name, and lets nothing stop it, then deletes the      *)
(* tenant's row; once that is gone it cannot be asked for again.           *)
(***************************************************************************)
EXTENDS Naturals, Sequences, FiniteSets

CONSTANTS
  Callers,       \* threads that search or insert
  Installed,     \* the sets of places whose client a process of the auth service may have
  MaxItems,      \* bound: items written
  MaxCalls,      \* bound: searches and inserts
  MaxFaults      \* bound: crashes, and failing calls

Kinds == {"frames", "person", "vehicle"}     \* the collections

\* Objects are under the tenant's prefix (minio) or, videos that the user interface uploads,
\* in the same bucket under a name without it (uploads).
Places == Kinds \cup {"redis", "minio", "uploads", "plates"}

\* _cleanup_redis, _cleanup_minio and _cleanup_milvus, in this order.
Cleaned == <<"redis", "minio", "frames">>

ASSUME TenantAssumption == Installed \subseteq SUBSET Places /\ MaxItems \in Nat \ {0}

VARIABLES
  collection,    \* per kind: none, bare (no index) or ready
  job,           \* per caller: <<>>, or <<stage, kind of collection, what for>>; the stages
                 \* are create, index and use; it is for a search or an insert
  calls,
  answer,        \* of the last search: none, hits, empty or unavailable
  items,         \* per place: items of the tenant
  written,       \* items written
  clients,       \* places the process of the deletion has a client of, connected
  erasing,       \* the deletion: idle, list, remove or row
  step,          \* its place in Cleaned
  listed,        \* what it found there
  row,           \* the tenant's row exists
  faults,
  late,          \* history: items written since the deletion listed their place
  skipped        \* history: places that the deletion failed to clean

callVars == <<job, calls, answer>>
collectionVars == <<collection, callVars>>
eraseVars == <<clients, erasing, step, listed, row, skipped>>
dataVars == <<items, written, late>>
tenantVars == <<collectionVars, eraseVars, dataVars, faults>>

TenantInit ==
  /\ collection = [k \in Kinds |-> "none"] /\ job = [c \in Callers |-> <<>>]
  /\ calls = 0 /\ answer = "none"
  /\ items = [p \in Places |-> {}] /\ written = 0
  /\ clients \in Installed /\ erasing = "idle" /\ step = 1 /\ listed = {} /\ row = TRUE
  /\ faults = 0 /\ late = {} /\ skipped = {}

At(c, stage) == job[c] # <<>> /\ job[c][1] = stage
Kind(c) == job[c][2]
Use(c) == job[c][3]
Goto(c, stage) == job' = [job EXCEPT ![c][1] = stage]
Return(c) == job' = [job EXCEPT ![c] = <<>>]

Fault == faults < MaxFaults /\ faults' = faults + 1

\* dsai_raise_search_unavailable; an insert is its caller's to retry.
Unavailable(c) == "unavailable"

Fail(c) ==
  /\ Return(c) /\ answer' = Unavailable(c)
  /\ UNCHANGED <<collection, calls, dataVars, eraseVars>>

\* Has it a collection?  One without an index is a collection.
Look(c, k, u) ==
  /\ job[c] = <<>> /\ calls < MaxCalls /\ calls' = calls + 1 /\ answer' = "none"
  /\ job' = [job EXCEPT ![c] = <<IF collection[k] = "none" THEN "create" ELSE "use", k, u>>]
  /\ UNCHANGED <<collection, dataVars, eraseVars, faults>>

\* Creating one that another caller has just created, with the same schema, does nothing.
Create(c) ==
  /\ At(c, "create")
  /\ \/ /\ Goto(c, "index")
        /\ collection' = [collection EXCEPT ![Kind(c)] = IF @ = "none" THEN "bare" ELSE @]
        /\ UNCHANGED <<calls, answer, dataVars, eraseVars, faults>>
     \/ Fault /\ Fail(c)

CreateIndex(c) ==
  /\ At(c, "index")
  /\ \/ /\ collection[Kind(c)] # "none"
        /\ collection' = [collection EXCEPT ![Kind(c)] = "ready"]
        /\ Goto(c, "use")
        /\ UNCHANGED <<calls, answer, dataVars, eraseVars, faults>>
     \/ collection[Kind(c)] = "none" /\ Fail(c) /\ UNCHANGED faults
     \/ Fault /\ Fail(c)

\* load() needs the index.
Search(c) ==
  /\ At(c, "use") /\ Use(c) = "search"
  /\ \/ /\ collection[Kind(c)] = "ready" /\ Return(c)
        /\ answer' = IF items[Kind(c)] = {} THEN "empty" ELSE "hits"
        /\ UNCHANGED <<collection, calls, dataVars, eraseVars, faults>>
     \/ collection[Kind(c)] # "ready" /\ Fail(c) /\ UNCHANGED faults
     \/ Fault /\ Fail(c)

Listed(p) == ~row \/ \E i \in 1 .. step : Cleaned[i] = p /\ (i < step \/ erasing \in {"remove", "row"})

Put(p) ==
  /\ written < MaxItems /\ written' = written + 1
  /\ items' = [items EXCEPT ![p] = @ \cup {written'}]
  /\ late' = IF Listed(p) THEN late \cup {written'} ELSE late

Insert(c) ==
  /\ At(c, "use") /\ Use(c) = "insert"
  /\ \/ /\ collection[Kind(c)] # "none" /\ Put(Kind(c)) /\ Return(c)
        /\ UNCHANGED <<collection, calls, answer, eraseVars, faults>>
     \/ collection[Kind(c)] = "none" /\ Fail(c) /\ UNCHANGED faults

\* ensure_tenant_collection and its two siblings, past the look-up.
EnsureFrames(c) == (Create(c) \/ CreateIndex(c)) /\ Kind(c) = "frames"
EnsurePersons(c) == (Create(c) \/ CreateIndex(c)) /\ Kind(c) = "person"
EnsureVehicles(c) == (Create(c) \/ CreateIndex(c)) /\ Kind(c) = "vehicle"

\* Keys, objects and plate reads: nothing looks at the tenant's row.
Write == \E p \in Places \ Kinds : Put(p) /\ UNCHANGED <<collectionVars, eraseVars, faults>>

CallerCrash(c) ==
  /\ job[c] # <<>> /\ Return(c)
  /\ Fault
  /\ UNCHANGED <<collection, calls, answer, dataVars, eraseVars>>

\* 404 once the row is gone.
BeginDelete ==
  /\ erasing = "idle" /\ row /\ erasing' = "list" /\ late' = {} /\ skipped' = {}
  /\ UNCHANGED <<collectionVars, clients, step, listed, row, items, written, faults>>

Onward ==
  /\ listed' = {}
  /\ IF step = Len(Cleaned) THEN erasing' = "row" /\ UNCHANGED step
     ELSE erasing' = "list" /\ step' = step + 1

Skip == skipped' = skipped \cup {Cleaned[step]} /\ Onward

\* The tenant's items that a cleaning finds by their name.  Keys begin with "dsai:legal_hold:"
\* or "push:liveness:"; the scan is for those that begin with the tenant's id.
Matched(p) == IF p = "redis" THEN {} ELSE items[p]

\* Errors are printed.
ListPlace ==
  LET p == Cleaned[step] IN
  /\ erasing = "list"
  /\ \/ /\ p \in clients /\ UNCHANGED <<skipped, faults>>
        /\ IF p \in Kinds /\ collection[p] = "none" THEN Onward
           ELSE erasing' = "remove" /\ listed' = Matched(p) /\ UNCHANGED step
     \/ p \notin clients /\ Skip /\ UNCHANGED faults
     \/ Fault /\ Skip
  /\ UNCHANGED <<collectionVars, clients, row, dataVars>>

\* Mutant: only the first page of the listing.
FirstPage(p) ==
  IF p \in Kinds THEN {items[p]} ELSE IF listed = {} THEN {{}} ELSE {{i} : i \in listed}

\* What a removal removes: what was listed, and possibly what came during the listing; a
\* dropped collection goes with everything in it.
Removals(p) ==
  IF p \in Kinds THEN {items[p]} ELSE {R \in SUBSET Matched(p) : listed \subseteq R}

RemoveListed ==
  LET p == Cleaned[step] IN
  /\ erasing = "remove"
  /\ \/ /\ \E R \in Removals(p) : items' = [items EXCEPT ![p] = @ \ R]
        /\ collection' = IF p \in Kinds THEN [collection EXCEPT ![p] = "none"] ELSE collection
        /\ Onward /\ UNCHANGED <<skipped, faults>>
     \/ /\ Fault /\ Skip /\ UNCHANGED collection
        /\ \E R \in SUBSET listed : items' = [items EXCEPT ![p] = IF p \in Kinds THEN @ ELSE @ \ R]
  /\ UNCHANGED <<callVars, clients, row, written, late>>

DeleteRow ==
  /\ erasing = "row" /\ row' = FALSE /\ erasing' = "idle" /\ step' = 1
  /\ UNCHANGED <<collectionVars, clients, listed, skipped, dataVars, faults>>

\* The process of the deletion dies.
DeleteCrash ==
  /\ erasing # "idle" /\ erasing' = "idle" /\ step' = 1 /\ listed' = {} /\ Fault
  /\ UNCHANGED <<collectionVars, clients, row, skipped, dataVars>>

SearchText(c) == Look(c, "frames", "search")
SearchPersons(c) == Look(c, "person", "search")
SearchVehicles(c) == Look(c, "vehicle", "search")
InsertInto(c) == \E k \in Kinds : Look(c, k, "insert")

TenantNext ==
  \/ \E c \in Callers :
       \/ SearchText(c) \/ SearchPersons(c) \/ SearchVehicles(c) \/ InsertInto(c)
       \/ EnsureFrames(c) \/ EnsurePersons(c) \/ EnsureVehicles(c)
       \/ Search(c) \/ Insert(c) \/ CallerCrash(c)
  \/ Write \/ BeginDelete \/ ListPlace \/ RemoveListed \/ DeleteRow \/ DeleteCrash

TenantSpec == TenantInit /\ [][TenantNext]_tenantVars

--------------------------------------------------------------------------------
TenantTypeOK ==
  /\ collection \in [Kinds -> {"none", "bare", "ready"}]
  /\ job \in [Callers -> {<<>>} \cup ({"create", "index", "use"} \X Kinds \X {"search", "insert"})]
  /\ answer \in {"none", "hits", "empty", "unavailable"}
  /\ items \in [Places -> SUBSET (1 .. MaxItems)] /\ erasing \in {"idle", "list", "remove", "row"}

\* A collection that lacks its index, so that every search of it fails for good, had the
\* caller that created it crash or fail: whoever comes next only looks whether it exists.
BarePaidFor ==
  Cardinality({k \in Kinds : collection[k] = "bare" /\ \A c \in Callers : ~At(c, "index") \/ Kind(c) # k})
    <= faults

\* "A failure must not look like no matches": a search answers with the empty list only when
\* its collection was there, searchable and empty, whoever creates or drops it meanwhile.
EmptyIsEmpty ==
  [][\A c \in Callers : job[c] # <<>> /\ job'[c] = <<>> /\ answer' = "empty" =>
       answer = "empty" \/ (collection[Kind(c)] = "ready" /\ items[Kind(c)] = {})]_tenantVars

\* After the deletion of a tenant, what is left in a place that it cleaned, of what its cleaning
\* goes by, was written since it listed the place; a place that it failed to clean can keep
\* anything.  Keys it goes by there are none of, so this says nothing of what Redis keeps.
LeftBehindIsLate ==
  ~row => \A i \in DOMAIN Cleaned : Cleaned[i] \in skipped \/ Matched(Cleaned[i]) \subseteq late

\* The data of a tenant while it is created, searched and deleted by services that do not
\* know of each other: what is broken, left over or taken for absent has its cause.
TenantDataHolds == [](TenantTypeOK /\ BarePaidFor /\ LeftBehindIsLate) /\ EmptyIsEmpty

\* "Delete a tenant and all associated data": keys, uploads, and person, vehicle and plate
\* data as well.
DeletedIsGone == ~row /\ skipped = {} => \A p \in Places : items[p] \subseteq late
================================================================================
