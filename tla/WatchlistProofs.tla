----------------------------- MODULE WatchlistProofs -----------------------------
(***************************************************************************)
(* Theorems about the watchlists: WatchlistMatcher, for any number of      *)
(* matchers, entries and detections, any safeguard settings, crashes and   *)
(* faults, and events that several matchers work on at a time;             *)
(* WatchlistCache, for any number of entries and of API threads, any TTL,  *)
(* delay, changes and failing queries; and AlertFeed, for any number of    *)
(* processes, event streams, operators and alerts.                         *)
(***************************************************************************)
EXTENDS WatchlistMatcher, WatchlistCache, AlertFeed, FiniteSetTheorems, TLAPS

--------------------------------------------------------------------------------
(* Matching.                                                                    *)

Labels == {"idle", "match", "lookup", "insert", "publish"}

\* The part of the state that alerts are raised from has its type.
AlertType ==
  /\ rows \in [Keys -> Nat] /\ emitted \in [Keys -> Nat] /\ pending \subseteq Detections
  /\ pc \in [Matchers -> Labels] /\ event \in [Matchers -> Detections \cup {None}]
  /\ entry \in [Matchers -> Entries \cup {None}] /\ todo \in [Matchers -> SUBSET Entries]

\* A matcher that works is at a detection; one that raises an alert, at an entry as well;
\* and one that is about to publish has its row.
AtWork ==
  \A p \in Matchers :
    /\ pc[p] # "idle" => event[p] \in Detections
    /\ pc[p] \in {"lookup", "insert", "publish"} => entry[p] \in Entries
    /\ pc[p] = "publish" => rows[Alert(p)] > 0

IndInv == AlertType /\ AtWork /\ OneAlertRow

LEMMA InitIndInv == Init => IndInv
BY DEF Init, IndInv, AlertType, AtWork, OneAlertRow, Keys, Labels

\* A matcher that goes idle, after a failure, a crash or the end of its work, while no row is
\* lost and nothing is emitted.
LEMMA GoesIdle ==
  ASSUME IndInv, NEW p \in Matchers, Idle(p), pending' \subseteq pending, UNCHANGED emitted,
         rows' \in [Keys -> Nat], \A k \in Keys : rows'[k] >= rows[k] /\ rows'[k] <= 1
  PROVE  IndInv'
<1>1. AlertType'
  BY DEF IndInv, AlertType, Idle, Labels
<1>2. OneAlertRow'
  BY DEF IndInv, AlertType, OneAlertRow
<1>3. \A q \in Matchers \ {p} : pc'[q] = pc[q] /\ event'[q] = event[q] /\ entry'[q] = entry[q]
  BY DEF IndInv, AlertType, Idle
<1>4. pc'[p] = "idle"
  BY DEF IndInv, AlertType, Idle
<1>5. AtWork'
  <2> SUFFICES ASSUME NEW q \in Matchers \ {p}, pc'[q] # "idle"
               PROVE  /\ event'[q] \in Detections
                      /\ pc'[q] \in {"lookup", "insert", "publish"} => entry'[q] \in Entries
                      /\ pc'[q] = "publish" => rows'[Alert(q)'] > 0
    BY <1>4 DEF AtWork
  <2>1. Alert(q)' = Alert(q) /\ (pc[q] = "publish" => Alert(q) \in Keys)
    BY <1>3 DEF IndInv, AtWork, Keys, Alert
  <2>2. QED
    BY <1>3, <2>1 DEF IndInv, AtWork, AlertType
<1>6. QED
  BY <1>1, <1>2, <1>5 DEF IndInv

\* A failing handler keeps the row it may have committed.
LEMMA Fails ==
  ASSUME IndInv, NEW p \in Matchers, pc[p] \in {"lookup", "insert", "publish"}, Fail(p), UNCHANGED emitted,
         AddRow(Alert(p)) \/ UNCHANGED rows
  PROVE  IndInv'
<1>1. Alert(p) \in Keys
  BY DEF IndInv, AtWork, Keys, Alert
<1>2. rows' \in [Keys -> Nat] /\ \A k \in Keys : rows'[k] >= rows[k] /\ rows'[k] <= 1
  BY <1>1 DEF IndInv, AlertType, OneAlertRow, AddRow
<1>3. Idle(p) /\ pending' \subseteq pending
  BY DEF Fail, IndInv, AlertType
<1>4. QED
  BY <1>2, <1>3, GoesIdle

\* An alert that is in the database goes on to be published.
LEMMA Commits ==
  ASSUME IndInv, NEW p \in Matchers, pc[p] \in {"lookup", "insert"}, Committed(p), UNCHANGED emitted,
         \/ rows[Alert(p)] > 0 /\ UNCHANGED rows
         \/ AddRow(Alert(p))
  PROVE  IndInv'
<1>1. Alert(p) \in Keys /\ entry[p] \in Entries /\ event[p] \in Detections
  BY DEF IndInv, AtWork, Keys, Alert
<1>2. /\ rows' \in [Keys -> Nat] /\ rows'[Alert(p)] > 0
      /\ \A k \in Keys : rows'[k] >= rows[k] /\ rows'[k] <= 1
  BY <1>1 DEF IndInv, AlertType, OneAlertRow, AddRow
<1>3. pc' = [pc EXCEPT ![p] = "publish"] /\ UNCHANGED <<event, todo, entry, pending>>
  BY DEF Committed
<1>4. AlertType'
  BY <1>2, <1>3 DEF IndInv, AlertType, Labels
<1>5. OneAlertRow'
  BY <1>2 DEF IndInv, AlertType, OneAlertRow
<1>6. AtWork'
  <2> SUFFICES ASSUME NEW q \in Matchers, q # p, pc'[q] # "idle"
               PROVE  /\ event'[q] \in Detections
                      /\ pc'[q] \in {"lookup", "insert", "publish"} => entry'[q] \in Entries
                      /\ pc'[q] = "publish" => rows'[Alert(q)'] > 0
    BY <1>1, <1>2, <1>3 DEF AtWork, IndInv, AlertType, Alert
  <2>1. /\ pc'[q] = pc[q] /\ Alert(q)' = Alert(q)
        /\ pc[q] = "publish" => Alert(q) \in Keys
    BY <1>3 DEF IndInv, AtWork, AlertType, Keys, Alert
  <2>2. QED
    BY <1>2, <1>3, <2>1 DEF IndInv, AtWork, AlertType
<1>7. QED
  BY <1>4, <1>5, <1>6 DEF IndInv

LEMMA NextIndInv == IndInv /\ [Next]_vars => IndInv'
<1> SUFFICES ASSUME IndInv, [Next]_vars PROVE IndInv'
  OBVIOUS
<1> USE MatcherAssumption
<1>1. ASSUME NEW p \in Matchers, NEW d \in Detections, Take(p, d) PROVE IndInv'
  <2>1. MatchesOf(d) \in SUBSET Entries
    BY DEF MatchesOf
  <2>2. AlertType'
    BY <1>1, <2>1 DEF Take, IndInv, AlertType, Labels
  <2>3. AtWork' /\ OneAlertRow'
    BY <1>1 DEF Take, IndInv, AlertType, AtWork, OneAlertRow, Alert
  <2>4. QED
    BY <2>2, <2>3 DEF IndInv
<1>2. ASSUME NEW p \in Matchers, NEW e \in Entries, Check(p, e) PROVE IndInv'
  <2>1. UNCHANGED <<rows, emitted, pending, event>> /\ todo' = [todo EXCEPT ![p] = @ \ {e}] /\ pc[p] = "match"
    BY <1>2 DEF Check
  <2>2. \/ UNCHANGED <<pc, entry>>
        \/ pc' = [pc EXCEPT ![p] = "lookup"] /\ entry' = [entry EXCEPT ![p] = e]
    BY <1>2 DEF Check
  <2>3. AlertType'
    BY <2>1, <2>2 DEF IndInv, AlertType, Labels
  <2>4. AtWork' /\ OneAlertRow'
    BY <2>1, <2>2 DEF IndInv, AlertType, AtWork, OneAlertRow, Alert
  <2>5. QED
    BY <2>3, <2>4 DEF IndInv
<1>3. ASSUME NEW p \in Matchers, Lookup(p) PROVE IndInv'
  <2>1. pc[p] = "lookup" /\ UNCHANGED <<rows, emitted>>
    BY <1>3 DEF Lookup
  <2>2. CASE rows[Alert(p)] > 0 /\ Committed(p)
    BY <2>1, <2>2, Commits
  <2>3. CASE Miss(p) /\ UNCHANGED <<event, todo, entry, pending>>
    <3>1. AlertType'
      BY <2>1, <2>3 DEF Miss, IndInv, AlertType, Labels
    <3>2. AtWork' /\ OneAlertRow'
      BY <2>1, <2>3 DEF Miss, IndInv, AlertType, AtWork, OneAlertRow, Alert
    <3>3. QED
      BY <3>1, <3>2 DEF IndInv
  <2>4. CASE Fail(p)
    BY <2>1, <2>4, Fails
  <2>5. QED
    BY <1>3, <2>2, <2>3, <2>4 DEF Lookup
<1>4. ASSUME NEW p \in Matchers, Insert(p) PROVE IndInv'
  <2>1. pc[p] = "insert" /\ UNCHANGED emitted
    BY <1>4 DEF Insert
  <2>2. CASE AddRow(Alert(p)) /\ Committed(p)
    BY <2>1, <2>2, Commits
  <2>3. CASE Fail(p) /\ (AddRow(Alert(p)) \/ UNCHANGED rows)
    BY <2>1, <2>3, Fails
  <2>4. QED
    BY <1>4, <2>2, <2>3 DEF Insert, FailedCommit
<1>5. ASSUME NEW p \in Matchers, Publish(p) PROVE IndInv'
  <2>1. /\ pc[p] = "publish" /\ UNCHANGED rows
        /\ Alert(p) \in Keys /\ rows[Alert(p)] > 0
    BY <1>5 DEF Publish, IndInv, AtWork, Keys, Alert
  <2>2. CASE Fail(p) /\ UNCHANGED emitted
    BY <2>1, <2>2, Fails
  <2>3. ASSUME emitted' = [emitted EXCEPT ![Alert(p)] = @ + 1],
               pc' = [pc EXCEPT ![p] = "match"], entry' = [entry EXCEPT ![p] = None],
               UNCHANGED <<event, todo, pending>>
        PROVE  IndInv'
    <3>1. AlertType'
      BY <2>1, <2>3 DEF IndInv, AlertType, Labels
    <3>2. OneAlertRow'
      BY <2>1, <2>3 DEF IndInv, AlertType, OneAlertRow
    <3>3. AtWork'
      BY <2>1, <2>3 DEF IndInv, AlertType, AtWork, Alert
    <3>4. QED
      BY <3>1, <3>2, <3>3 DEF IndInv
  <2>4. QED
    BY <1>5, <2>2, <2>3 DEF Publish
<1>6. ASSUME NEW p \in Matchers, Done(p) PROVE IndInv'
  <2>1. Idle(p) /\ pending' \subseteq pending /\ UNCHANGED <<rows, emitted>>
    BY <1>6 DEF Done, Acknowledge
  <2>2. \A k \in Keys : rows[k] \in Nat /\ rows[k] <= 1
    BY DEF IndInv, AlertType, OneAlertRow
  <2>3. QED
    BY <2>1, <2>2, GoesIdle DEF IndInv, AlertType
<1>7. ASSUME NEW p \in Matchers, Crash(p) PROVE IndInv'
  <2>1. Idle(p) /\ UNCHANGED <<pending, rows, emitted>>
    BY <1>7 DEF Crash
  <2>2. \A k \in Keys : rows[k] \in Nat /\ rows[k] <= 1
    BY DEF IndInv, AlertType, OneAlertRow
  <2>3. QED
    BY <2>1, <2>2, GoesIdle DEF IndInv, AlertType
<1>8. CASE Tick
  BY <1>8 DEF Tick, job, IndInv, AlertType, AtWork, OneAlertRow, Alert
<1>9. CASE UNCHANGED vars
  BY <1>9 DEF vars, job, IndInv, AlertType, AtWork, OneAlertRow, Alert
<1>10. QED
  BY <1>1, <1>2, <1>3, <1>4, <1>5, <1>6, <1>7, <1>8, <1>9 DEF Next, Step, Quiet

\* A match has at most one alert row, and exactly one before anyone hears of the alert,
\* whichever matchers work on its event and whichever commits are lost or repeated.
THEOREM OneRowPerMatch == Spec => []OneAlertRow
<1>1. IndInv => OneAlertRow
  BY DEF IndInv
<1>2. QED
  BY <1>1, InitIndInv, NextIndInv, PTL DEF Spec

--------------------------------------------------------------------------------
(* The safeguard: what it remembers of the alerts of its matcher, and what follows for them.       *)

\* The alerts of a matcher for an entry since it was started last.
IssuedOf(p, e) == {i \in IssuedBy(p) : issued[i].entry = e}

Guards ==
  [last : [Entries \X Cameras -> -Cooldown .. MaxTime], known : SUBSET Entries,
   recent : [Entries -> SUBSET (Nat \X Nat)], disabled : SUBSET Entries]
AlertRecords == [by : Matchers, entry : Entries, camera : Cameras, at : Nat]

GuardType ==
  /\ now \in 0 .. MaxTime
  /\ issued \in Seq(AlertRecords)
  /\ \A i \in 1 .. Len(issued) : issued[i].at <= now
  /\ born \in [Matchers -> Nat] /\ \A p \in Matchers : born[p] <= Len(issued)
  /\ guard \in [Matchers -> Guards]

\* It has the last alert of every camera, all alerts that are in the window still, and no other
\* times; and it knows of no entry that was not alerted.
Recalls(p) ==
  LET g == guard[p] IN
  /\ \A i \in IssuedBy(p) : g.last[<<issued[i].entry, issued[i].camera>>] >= issued[i].at
  /\ \A e \in Entries :
       /\ \A r \in g.recent[e] : r[1] \in IssuedOf(p, e) /\ r[2] = issued[r[1]].at
       /\ \A i \in IssuedOf(p, e) : now - issued[i].at <= Window => <<i, issued[i].at>> \in g.recent[e]
       /\ e \in g.known => IssuedOf(p, e) # {}
       /\ g.recent[e] # {} => e \in g.known
       /\ \A c \in Cameras : g.last[<<e, c>>] # -Cooldown => e \in g.known
  /\ g.disabled \subseteq g.known

\* The verdict an alert goes on is still right when its row is there: only the matcher itself adds
\* to its safeguard's memory, and time only takes away from it.
VerdictStands(p) ==
  pc[p] \in {"lookup", "insert"} =>
    /\ ~CoolingDown(guard[p], entry[p], CameraOf[event[p]])
    /\ ~Flooded(guard[p], entry[p])

GuardInv ==
  /\ GuardType /\ \A p \in Matchers : Recalls(p) /\ VerdictStands(p)
  /\ CooldownSpacing /\ FloodBound /\ DisabledForCause

\* The alerts within the window before an alert, and those within a window that ends at a time.
Burst(p, i) ==
  {j \in IssuedBy(p) : j <= i /\ issued[j].entry = issued[i].entry /\ issued[i].at - issued[j].at <= Window}
Around(p, e, t) == {j \in IssuedBy(p) : issued[j].entry = e /\ issued[j].at \in (t - Window) .. t}

LEMMA NumbersFinite == \A n \in Nat : IsFiniteSet(1 .. n)
BY FS_Interval

LEMMA AlertRecord ==
  ASSUME GuardType, NEW i \in 1 .. Len(issued)
  PROVE  /\ issued[i].by \in Matchers /\ issued[i].entry \in Entries /\ issued[i].camera \in Cameras
         /\ issued[i].at \in Nat /\ issued[i].at <= now
<1>1. issued[i] \in AlertRecords
  BY DEF GuardType
<1>2. QED
  BY <1>1 DEF GuardType, AlertRecords

LEMMA GuardRecord ==
  ASSUME NEW g \in Guards
  PROVE  /\ g.last \in [Entries \X Cameras -> -Cooldown .. MaxTime] /\ g.known \in SUBSET Entries
         /\ g.recent \in [Entries -> SUBSET (Nat \X Nat)] /\ g.disabled \in SUBSET Entries
BY DEF Guards

LEMMA IssuedFinite ==
  ASSUME GuardType
  PROVE  /\ IsFiniteSet(1 .. Len(issued))
         /\ \A p : IssuedBy(p) \subseteq 1 .. Len(issued)
         /\ \A S \in SUBSET (1 .. Len(issued)) : IsFiniteSet(S) /\ Cardinality(S) \in Nat
<1>1. IsFiniteSet(1 .. Len(issued))
  BY FS_Interval DEF GuardType
<1>2. \A S \in SUBSET (1 .. Len(issued)) : IsFiniteSet(S)
  BY <1>1, FS_Subset
<1>3. QED
  BY <1>1, <1>2, FS_CardinalityType DEF IssuedBy

\* A window's times are as many as the alerts that it holds.
LEMMA WindowFinite ==
  ASSUME GuardType, NEW p \in Matchers, Recalls(p), NEW e \in Entries
  PROVE  /\ IsFiniteSet(InWindow(guard[p], e)) /\ Cardinality(InWindow(guard[p], e)) \in Nat
         /\ \A r \in InWindow(guard[p], e) :
              /\ r[1] \in IssuedOf(p, e) /\ r = <<r[1], issued[r[1]].at>>
              /\ r[1] \in Nat /\ r[2] \in Nat /\ now - r[2] <= Window
<1>1. /\ guard[p].recent[e] \subseteq Nat \X Nat
      /\ \A r \in guard[p].recent[e] : r[1] \in IssuedOf(p, e) /\ r[2] = issued[r[1]].at
  BY DEF GuardType, Recalls, Guards
<1>2. InWindow(guard[p], e) \subseteq (1 .. Len(issued)) \X (0 .. now)
  <2> SUFFICES ASSUME NEW r \in InWindow(guard[p], e)
               PROVE  r \in (1 .. Len(issued)) \X (0 .. now)
    OBVIOUS
  <2>1. r \in Nat \X Nat /\ r[1] \in 1 .. Len(issued) /\ r[2] <= now
    BY <1>1 DEF InWindow, IssuedOf, IssuedBy, GuardType
  <2>2. now \in Nat
    BY DEF GuardType
  <2>3. QED
    BY <2>1, <2>2
<1>3. IsFiniteSet(1 .. Len(issued)) /\ IsFiniteSet(0 .. now)
  <2>1. now \in Int
    BY DEF GuardType
  <2>2. QED
    BY <2>1, IssuedFinite, FS_Interval
<1>4. IsFiniteSet((1 .. Len(issued)) \X (0 .. now))
  BY <1>3, FS_Product
<1>5. IsFiniteSet(InWindow(guard[p], e))
  BY <1>2, <1>4, FS_Subset
<1>6. QED
  BY <1>1, <1>5, FS_CardinalityType DEF InWindow

\* Everything within the window is remembered, so a window that is not full has room for one more.
LEMMA WindowCounts ==
  ASSUME GuardType, NEW p \in Matchers, Recalls(p), NEW e \in Entries,
         NEW S, \A j \in S : j \in IssuedOf(p, e) /\ now - issued[j].at <= Window
  PROVE  IsFiniteSet(S) /\ Cardinality(S) \in Nat /\ Cardinality(S) <= Cardinality(InWindow(guard[p], e))
<1> DEFINE f == [j \in S |-> <<j, issued[j].at>>]
           T == InWindow(guard[p], e)
<1>1. \A j \in S : f[j] \in T
  BY DEF Recalls, InWindow
<1>2. f \in Injection(S, T)
  <2>1. f \in [S -> T]
    BY <1>1
  <2>2. \A i, j \in S : f[i] = f[j] => i = j
    OBVIOUS
  <2>3. QED
    BY <2>1, <2>2 DEF Injection, IsInjective
<1>3. IsFiniteSet(T)
  BY WindowFinite
<1>4. IsFiniteSet(S) /\ Cardinality(S) <= Cardinality(T)
  BY <1>2, <1>3, FS_Injection
<1>5. QED
  BY <1>4, FS_CardinalityType

\* And nothing else is counted, so a window that is full holds that many alerts.
LEMMA WindowIsEarned ==
  ASSUME GuardType, NEW p \in Matchers, Recalls(p), NEW e \in Entries
  PROVE  Cardinality(InWindow(guard[p], e)) <= Cardinality(Around(p, e, now))
<1> DEFINE S == InWindow(guard[p], e)
           f == [r \in S |-> r[1]]
           T == Around(p, e, now)
<1>1. \A r \in S : f[r] \in T
  <2> SUFFICES ASSUME NEW r \in S PROVE r[1] \in T
    OBVIOUS
  <2>1. /\ r[1] \in IssuedOf(p, e) /\ r[2] = issued[r[1]].at /\ r[2] \in Nat /\ now - r[2] <= Window
    BY WindowFinite
  <2>2. issued[r[1]].at <= now /\ now \in Int /\ Window \in Int
    BY <2>1, MatcherAssumption DEF GuardType, IssuedOf, IssuedBy
  <2>3. QED
    BY <2>1, <2>2 DEF Around, IssuedOf
<1>2. f \in Injection(S, T)
  <2>1. f \in [S -> T]
    BY <1>1
  <2>2. \A q, r \in S : f[q] = f[r] => q = r
    BY WindowFinite
  <2>3. QED
    BY <2>1, <2>2 DEF Injection, IsInjective
<1>3. T \subseteq 1 .. Len(issued)
  BY IssuedFinite DEF Around
<1>4. IsFiniteSet(T)
  BY <1>3, IssuedFinite
<1>5. QED
  BY <1>2, <1>4, FS_Injection

\* Steps that neither raise an alert nor ask the safeguard.
LEMMA HistoryKept ==
  ASSUME GuardInv, UNCHANGED <<now, issued, born, guard>>,
         \A p \in Matchers : pc'[p] \in {"lookup", "insert"} =>
           pc[p] \in {"lookup", "insert"} /\ entry'[p] = entry[p] /\ event'[p] = event[p]
  PROVE  GuardInv'
<1>0. \A p : IssuedBy(p)' = IssuedBy(p)
  BY DEF IssuedBy
<1>1. GuardType'
  BY DEF GuardInv, GuardType
<1>2. ASSUME NEW p \in Matchers PROVE Recalls(p)'
  BY <1>0 DEF GuardInv, Recalls, IssuedOf
<1>3. ASSUME NEW p \in Matchers PROVE VerdictStands(p)'
  BY DEF GuardInv, VerdictStands, CoolingDown, Flooded, InWindow
<1>4. CooldownSpacing' /\ FloodBound' /\ DisabledForCause'
  BY <1>0 DEF GuardInv, CooldownSpacing, FloodBound, DisabledForCause
<1>5. QED
  BY <1>1, <1>2, <1>3, <1>4 DEF GuardInv

\* Time passes: windows and cooldowns only run out.
LEMMA TickGuard ==
  ASSUME GuardInv, IndInv, Tick
  PROVE  GuardInv'
<1> USE MatcherAssumption
<1>0. /\ now' = now + 1 /\ now' \in 0 .. MaxTime /\ now \in Nat /\ Window \in Int
      /\ UNCHANGED <<issued, born, guard, pc, entry, event>>
  BY DEF Tick, job, GuardInv, GuardType
<1>1. \A p, e : IssuedBy(p)' = IssuedBy(p) /\ IssuedOf(p, e)' = IssuedOf(p, e)
  BY <1>0 DEF IssuedBy, IssuedOf
<1>2. \A i \in 1 .. Len(issued) : issued[i].at \in Nat /\ issued[i].at <= now
  BY AlertRecord DEF GuardInv
<1>3. GuardType'
  BY <1>0, <1>2 DEF GuardInv, GuardType
<1>4. ASSUME NEW p \in Matchers PROVE Recalls(p)'
  <2>1. Recalls(p)
    BY DEF GuardInv
  <2>2. ASSUME NEW e \in Entries, NEW i \in IssuedOf(p, e), now' - issued[i].at <= Window
        PROVE  <<i, issued[i].at>> \in guard[p].recent[e]
    <3>1. now - issued[i].at <= Window
      BY <1>0, <1>2, <2>2 DEF IssuedOf, IssuedBy
    <3>2. QED
      BY <2>1, <3>1 DEF Recalls
  <2>3. QED
    BY <1>0, <1>1, <2>1, <2>2 DEF Recalls
<1>5. ASSUME NEW p \in Matchers PROVE VerdictStands(p)'
  <2> SUFFICES ASSUME pc[p] \in {"lookup", "insert"}
               PROVE  /\ ~CoolingDown(guard[p], entry[p], CameraOf[event[p]])'
                      /\ ~Flooded(guard[p], entry[p])'
    BY <1>0 DEF VerdictStands
  <2>1. /\ entry[p] \in Entries /\ event[p] \in Detections /\ CameraOf[event[p]] \in Cameras
        /\ guard[p].last[<<entry[p], CameraOf[event[p]]>>] \in Int
        /\ Recalls(p) /\ GuardType
        /\ ~CoolingDown(guard[p], entry[p], CameraOf[event[p]])
        /\ ~Flooded(guard[p], entry[p])
    <3>1. entry[p] \in Entries /\ event[p] \in Detections /\ CameraOf[event[p]] \in Cameras
      BY DEF IndInv, AtWork
    <3>2. guard[p] \in Guards
      BY DEF GuardInv, GuardType
    <3>3. guard[p].last[<<entry[p], CameraOf[event[p]]>>] \in -Cooldown .. MaxTime
      BY <3>1, <3>2, GuardRecord
    <3>4. QED
      BY <3>1, <3>3 DEF GuardInv, VerdictStands
  <2>2. ~CoolingDown(guard[p], entry[p], CameraOf[event[p]])'
    BY <1>0, <2>1 DEF CoolingDown
  <2> DEFINE S == InWindow(guard[p], entry[p])
             T == InWindow(guard[p], entry[p])'
  <2>3. \A r \in guard[p].recent[entry[p]] : r[2] \in Int
    BY <2>1 DEF GuardType, Guards
  <2>4. T \subseteq S
    BY <1>0, <2>3 DEF InWindow
  <2>5. IsFiniteSet(S) /\ Cardinality(S) \in Nat
    BY <2>1, WindowFinite
  <2>6. Cardinality(T) \in Nat /\ Cardinality(T) <= Cardinality(S)
    BY <2>4, <2>5, FS_Subset, FS_CardinalityType
  <2>7. ~Flooded(guard[p], entry[p])'
    BY <1>0, <2>1, <2>5, <2>6 DEF Flooded
  <2>8. QED
    BY <2>2, <2>7
<1>6. CooldownSpacing' /\ FloodBound'
  <2>1. \A p : IssuedBy(p)' = IssuedBy(p)
    BY <1>1
  <2>2. QED
    BY <1>0, <2>1 DEF GuardInv, CooldownSpacing, FloodBound
<1>7. DisabledForCause'
  <2>1. \A t \in 0 .. now : t \in 0 .. now'
    BY <1>0
  <2>2. DisabledForCause
    BY DEF GuardInv
  <2>3. \A p \in Matchers : \A e \in guard[p].disabled :
          \E t \in 0 .. now' :
            Cardinality({j \in IssuedBy(p) : issued[j].entry = e
                                             /\ issued[j].at \in (t - Window) .. t}) >= Threshold
    BY <2>1, <2>2 DEF DisabledForCause
  <2>4. issued' = issued /\ guard' = guard /\ \A p : IssuedBy(p)' = IssuedBy(p)
    BY <1>0, <1>1
  <2>5. QED
    BY <2>3, <2>4 DEF DisabledForCause
<1>8. QED
  BY <1>3, <1>4, <1>5, <1>6, <1>7 DEF GuardInv

\* The safeguard is asked: it may forget what is out of the window, and disable the entry for what is
\* in it.
LEMMA CheckGuard ==
  ASSUME GuardInv, IndInv, NEW p \in Matchers, NEW e \in Entries, Check(p, e)
  PROVE  GuardInv'
<1> USE MatcherAssumption
<1> DEFINE g == guard[p]
           c == CameraOf[event[p]]
           h == AfterCheck(g, e, c)
<1>0. /\ pc[p] = "match" /\ event[p] \in Detections /\ c \in Cameras
      /\ guard' = [guard EXCEPT ![p] = h]
      /\ UNCHANGED <<now, issued, born, event>>
      /\ \/ Suppressed(g, e, c) /\ UNCHANGED <<pc, entry>>
         \/ /\ ~Suppressed(g, e, c)
            /\ pc' = [pc EXCEPT ![p] = "lookup"] /\ entry' = [entry EXCEPT ![p] = e]
  BY DEF Check, IndInv, AtWork
<1>1. /\ GuardType /\ Recalls(p) /\ now \in Nat /\ \A q \in Matchers : Recalls(q) /\ VerdictStands(q)
      /\ CooldownSpacing /\ FloodBound /\ DisabledForCause
  BY DEF GuardInv, GuardType
<1>g. g \in Guards
  BY <1>1 DEF GuardType
<1>2. \A q, x : IssuedBy(q)' = IssuedBy(q) /\ IssuedOf(q, x)' = IssuedOf(q, x)
  BY <1>0 DEF IssuedBy, IssuedOf
<1>3. /\ h \in Guards
      /\ h.last = g.last /\ h.known = g.known
      /\ \A x \in Entries \ {e} : h.recent[x] = g.recent[x]
      /\ h.recent[e] \in {g.recent[e], InWindow(g, e)}
      /\ \/ h.disabled = g.disabled
         \/ Flooded(g, e) /\ h.disabled = g.disabled \cup {e}
  <2>1. /\ g \in Guards
        /\ g.last \in [Entries \X Cameras -> -Cooldown .. MaxTime] /\ g.known \in SUBSET Entries
        /\ g.recent \in [Entries -> SUBSET (Nat \X Nat)] /\ g.disabled \in SUBSET Entries
    BY <1>g, GuardRecord
  <2>2. InWindow(g, e) \subseteq g.recent[e] /\ g.recent[e] \subseteq Nat \X Nat
    BY <2>1 DEF InWindow
  <2>3. CASE h = g
    BY <2>1, <2>3
  <2>4. CASE h = [g EXCEPT !.recent = [@ EXCEPT ![e] = InWindow(g, e)],
                           !.disabled = IF Flooded(g, e) /\ AutoDisable THEN @ \cup {e} ELSE @]
    <3>1. CASE Flooded(g, e) /\ AutoDisable
      <4>1. h = [g EXCEPT !.recent = [@ EXCEPT ![e] = InWindow(g, e)], !.disabled = g.disabled \cup {e}]
        BY <2>4, <3>1
      <4>2. h = [last |-> g.last, known |-> g.known, recent |-> [g.recent EXCEPT ![e] = InWindow(g, e)],
                 disabled |-> g.disabled \cup {e}]
        BY <2>1, <4>1 DEF Guards
      <4>3. [g.recent EXCEPT ![e] = InWindow(g, e)] \in [Entries -> SUBSET (Nat \X Nat)]
        BY <2>1, <2>2
      <4>4. QED
        BY <2>1, <2>2, <3>1, <4>2, <4>3 DEF Guards
    <3>2. CASE ~(Flooded(g, e) /\ AutoDisable)
      <4>1. h = [g EXCEPT !.recent = [@ EXCEPT ![e] = InWindow(g, e)], !.disabled = g.disabled]
        BY <2>4, <3>2
      <4>2. h = [last |-> g.last, known |-> g.known, recent |-> [g.recent EXCEPT ![e] = InWindow(g, e)],
                 disabled |-> g.disabled]
        BY <2>1, <4>1 DEF Guards
      <4>3. [g.recent EXCEPT ![e] = InWindow(g, e)] \in [Entries -> SUBSET (Nat \X Nat)]
        BY <2>1, <2>2
      <4>4. QED
        BY <2>1, <2>2, <4>2, <4>3 DEF Guards
    <3>3. QED
      BY <3>1, <3>2
  <2>5. QED
    BY <2>3, <2>4 DEF AfterCheck
<1> HIDE DEF h
<1>4. guard' \in [Matchers -> Guards]
      /\ \A q \in Matchers : guard'[q] = IF q = p THEN h ELSE guard[q]
  BY <1>0, <1>1, <1>3 DEF GuardType
<1>5. GuardType'
  BY <1>0, <1>1, <1>4 DEF GuardType
<1>6. ASSUME NEW q \in Matchers PROVE Recalls(q)'
  <2>1. CASE q # p
    <3>1. guard'[q] = guard[q] /\ now' = now /\ issued' = issued
      BY <1>0, <1>4, <2>1
    <3>2. IssuedBy(q)' = IssuedBy(q) /\ \A x : IssuedOf(q, x)' = IssuedOf(q, x)
      BY <1>2
    <3>3. Recalls(q)
      BY <1>1
    <3>4. QED
      BY <3>1, <3>2, <3>3 DEF Recalls
  <2>2. CASE q = p
    <3>1. ASSUME NEW x \in Entries
          PROVE  /\ h.recent[x] \subseteq g.recent[x]
                 /\ \A i \in IssuedOf(p, x) :
                      now - issued[i].at <= Window => <<i, issued[i].at>> \in h.recent[x]
      <4>1. h.recent[x] = g.recent[x] \/ h.recent[x] = InWindow(g, x)
        BY <1>3
      <4>2. QED
        BY <1>1, <4>1 DEF InWindow, Recalls
    <3>2. h.disabled \subseteq h.known
      BY <1>1, <1>3 DEF Recalls, Flooded
    <3>3. guard'[p] = h
      BY <1>4
    <3> HIDE DEF g
    <3>4. Recalls(p)
      BY <1>1
    <3>5. now' = now /\ issued' = issued /\ IssuedBy(p)' = IssuedBy(p)
          /\ \A x \in Entries : IssuedOf(p, x)' = IssuedOf(p, x)
      BY <1>0, <1>2
    <3>6. /\ \A i \in IssuedBy(p) : g.last[<<issued[i].entry, issued[i].camera>>] >= issued[i].at
          /\ \A x \in Entries :
               /\ \A r \in g.recent[x] : r[1] \in IssuedOf(p, x) /\ r[2] = issued[r[1]].at
               /\ x \in g.known => IssuedOf(p, x) # {}
               /\ g.recent[x] # {} => x \in g.known
               /\ \A d \in Cameras : g.last[<<x, d>>] # -Cooldown => x \in g.known
      BY <3>4 DEF Recalls, g
    <3>7. /\ \A i \in IssuedBy(p) : h.last[<<issued[i].entry, issued[i].camera>>] >= issued[i].at
          /\ \A x \in Entries :
               /\ \A r \in h.recent[x] : r[1] \in IssuedOf(p, x) /\ r[2] = issued[r[1]].at
               /\ \A i \in IssuedOf(p, x) : now - issued[i].at <= Window => <<i, issued[i].at>> \in h.recent[x]
               /\ x \in h.known => IssuedOf(p, x) # {}
               /\ h.recent[x] # {} => x \in h.known
               /\ \A d \in Cameras : h.last[<<x, d>>] # -Cooldown => x \in h.known
          /\ h.disabled \subseteq h.known
      BY <1>3, <3>1, <3>2, <3>6
    <3>8. QED
      BY <2>2, <3>3, <3>5, <3>7 DEF Recalls
  <2>3. QED
    BY <2>1, <2>2
<1>7. ASSUME NEW q \in Matchers PROVE VerdictStands(q)'
  <2>1. CASE q # p
    <3>1. pc'[q] = pc[q] /\ entry'[q] = entry[q] /\ event'[q] = event[q] /\ guard'[q] = guard[q] /\ now' = now
      BY <1>0, <1>4, <2>1 DEF IndInv, AlertType
    <3>2. QED
      BY <1>1, <3>1 DEF VerdictStands, CoolingDown, Flooded, InWindow
  <2>2. CASE q = p /\ Suppressed(g, e, c)
    BY <1>0, <2>2 DEF VerdictStands
  <2>3. CASE q = p /\ ~Suppressed(g, e, c)
    <3>1. entry'[p] = e /\ event'[p] = event[p] /\ guard'[p] = h /\ now' = now
      BY <1>0, <1>4, <2>3 DEF IndInv, AlertType
    <3>2. ~CoolingDown(g, e, c) /\ ~Flooded(g, e)
      BY <2>3 DEF Suppressed
    <3>3. ~CoolingDown(guard[p], entry[p], CameraOf[event[p]])'
      BY <1>3, <3>1, <3>2 DEF CoolingDown
    <3>4. h.recent[e] = g.recent[e] \/ h.recent[e] = InWindow(g, e)
      BY <1>3
    <3>5. {r \in h.recent[e] : now - r[2] <= Window} = InWindow(g, e)
      BY <3>4 DEF InWindow
    <3>6. ~Flooded(guard[p], entry[p])'
      BY <1>3, <3>1, <3>2, <3>5 DEF Flooded, InWindow
    <3>7. QED
      BY <2>3, <3>3, <3>6 DEF VerdictStands
  <2>4. QED
    BY <2>1, <2>2, <2>3
<1>8. CooldownSpacing' /\ FloodBound'
  <2>1. UNCHANGED issued /\ \A q : IssuedBy(q)' = IssuedBy(q)
    BY <1>0, <1>2
  <2>2. CooldownSpacing'
    BY ONLY <1>1, <2>1 DEF CooldownSpacing
  <2>3. FloodBound'
    BY ONLY <1>1, <2>1 DEF FloodBound
  <2>4. QED
    BY <2>2, <2>3
<1>9. DisabledForCause'
  <2> SUFFICES ASSUME NEW q \in Matchers, NEW x \in guard'[q].disabled
               PROVE  \E t \in 0 .. now : Cardinality(Around(q, x, t)) >= Threshold
    <3>1. \A q \in Matchers : IssuedBy(q)' = IssuedBy(q)
      BY <1>2
    <3>2. QED
      BY <1>0, <3>1 DEF DisabledForCause, Around
  <2>1. CASE x \in guard[q].disabled
    BY <1>1, <2>1 DEF DisabledForCause, Around
  <2>2. CASE x \notin guard[q].disabled
    <3>1. q = p /\ x = e /\ Flooded(g, e)
      BY <1>3, <1>4, <2>2
    <3>2. Cardinality(InWindow(g, e)) \in Nat /\ Cardinality(InWindow(g, e)) <= Cardinality(Around(p, e, now))
      BY <1>1, WindowFinite, WindowIsEarned
    <3>3. Around(p, e, now) \subseteq 1 .. Len(issued)
      BY <1>1, IssuedFinite DEF Around
    <3>4. Cardinality(Around(p, e, now)) \in Nat
      BY <1>1, <3>3, IssuedFinite
    <3>5. Cardinality(Around(p, e, now)) >= Threshold
      BY <3>1, <3>2, <3>4 DEF Flooded
    <3>6. now \in 0 .. now
      BY <1>1
    <3>7. QED
      BY <3>1, <3>5, <3>6
  <2>3. QED
    BY <2>1, <2>2
<1>10. QED
  BY <1>5, <1>6, <1>7, <1>8, <1>9 DEF GuardInv

\* An alert is raised: it is far enough from the camera's last one, and there was room in the window.
LEMMA CommittedGuard ==
  ASSUME GuardInv, IndInv, NEW p \in Matchers, pc[p] \in {"lookup", "insert"}, Committed(p),
         UNCHANGED <<now, born>>
  PROVE  GuardInv'
<1> USE MatcherAssumption
<1> DEFINE g == guard[p]
           d == event[p]
<1>t. /\ entry[p] \in Entries /\ d \in Detections /\ CameraOf[d] \in Cameras
  BY DEF IndInv, AtWork
<1> PICK e \in Entries : e = entry[p]
  BY <1>t
<1> PICK c \in Cameras : c = CameraOf[d]
  BY <1>t
<1> PICK n \in Nat : n = Len(issued) + 1
  BY DEF GuardInv, GuardType
<1> DEFINE h == AfterAlert(g, e, c)
           a == [by |-> p, entry |-> e, camera |-> c, at |-> now]
<1>0. /\ guard' = [guard EXCEPT ![p] = h] /\ issued' = Append(issued, a)
      /\ pc' = [pc EXCEPT ![p] = "publish"] /\ UNCHANGED <<now, born, event, entry>>
  BY DEF Committed
<1>1. /\ GuardType /\ Recalls(p) /\ now \in Nat /\ now \in 0 .. MaxTime /\ Len(issued) \in Nat /\ n = Len(issued) + 1
      /\ \A q \in Matchers : Recalls(q) /\ VerdictStands(q)
      /\ CooldownSpacing /\ FloodBound /\ DisabledForCause
      /\ born \in [Matchers -> Nat] /\ \A q \in Matchers : born[q] <= Len(issued)
  BY DEF GuardInv, GuardType
<1>g. /\ g \in Guards
      /\ g.last \in [Entries \X Cameras -> -Cooldown .. MaxTime] /\ g.known \in SUBSET Entries
      /\ g.recent \in [Entries -> SUBSET (Nat \X Nat)] /\ g.disabled \in SUBSET Entries
  BY <1>1, GuardRecord DEF GuardType
<1>h. /\ h = [last |-> [g.last EXCEPT ![<<e, c>>] = now], known |-> g.known \cup {e},
              recent |-> [g.recent EXCEPT ![e] = g.recent[e] \cup {<<n, now>>}], disabled |-> g.disabled]
  <2>1. h = [g EXCEPT !.last = [@ EXCEPT ![<<e, c>>] = now], !.known = @ \cup {e},
                      !.recent = [@ EXCEPT ![e] = g.recent[e] \cup {<<n, now>>}]]
    BY DEF AfterAlert
  <2>2. QED
    BY <1>g, <2>1 DEF Guards
<1>i. [g.last EXCEPT ![<<e, c>>] = now] \in [Entries \X Cameras -> -Cooldown .. MaxTime]
  <2>1. now \in -Cooldown .. MaxTime
    BY <1>1
  <2>2. QED
    BY <1>g, <2>1
<1>j. [g.recent EXCEPT ![e] = g.recent[e] \cup {<<n, now>>}] \in [Entries -> SUBSET (Nat \X Nat)]
  BY <1>g, <1>1
<1>k. h \in Guards
  BY <1>g, <1>h, <1>i, <1>j DEF Guards
<1> HIDE DEF h
<1>2. guard' \in [Matchers -> Guards] /\ \A q \in Matchers : guard'[q] = IF q = p THEN h ELSE guard[q]
  BY <1>0, <1>1, <1>k DEF GuardType
<1>3. a \in AlertRecords
  BY <1>1 DEF AlertRecords
<1>4. /\ issued' \in Seq(AlertRecords) /\ Len(issued') = n /\ issued'[n] = a
      /\ \A i \in 1 .. Len(issued) : issued'[i] = issued[i]
  BY <1>0, <1>1, <1>3 DEF GuardType
<1>5. GuardType'
  <2>1. \A i \in 1 .. n : issued'[i].at <= now
    BY <1>1, <1>4 DEF GuardType
  <2>2. QED
    BY <1>0, <1>1, <1>2, <1>4, <2>1 DEF GuardType
<1>6. /\ \A q : IssuedBy(q) \subseteq 1 .. Len(issued)
      /\ \A q \in Matchers \ {p} : IssuedBy(q)' = IssuedBy(q)
      /\ n \notin IssuedBy(p) /\ IssuedBy(p) \subseteq IssuedBy(p)' /\ IssuedBy(p)' \subseteq IssuedBy(p) \cup {n}
      /\ n \in IssuedBy(p)'
  <2>1. \A q : IssuedBy(q) \subseteq 1 .. Len(issued)
    BY DEF IssuedBy
  <2>2. a.by = p
    OBVIOUS
  <2>3. \A q \in Matchers : \A i \in 1 .. Len(issued) : i \in IssuedBy(q)' <=> i \in IssuedBy(q)
    BY <1>0, <1>1, <1>4 DEF IssuedBy
  <2>4. \A q \in Matchers \ {p} : n \notin IssuedBy(q)'
    BY <1>4, <2>2 DEF IssuedBy
  <2>5. \A q \in Matchers : IssuedBy(q)' \subseteq 1 .. n
    BY <1>4 DEF IssuedBy
  <2>6. 1 .. n = 1 .. Len(issued) \cup {n} /\ n \notin 1 .. Len(issued)
    BY <1>1
  <2>7. n \in IssuedBy(p)'
    BY <1>0, <1>1, <1>4, <2>2 DEF IssuedBy
  <2>8. \A q \in Matchers : IssuedBy(q)' \subseteq IssuedBy(q) \cup {n}
    BY <2>3, <2>5, <2>6
  <2>9. \A q \in Matchers : IssuedBy(q) \subseteq IssuedBy(q)'
    BY <2>1, <2>3
  <2>10. \A q \in Matchers \ {p} : IssuedBy(q)' = IssuedBy(q)
    <3> SUFFICES ASSUME NEW q \in Matchers \ {p} PROVE IssuedBy(q)' = IssuedBy(q)
      OBVIOUS
    <3>1. n \notin IssuedBy(q)' /\ IssuedBy(q)' \subseteq IssuedBy(q) \cup {n} /\ IssuedBy(q) \subseteq IssuedBy(q)'
      BY <2>4, <2>8, <2>9
    <3>2. QED
      BY <3>1
  <2>11. n \notin IssuedBy(p)
    BY <2>1, <2>6
  <2>12. QED
    BY <2>1, <2>7, <2>8, <2>9, <2>10, <2>11
<1>7. \A q \in Matchers : \A i \in IssuedBy(q) : issued'[i] = issued[i] /\ i \in Nat /\ i < n
  BY <1>1, <1>4, <1>6
<1>8. a.entry = e /\ a.camera = c /\ a.at = now
  OBVIOUS
<1> HIDE DEF a
<1>9. /\ \A q \in Matchers \ {p} : \A x : IssuedOf(q, x)' = IssuedOf(q, x)
      /\ \A x : x # e => IssuedOf(p, x)' = IssuedOf(p, x)
      /\ IssuedOf(p, e) \subseteq IssuedOf(p, e)' /\ IssuedOf(p, e)' \subseteq IssuedOf(p, e) \cup {n}
      /\ n \in IssuedOf(p, e)'
  <2>1. ASSUME NEW q \in Matchers \ {p}, NEW x PROVE IssuedOf(q, x)' = IssuedOf(q, x)
    <3>1. IssuedBy(q)' = IssuedBy(q) /\ \A i \in IssuedBy(q) : issued'[i] = issued[i]
      BY <1>6, <1>7
    <3>2. QED
      BY <3>1 DEF IssuedOf
  <2>2. \A i \in IssuedBy(p) : issued'[i] = issued[i] /\ i # n
    BY <1>7
  <2>3. \A x : IssuedOf(p, x) \subseteq IssuedOf(p, x)' /\ IssuedOf(p, x)' \subseteq IssuedOf(p, x) \cup {n}
    BY <1>6, <2>2 DEF IssuedOf
  <2>4. issued'[n].entry = e
    BY <1>4, <1>8
  <2>5. n \in IssuedOf(p, e)' /\ \A x : x # e => n \notin IssuedOf(p, x)'
    BY <1>6, <2>4 DEF IssuedOf
  <2>6. ASSUME NEW x, x # e PROVE IssuedOf(p, x)' = IssuedOf(p, x)
    <3>1. /\ IssuedOf(p, x) \subseteq IssuedOf(p, x)' /\ IssuedOf(p, x)' \subseteq IssuedOf(p, x) \cup {n}
          /\ n \notin IssuedOf(p, x)'
      BY <2>3, <2>5, <2>6
    <3>2. QED
      BY <3>1
  <2>7. QED
    BY <2>1, <2>3, <2>5, <2>6
<1>10. ASSUME NEW q \in Matchers PROVE Recalls(q)'
  <2>1. CASE q # p
    <3>1. guard'[q] = guard[q] /\ now' = now
      BY <1>0, <1>2, <2>1
    <3>2. IssuedBy(q)' = IssuedBy(q) /\ \A x : IssuedOf(q, x)' = IssuedOf(q, x)
      BY <1>6, <1>9, <2>1
    <3>3. Recalls(q) /\ \A x : IssuedOf(q, x) \subseteq IssuedBy(q)
      BY <1>1 DEF IssuedOf
    <3>4. \A i \in IssuedBy(q) : issued'[i] = issued[i]
      BY <1>7
    <3>5. \A x : \A i \in IssuedOf(q, x) : issued'[i] = issued[i]
      BY <3>3, <3>4
    <3>6. \A i \in IssuedBy(q)' : guard'[q].last[<<issued'[i].entry, issued'[i].camera>>] >= issued'[i].at
      BY <3>1, <3>2, <3>3, <3>4 DEF Recalls
    <3>7. \A x \in Entries : \A r \in guard'[q].recent[x] :
            r[1] \in IssuedOf(q, x)' /\ r[2] = issued'[r[1]].at
      BY <3>1, <3>2, <3>3, <3>5 DEF Recalls
    <3>8. \A x \in Entries : \A i \in IssuedOf(q, x)' :
            now' - issued'[i].at <= Window => <<i, issued'[i].at>> \in guard'[q].recent[x]
      BY <3>1, <3>2, <3>3, <3>5 DEF Recalls
    <3>9. /\ \A x \in Entries :
               /\ x \in guard'[q].known => IssuedOf(q, x)' # {}
               /\ guard'[q].recent[x] # {} => x \in guard'[q].known
               /\ \A y \in Cameras : guard'[q].last[<<x, y>>] # -Cooldown => x \in guard'[q].known
          /\ guard'[q].disabled \subseteq guard'[q].known
      BY <3>1, <3>2, <3>3 DEF Recalls
    <3>10. QED
      BY <3>6, <3>7, <3>8, <3>9 DEF Recalls
  <2>2. CASE q = p
    <3>0. guard'[p] = h /\ now' = now
      BY <1>0, <1>2
    <3>l. \A k \in Entries \X Cameras : h.last[k] = IF k = <<e, c>> THEN now ELSE g.last[k]
      BY <1>g, <1>h
    <3>r. \A x \in Entries : h.recent[x] = IF x = e THEN g.recent[e] \cup {<<n, now>>} ELSE g.recent[x]
      BY <1>g, <1>h
    <3>k. h.known = g.known \cup {e} /\ h.disabled = g.disabled
      BY <1>h
    <3> HIDE DEF g
    <3>m. Recalls(p) /\ \A x : IssuedOf(p, x) \subseteq IssuedBy(p)
      BY <1>1 DEF IssuedOf
    <3>1. ASSUME NEW i \in IssuedBy(p)'
          PROVE  h.last[<<issued'[i].entry, issued'[i].camera>>] >= issued'[i].at
      <4>1. CASE i = n
        <5>1. now >= now
          BY <1>1
        <5>2. QED
          BY <1>4, <1>8, <3>l, <4>1, <5>1
      <4>2. CASE i # n
        <5>1. i \in IssuedBy(p) /\ issued'[i] = issued[i] /\ i \in 1 .. Len(issued)
          BY <1>6, <1>7, <4>2
        <5>2. /\ g.last[<<issued[i].entry, issued[i].camera>>] >= issued[i].at
              /\ issued[i].at <= now /\ issued[i].entry \in Entries /\ issued[i].camera \in Cameras
          BY <1>1, <3>m, <5>1, AlertRecord DEF Recalls, g
        <5>3. QED
          BY <3>l, <5>1, <5>2
      <4>3. QED
        BY <4>1, <4>2
    <3>2. ASSUME NEW x \in Entries, NEW r \in h.recent[x]
          PROVE  r[1] \in IssuedOf(p, x)' /\ r[2] = issued'[r[1]].at
      <4>1. CASE x = e /\ r = <<n, now>>
        BY <1>4, <1>8, <1>9, <4>1
      <4>2. CASE r \in g.recent[x]
        <5>1. r[1] \in IssuedOf(p, x) /\ r[2] = issued[r[1]].at
          BY <3>m, <4>2 DEF Recalls, g
        <5>2. QED
          BY <1>7, <1>9, <3>m, <5>1
      <4>3. QED
        BY <3>r, <4>1, <4>2
    <3>3. ASSUME NEW x \in Entries, NEW i \in IssuedOf(p, x)', now - issued'[i].at <= Window
          PROVE  <<i, issued'[i].at>> \in h.recent[x]
      <4>1. CASE x = e /\ i = n
        BY <1>4, <1>8, <3>r, <4>1
      <4>2. CASE i \in IssuedOf(p, x)
        <5>1. issued'[i] = issued[i]
          BY <1>7, <3>m, <4>2
        <5>2. <<i, issued[i].at>> \in g.recent[x]
          BY <3>3, <3>m, <4>2, <5>1 DEF Recalls, g
        <5>3. QED
          BY <3>r, <5>1, <5>2
      <4>3. QED
        BY <1>9, <4>1, <4>2
    <3>4. ASSUME NEW x \in Entries
          PROVE  /\ x \in h.known => IssuedOf(p, x)' # {}
                 /\ h.recent[x] # {} => x \in h.known
                 /\ \A y \in Cameras : h.last[<<x, y>>] # -Cooldown => x \in h.known
      <4>1. CASE x = e
        BY <1>9, <3>k, <4>1
      <4>2. CASE x # e
        BY <1>9, <3>k, <3>l, <3>m, <3>r, <4>2 DEF Recalls, g
      <4>3. QED
        BY <4>1, <4>2
    <3>5. h.disabled \subseteq h.known
      BY <3>k, <3>m DEF Recalls, g
    <3>6. QED
      BY <2>2, <3>0, <3>1, <3>2, <3>3, <3>4, <3>5 DEF Recalls
  <2>3. QED
    BY <2>1, <2>2
<1>11. ASSUME NEW q \in Matchers PROVE VerdictStands(q)'
  <2>1. CASE q = p
    BY <1>0, <2>1 DEF VerdictStands, IndInv, AlertType
  <2>2. CASE q # p
    <3>1. pc'[q] = pc[q] /\ entry'[q] = entry[q] /\ event'[q] = event[q] /\ guard'[q] = guard[q] /\ now' = now
      BY <1>0, <1>2, <2>2 DEF IndInv, AlertType
    <3>2. QED
      BY <1>1, <3>1 DEF VerdictStands, CoolingDown, Flooded, InWindow
  <2>3. QED
    BY <2>1, <2>2
<1>12. CooldownSpacing'
  <2> SUFFICES ASSUME NEW q \in Matchers, NEW i \in IssuedBy(q)', NEW j \in IssuedBy(q)', i < j,
                      issued'[i].entry = issued'[j].entry, issued'[i].camera = issued'[j].camera
               PROVE  issued'[j].at - issued'[i].at >= Cooldown
    BY DEF CooldownSpacing
  <2>0. i \in IssuedBy(q)
    BY <1>1, <1>4, <1>6 DEF IssuedBy
  <2>1. CASE j \in IssuedBy(q)
    BY <1>1, <1>7, <2>0, <2>1 DEF CooldownSpacing
  <2>2. CASE j \notin IssuedBy(q)
    <3>1. q = p /\ j = n
      BY <1>6, <2>2
    <3>2. issued'[i] = issued[i] /\ i \in 1 .. Len(issued)
      BY <1>6, <1>7, <2>0
    <3>3. g.last[<<e, c>>] >= issued[i].at /\ issued[i].at \in Nat
      BY <1>1, <1>4, <1>8, <2>0, <3>1, <3>2, AlertRecord DEF Recalls
    <3>4. ~(now - g.last[<<e, c>>] < Cooldown)
      BY <1>1 DEF VerdictStands, CoolingDown
    <3>5. g.last[<<e, c>>] \in Int
      BY <1>g
    <3>6. issued'[j].at = now /\ issued'[i].at = issued[i].at
      BY <1>4, <1>8, <3>1, <3>2
    <3>7. now - issued[i].at >= Cooldown
      <4>1. PICK l \in Int : l = g.last[<<e, c>>]
        BY <3>5
      <4>2. PICK t \in Nat : t = issued[i].at
        BY <3>3
      <4>3. l >= t /\ ~(now - l < Cooldown)
        BY <3>3, <3>4, <4>1, <4>2
      <4>4. now - t >= Cooldown
        BY <1>1, <4>3
      <4>5. QED
        BY <4>2, <4>4
    <3>8. QED
      BY <3>6, <3>7
  <2>3. QED
    BY <2>1, <2>2
<1>13. FloodBound'
  <2> SUFFICES ASSUME NEW q \in Matchers, NEW i \in IssuedBy(q)'
               PROVE  Cardinality(Burst(q, i)') <= IF Threshold = 0 THEN 1 ELSE Threshold
    BY DEF FloodBound, Burst
  <2>1. CASE i \in IssuedBy(q)
    <3>1. Burst(q, i)' = Burst(q, i)
      <4>1. issued'[i] = issued[i] /\ i \in Nat /\ i < n
        BY <1>7, <2>1
      <4>2. \A j \in IssuedBy(q)' : j <= i => j \in IssuedBy(q)
        BY <1>1, <1>6, <4>1
      <4>3. \A j \in IssuedBy(q) : j \in IssuedBy(q)' /\ issued'[j] = issued[j]
        BY <1>6, <1>7
      <4>4. QED
        BY <4>1, <4>2, <4>3 DEF Burst
    <3>2. QED
      BY <1>1, <2>1, <3>1 DEF FloodBound, Burst
  <2>2. CASE i \notin IssuedBy(q)
    <3>1. q = p /\ i = n
      BY <1>6, <2>2
    <3> DEFINE S == Burst(p, n)' \ {n}
    <3>2. \A j \in S : j \in IssuedOf(p, e) /\ now - issued[j].at <= Window
      <4>1. issued'[n].entry = e /\ issued'[n].at = now
        BY <1>4, <1>8
      <4>2. \A j \in S : j \in IssuedBy(p) /\ issued'[j] = issued[j]
        BY <1>6, <1>7 DEF Burst
      <4>3. \A j \in S : issued'[j].entry = e /\ now - issued'[j].at <= Window
        BY <4>1 DEF Burst
      <4>4. QED
        BY <4>2, <4>3 DEF IssuedOf
    <3>3. IsFiniteSet(S) /\ Cardinality(S) \in Nat /\ Cardinality(S) <= Cardinality(InWindow(g, e))
      BY <1>1, <3>2, WindowCounts
    <3>4. Cardinality(InWindow(g, e)) \in Nat
      BY <1>1, WindowFinite
    <3>5. Cardinality(S) <= IF Threshold = 0 THEN 0 ELSE Threshold - 1
      <4>1. e \notin g.known \/ ~(Cardinality(InWindow(g, e)) >= Threshold)
        BY <1>1 DEF VerdictStands, Flooded
      <4>2. CASE e \notin g.known
        <5>1. InWindow(g, e) = {}
          BY <1>1, <4>2 DEF Recalls, InWindow
        <5>2. Cardinality(S) = 0
          BY <3>3, <3>4, <5>1, FS_EmptySet
        <5>3. QED
          BY <5>2
      <4>3. CASE ~(Cardinality(InWindow(g, e)) >= Threshold)
        BY <3>3, <3>4, <4>3
      <4>4. QED
        BY <4>1, <4>2, <4>3
    <3>6. Burst(p, n)' \subseteq S \cup {n}
      OBVIOUS
    <3> HIDE DEF S
    <3>7. IsFiniteSet(S \cup {n}) /\ Cardinality(S \cup {n}) <= Cardinality(S) + 1
          /\ Cardinality(S \cup {n}) \in Nat
      <4>1. /\ IsFiniteSet(S \cup {n})
            /\ Cardinality(S \cup {n}) = IF n \in S THEN Cardinality(S) ELSE Cardinality(S) + 1
        BY <3>3, FS_AddElement
      <4>2. QED
        BY <3>3, <4>1
    <3>8. Cardinality(Burst(p, n)') <= Cardinality(S \cup {n}) /\ Cardinality(Burst(p, n)') \in Nat
      BY <3>6, <3>7, FS_Subset, FS_CardinalityType
    <3>9. Cardinality(Burst(p, n)') <= IF Threshold = 0 THEN 1 ELSE Threshold
      BY <3>3, <3>5, <3>7, <3>8
    <3>10. QED
      BY <3>1, <3>9
  <2>3. QED
    BY <2>1, <2>2
<1>14. DisabledForCause'
  <2> SUFFICES ASSUME NEW q \in Matchers, NEW x \in guard'[q].disabled
               PROVE  \E t \in 0 .. now' : Cardinality(Around(q, x, t)') >= Threshold
    BY DEF DisabledForCause, Around
  <2>1. x \in guard[q].disabled
    BY <1>2, <1>h
  <2>2. PICK t \in 0 .. now : Cardinality(Around(q, x, t)) >= Threshold
    BY <1>1, <2>1 DEF DisabledForCause, Around
  <2>3. Around(q, x, t) \subseteq Around(q, x, t)'
    BY <1>6, <1>7 DEF Around
  <2>4. Around(q, x, t)' \subseteq 1 .. n
    BY <1>4 DEF Around, IssuedBy
  <2>5. IsFiniteSet(1 .. n)
    BY NumbersFinite
  <2>6. IsFiniteSet(Around(q, x, t)')
    BY <2>4, <2>5, FS_Subset
  <2>7. /\ Cardinality(Around(q, x, t)) <= Cardinality(Around(q, x, t)')
        /\ Cardinality(Around(q, x, t)) \in Nat /\ Cardinality(Around(q, x, t)') \in Nat
    BY <2>3, <2>6, FS_Subset, FS_CardinalityType
  <2>8. Cardinality(Around(q, x, t)') >= Threshold
    BY <2>2, <2>7
  <2>9. QED
    BY <1>0, <2>8
<1>15. QED
  BY <1>5, <1>10, <1>11, <1>12, <1>13, <1>14 DEF GuardInv

\* A process comes back with nothing to remember, and nothing that it has recorded.
LEMMA CrashGuard ==
  ASSUME GuardInv, IndInv, NEW p \in Matchers, Crash(p)
  PROVE  GuardInv'
<1> USE MatcherAssumption
<1>0. /\ guard' = [guard EXCEPT ![p] = NewGuard] /\ born' = [born EXCEPT ![p] = Len(issued)]
      /\ pc' = [pc EXCEPT ![p] = "idle"] /\ event' = [event EXCEPT ![p] = None]
      /\ entry' = [entry EXCEPT ![p] = None] /\ UNCHANGED <<now, issued>>
  BY DEF Crash, Idle
<1>1. /\ GuardType /\ now \in 0 .. MaxTime /\ Len(issued) \in Nat
      /\ \A q \in Matchers : Recalls(q) /\ VerdictStands(q)
      /\ CooldownSpacing /\ FloodBound /\ DisabledForCause
      /\ born \in [Matchers -> Nat]
  BY DEF GuardInv, GuardType
<1>2. NewGuard \in Guards
  BY DEF NewGuard, Guards
<1>3. guard' \in [Matchers -> Guards] /\ \A q \in Matchers : guard'[q] = IF q = p THEN NewGuard ELSE guard[q]
  BY <1>0, <1>1, <1>2 DEF GuardType
<1>4. GuardType'
  BY <1>0, <1>1, <1>3 DEF GuardType
<1>5. /\ \A q \in Matchers \ {p} : IssuedBy(q)' = IssuedBy(q)
      /\ IssuedBy(p)' = {}
  BY <1>0, <1>1 DEF IssuedBy
<1>6. /\ \A q \in Matchers \ {p} : \A x : IssuedOf(q, x)' = IssuedOf(q, x)
      /\ \A x : IssuedOf(p, x)' = {}
  BY <1>0, <1>5 DEF IssuedOf
<1>7. ASSUME NEW q \in Matchers PROVE Recalls(q)'
  <2>1. CASE q # p
    <3>1. guard'[q] = guard[q] /\ now' = now /\ issued' = issued /\ IssuedBy(q)' = IssuedBy(q)
          /\ \A x : IssuedOf(q, x)' = IssuedOf(q, x)
      BY <1>0, <1>3, <1>5, <1>6, <2>1
    <3>2. Recalls(q)
      BY <1>1
    <3>3. QED
      BY <3>1, <3>2 DEF Recalls
  <2>2. CASE q = p
    <3>1. guard'[q] = NewGuard /\ IssuedBy(q)' = {} /\ \A x : IssuedOf(q, x)' = {}
      BY <1>3, <1>5, <1>6, <2>2
    <3>2. QED
      BY <3>1 DEF Recalls, NewGuard
  <2>3. QED
    BY <2>1, <2>2
<1>8. ASSUME NEW q \in Matchers PROVE VerdictStands(q)'
  <2>1. CASE q = p
    BY <1>0, <2>1 DEF VerdictStands, IndInv, AlertType
  <2>2. CASE q # p
    <3>1. pc'[q] = pc[q] /\ entry'[q] = entry[q] /\ event'[q] = event[q] /\ guard'[q] = guard[q] /\ now' = now
      BY <1>0, <1>3, <2>2 DEF IndInv, AlertType
    <3>2. QED
      BY <1>1, <3>1 DEF VerdictStands, CoolingDown, Flooded, InWindow
  <2>3. QED
    BY <2>1, <2>2
<1>9. CooldownSpacing'
  BY <1>0, <1>1, <1>5 DEF CooldownSpacing
<1>10. FloodBound'
  <2>1. ASSUME NEW q \in Matchers, q # p, NEW i \in IssuedBy(q)'
        PROVE  Burst(q, i)' = Burst(q, i) /\ i \in IssuedBy(q)
    BY <1>0, <1>5, <2>1 DEF Burst
  <2>2. QED
    <3> SUFFICES ASSUME NEW q \in Matchers, NEW i \in IssuedBy(q)'
                 PROVE  Cardinality(Burst(q, i)') <= IF Threshold = 0 THEN 1 ELSE Threshold
      BY DEF FloodBound, Burst
    <3>1. q # p
      BY <1>5
    <3>2. Burst(q, i)' = Burst(q, i) /\ i \in IssuedBy(q)
      BY <2>1, <3>1
    <3>3. QED
      BY <1>1, <3>2 DEF FloodBound, Burst
<1>11. DisabledForCause'
  <2> SUFFICES ASSUME NEW q \in Matchers, NEW x \in guard'[q].disabled
               PROVE  \E t \in 0 .. now : Cardinality(Around(q, x, t)') >= Threshold
    <3>1. now' = now
      BY <1>0
    <3>2. QED
      BY <3>1 DEF DisabledForCause, Around
  <2>1. q # p /\ x \in guard[q].disabled
    BY <1>3 DEF NewGuard
  <2>2. \A t : Around(q, x, t)' = Around(q, x, t)
    BY <1>0, <1>5, <2>1 DEF Around
  <2>3. QED
    <3>1. \E t \in 0 .. now : Cardinality(Around(q, x, t)) >= Threshold
      BY <1>1, <2>1 DEF DisabledForCause, Around
    <3>2. QED
      BY <2>2, <3>1
<1>12. QED
  BY <1>4, <1>7, <1>8, <1>9, <1>10, <1>11 DEF GuardInv

LEMMA InitGuardInv == Init => GuardInv
<1> SUFFICES ASSUME Init PROVE GuardInv
  OBVIOUS
<1> USE MatcherAssumption
<1>1. /\ now = 0 /\ issued = <<>> /\ born = [p \in Matchers |-> 0] /\ guard = [p \in Matchers |-> NewGuard]
      /\ pc = [p \in Matchers |-> "idle"]
  BY DEF Init
<1>2. \A p \in Matchers : guard[p] = NewGuard /\ pc[p] = "idle"
  BY <1>1
<1>3. \A p, e : IssuedBy(p) = {} /\ IssuedOf(p, e) = {}
  BY <1>1 DEF IssuedBy, IssuedOf
<1>4. NewGuard \in Guards
  BY DEF NewGuard, Guards
<1>5. GuardType
  <2>1. issued \in Seq(AlertRecords) /\ Len(issued) = 0
    BY <1>1
  <2>2. QED
    BY <1>1, <1>4, <2>1 DEF GuardType
<1>6. ASSUME NEW p \in Matchers PROVE Recalls(p) /\ VerdictStands(p)
  BY <1>2, <1>3 DEF Recalls, VerdictStands, NewGuard
<1>7. CooldownSpacing /\ FloodBound
  BY <1>3 DEF CooldownSpacing, FloodBound
<1>8. DisabledForCause
  BY <1>2 DEF DisabledForCause, NewGuard
<1>9. QED
  BY <1>5, <1>6, <1>7, <1>8 DEF GuardInv

\* Who goes idle asks for no verdict.
LEMMA IdleKeepsHistory ==
  ASSUME GuardInv, IndInv, NEW p \in Matchers, Idle(p), UNCHANGED <<now, issued, born, guard>>
  PROVE  GuardInv'
<1>1. \A q \in Matchers : pc'[q] \in {"lookup", "insert"} =>
        pc[q] \in {"lookup", "insert"} /\ entry'[q] = entry[q] /\ event'[q] = event[q]
  BY DEF Idle, IndInv, AlertType
<1>2. QED
  BY <1>1, HistoryKept

LEMMA StepGuardInv == GuardInv /\ IndInv /\ [Next]_vars => GuardInv'
<1> SUFFICES ASSUME GuardInv, IndInv, [Next]_vars PROVE GuardInv'
  OBVIOUS
<1>1. ASSUME NEW p \in Matchers, NEW d \in Detections, Take(p, d) PROVE GuardInv'
  <2>1. \A q \in Matchers : pc'[q] \in {"lookup", "insert"} =>
          pc[q] \in {"lookup", "insert"} /\ entry'[q] = entry[q] /\ event'[q] = event[q]
    BY <1>1 DEF Take, IndInv, AlertType
  <2>2. QED
    BY <1>1, <2>1, HistoryKept DEF Take
<1>2. ASSUME NEW p \in Matchers, NEW e \in Entries, Check(p, e) PROVE GuardInv'
  BY <1>2, CheckGuard
<1>3. ASSUME NEW p \in Matchers, Lookup(p) PROVE GuardInv'
  <2>1. pc[p] = "lookup" /\ UNCHANGED <<now, born>>
    BY <1>3 DEF Lookup
  <2>2. CASE Committed(p)
    BY <2>1, <2>2, CommittedGuard
  <2>3. CASE Miss(p) /\ UNCHANGED <<event, entry, guard, issued>>
    <3>1. \A q \in Matchers : pc'[q] \in {"lookup", "insert"} =>
            pc[q] \in {"lookup", "insert"} /\ entry'[q] = entry[q] /\ event'[q] = event[q]
      BY <2>1, <2>3 DEF Miss, IndInv, AlertType
    <3>2. QED
      BY <2>1, <2>3, <3>1, HistoryKept
  <2>4. CASE Fail(p) /\ UNCHANGED <<guard, issued>>
    BY <2>1, <2>4, IdleKeepsHistory DEF Fail
  <2>5. QED
    BY <1>3, <2>2, <2>3, <2>4 DEF Lookup
<1>4. ASSUME NEW p \in Matchers, Insert(p) PROVE GuardInv'
  <2>1. pc[p] = "insert" /\ UNCHANGED <<now, born>>
    BY <1>4 DEF Insert
  <2>2. CASE Committed(p)
    BY <2>1, <2>2, CommittedGuard
  <2>3. CASE FailedCommit(p)
    BY <2>1, <2>3, IdleKeepsHistory DEF Fail, FailedCommit
  <2>4. QED
    BY <1>4, <2>2, <2>3 DEF Insert
<1>5. ASSUME NEW p \in Matchers, Publish(p) PROVE GuardInv'
  <2>1. UNCHANGED <<now, issued, born, guard>>
    BY <1>5 DEF Publish
  <2>2. CASE Fail(p)
    BY <2>1, <2>2, IdleKeepsHistory DEF Fail
  <2>3. CASE pc' = [pc EXCEPT ![p] = "match"] /\ entry' = [entry EXCEPT ![p] = None] /\ event' = event
    <3>1. \A q \in Matchers : pc'[q] \in {"lookup", "insert"} =>
            pc[q] \in {"lookup", "insert"} /\ entry'[q] = entry[q] /\ event'[q] = event[q]
      BY <2>3 DEF IndInv, AlertType
    <3>2. QED
      BY <2>1, <3>1, HistoryKept
  <2>4. QED
    BY <1>5, <2>2, <2>3 DEF Publish
<1>6. ASSUME NEW p \in Matchers, Done(p) PROVE GuardInv'
  BY <1>6, IdleKeepsHistory DEF Done
<1>7. ASSUME NEW p \in Matchers, Crash(p) PROVE GuardInv'
  BY <1>7, CrashGuard
<1>8. CASE Tick
  BY <1>8, TickGuard
<1>9. CASE UNCHANGED vars
  BY <1>9, HistoryKept DEF vars, job
<1>10. QED
  BY <1>1, <1>2, <1>3, <1>4, <1>5, <1>6, <1>7, <1>8, <1>9 DEF Next, Step, Quiet

\* What TypeOK says besides: the clock, the dead letters, the retries and the bounds.
CountType ==
  /\ deadLetters \subseteq Detections
  /\ attempts \in [Matchers -> [Detections -> 0 .. (MaxRetries - 1)]]
  /\ crashes \in 0 .. MaxCrashes /\ faults \in 0 .. MaxFaults

LEMMA InitCountType == Init => CountType
BY MatcherAssumption DEF Init, CountType

LEMMA FailCounts ==
  ASSUME CountType, NEW p \in Matchers, event[p] \in Detections, Fail(p), UNCHANGED crashes
  PROVE  CountType'
<1> USE MatcherAssumption
<1>1. faults' \in 0 .. MaxFaults
  BY DEF Fail, Fault, CountType
<1>2. deadLetters' \subseteq Detections
  BY DEF Fail, CountType
<1>3. attempts' \in [Matchers -> [Detections -> 0 .. (MaxRetries - 1)]]
  <2>1. CASE MayRetry(p)
    <3>1. attempts' = [attempts EXCEPT ![p] = [attempts[p] EXCEPT ![event[p]] = attempts[p][event[p]] + 1]]
      BY <2>1 DEF Fail
    <3>2. attempts[p][event[p]] + 1 \in 0 .. (MaxRetries - 1)
      BY <2>1 DEF MayRetry, CountType
    <3>3. QED
      BY <3>1, <3>2 DEF CountType
  <2>2. CASE ~MayRetry(p)
    <3>1. attempts' = [attempts EXCEPT ![p] = [attempts[p] EXCEPT ![event[p]] = 0]]
      BY <2>2 DEF Fail
    <3>2. QED
      BY <3>1 DEF CountType
  <2>3. QED
    BY <2>1, <2>2
<1>4. QED
  BY <1>1, <1>2, <1>3 DEF CountType

LEMMA StepCountType == CountType /\ IndInv /\ [Next]_vars => CountType'
<1> SUFFICES ASSUME CountType, IndInv, [Next]_vars PROVE CountType'
  OBVIOUS
<1> USE MatcherAssumption
<1>0. \A p \in Matchers : pc[p] # "idle" => event[p] \in Detections
  BY DEF IndInv, AtWork
<1>1. ASSUME NEW p \in Matchers, Step(p) PROVE CountType'
  <2>1. ASSUME pc[p] # "idle", Fail(p), UNCHANGED crashes PROVE CountType'
    BY <1>0, <2>1, FailCounts
  <2>2. CASE Done(p)
    <3>1. event[p] \in Detections /\ UNCHANGED <<deadLetters, crashes, faults>>
          /\ attempts' = [attempts EXCEPT ![p] = [attempts[p] EXCEPT ![event[p]] = 0]]
      BY <1>0, <2>2 DEF Done
    <3>2. QED
      BY <3>1 DEF CountType
  <2>3. CASE UNCHANGED <<deadLetters, attempts, crashes, faults>>
    BY <2>3 DEF CountType
  <2>4. CASE \E d \in Detections : Take(p, d)
    BY <2>3, <2>4 DEF Take
  <2>5. CASE \E e \in Entries : Check(p, e)
    BY <2>3, <2>5 DEF Check
  <2>6. CASE Lookup(p)
    BY <2>1, <2>3, <2>6 DEF Lookup, Committed
  <2>7. CASE Insert(p)
    BY <2>1, <2>3, <2>7 DEF Insert, Committed, FailedCommit
  <2>8. CASE Publish(p)
    BY <2>1, <2>3, <2>8 DEF Publish
  <2>9. QED
    BY <1>1, <2>2, <2>4, <2>5, <2>6, <2>7, <2>8 DEF Step
<1>2. ASSUME NEW p \in Matchers, Crash(p) PROVE CountType'
  BY <1>2 DEF Crash, CountType
<1>3. CASE Tick \/ UNCHANGED vars
  BY <1>3 DEF Tick, vars, job, CountType
<1>4. QED
  BY <1>1, <1>2, <1>3 DEF Next, Quiet

LEMMA SafeguardImplied == IndInv /\ GuardInv /\ CountType => SafeguardHolds
<1> SUFFICES ASSUME IndInv, GuardInv, CountType PROVE TypeOK
  BY DEF SafeguardHolds, GuardInv
<1>1. /\ now \in 0 .. MaxTime /\ \A p \in Matchers : guard[p] \in Guards /\ Recalls(p)
      /\ GuardType
  BY DEF GuardInv, GuardType
<1>2. ASSUME NEW p \in Matchers
      PROVE  /\ guard[p].last \in [Entries \X Cameras -> -Cooldown .. MaxTime]
             /\ \A e \in Entries : guard[p].recent[e] \subseteq (1 .. Len(issued)) \X (0 .. now)
             /\ guard[p].known \subseteq Entries /\ guard[p].disabled \subseteq guard[p].known
  <2>1. /\ guard[p].last \in [Entries \X Cameras -> -Cooldown .. MaxTime]
        /\ guard[p].known \subseteq Entries /\ guard[p].recent \in [Entries -> SUBSET (Nat \X Nat)]
    BY <1>1, GuardRecord
  <2>2. ASSUME NEW e \in Entries, NEW r \in guard[p].recent[e]
        PROVE  r \in (1 .. Len(issued)) \X (0 .. now)
    <3>1. r \in Nat \X Nat /\ r[1] \in IssuedOf(p, e) /\ r[2] = issued[r[1]].at
      BY <1>1, <2>1, <2>2 DEF Recalls
    <3>2. r[1] \in 1 .. Len(issued)
      BY <3>1 DEF IssuedOf, IssuedBy
    <3>3. r[2] \in 0 .. now
      BY <1>1, <3>1, <3>2, AlertRecord
    <3>4. QED
      BY <3>1, <3>2, <3>3
  <2>3. guard[p].disabled \subseteq guard[p].known
    BY <1>1 DEF Recalls
  <2>4. QED
    BY <2>1, <2>2, <2>3
<1>3. QED
  BY <1>1, <1>2 DEF TypeOK, IndInv, AlertType, CountType, Labels

\* However long a commit takes and whatever else fails in between: the alerts one running matcher
\* records for an entry keep the cooldown on each camera and the flood threshold in every window,
\* and an entry is disabled only after a window that was full (dsai_matcher.py 142-204), for any
\* settings of the safeguard, any clock, and any number of matchers, entries and detections.
THEOREM SafeguardIsKept == Spec => []SafeguardHolds
<1>1. Init => IndInv /\ GuardInv /\ CountType
  BY InitIndInv, InitGuardInv, InitCountType
<1>2. (IndInv /\ GuardInv /\ CountType) /\ [Next]_vars => (IndInv /\ GuardInv /\ CountType)'
  BY NextIndInv, StepGuardInv, StepCountType
<1>3. IndInv /\ GuardInv /\ CountType => SafeguardHolds
  BY SafeguardImplied
<1>4. QED
  BY <1>1, <1>2, <1>3, PTL DEF Spec

--------------------------------------------------------------------------------
(* Matches and alerts: nothing is suppressed but for an alert of the same entry.                   *)

Recorded(e) == \E i \in 1 .. Len(issued) : issued[i].entry = e
HasRow(e) == \E k \in Detections : rows[<<e, k>>] > 0

\* An alert that was recorded has its row; a match that was dealt with is of an entry with a row, or
\* of the one that is at its row; and so are the matches of an event that is settled.
MatchInv ==
  /\ \A e \in Entries : Recorded(e) => HasRow(e)
  /\ \A p \in Matchers, e \in Entries :
       pc[p] # "idle" /\ <<e, event[p]>> \in Matches /\ e \notin todo[p]
         => HasRow(e) \/ (pc[p] \in {"lookup", "insert"} /\ entry[p] = e)
  /\ MatchesAccountedFor

LEMMA InitMatchInv == Init => MatchInv
<1> SUFFICES ASSUME Init PROVE MatchInv
  OBVIOUS
<1>1. issued = <<>> /\ pending = Detections /\ \A p \in Matchers : pc[p] = "idle"
  BY DEF Init
<1>2. Len(issued) = 0
  BY <1>1
<1>3. MatchesAccountedFor
  BY <1>1 DEF MatchesAccountedFor
<1>4. QED
  BY <1>1, <1>2, <1>3 DEF MatchInv, Recorded

\* Rows are never deleted.
LEMMA RowsStay ==
  ASSUME IndInv, NEW k \in Keys, AddRow(k) \/ UNCHANGED rows
  PROVE  /\ \A j \in Keys : rows'[j] \in Nat /\ rows'[j] >= rows[j]
         /\ AddRow(k) => rows'[k] > 0
         /\ \A e \in Entries : HasRow(e) => HasRow(e)'
<1>1. /\ \A j \in Keys : rows'[j] \in Nat /\ rows[j] \in Nat /\ rows'[j] >= rows[j]
      /\ AddRow(k) => rows'[k] > 0
  BY DEF IndInv, AlertType, AddRow
<1>2. ASSUME NEW e \in Entries, HasRow(e) PROVE HasRow(e)'
  <2>1. PICK d \in Detections : rows[<<e, d>>] > 0
    BY <1>2 DEF HasRow
  <2>2. rows'[<<e, d>>] > 0
    BY <1>1, <2>1 DEF Keys
  <2>3. QED
    BY <2>2 DEF HasRow
<1>3. QED
  BY <1>1, <1>2

\* An entry that the safeguard suppresses was alerted.
LEMMA SuppressedHasRow ==
  ASSUME IndInv, GuardInv, MatchInv, NEW p \in Matchers, NEW e \in Entries, NEW c \in Cameras,
         Suppressed(guard[p], e, c)
  PROVE  HasRow(e)
<1> USE MatcherAssumption
<1>1. Recalls(p) /\ now \in Nat
  BY DEF GuardInv, GuardType
<1>2. e \in guard[p].known
  <2>1. CASE e \in guard[p].disabled
    BY <1>1, <2>1 DEF Recalls
  <2>2. CASE CoolingDown(guard[p], e, c)
    <3>1. guard[p].last[<<e, c>>] # -Cooldown
      BY <1>1, <2>2 DEF CoolingDown
    <3>2. QED
      BY <1>1, <3>1 DEF Recalls
  <2>3. CASE Flooded(guard[p], e)
    BY <2>3 DEF Flooded
  <2>4. QED
    BY <2>1, <2>2, <2>3 DEF Suppressed
<1>3. PICK i \in IssuedOf(p, e) : TRUE
  BY <1>1, <1>2 DEF Recalls
<1>4. i \in 1 .. Len(issued) /\ issued[i].entry = e
  BY DEF IssuedOf, IssuedBy
<1>5. QED
  BY <1>4 DEF MatchInv, Recorded

\* Steps that record no alert, lose no row, and settle at most a dead letter.
LEMMA MatchKept ==
  ASSUME MatchInv, GuardInv, IndInv, UNCHANGED issued, \A e \in Entries : HasRow(e) => HasRow(e)',
         \A d \in Detections \ (pending' \cup deadLetters') : d \notin pending \cup deadLetters,
         \A p \in Matchers : pc'[p] # "idle" =>
           /\ pc[p] # "idle" /\ event'[p] = event[p] /\ todo'[p] = todo[p]
           /\ pc[p] \in {"lookup", "insert"} => pc'[p] \in {"lookup", "insert"} /\ entry'[p] = entry[p]
  PROVE  MatchInv'
<1>1. \A e \in Entries : Recorded(e)' => HasRow(e)'
  BY DEF MatchInv, Recorded
<1>2. ASSUME NEW p \in Matchers, NEW e \in Entries, pc'[p] # "idle", <<e, event'[p]>> \in Matches, e \notin todo'[p]
      PROVE  HasRow(e)' \/ (pc'[p] \in {"lookup", "insert"} /\ entry'[p] = e)
  BY <1>2 DEF MatchInv
<1>3. MatchesAccountedFor'
  <2> SUFFICES ASSUME NEW e \in Entries, NEW d \in Detections, <<e, d>> \in Matches,
                      d \notin pending' \cup deadLetters'
               PROVE  \E k \in Detections : rows'[<<e, k>>] > 0
    BY DEF MatchesAccountedFor
  <2>1. HasRow(e)
    BY DEF MatchInv, MatchesAccountedFor, HasRow
  <2>2. QED
    BY <2>1 DEF HasRow
<1>4. QED
  BY <1>1, <1>2, <1>3 DEF MatchInv

\* An alert is recorded once its row is there.
LEMMA CommittedMatch ==
  ASSUME MatchInv, GuardInv, IndInv, NEW p \in Matchers, pc[p] \in {"lookup", "insert"}, Committed(p),
         \/ rows[Alert(p)] > 0 /\ UNCHANGED rows
         \/ AddRow(Alert(p))
  PROVE  MatchInv'
<1>1. entry[p] \in Entries /\ event[p] \in Detections /\ Alert(p) \in Keys
  BY DEF IndInv, AtWork, Keys, Alert
<1> PICK x \in Entries : x = entry[p]
  BY <1>1
<1> PICK d \in Detections : d = event[p]
  BY <1>1
<1>2. <<x, d>> = Alert(p) /\ <<x, d>> \in Keys
  BY <1>1 DEF Alert
<1>3. /\ rows'[<<x, d>>] > 0
      /\ \A e \in Entries : HasRow(e) => HasRow(e)'
  <2>1. AddRow(<<x, d>>) \/ (rows[<<x, d>>] > 0 /\ UNCHANGED rows)
    BY <1>2
  <2>2. QED
    BY <1>2, <2>1, RowsStay
<1>4. HasRow(x)'
  BY <1>3 DEF HasRow
<1>5. /\ issued' = Append(issued, [by |-> p, entry |-> x, camera |-> CameraOf[d], at |-> now])
      /\ pc' = [pc EXCEPT ![p] = "publish"] /\ UNCHANGED <<event, todo, entry, pending, deadLetters>>
  BY DEF Committed
<1>6. ASSUME NEW e \in Entries, Recorded(e)' PROVE HasRow(e)'
  <2>0. issued \in Seq(AlertRecords)
    BY DEF GuardInv, GuardType
  <2>1. PICK i \in 1 .. Len(issued') : issued'[i].entry = e
    BY <1>6 DEF Recorded
  <2>2. CASE i \in 1 .. Len(issued)
    <3>1. issued'[i] = issued[i]
      BY <1>5, <2>0, <2>2
    <3>2. QED
      BY <1>3, <2>1, <2>2, <3>1 DEF MatchInv, Recorded
  <2>3. CASE i \notin 1 .. Len(issued)
    <3>1. i = Len(issued) + 1
      BY <1>5, <2>0, <2>3
    <3>2. issued'[i] = [by |-> p, entry |-> x, camera |-> CameraOf[d], at |-> now]
      BY <1>5, <2>0, <3>1
    <3>3. e = x
      BY <2>1, <3>2
    <3>4. QED
      BY <1>4, <3>3
  <2>4. QED
    BY <2>2, <2>3
<1>7. ASSUME NEW q \in Matchers, NEW e \in Entries, pc'[q] # "idle", <<e, event'[q]>> \in Matches, e \notin todo'[q]
      PROVE  HasRow(e)' \/ (pc'[q] \in {"lookup", "insert"} /\ entry'[q] = e)
  <2>1. CASE q # p
    BY <1>3, <1>5, <1>7, <2>1 DEF MatchInv, IndInv, AlertType
  <2>2. CASE q = p
    BY <1>3, <1>4, <1>5, <1>7, <2>2 DEF MatchInv, IndInv, AlertType
  <2>3. QED
    BY <2>1, <2>2
<1>8. MatchesAccountedFor'
  <2> SUFFICES ASSUME NEW e \in Entries, NEW k \in Detections, <<e, k>> \in Matches,
                      k \notin pending' \cup deadLetters'
               PROVE  \E j \in Detections : rows'[<<e, j>>] > 0
    BY DEF MatchesAccountedFor
  <2>1. HasRow(e)
    BY <1>5 DEF MatchInv, MatchesAccountedFor, HasRow
  <2>2. QED
    BY <1>3, <2>1 DEF HasRow
<1>9. QED
  BY <1>6, <1>7, <1>8 DEF MatchInv

LEMMA FailMatch ==
  ASSUME MatchInv, GuardInv, IndInv, NEW p \in Matchers, pc[p] \in {"lookup", "insert", "publish"}, Fail(p),
         UNCHANGED issued, AddRow(Alert(p)) \/ UNCHANGED rows
  PROVE  MatchInv'
<1>1. entry[p] \in Entries /\ event[p] \in Detections
  BY DEF IndInv, AtWork
<1> PICK k \in Keys : k = Alert(p)
  BY <1>1 DEF Keys, Alert
<1>2. \A e \in Entries : HasRow(e) => HasRow(e)'
  BY RowsStay
<1>3. \A d \in Detections \ (pending' \cup deadLetters') : d \notin pending \cup deadLetters
  BY DEF Fail
<1>4. \A q \in Matchers : pc'[q] # "idle" =>
        /\ pc[q] # "idle" /\ event'[q] = event[q] /\ todo'[q] = todo[q]
        /\ pc[q] \in {"lookup", "insert"} => pc'[q] \in {"lookup", "insert"} /\ entry'[q] = entry[q]
  BY DEF Fail, Idle, IndInv, AlertType
<1>5. QED
  BY <1>2, <1>3, <1>4, MatchKept

LEMMA StepMatchInv == MatchInv /\ GuardInv /\ IndInv /\ [Next]_vars => MatchInv'
<1> SUFFICES ASSUME MatchInv, GuardInv, IndInv, [Next]_vars PROVE MatchInv'
  OBVIOUS
<1> USE MatcherAssumption
<1>r. rows' = rows => \A e \in Entries : HasRow(e) => HasRow(e)'
  BY DEF HasRow
<1>1. ASSUME NEW p \in Matchers, NEW d \in Detections, Take(p, d) PROVE MatchInv'
  <2>1. /\ UNCHANGED <<issued, rows, pending, deadLetters, entry>> /\ pc[p] = "idle"
        /\ event' = [event EXCEPT ![p] = d] /\ todo' = [todo EXCEPT ![p] = {e \in Entries : <<e, d>> \in Matches}]
        /\ pc' = [pc EXCEPT ![p] = "match"]
    BY <1>1 DEF Take, MatchesOf
  <2>2. \A e \in Entries : Recorded(e)' => HasRow(e)'
    BY <2>1 DEF MatchInv, Recorded, HasRow
  <2>3. ASSUME NEW q \in Matchers, NEW e \in Entries, pc'[q] # "idle", <<e, event'[q]>> \in Matches, e \notin todo'[q]
        PROVE  HasRow(e)' \/ (pc'[q] \in {"lookup", "insert"} /\ entry'[q] = e)
    <3>1. CASE q = p
      BY <2>1, <2>3, <3>1 DEF IndInv, AlertType
    <3>2. CASE q # p
      BY <2>1, <2>3, <3>2 DEF MatchInv, IndInv, AlertType, HasRow
    <3>3. QED
      BY <3>1, <3>2
  <2>4. MatchesAccountedFor'
    BY <2>1 DEF MatchInv, MatchesAccountedFor
  <2>5. QED
    BY <2>2, <2>3, <2>4 DEF MatchInv
<1>2. ASSUME NEW p \in Matchers, NEW x \in Entries, Check(p, x) PROVE MatchInv'
  <2> PICK c \in Cameras : c = CameraOf[event[p]]
    BY <1>2 DEF Check, IndInv, AtWork
  <2>1. /\ UNCHANGED <<issued, rows, pending, deadLetters, event>> /\ pc[p] = "match" /\ x \in todo[p]
        /\ todo' = [todo EXCEPT ![p] = @ \ {x}]
        /\ \/ Suppressed(guard[p], x, c) /\ UNCHANGED <<pc, entry>>
           \/ pc' = [pc EXCEPT ![p] = "lookup"] /\ entry' = [entry EXCEPT ![p] = x]
    BY <1>2 DEF Check
  <2>2. \A e \in Entries : Recorded(e)' => HasRow(e)'
    BY <2>1 DEF MatchInv, Recorded, HasRow
  <2>3. ASSUME NEW q \in Matchers, NEW e \in Entries, pc'[q] # "idle", <<e, event'[q]>> \in Matches, e \notin todo'[q]
        PROVE  HasRow(e)' \/ (pc'[q] \in {"lookup", "insert"} /\ entry'[q] = e)
    <3>0. <<e, event[q]>> \in Matches
      BY <2>1, <2>3
    <3>r. HasRow(e) => HasRow(e)'
      BY <1>r, <2>1
    <3>1. CASE q # p
      BY <2>1, <2>3, <3>0, <3>1, <3>r DEF MatchInv, IndInv, AlertType
    <3>2. CASE q = p /\ e # x
      <4>1. e \notin todo[p]
        BY <2>1, <2>3, <3>2 DEF IndInv, AlertType
      <4>2. HasRow(e)
        BY <2>1, <3>0, <3>2, <4>1 DEF MatchInv
      <4>3. QED
        BY <3>r, <4>2
    <3>3. CASE q = p /\ e = x
      <4>1. CASE Suppressed(guard[p], x, c)
        BY <3>3, <3>r, <4>1, SuppressedHasRow
      <4>2. CASE pc' = [pc EXCEPT ![p] = "lookup"] /\ entry' = [entry EXCEPT ![p] = x]
        BY <3>3, <4>2 DEF IndInv, AlertType
      <4>3. QED
        BY <2>1, <4>1, <4>2
    <3>4. QED
      BY <3>1, <3>2, <3>3
  <2>4. MatchesAccountedFor'
    BY <2>1 DEF MatchInv, MatchesAccountedFor
  <2>5. QED
    BY <2>2, <2>3, <2>4 DEF MatchInv
<1>3. ASSUME NEW p \in Matchers, Lookup(p) PROVE MatchInv'
  <2>1. pc[p] = "lookup" /\ UNCHANGED rows
    BY <1>3 DEF Lookup
  <2>2. CASE rows[Alert(p)] > 0 /\ Committed(p)
    BY <2>1, <2>2, CommittedMatch
  <2>3. CASE Miss(p) /\ UNCHANGED <<event, todo, entry, issued, pending, deadLetters>>
    <3>1. \A q \in Matchers : pc'[q] # "idle" =>
            /\ pc[q] # "idle" /\ event'[q] = event[q] /\ todo'[q] = todo[q]
            /\ pc[q] \in {"lookup", "insert"} => pc'[q] \in {"lookup", "insert"} /\ entry'[q] = entry[q]
      BY <2>1, <2>3 DEF Miss, IndInv, AlertType
    <3>2. QED
      BY <1>r, <2>1, <2>3, <3>1, MatchKept
  <2>4. CASE Fail(p) /\ UNCHANGED issued
    BY <2>1, <2>4, FailMatch
  <2>5. QED
    BY <1>3, <2>2, <2>3, <2>4 DEF Lookup
<1>4. ASSUME NEW p \in Matchers, Insert(p) PROVE MatchInv'
  <2>1. pc[p] = "insert"
    BY <1>4 DEF Insert
  <2>2. CASE AddRow(Alert(p)) /\ Committed(p)
    BY <2>1, <2>2, CommittedMatch
  <2>3. CASE FailedCommit(p) /\ (AddRow(Alert(p)) \/ UNCHANGED rows)
    BY <2>1, <2>3, FailMatch DEF FailedCommit
  <2>4. QED
    BY <1>4, <2>2, <2>3 DEF Insert
<1>5. ASSUME NEW p \in Matchers, Publish(p) PROVE MatchInv'
  <2>1. pc[p] = "publish" /\ UNCHANGED <<rows, issued>>
    BY <1>5 DEF Publish
  <2>2. CASE Fail(p)
    BY <2>1, <2>2, FailMatch
  <2>3. CASE pc' = [pc EXCEPT ![p] = "match"] /\ entry' = [entry EXCEPT ![p] = None]
             /\ UNCHANGED <<event, todo, pending, deadLetters>>
    <3>1. \A q \in Matchers : pc'[q] # "idle" =>
            /\ pc[q] # "idle" /\ event'[q] = event[q] /\ todo'[q] = todo[q]
            /\ pc[q] \in {"lookup", "insert"} => pc'[q] \in {"lookup", "insert"} /\ entry'[q] = entry[q]
      BY <2>1, <2>3 DEF IndInv, AlertType
    <3>2. QED
      BY <1>r, <2>1, <2>3, <3>1, MatchKept
  <2>4. QED
    BY <1>5, <2>2, <2>3 DEF Publish
<1>6. ASSUME NEW p \in Matchers, Done(p) PROVE MatchInv'
  <2>1. /\ pc[p] = "match" /\ todo[p] = {} /\ Idle(p) /\ pending' = pending \ {event[p]}
        /\ UNCHANGED <<rows, issued, deadLetters>>
    BY <1>6 DEF Done, Acknowledge
  <2>2. \A e \in Entries : Recorded(e)' => HasRow(e)'
    BY <2>1 DEF MatchInv, Recorded, HasRow
  <2>3. ASSUME NEW q \in Matchers, NEW e \in Entries, pc'[q] # "idle", <<e, event'[q]>> \in Matches, e \notin todo'[q]
        PROVE  HasRow(e)' \/ (pc'[q] \in {"lookup", "insert"} /\ entry'[q] = e)
    <3>1. q # p /\ pc'[q] = pc[q] /\ event'[q] = event[q] /\ todo'[q] = todo[q] /\ entry'[q] = entry[q]
      BY <2>1, <2>3 DEF Idle, IndInv, AlertType
    <3>2. QED
      BY <2>1, <2>3, <3>1 DEF MatchInv, HasRow
  <2>4. MatchesAccountedFor'
    <3> SUFFICES ASSUME NEW e \in Entries, NEW d \in Detections, <<e, d>> \in Matches,
                        d \notin pending' \cup deadLetters'
                 PROVE  HasRow(e)'
      BY DEF MatchesAccountedFor, HasRow
    <3>1. CASE d = event[p]
      <4>1. <<e, event[p]>> \in Matches /\ e \notin todo[p]
        BY <2>1, <3>1
      <4>2. HasRow(e)
        BY <2>1, <4>1 DEF MatchInv
      <4>3. QED
        BY <1>r, <2>1, <4>2
    <3>2. CASE d # event[p]
      BY <2>1, <3>2 DEF MatchInv, MatchesAccountedFor, HasRow
    <3>3. QED
      BY <3>1, <3>2
  <2>5. QED
    BY <2>2, <2>3, <2>4 DEF MatchInv
<1>7. ASSUME NEW p \in Matchers, Crash(p) PROVE MatchInv'
  <2>1. Idle(p) /\ UNCHANGED <<rows, issued, pending, deadLetters>>
    BY <1>7 DEF Crash
  <2>2. \A q \in Matchers : pc'[q] # "idle" =>
          /\ pc[q] # "idle" /\ event'[q] = event[q] /\ todo'[q] = todo[q]
          /\ pc[q] \in {"lookup", "insert"} => pc'[q] \in {"lookup", "insert"} /\ entry'[q] = entry[q]
    BY <2>1 DEF Idle, IndInv, AlertType
  <2>3. QED
    BY <1>r, <2>1, <2>2, MatchKept
<1>8. CASE Tick \/ UNCHANGED vars
  BY <1>8, <1>r, MatchKept DEF Tick, vars, job
<1>9. QED
  BY <1>1, <1>2, <1>3, <1>4, <1>5, <1>6, <1>7, <1>8 DEF Next, Step, Quiet

\* No match is silently lost: once its event is settled and was not dead-lettered, the entry has an
\* alert row, be it that of another detection that the safeguard held it back for; a commit that
\* failed, or that was only reported as failed, never makes the safeguard hold back its own retry
\* (dsai_consumer.py 242-307).  For any number of matchers on the same event, and any settings.
THEOREM NoMatchIsLost == Spec => []MatchesAccountedFor
<1>1. Init => IndInv /\ GuardInv /\ MatchInv
  BY InitIndInv, InitGuardInv, InitMatchInv
<1>2. (IndInv /\ GuardInv /\ MatchInv) /\ [Next]_vars => (IndInv /\ GuardInv /\ MatchInv)'
  BY NextIndInv, StepGuardInv, StepMatchInv
<1>3. MatchInv => MatchesAccountedFor
  BY DEF MatchInv
<1>4. QED
  BY <1>1, <1>2, <1>3, PTL DEF Spec

--------------------------------------------------------------------------------
(* The cache.                                                                   *)

\* What a thread has read is what is in the table, but for entries that changed since.
GotInv ==
  \A t \in Threads : stage[t] = "install" =>
    \A e \in EntryIds : age[e] > gotAge[t] => got[t][e] = table[e]

\* So is the list, but for entries that changed since it was installed, or while it was underway.
ListInv == cached # NoList => \A e \in EntryIds : age[e] > cachedAge + Delay => cached[e] = table[e]

\* An event that is about to be compared has a list that is young enough, unless a query
\* failed; or it has none, and that was accounted for.
CompareInv ==
  stage[Matcher] = "match" =>
    /\ cached # NoList /\ ~failing => cachedAge <= TTL
    /\ cached = NoList => credit >= 1

CacheInv == CacheTypeOK /\ BlanksPaidFor /\ GotInv /\ ListInv /\ CompareInv

LEMMA NoListIsNone == NoList \notin Lists
<1>1. Lists \subseteq [EntryIds -> Nat]
  BY CacheAssumption DEF Lists
<1>2. QED
  BY <1>1, CacheAssumption DEF CacheAssumption

LEMMA InitCacheInv == CacheInit => CacheInv
<1> SUFFICES ASSUME CacheInit PROVE CacheInv
  OBVIOUS
<1> USE CacheAssumption DEF CacheAssumption, Horizon
<1>1. /\ 0 \in 0 .. MaxChanges /\ 0 \in 0 .. MaxFailures /\ 0 \in 0 .. Delay
      /\ 0 \in 0 .. TTL /\ 0 \in 0 .. TTL + 1 /\ Horizon \in 0 .. Horizon /\ 0 \in Int
  OBVIOUS
<1>2. CacheTypeOK
  <2>1. /\ got \in [Threads -> Lists \cup {NoList}]
        /\ \A t \in Threads : (got[t] \in Lists) = (stage[t] = "install")
    BY NoListIsNone DEF CacheInit
  <2>2. entryRows \subseteq EntryIds /\ \A e \in EntryIds \ entryRows : table[e] = 0
    BY DEF CacheInit
  <2>3. /\ table \in Lists /\ age \in [EntryIds -> 0 .. Horizon]
        /\ cached \in Lists \cup {NoList} /\ cachedAge \in 0 .. TTL + 1
        /\ gotAge \in [Threads -> 0 .. Delay] /\ nap \in 0 .. TTL
        /\ changes \in 0 .. MaxChanges /\ failures \in 0 .. MaxFailures
        /\ failing \in BOOLEAN /\ credit \in Int
    <3>1. table \in Lists /\ age \in [EntryIds -> 0 .. Horizon] /\ gotAge \in [Threads -> 0 .. Delay]
      BY <1>1, Zenon DEF CacheInit, Lists
    <3>2. cached = NoList /\ cachedAge = 0 /\ nap = 0 /\ changes = 0 /\ failures = 0 /\ failing = FALSE /\ credit = 0
      BY DEF CacheInit
    <3>3. QED
      BY <1>1, <3>1, <3>2
  <2>4. stage \in [Threads -> {"idle", "drop", "fetch", "install", "match"}]
    BY DEF CacheInit
  <2>5. QED
    BY <2>1, <2>2, <2>3, <2>4 DEF CacheTypeOK
<1>3. BlanksPaidFor /\ GotInv /\ ListInv /\ CompareInv
  BY DEF CacheInit, BlanksPaidFor, GotInv, ListInv, CompareInv, Threads
<1>4. QED
  BY <1>2, <1>3 DEF CacheInv

\* Every change of the table makes the entry new.
LEMMA ChangeCacheInv ==
  ASSUME CacheInv, NEW e \in EntryIds, Create(e) \/ Update(e) \/ Delete(e) \/ Expire(e),
         UNCHANGED <<cached, cachedAge, got, gotAge, nap, history>>,
         \/ UNCHANGED stage
         \/ \E c \in Callers : stage[c] = "idle" /\ Enter(c, "drop")
  PROVE  CacheInv'
<1> USE CacheAssumption DEF CacheAssumption
<1>inv. CacheTypeOK /\ BlanksPaidFor /\ GotInv /\ ListInv /\ CompareInv
  BY DEF CacheInv
<1>1. PICK v \in {0, Version} : SetTo(e, v)
  BY DEF Create, Update, Delete, Expire
<1>2. /\ v \in 0 .. MaxChanges /\ changes' \in 0 .. MaxChanges
      /\ table' = [table EXCEPT ![e] = v]
      /\ \/ age' = age /\ table' = table
         \/ age' = [age EXCEPT ![e] = 0]
  BY <1>1, <1>inv DEF SetTo, Version, CacheTypeOK, Lists
<1>3. table' \in Lists /\ age' \in [EntryIds -> 0 .. Horizon]
  BY <1>2, <1>inv DEF CacheTypeOK, Lists, Horizon
<1>4. entryRows' \subseteq EntryIds /\ \A k \in EntryIds \ entryRows' : table'[k] = 0
  <2>1. CASE Create(e)
    BY <1>2, <1>inv, <2>1 DEF Create, CacheTypeOK, Lists
  <2>2. CASE Update(e)
    BY <1>2, <1>inv, <2>2 DEF Update, CacheTypeOK, Lists
  <2>3. CASE Delete(e)
    BY <1>inv, <2>3 DEF Delete, SetTo, CacheTypeOK, Lists
  <2>4. CASE Expire(e)
    BY <1>inv, <2>4 DEF Expire, SetTo, CacheTypeOK, Lists
  <2>5. QED
    BY <2>1, <2>2, <2>3, <2>4
<1>5. /\ stage' \in [Threads -> {"idle", "drop", "fetch", "install", "match"}]
      /\ \A t \in Threads : (stage'[t] = "install") = (stage[t] = "install")
      /\ stage'[Matcher] = stage[Matcher]
  BY <1>inv DEF CacheTypeOK, Enter, Threads
<1>6. CacheTypeOK'
  BY <1>2, <1>3, <1>4, <1>5, <1>inv DEF CacheTypeOK, history, Lists
<1>7. \A k \in EntryIds : (age'[k] = age[k] /\ table'[k] = table[k]) \/ age'[k] = 0
  BY <1>2, <1>inv DEF CacheTypeOK, Lists
<1>8. GotInv'
  BY <1>5, <1>7, <1>inv DEF GotInv, CacheTypeOK
<1>9. ListInv'
  BY <1>7, <1>inv DEF ListInv, CacheTypeOK
<1>10. BlanksPaidFor' /\ CompareInv'
  BY <1>5, <1>inv, Zenon DEF history, BlanksPaidFor, CompareInv
<1>11. QED
  BY <1>6, <1>8, <1>9, <1>10 DEF CacheInv

\* Time makes an entry no older, beside a list or an answer, than it was.
LEMMA TickCacheInv ==
  ASSUME CacheInv, TimePasses
  PROVE  CacheInv'
<1> USE CacheAssumption DEF CacheAssumption
<1>inv. CacheTypeOK /\ BlanksPaidFor /\ GotInv /\ ListInv /\ CompareInv
  BY DEF CacheInv
<1>1. /\ \A t \in Threads : stage[t] = "install" => gotAge[t] < Delay
      /\ age' = [e \in EntryIds |-> Older(age[e], Horizon)]
      /\ cachedAge' = Older(cachedAge, TTL + 1)
      /\ gotAge' = [t \in Threads |-> IF stage[t] = "install" THEN gotAge[t] + 1 ELSE 0]
      /\ nap' = 0 \/ nap' = Older(nap, TTL)
      /\ UNCHANGED <<entryRows, table, changes, cached, stage, got, failures, failing, credit>>
  BY DEF TimePasses, history
<1>2. \A n, max \in Nat : n <= max => Older(n, max) \in 0 .. max /\ (n < max => Older(n, max) = n + 1)
  BY DEF Older
<1>3. /\ age \in [EntryIds -> 0 .. Horizon] /\ cachedAge \in 0 .. TTL + 1
      /\ gotAge \in [Threads -> 0 .. Delay] /\ nap \in 0 .. TTL /\ Horizon \in Nat
  BY <1>inv DEF CacheTypeOK, Horizon
<1>4. age' \in [EntryIds -> 0 .. Horizon]
  BY <1>1, <1>2, <1>3
<1>5. gotAge' \in [Threads -> 0 .. Delay]
  BY <1>1, <1>3
<1>6. cachedAge' \in 0 .. TTL + 1 /\ nap' \in 0 .. TTL
  BY <1>1, <1>2, <1>3
<1>7. CacheTypeOK'
  BY <1>1, <1>4, <1>5, <1>6, <1>inv DEF CacheTypeOK, Lists, Horizon
<1>8. \A e \in EntryIds : age'[e] = IF age[e] < Horizon THEN age[e] + 1 ELSE age[e]
  BY <1>1 DEF Older
<1>9. GotInv'
  <2> SUFFICES ASSUME NEW t \in Threads, stage[t] = "install", NEW e \in EntryIds, age'[e] > gotAge'[t]
               PROVE  got[t][e] = table[e]
    BY <1>1 DEF GotInv
  <2>1. gotAge'[t] = gotAge[t] + 1 /\ gotAge[t] < Horizon
    BY <1>1, <1>3 DEF Horizon
  <2>2. age[e] > gotAge[t]
    BY <2>1, <1>3, <1>8
  <2>3. QED
    BY <2>2, <1>inv DEF GotInv
<1>10. ListInv'
  <2> SUFFICES ASSUME cached # NoList, NEW e \in EntryIds, age'[e] > cachedAge' + Delay
               PROVE  cached[e] = table[e]
    BY <1>1 DEF ListInv
  <2>1. cachedAge' = IF cachedAge < TTL + 1 THEN cachedAge + 1 ELSE cachedAge
    BY <1>1 DEF Older
  <2>2. age[e] > cachedAge + Delay
    BY <2>1, <1>3, <1>8 DEF Horizon
  <2>3. QED
    BY <2>2, <1>inv DEF ListInv
<1>11. BlanksPaidFor' /\ CompareInv'
  BY <1>1, <1>inv DEF TimePasses, BlanksPaidFor, CompareInv
<1>12. QED
  BY <1>7, <1>9, <1>10, <1>11 DEF CacheInv

\* A thread that only moves on, to anything but installing or comparing.
LEMMA MoveCacheInv ==
  ASSUME CacheInv, NEW t \in Threads, NEW where \in {"idle", "fetch"}, Enter(t, where), stage[t] # "install",
         nap' \in 0 .. TTL, failures' = failures, failing' = failing,
         UNCHANGED <<tableVars, cached, cachedAge, got, gotAge>>,
         \/ credit' = credit
         \/ t = Matcher /\ Match
  PROVE  CacheInv'
<1> USE CacheAssumption DEF CacheAssumption
<1>inv. CacheTypeOK /\ BlanksPaidFor /\ GotInv /\ ListInv /\ CompareInv
  BY DEF CacheInv
<1>1. UNCHANGED <<entryRows, table, age, changes, cached, cachedAge, got, gotAge>>
  BY DEF tableVars
<1>2. /\ stage' = [stage EXCEPT ![t] = where]
      /\ stage' \in [Threads -> {"idle", "drop", "fetch", "install", "match"}]
      /\ \A u \in Threads : (stage'[u] = "install") = (stage[u] = "install")
      /\ stage'[Matcher] = "match" => t # Matcher /\ stage[Matcher] = "match"
  BY <1>inv DEF CacheTypeOK, Enter, Threads
<1>3. /\ credit' \in Int /\ credit' >= 0
      /\ t # Matcher => credit' = credit
  BY <1>inv DEF Match, CompareInv, BlanksPaidFor, CacheTypeOK
<1>4. CacheTypeOK'
  BY <1>1, <1>2, <1>3, <1>inv DEF CacheTypeOK, Lists
<1>5. GotInv' /\ ListInv'
  BY <1>1, <1>2, <1>inv DEF GotInv, ListInv
<1>6. BlanksPaidFor' /\ CompareInv'
  BY <1>1, <1>2, <1>3, <1>inv DEF BlanksPaidFor, CompareInv
<1>7. QED
  BY <1>4, <1>5, <1>6 DEF CacheInv

\* Without a list nothing is out of date; what is compared with nothing was counted.
LEMMA InvalidateCacheInv ==
  ASSUME CacheInv, NEW c \in Callers, Invalidate(c)
  PROVE  CacheInv'
<1> USE CacheAssumption DEF CacheAssumption
<1>inv. CacheTypeOK /\ BlanksPaidFor /\ GotInv /\ ListInv /\ CompareInv
  BY DEF CacheInv
<1>1. /\ cached' = NoList /\ cachedAge' = 0 /\ credit' = credit + 1
      /\ UNCHANGED <<entryRows, table, age, changes, got, gotAge, nap, failures, failing>>
  BY DEF Invalidate, tableVars
<1>2. /\ stage' \in [Threads -> {"idle", "drop", "fetch", "install", "match"}]
      /\ \A t \in Threads : (stage'[t] = "install") = (stage[t] = "install")
      /\ stage'[Matcher] = stage[Matcher]
  BY <1>inv DEF Invalidate, CacheTypeOK, Enter, Threads
<1>3. CacheTypeOK'
  BY <1>1, <1>2, <1>inv DEF CacheTypeOK, Lists
<1>4. GotInv' /\ ListInv'
  BY <1>1, <1>2, <1>inv DEF GotInv, ListInv
<1>5. BlanksPaidFor' /\ CompareInv'
  BY <1>1, <1>2, <1>inv DEF BlanksPaidFor, CompareInv, CacheTypeOK
<1>6. QED
  BY <1>3, <1>4, <1>5 DEF CacheInv

\* What was just read is what is in the table; a query that fails is counted.
LEMMA FetchCacheInv ==
  ASSUME CacheInv, NEW t \in Threads, Fetch(t) \/ FetchFails(t)
  PROVE  CacheInv'
<1> USE CacheAssumption DEF CacheAssumption
<1>inv. CacheTypeOK /\ BlanksPaidFor /\ GotInv /\ ListInv /\ CompareInv
  BY DEF CacheInv
<1>1. CASE Fetch(t)
  <2>1. /\ got' = [got EXCEPT ![t] = table] /\ gotAge' = [gotAge EXCEPT ![t] = 0]
        /\ stage' = [stage EXCEPT ![t] = "install"]
        /\ UNCHANGED <<entryRows, table, age, changes, cached, cachedAge, nap, failures, failing, credit>>
    BY <1>1 DEF Fetch, Enter, Snapshot, tableVars, history
  <2>2. CacheTypeOK'
    BY <1>inv, <2>1 DEF CacheTypeOK, Lists
  <2>3. GotInv' /\ ListInv'
    BY <1>inv, <2>1 DEF GotInv, ListInv, CacheTypeOK
  <2>4. BlanksPaidFor' /\ CompareInv'
    BY <1>inv, <2>1 DEF BlanksPaidFor, CompareInv, CacheTypeOK
  <2>5. QED
    BY <2>2, <2>3, <2>4 DEF CacheInv
<1>2. CASE FetchFails(t)
  <2>1. /\ failures' \in 0 .. MaxFailures /\ failing' = TRUE /\ credit' = credit + 1
        /\ stage' = [stage EXCEPT ![t] = After(t)] /\ stage[t] # "install"
        /\ UNCHANGED <<entryRows, table, age, changes, cached, cachedAge, got, gotAge, nap>>
    BY <1>2, <1>inv DEF FetchFails, Enter, tableVars, CacheTypeOK
  <2>2. CacheTypeOK'
    BY <1>inv, <2>1 DEF CacheTypeOK, Lists, After
  <2>3. GotInv' /\ ListInv'
    BY <1>inv, <2>1 DEF GotInv, ListInv, CacheTypeOK, After
  <2>4. BlanksPaidFor' /\ CompareInv'
    BY <1>inv, <2>1 DEF BlanksPaidFor, CompareInv, CacheTypeOK
  <2>5. QED
    BY <2>2, <2>3, <2>4 DEF CacheInv
<1>3. QED
  BY <1>1, <1>2

\* What is installed was read no longer ago than a thread may take to get to the lock.
LEMMA InstallCacheInv ==
  ASSUME CacheInv, NEW t \in Threads, Install(t)
  PROVE  CacheInv'
<1> USE CacheAssumption DEF CacheAssumption
<1>inv. CacheTypeOK /\ BlanksPaidFor /\ GotInv /\ ListInv /\ CompareInv
  BY DEF CacheInv
<1>1. /\ stage[t] = "install" /\ stage' = [stage EXCEPT ![t] = After(t)]
      /\ cached' = got[t] /\ cachedAge' = 0 /\ failing' = FALSE
      /\ got' = [got EXCEPT ![t] = NoList] /\ gotAge' = [gotAge EXCEPT ![t] = 0]
      /\ UNCHANGED <<entryRows, table, age, changes, nap, failures, credit>>
  BY DEF Install, Enter, tableVars
<1>2. cached' \in Lists /\ cached' # NoList
  BY <1>1, <1>inv, NoListIsNone DEF CacheTypeOK
<1>3. CacheTypeOK'
  <2>1. got' \in [Threads -> Lists \cup {NoList}]
    BY <1>1, <1>inv DEF CacheTypeOK
  <2>2. \A u \in Threads : (got'[u] \in Lists) = (stage'[u] = "install")
    BY <1>1, <1>inv, NoListIsNone DEF CacheTypeOK, After
  <2>3. stage' \in [Threads -> {"idle", "drop", "fetch", "install", "match"}]
    BY <1>1, <1>inv DEF CacheTypeOK, After
  <2>4. gotAge' \in [Threads -> 0 .. Delay] /\ cachedAge' \in 0 .. TTL + 1
    BY <1>1, <1>inv DEF CacheTypeOK
  <2>5. /\ entryRows \subseteq EntryIds /\ \A e \in EntryIds \ entryRows : table[e] = 0
        /\ table \in Lists /\ age \in [EntryIds -> 0 .. Horizon] /\ nap \in 0 .. TTL
        /\ changes \in 0 .. MaxChanges /\ failures \in 0 .. MaxFailures /\ credit \in Int
    BY <1>inv DEF CacheTypeOK
  <2>6. Lists' = Lists
    BY DEF Lists
  <2>7. QED
    BY <1>1, <1>2, <2>1, <2>2, <2>3, <2>4, <2>5, <2>6 DEF CacheTypeOK
<1>4. GotInv'
  BY <1>1, <1>inv DEF GotInv, CacheTypeOK, After
<1>5. ListInv'
  <2> SUFFICES ASSUME NEW e \in EntryIds, age[e] > Delay
               PROVE  got[t][e] = table[e]
    BY <1>1 DEF ListInv
  <2>1. gotAge[t] \in 0 .. Delay /\ age[e] \in Nat
    BY <1>inv DEF CacheTypeOK, Horizon
  <2>2. QED
    BY <1>1, <1>inv, <2>1 DEF GotInv
<1>6. BlanksPaidFor' /\ CompareInv'
  BY <1>1, <1>2, <1>inv DEF BlanksPaidFor, CompareInv
<1>7. QED
  BY <1>3, <1>4, <1>5, <1>6 DEF CacheInv

LEMMA StepCacheInv == CacheInv /\ [CacheNext]_cacheVars => CacheInv'
<1> SUFFICES ASSUME CacheInv, [CacheNext]_cacheVars PROVE CacheInv'
  OBVIOUS
<1> USE CacheAssumption DEF CacheAssumption
<1>inv. CacheTypeOK /\ BlanksPaidFor /\ GotInv /\ ListInv /\ CompareInv
  BY DEF CacheInv
<1>1. CASE TimePasses
  BY <1>1, TickCacheInv
<1>2. CASE Wake
  <2>1. nap' \in 0 .. TTL /\ Loop \in Threads
    BY <1>2 DEF Wake, Threads
  <2>2. CASE cached = NoList
    <3>1. UNCHANGED <<entryRows, table, age, changes, cached, cachedAge, stage, got, gotAge, failures, failing, credit>>
      BY <1>2, <2>2 DEF Wake, tableVars, history
    <3>2. QED
      BY <1>inv, <2>1, <3>1
      DEF CacheInv, CacheTypeOK, BlanksPaidFor, GotInv, ListInv, CompareInv, Lists
  <2>3. CASE cached # NoList
    BY <1>2, <2>1, <2>3, MoveCacheInv DEF Wake, history
  <2>4. QED
    BY <2>2, <2>3
<1>3. CASE Look
  <2>1. Matcher \in Threads /\ nap' \in 0 .. TTL
    BY <1>3, <1>inv DEF Threads, Look, CacheTypeOK
  <2>2. CASE NeedsRefresh
    BY <1>3, <2>1, <2>2, MoveCacheInv DEF Look, history
  <2>3. CASE ~NeedsRefresh
    <3>1. /\ stage' = [stage EXCEPT ![Matcher] = "match"] /\ stage[Matcher] = "idle"
          /\ UNCHANGED <<entryRows, table, age, changes, cached, cachedAge, got, gotAge, nap, failures, failing, credit>>
      BY <1>3, <2>3 DEF Look, Enter, tableVars, history
    <3>2. cached # NoList /\ cachedAge <= TTL
      BY <1>inv, <2>3 DEF NeedsRefresh, CacheTypeOK
    <3>3. CacheTypeOK'
      BY <1>inv, <2>1, <3>1 DEF CacheTypeOK, Lists
    <3>4. GotInv' /\ ListInv'
      BY <1>inv, <2>1, <3>1 DEF GotInv, ListInv, CacheTypeOK
    <3>5. BlanksPaidFor' /\ CompareInv'
      BY <1>inv, <3>1, <3>2 DEF BlanksPaidFor, CompareInv
    <3>6. QED
      BY <3>3, <3>4, <3>5 DEF CacheInv
  <2>4. QED
    BY <2>2, <2>3
<1>4. CASE Match
  <2>1. Matcher \in Threads /\ nap' \in 0 .. TTL
    BY <1>4, <1>inv DEF Threads, Match, CacheTypeOK
  <2>2. QED
    BY <1>4, <2>1, MoveCacheInv DEF Match
<1>5. ASSUME NEW e \in EntryIds, ChangeElsewhere(e)
      PROVE  CacheInv'
  BY <1>5, ChangeCacheInv DEF ChangeElsewhere
<1>6. ASSUME NEW e \in EntryIds, NEW c \in Callers, CreateHere(c, e) \/ UpdateHere(c, e) \/ DeleteHere(c, e)
      PROVE  CacheInv'
  BY <1>6, ChangeCacheInv DEF CreateHere, UpdateHere, DeleteHere, Serve
<1>7. ASSUME NEW c \in Callers, Invalidate(c)
      PROVE  CacheInv'
  BY <1>7, InvalidateCacheInv
<1>8. ASSUME NEW t \in Threads, Refresh(t)
      PROVE  CacheInv'
  BY <1>8, FetchCacheInv, InstallCacheInv DEF Refresh
<1>9. CASE UNCHANGED cacheVars
  <2>1. UNCHANGED <<entryRows, table, age, changes, cached, cachedAge, stage, got, gotAge, nap, failures, failing, credit>>
    BY <1>9 DEF cacheVars, tableVars, history
  <2>2. QED
    BY <1>inv, <2>1
    DEF CacheInv, CacheTypeOK, BlanksPaidFor, GotInv, ListInv, CompareInv, Lists
<1>10. QED
  BY <1>1, <1>2, <1>3, <1>4, <1>5, <1>6, <1>7, <1>8, <1>9 DEF CacheNext

\* The matcher compares an event with entries that are out of date by no more than the TTL
\* and one refresh, unless a query failed, and with nothing no more often than failing queries
\* and invalidations explain: whatever changes the table, and however many threads refresh
\* the list from what they read before they took the lock.
THEOREM MatchedFresh == CacheSpec => FreshEnough
<1>1. CacheInv => CacheTypeOK /\ BlanksPaidFor
  BY DEF CacheInv
<1>2. ASSUME CacheInv, Match, cached # NoList, ~failing, NEW e \in EntryIds, age[e] > TTL + Delay
      PROVE  cached[e] = table[e]
  <2>1. cachedAge <= TTL
    BY <1>2 DEF CacheInv, CompareInv, Match
  <2>2. age[e] > cachedAge + Delay
    BY <1>2, <2>1, CacheAssumption DEF CacheAssumption, CacheInv, CacheTypeOK, Horizon
  <2>3. QED
    BY <1>2, <2>2 DEF CacheInv, ListInv
<1>3. CacheInv => [Match /\ cached # NoList /\ ~failing =>
                     \A e \in EntryIds : age[e] > TTL + Delay => cached[e] = table[e]]_cacheVars
  BY <1>2
<1>4. QED
  BY <1>1, <1>3, InitCacheInv, StepCacheInv, PTL DEF CacheSpec, FreshEnough

--------------------------------------------------------------------------------
(* Raising alerts and polling for them.                                         *)

\* The part of the state that alerts and polls are about has its type.
FeedTypes ==
  /\ row \in [Alerts -> {"free", "open", "committed", "void"}]
  /\ overtaken \subseteq Visible /\ by \in [Alerts -> Operators \cup {Nobody}]
  /\ raising \in [Processes -> Alerts \cup {Nobody}]
  /\ step \in [Processes -> {"idle", "insert", "local", "remote"}]
  /\ \A p \in Processes : (raising[p] \in Alerts) = (step[p] # "idle")
  /\ since \in 0 .. N /\ polled \subseteq Visible /\ losses \in 0 .. MaxLosses

\* What a matcher has inserted and not committed is nobody else's.
OpenInv ==
  \A p \in Processes :
    step[p] = "insert" =>
      /\ row[raising[p]] = "open"
      /\ \A q \in Processes : step[q] = "insert" /\ raising[q] = raising[p] => q = p

\* The client asks for what is above an alert it got, and below it has all but what was
\* committed since.
PollInv == (since = 0 \/ since \in Visible) /\ PollMissesOvertaken

RaiseInv == FeedTypes /\ OpenInv /\ PollInv

LEMMA InitRaiseInv == FeedInit => RaiseInv
BY FeedAssumption DEF FeedInit, RaiseInv, FeedTypes, OpenInv, PollInv, PollMissesOvertaken, InOrder,
  Visible, Alerts

LEMMA InsertRaiseInv == ASSUME RaiseInv, NEW p \in Processes, InsertRow(p) PROVE RaiseInv'
<1>1. PICK i \in Alerts : /\ row[i] = "free" /\ row' = [row EXCEPT ![i] = "open"]
                          /\ raising' = [raising EXCEPT ![p] = i]
  BY DEF InsertRow
<1>2. /\ step[p] = "idle" /\ step' = [step EXCEPT ![p] = "insert"]
      /\ UNCHANGED <<overtaken, by, since, polled, losses>>
  BY DEF InsertRow, Goto, polling
<1>3. Visible' = Visible
  BY <1>1 DEF RaiseInv, FeedTypes, Visible
<1>4. FeedTypes'
  BY <1>1, <1>2, <1>3 DEF RaiseInv, FeedTypes
<1>5. OpenInv'
  <2> SUFFICES ASSUME NEW q \in Processes, step'[q] = "insert"
               PROVE  /\ row'[raising'[q]] = "open"
                      /\ \A r \in Processes : step'[r] = "insert" /\ raising'[r] = raising'[q] => r = q
    BY DEF OpenInv
  <2>1. \A r \in Processes \ {p} :
          step'[r] = "insert" => /\ raising'[r] = raising[r] /\ step[r] = "insert"
                                 /\ row[raising[r]] = "open" /\ raising[r] \in Alerts
    BY <1>1, <1>2 DEF RaiseInv, FeedTypes, OpenInv
  <2>2. raising'[p] = i /\ row'[i] = "open" /\ \A j \in Alerts \ {i} : row'[j] = row[j]
    BY <1>1 DEF RaiseInv, FeedTypes
  <2>3. CASE q = p
    BY <1>1, <2>1, <2>2, <2>3
  <2>4. CASE q # p
    BY <1>1, <2>1, <2>2, <2>4 DEF RaiseInv, OpenInv
  <2>5. QED
    BY <2>3, <2>4
<1>6. PollInv'
  BY <1>2, <1>3 DEF RaiseInv, PollInv, PollMissesOvertaken, InOrder
<1>7. QED
  BY <1>4, <1>5, <1>6 DEF RaiseInv

\* The alert that becomes visible is among those overtaken if a poll has gone past it.
LEMMA CommitRaiseInv == ASSUME RaiseInv, NEW p \in Processes, Commit(p) PROVE RaiseInv'
<1>1. PICK i : i = raising[p]
  OBVIOUS
<1>2. /\ step[p] = "insert" /\ step' = [step EXCEPT ![p] = "local"]
      /\ row' = [row EXCEPT ![i] = "committed"]
      /\ overtaken' = overtaken \cup {j \in {i} : \E k \in Visible : k > j}
      /\ UNCHANGED <<by, raising, since, polled, losses>>
  BY <1>1 DEF Commit, Goto, polling
<1>3. i \in Alerts /\ row[i] = "open"
  BY <1>1, <1>2 DEF RaiseInv, FeedTypes, OpenInv
<1>4. Visible' = Visible \cup {i} /\ i \notin Visible
  BY <1>2, <1>3 DEF RaiseInv, FeedTypes, Visible
<1>5. FeedTypes'
  BY <1>1, <1>2, <1>3, <1>4 DEF RaiseInv, FeedTypes
<1>6. OpenInv'
  BY <1>1, <1>2, <1>3 DEF RaiseInv, FeedTypes, OpenInv
<1>7. PollInv'
  <2>1. since' = 0 \/ since' \in Visible'
    BY <1>2, <1>4 DEF RaiseInv, PollInv
  <2>2. ASSUME NEW j \in Visible', j <= since', j \notin polled'
        PROVE  j \in overtaken'
    <3>1. CASE j \in Visible
      BY <1>2, <2>2, <3>1 DEF RaiseInv, PollInv, PollMissesOvertaken, InOrder
    <3>2. CASE j = i
      <4>1. i \in Nat /\ i > 0 /\ since \in Nat
        BY <1>3, FeedAssumption DEF RaiseInv, FeedTypes, Alerts
      <4>2. since \in Visible /\ since > i
        BY <1>2, <1>4, <2>2, <3>2, <4>1 DEF RaiseInv, PollInv
      <4>3. QED
        BY <1>2, <3>2, <4>2
    <3>3. QED
      BY <1>4, <3>1, <3>2
  <2>3. QED
    BY <2>1, <2>2 DEF PollInv, PollMissesOvertaken, InOrder
<1>8. QED
  BY <1>5, <1>6, <1>7 DEF RaiseInv

LEMMA ConflictRaiseInv == ASSUME RaiseInv, NEW p \in Processes, Conflict(p) PROVE RaiseInv'
<1>1. PICK i : i = raising[p]
  OBVIOUS
<1>2. PICK j \in Visible : raising' = [raising EXCEPT ![p] = j] /\ Goto(p, "local")
                           /\ row' = [row EXCEPT ![i] = "void"]
  BY <1>1 DEF Conflict
<1>3. /\ step[p] = "insert" /\ step' = [step EXCEPT ![p] = "local"]
      /\ UNCHANGED <<overtaken, by, since, polled, losses>>
  BY <1>2 DEF Conflict, Goto, polling
<1>4. i \in Alerts /\ row[i] = "open"
  BY <1>1, <1>3 DEF RaiseInv, FeedTypes, OpenInv
<1>5. Visible' = Visible /\ j \in Alerts
  BY <1>2, <1>4 DEF RaiseInv, FeedTypes, Visible
<1>6. FeedTypes'
  BY <1>1, <1>2, <1>3, <1>4, <1>5 DEF RaiseInv, FeedTypes
<1>7. OpenInv'
  BY <1>1, <1>2, <1>3, <1>4 DEF RaiseInv, FeedTypes, OpenInv
<1>8. PollInv'
  BY <1>3, <1>5 DEF RaiseInv, PollInv, PollMissesOvertaken, InOrder
<1>9. QED
  BY <1>6, <1>7, <1>8 DEF RaiseInv

\* A matcher that goes on to broadcast, or is done.
LEMMA BroadcastRaiseInv ==
  ASSUME RaiseInv, NEW p \in Processes, Revive(p) \/ BroadcastLocal(p) \/ BroadcastRemote(p)
  PROVE  RaiseInv'
<1>1. PICK k \in {"local", "remote", "idle"}, i \in Alerts \cup {Nobody} :
        /\ step' = [step EXCEPT ![p] = k] /\ raising' = [raising EXCEPT ![p] = i]
        /\ (i \in Alerts) = (k # "idle")
  <2>1. CASE Revive(p)
    BY <2>1 DEF Revive, Goto, Visible
  <2>2. CASE BroadcastLocal(p)
    <3>1. raising[p] \in Alerts /\ raising' = [raising EXCEPT ![p] = raising[p]]
      BY <2>2 DEF BroadcastLocal, RaiseInv, FeedTypes
    <3>2. QED
      BY <2>2, <3>1 DEF BroadcastLocal, Goto
  <2>3. CASE BroadcastRemote(p)
    <3>1. step' = [step EXCEPT ![p] = "idle"] /\ raising' = [raising EXCEPT ![p] = Nobody]
      BY <2>3 DEF BroadcastRemote, Goto
    <3>2. Nobody \notin Alerts
      BY FeedAssumption
    <3>3. (Nobody \in Alerts) = ("idle" # "idle")
      BY <3>2
    <3>4. QED
      BY <3>1, <3>3
  <2>4. QED
    BY <2>1, <2>2, <2>3
<1>2. UNCHANGED <<row, overtaken, by, since, polled>> /\ losses' \in 0 .. MaxLosses
  <2>1. UNCHANGED <<row, overtaken, by, since, polled>>
    BY DEF Revive, BroadcastLocal, BroadcastRemote, alerts, polling
  <2>2. losses' = losses \/ (losses < MaxLosses /\ losses' = losses + 1)
    BY DEF Revive, BroadcastLocal, BroadcastRemote
  <2>3. losses \in 0 .. MaxLosses
    BY DEF RaiseInv, FeedTypes
  <2>4. QED
    BY <2>1, <2>2, <2>3, FeedAssumption
<1>3. Visible' = Visible
  BY <1>2 DEF Visible
<1>4. FeedTypes'
  BY <1>1, <1>2, <1>3 DEF RaiseInv, FeedTypes
<1>5. OpenInv'
  BY <1>1, <1>2 DEF RaiseInv, FeedTypes, OpenInv
<1>6. PollInv'
  BY <1>2, <1>3 DEF RaiseInv, PollInv, PollMissesOvertaken, InOrder
<1>7. QED
  BY <1>4, <1>5, <1>6 DEF RaiseInv

\* Event streams and acknowledgements change nothing of it but who acknowledged.
LEMMA OtherRaiseInv ==
  ASSUME RaiseInv, UNCHANGED <<row, overtaken, matching, polling>>,
         by' \in [Alerts -> Operators \cup {Nobody}], losses' \in 0 .. MaxLosses
  PROVE  RaiseInv'
<1>1. Visible' = Visible
  BY DEF Visible
<1>2. QED
  BY <1>1 DEF matching, polling, RaiseInv, FeedTypes, OpenInv, PollInv, PollMissesOvertaken, InOrder

\* A page holds all that is visible up to its last alert.
LEMMA PageHasBelow ==
  ASSUME NEW S \in SUBSET Alerts, NEW m \in Page(S), NEW i \in S, i <= m
  PROVE  i \in Page(S)
<1>1. IsFiniteSet(Alerts)
  BY FS_Interval, FeedAssumption DEF Alerts
<1>2. {j \in S : j < m} \subseteq Alerts /\ {j \in S : j < i} \subseteq {j \in S : j < m}
  <2>1. m \in Nat /\ i \in Nat /\ \A j \in S : j \in Nat
    BY FeedAssumption DEF Alerts, Page
  <2>2. \A j \in S : j < i => j < m
    BY <2>1
  <2>3. QED
    BY <2>2
<1>3. IsFiniteSet({j \in S : j < m})
  BY <1>1, <1>2, FS_Subset
<1>4. /\ Cardinality({j \in S : j < i}) <= Cardinality({j \in S : j < m})
      /\ IsFiniteSet({j \in S : j < i})
  BY <1>2, <1>3, FS_Subset
<1>5. Cardinality({j \in S : j < i}) \in Nat /\ Cardinality({j \in S : j < m}) \in Nat
  BY <1>3, <1>4, FS_CardinalityType
<1>6. QED
  BY <1>4, <1>5, FeedAssumption DEF Page

LEMMA PollRaiseInv == ASSUME RaiseInv, Poll PROVE RaiseInv'
<1>1. PICK S : S = {i \in Visible : i > since}
  OBVIOUS
<1>2. PICK m \in Page(S) : since' = m /\ polled' = polled \cup Page(S)
  BY <1>1 DEF Poll
<1>3. UNCHANGED <<alerts, matching, losses>>
  BY DEF Poll
<1>4. Visible' = Visible /\ Visible \subseteq Alerts /\ S \subseteq Alerts /\ Page(S) \subseteq S
  BY <1>1, <1>3 DEF Visible, alerts, Page
<1>5. FeedTypes'
  <2>1. m \in 0 .. N /\ polled' \subseteq Visible'
    <3>1. m \in Alerts /\ polled \subseteq Visible /\ Page(S) \subseteq Visible
      BY <1>1, <1>4 DEF RaiseInv, FeedTypes
    <3>2. m \in 0 .. N
      BY <3>1, FeedAssumption DEF Alerts
    <3>3. QED
      BY <1>2, <1>4, <3>1, <3>2
  <2>2. QED
    BY <1>2, <1>3, <1>4, <2>1 DEF RaiseInv, FeedTypes, alerts, matching
<1>6. OpenInv'
  BY <1>3 DEF RaiseInv, OpenInv, alerts, matching
<1>7. PollInv'
  <2>1. since' \in Visible'
    BY <1>1, <1>2, <1>4
  <2>2. ASSUME NEW i \in Visible', i <= since', i \notin polled'
        PROVE  i \in overtaken'
    <3>1. i \in Visible /\ i <= m /\ i \notin polled /\ i \notin Page(S)
      BY <1>2, <1>4, <2>2
    <3>2. i \in Nat /\ since \in Nat
      BY <1>4, <3>1, FeedAssumption DEF RaiseInv, FeedTypes, Alerts
    <3>3. i \notin S
      BY <1>2, <1>4, <3>1, PageHasBelow
    <3>4. i <= since
      BY <1>1, <3>1, <3>2, <3>3
    <3>5. QED
      BY <1>3, <3>1, <3>4 DEF RaiseInv, PollInv, PollMissesOvertaken, InOrder, alerts
  <2>3. QED
    BY <2>1, <2>2 DEF PollInv, PollMissesOvertaken, InOrder
<1>8. QED
  BY <1>5, <1>6, <1>7 DEF RaiseInv
--------------------------------------------------------------------------------
(* Event streams.                                                               *)

\* What a stream showed and does not remember, it forgot, and each time it shows such an alert
\* again one of those is spent.
StreamInv ==
  /\ live \subseteq Streams /\ queue \in [Streams -> Seq(Alerts)]
  /\ seen \in [Streams -> SUBSET Alerts] /\ shown \in [Streams -> SUBSET Alerts]
  /\ repeats \in [Streams -> Nat] /\ forgot \in [Streams -> Nat]
  /\ \A s \in Streams :
       /\ Cardinality(seen[s]) <= Memory
       /\ repeats[s] + Cardinality(shown[s] \ seen[s]) <= forgot[s]

LEMMA AlertsFinite == \A S \in SUBSET Alerts : IsFiniteSet(S) /\ Cardinality(S) \in Nat
<1>1. IsFiniteSet(Alerts)
  BY FS_Interval, FeedAssumption DEF Alerts
<1>2. QED
  BY <1>1, FS_Subset, FS_CardinalityType

\* A stream that starts over.
LEMMA FreshStream ==
  ASSUME StreamInv, NEW s \in Streams, Fresh(s), live' \subseteq Streams
  PROVE  StreamInv'
<1>1. /\ queue' = [queue EXCEPT ![s] = <<>>] /\ seen' = [seen EXCEPT ![s] = {}]
      /\ shown' = [shown EXCEPT ![s] = {}] /\ repeats' = [repeats EXCEPT ![s] = 0]
      /\ forgot' = [forgot EXCEPT ![s] = 0]
  BY DEF Fresh
<1>2. <<>> \in Seq(Alerts) /\ Cardinality({}) = 0 /\ {} \ {} = {} /\ Memory \in Nat
  BY FS_EmptySet, FeedAssumption
<1>3. /\ seen' \in [Streams -> SUBSET Alerts] /\ shown' \in [Streams -> SUBSET Alerts]
      /\ repeats' \in [Streams -> Nat] /\ forgot' \in [Streams -> Nat]
      /\ queue' \in [Streams -> Seq(Alerts)]
  BY <1>1, <1>2 DEF StreamInv
<1>4. ASSUME NEW t \in Streams
      PROVE  Cardinality(seen'[t]) <= Memory
             /\ repeats'[t] + Cardinality(shown'[t] \ seen'[t]) <= forgot'[t]
  <2>1. CASE t = s
    <3>1. seen'[t] = {} /\ shown'[t] = {} /\ repeats'[t] = 0 /\ forgot'[t] = 0
      BY <1>1, <2>1 DEF StreamInv
    <3>2. QED
      BY <1>2, <3>1
  <2>2. CASE t # s
    <3>1. seen'[t] = seen[t] /\ shown'[t] = shown[t] /\ repeats'[t] = repeats[t] /\ forgot'[t] = forgot[t]
      BY <1>1, <2>2 DEF StreamInv
    <3>2. QED
      BY <3>1 DEF StreamInv
  <2>3. QED
    BY <2>1, <2>2
<1>5. QED
  BY <1>3, <1>4 DEF StreamInv

LEMMA InitStreamInv == FeedInit => StreamInv
<1>1. <<>> \in Seq(Alerts) /\ Cardinality({}) = 0 /\ {} \ {} = {} /\ Memory \in Nat
  BY FS_EmptySet, FeedAssumption
<1>2. QED
  BY <1>1 DEF FeedInit, StreamInv

\* A broadcast reaches queues.
LEMMA PutStream ==
  ASSUME StreamInv, NEW S, NEW i \in Alerts, Put(S, i),
         UNCHANGED <<live, seen, shown, repeats, forgot>>
  PROVE  StreamInv'
<1>1. \A s \in Streams : queue[s] \in Seq(Alerts) /\ Append(queue[s], i) \in Seq(Alerts)
  BY DEF StreamInv
<1>2. queue' \in [Streams -> Seq(Alerts)]
  BY <1>1 DEF Put
<1>3. QED
  BY <1>2 DEF StreamInv

LEMMA ShowStream == ASSUME StreamInv, NEW s \in Streams, Show(s) PROVE StreamInv'
<1>1. PICK i : i = Head(queue[s])
  OBVIOUS
<1>2. PICK known : known = seen[s] \cup {i}
  OBVIOUS
<1>3. /\ queue[s] # <<>> /\ queue' = [queue EXCEPT ![s] = Tail(queue[s])] /\ UNCHANGED live
      /\ IF i \in seen[s]
         THEN UNCHANGED <<seen, shown, repeats, forgot>>
         ELSE /\ shown' = [shown EXCEPT ![s] = shown[s] \cup {i}]
              /\ repeats' = IF i \in shown[s] THEN [repeats EXCEPT ![s] = repeats[s] + 1] ELSE repeats
              /\ IF Cardinality(known) <= Memory
                 THEN seen' = [seen EXCEPT ![s] = known] /\ UNCHANGED forgot
                 ELSE /\ \E x \in known : seen' = [seen EXCEPT ![s] = known \ {x}]
                      /\ forgot' = [forgot EXCEPT ![s] = forgot[s] + 1]
  BY <1>1, <1>2 DEF Show, New, Remembers
<1>4. i \in Alerts /\ queue' \in [Streams -> Seq(Alerts)] /\ live' \subseteq Streams
  BY <1>1, <1>3 DEF StreamInv
<1>5. CASE i \in seen[s]
  BY <1>3, <1>4, <1>5 DEF StreamInv
<1>6. CASE i \notin seen[s]
  <2>1. /\ seen[s] \in SUBSET Alerts /\ shown[s] \in SUBSET Alerts /\ known \in SUBSET Alerts
        /\ repeats[s] \in Nat /\ forgot[s] \in Nat /\ Memory \in Nat
        /\ Cardinality(seen[s]) <= Memory /\ repeats[s] + Cardinality(shown[s] \ seen[s]) <= forgot[s]
    BY <1>2, <1>4, FeedAssumption DEF StreamInv
  <2>2. PICK unknown : unknown = shown[s] \ seen[s]
    OBVIOUS
  <2>3. PICK left : left = unknown \ {i}
    OBVIOUS
  <2>4. /\ unknown \in SUBSET Alerts /\ left \in SUBSET Alerts
        /\ (shown[s] \cup {i}) \ known = left /\ (i \in unknown) = (i \in shown[s])
    BY <1>2, <1>6, <2>1, <2>2, <2>3
  <2>5. /\ Cardinality(left) = IF i \in unknown THEN Cardinality(unknown) - 1 ELSE Cardinality(unknown)
        /\ Cardinality(unknown) \in Nat /\ Cardinality(left) \in Nat
    <3>1. IsFiniteSet(unknown) /\ Cardinality(unknown) \in Nat /\ Cardinality(left) \in Nat
      BY <2>4, AlertsFinite
    <3>2. QED
      BY <2>3, <3>1, FS_RemoveElement
  <2>6. /\ IsFiniteSet(known) /\ Cardinality(known) = Cardinality(seen[s]) + 1
        /\ Cardinality(known) \in Nat /\ Cardinality(seen[s]) \in Nat
    <3>1. IsFiniteSet(seen[s]) /\ Cardinality(seen[s]) \in Nat
      BY <2>1, AlertsFinite
    <3>2. QED
      BY <1>2, <1>6, <3>1, FS_AddElement
  <2>7. PICK d \in {0, 1} : /\ repeats' = [repeats EXCEPT ![s] = repeats[s] + d]
                            /\ d + Cardinality(left) = Cardinality(unknown)
    <3>1. CASE i \in shown[s]
      BY <1>3, <1>6, <2>4, <2>5, <3>1
    <3>2. CASE i \notin shown[s]
      <4>1. repeats' = [repeats EXCEPT ![s] = repeats[s] + 0]
        BY <1>3, <1>6, <2>1, <3>2 DEF StreamInv
      <4>2. QED
        BY <2>4, <2>5, <3>2, <4>1
    <3>3. QED
      BY <3>1, <3>2
  <2>8. shown' = [shown EXCEPT ![s] = shown[s] \cup {i}] /\ shown[s] \cup {i} \in SUBSET Alerts
    BY <1>3, <1>4, <1>6, <2>1
  <2>9. CASE Cardinality(known) <= Memory
    <3>1. seen' = [seen EXCEPT ![s] = known] /\ UNCHANGED forgot
      BY <1>3, <1>6, <2>9
    <3>2. repeats[s] + d + Cardinality(left) <= forgot[s]
      BY <2>1, <2>2, <2>5, <2>7
    <3>3. seen'[s] = known /\ shown'[s] \ seen'[s] = left /\ repeats'[s] = repeats[s] + d
      BY <2>4, <2>7, <2>8, <3>1 DEF StreamInv
    <3>4. \A t \in Streams : Cardinality(seen'[t]) <= Memory
      BY <2>9, <3>1, <3>3 DEF StreamInv
    <3>5. \A t \in Streams : repeats'[t] + Cardinality(shown'[t] \ seen'[t]) <= forgot'[t]
      BY <2>7, <2>8, <3>1, <3>2, <3>3 DEF StreamInv
    <3>6. /\ seen' \in [Streams -> SUBSET Alerts] /\ shown' \in [Streams -> SUBSET Alerts]
          /\ repeats' \in [Streams -> Nat] /\ forgot' \in [Streams -> Nat]
      BY <2>1, <2>7, <2>8, <3>1 DEF StreamInv
    <3>7. QED
      BY <1>4, <3>4, <3>5, <3>6 DEF StreamInv
  <2>10. CASE ~(Cardinality(known) <= Memory)
    <3>0. PICK x \in known : seen' = [seen EXCEPT ![s] = known \ {x}]
      BY <1>3, <1>6, <2>10
    <3>1. forgot' = [forgot EXCEPT ![s] = forgot[s] + 1]
      BY <1>3, <1>6, <2>10
    <3>2. PICK rest : rest = (shown[s] \cup {i}) \ (known \ {x})
      OBVIOUS
    <3>3. rest \in SUBSET (left \cup {x}) /\ IsFiniteSet(left)
      BY <2>4, <3>2, AlertsFinite
    <3>4. /\ IsFiniteSet(left \cup {x}) /\ Cardinality(left \cup {x}) \in Nat
          /\ Cardinality(left \cup {x}) <= Cardinality(left) + 1
      <4>1. /\ IsFiniteSet(left \cup {x})
            /\ Cardinality(left \cup {x}) = IF x \in left THEN Cardinality(left) ELSE Cardinality(left) + 1
        BY <3>3, FS_AddElement
      <4>2. QED
        BY <2>5, <4>1
    <3>5. Cardinality(rest) \in Nat /\ Cardinality(rest) <= Cardinality(left) + 1
      BY <2>5, <3>3, <3>4, FS_Subset, FS_CardinalityType
    <3>6. repeats[s] + d + Cardinality(rest) <= forgot[s] + 1
      BY <2>1, <2>2, <2>5, <2>7, <3>5
    <3>7. /\ seen'[s] = known \ {x} /\ shown'[s] \ seen'[s] = rest
          /\ repeats'[s] = repeats[s] + d /\ forgot'[s] = forgot[s] + 1
      BY <2>7, <2>8, <3>0, <3>1, <3>2 DEF StreamInv
    <3>8. Cardinality(known \ {x}) <= Memory
      <4>1. Cardinality(known \ {x}) = Cardinality(known) - 1
        BY <2>6, <3>0, FS_RemoveElement
      <4>2. QED
        BY <2>1, <2>6, <4>1
    <3>9. \A t \in Streams : Cardinality(seen'[t]) <= Memory
      BY <3>0, <3>7, <3>8 DEF StreamInv
    <3>10. \A t \in Streams : repeats'[t] + Cardinality(shown'[t] \ seen'[t]) <= forgot'[t]
      BY <2>7, <2>8, <3>0, <3>1, <3>6, <3>7 DEF StreamInv
    <3>11. known \ {x} \in SUBSET Alerts
      BY <2>1
    <3>12. /\ seen' \in [Streams -> SUBSET Alerts] /\ shown' \in [Streams -> SUBSET Alerts]
           /\ repeats' \in [Streams -> Nat] /\ forgot' \in [Streams -> Nat]
      BY <2>1, <2>7, <2>8, <3>0, <3>1, <3>11 DEF StreamInv
    <3>13. QED
      BY <1>4, <3>9, <3>10, <3>12 DEF StreamInv
  <2>11. QED
    BY <2>9, <2>10
<1>7. QED
  BY <1>5, <1>6

--------------------------------------------------------------------------------
(* Both together.                                                               *)

FeedInv == RaiseInv /\ StreamInv

LEMMA StepFeedInv == FeedInv /\ [FeedNext]_feedVars => FeedInv'
<1>0. SUFFICES ASSUME FeedInv, [FeedNext]_feedVars PROVE RaiseInv' /\ StreamInv'
  BY DEF FeedInv
<1>1. RaiseInv /\ StreamInv /\ losses \in 0 .. MaxLosses /\ by \in [Alerts -> Operators \cup {Nobody}]
  BY <1>0 DEF FeedInv, RaiseInv, FeedTypes
<1>2. ASSUME UNCHANGED streams PROVE StreamInv'
  BY <1>1, <1>2 DEF StreamInv, streams
<1>3. ASSUME UNCHANGED <<alerts, matching, polling>>, losses' \in 0 .. MaxLosses PROVE RaiseInv'
  BY <1>1, <1>3, OtherRaiseInv DEF alerts
<1>4. CASE UNCHANGED feedVars
  BY <1>1, <1>2, <1>3, <1>4 DEF feedVars
<1>5. ASSUME NEW p \in Processes, InsertRow(p) PROVE RaiseInv' /\ StreamInv'
  BY <1>1, <1>2, <1>5, InsertRaiseInv DEF InsertRow
<1>6. ASSUME NEW p \in Processes, Commit(p) PROVE RaiseInv' /\ StreamInv'
  BY <1>1, <1>2, <1>6, CommitRaiseInv DEF Commit
<1>7. ASSUME NEW p \in Processes, Conflict(p) PROVE RaiseInv' /\ StreamInv'
  BY <1>1, <1>2, <1>7, ConflictRaiseInv DEF Conflict
<1>8. ASSUME NEW p \in Processes, Revive(p) PROVE RaiseInv' /\ StreamInv'
  BY <1>1, <1>2, <1>8, BroadcastRaiseInv DEF Revive
<1>9. ASSUME NEW p \in Processes, BroadcastLocal(p) PROVE RaiseInv' /\ StreamInv'
  <2>1. PICK i \in Alerts : i = raising[p]
    BY <1>1, <1>9 DEF RaiseInv, FeedTypes, BroadcastLocal
  <2>2. \E S : Put(S, i) /\ UNCHANGED <<live, seen, shown, repeats, forgot>>
    BY <1>9, <2>1 DEF BroadcastLocal
  <2>3. QED
    BY <1>1, <1>9, <2>2, BroadcastRaiseInv, PutStream
<1>10. ASSUME NEW p \in Processes, BroadcastRemote(p) PROVE RaiseInv' /\ StreamInv'
  <2>1. PICK i \in Alerts : i = raising[p]
    BY <1>1, <1>10 DEF RaiseInv, FeedTypes, BroadcastRemote
  <2>2. \E S : Put(S, i) /\ UNCHANGED <<live, seen, shown, repeats, forgot>>
    BY <1>10, <2>1 DEF BroadcastRemote
  <2>3. QED
    BY <1>1, <1>10, <2>2, BroadcastRaiseInv, PutStream
<1>11. ASSUME NEW s \in Streams, Connect(s) PROVE RaiseInv' /\ StreamInv'
  <2>1. Fresh(s) /\ live' \subseteq Streams
    BY <1>1, <1>11 DEF Connect, StreamInv
  <2>2. QED
    BY <1>1, <1>3, <1>11, <2>1, FreshStream DEF Connect
<1>12. ASSUME NEW s \in Streams, Disconnect(s) PROVE RaiseInv' /\ StreamInv'
  <2>1. Fresh(s) /\ live' \subseteq Streams
    BY <1>1, <1>12 DEF Disconnect, StreamInv
  <2>2. losses' \in 0 .. MaxLosses
    BY <1>1, <1>12, FeedAssumption DEF Disconnect
  <2>3. QED
    BY <1>1, <1>3, <1>12, <2>1, <2>2, FreshStream DEF Disconnect
<1>13. ASSUME NEW s \in Streams, Show(s) PROVE RaiseInv' /\ StreamInv'
  BY <1>1, <1>3, <1>13, ShowStream DEF Show
<1>14. CASE Poll
  BY <1>1, <1>2, <1>14, PollRaiseInv DEF Poll
<1>15. ASSUME NEW o \in Operators, NEW i \in Alerts, AcknowledgeAlert(o, i)
       PROVE  RaiseInv' /\ StreamInv'
  <2>1. by' \in [Alerts -> Operators \cup {Nobody}] /\ losses' \in 0 .. MaxLosses
    BY <1>1, <1>15 DEF AcknowledgeAlert
  <2>2. QED
    BY <1>1, <1>2, <1>15, <2>1, OtherRaiseInv DEF AcknowledgeAlert
<1>16. QED
  BY <1>0, <1>4, <1>5, <1>6, <1>7, <1>8, <1>9, <1>10, <1>11, <1>12, <1>13, <1>14, <1>15
     DEF FeedNext, Raise

LEMMA FeedImplied == FeedInv => FeedTypeOK /\ PollMissesOvertaken /\ ShownPaidFor
<1>1. SUFFICES ASSUME FeedInv PROVE FeedTypeOK /\ ShownPaidFor
  BY DEF FeedInv, RaiseInv, PollInv
<1>2. FeedTypeOK
  BY <1>1 DEF FeedInv, RaiseInv, FeedTypes, StreamInv, FeedTypeOK
<1>3. ASSUME NEW s \in Streams PROVE repeats[s] <= forgot[s]
  <2>1. shown[s] \ seen[s] \in SUBSET Alerts /\ repeats[s] \in Nat /\ forgot[s] \in Nat
    BY <1>1 DEF FeedInv, StreamInv
  <2>2. Cardinality(shown[s] \ seen[s]) \in Nat
    BY <2>1, AlertsFinite
  <2>3. repeats[s] + Cardinality(shown[s] \ seen[s]) <= forgot[s]
    BY <1>1 DEF FeedInv, StreamInv
  <2>4. QED
    BY <2>1, <2>2, <2>3
<1>4. QED
  BY <1>2, <1>3 DEF ShownPaidFor

\* An acknowledgement only ever names an operator.
LEMMA AcknowledgedStays ==
  ASSUME FeedInv, [FeedNext]_feedVars, NEW i \in Alerts, by[i] # Nobody
  PROVE  by'[i] # Nobody
<1>1. CASE UNCHANGED by
  BY <1>1
<1>2. ASSUME NEW o \in Operators, NEW j \in Alerts, AcknowledgeAlert(o, j) PROVE by'[i] # Nobody
  BY <1>2, FeedAssumption DEF AcknowledgeAlert, FeedInv, RaiseInv, FeedTypes
<1>3. UNCHANGED by \/ \E o \in Operators, j \in Alerts : AcknowledgeAlert(o, j)
  BY DEF FeedNext, feedVars, alerts, InsertRow, Revive, Raise, Commit, Conflict, BroadcastLocal,
    BroadcastRemote, Connect, Disconnect, Show, Poll
<1>4. QED
  BY <1>1, <1>2, <1>3

\* A client that polls misses only alerts that were committed after one with a higher id, an
\* event stream shows an alert again only for one it forgot, and what was acknowledged stays
\* so, for any number of processes, streams, operators and alerts, whatever a page and a
\* memory hold (AlertRepository.dsai_poll_alerts, dsai_stream_alerts, dsai_acknowledge).
THEOREM FeedIsKept == FeedSpec => FeedHolds
<1>1. FeedInit => FeedInv
  BY InitRaiseInv, InitStreamInv DEF FeedInv
<1>2. FeedInv /\ [FeedNext]_feedVars => FeedInv'
  BY StepFeedInv
<1>3. FeedInv => FeedTypeOK /\ PollMissesOvertaken /\ ShownPaidFor
  BY FeedImplied
<1>4. FeedInv /\ [FeedNext]_feedVars
        => [\A i \in Alerts : by[i] # Nobody => by'[i] # Nobody]_feedVars
  BY AcknowledgedStays
<1>5. QED
  BY <1>1, <1>2, <1>3, <1>4, PTL DEF FeedSpec, FeedHolds, AcknowledgedForGood
==================================================================================
