---------------------------- MODULE WatchlistMatcher ----------------------------
(***************************************************************************)
(* Watchlist matching processes: each takes detection events from the      *)
(* object stream, compares them with the active watchlist entries, and for *)
(* every match asks the alert flood safeguard, commits an alert row,       *)
(* publishes a WatchlistAlertEvent and broadcasts it.                      *)
(*                                                                         *)
(* Reading and acknowledging are those of ResilientConsumer; here they are *)
(* one step each.  The safeguard is memory of one process; alert rows and  *)
(* the alert stream are shared and durable.                                *)
(***************************************************************************)
EXTENDS Integers, Sequences, FiniteSets

CONSTANTS
  Matchers,      \* matcher processes
  Entries,       \* active watchlist entries of the tenant
  Detections,    \* detected objects, each with one event on the object stream
  Cameras,
  None,          \* not a detection, not an entry
  CameraOf,      \* the camera of a detection
  Matches,       \* pairs <<entry, detection>> that plate or re-id matching accepts
  Cooldown,      \* dsai_cooldown_seconds
  Window,        \* dsai_window_seconds
  Threshold,     \* dsai_flood_threshold
  AutoDisable,   \* dsai_auto_disable
  MaxRetries,    \* dsai_max_retries
  Overlap,       \* TRUE: an event may be taken while another matcher works on it
  MaxTime,       \* bound: the clock
  MaxCrashes,    \* bound: process crashes
  MaxFaults      \* bound: failing database and Redis calls

ASSUME MatcherAssumption ==
  /\ CameraOf \in [Detections -> Cameras]
  /\ Matches \subseteq Entries \X Detections
  /\ None \notin Entries \cup Detections
  /\ Cooldown \in Nat /\ Window \in Nat /\ Threshold \in Nat /\ MaxRetries \in Nat \ {0}
  /\ AutoDisable \in BOOLEAN /\ Overlap \in BOOLEAN
  /\ MaxTime \in Nat /\ MaxCrashes \in Nat /\ MaxFaults \in Nat

VARIABLES
  now,           \* the clock
  pending,       \* detection events not acknowledged
  deadLetters,   \* detection events in the dead letter stream
  rows,          \* alerts table: rows per <<entry, detection>>
  emitted,       \* WatchlistAlertEvents published per <<entry, detection>>
  pc,            \* per matcher: idle, match, lookup, insert or publish
  event,         \* per matcher: the detection it works on
  todo,          \* per matcher: matches it has not dealt with
  entry,         \* per matcher: the entry of the alert it is raising
  attempts,      \* per matcher: dsai_retry_counts
  guard,         \* per matcher: its AlertFloodSafeguard
  issued,        \* history: every alert recorded: who, entry, camera and time
  born,          \* history: per matcher, alerts recorded before its last start
  crashes, faults

job == <<pc, event, todo, entry, attempts>>
vars == <<now, pending, deadLetters, rows, emitted, job, guard, issued, born, crashes, faults>>

--------------------------------------------------------------------------------
(* The safeguard.  last: dsai_cooldown_map; known, recent: dsai_flood_map, its   *)
(* keys and its times, numbered so that equal ones stay apart;                   *)
(* disabled: dsai_disabled_entries.                                              *)

NewGuard ==
  [last |-> [k \in Entries \X Cameras |-> -Cooldown],
   known |-> {}, recent |-> [e \in Entries |-> {}],
   disabled |-> {}]

\* The camera's last alert for this entry is too recent.
CoolingDown(g, e, c) == now - g.last[<<e, c>>] < Cooldown

\* The alert times still inside the sliding window.
InWindow(g, e) == {r \in g.recent[e] : now - r[2] <= Window}

FloodedLate(g, e) == e \in g.known /\ Cardinality(InWindow(g, e)) > Threshold

\* An entry without an alert yet is not counted.
Flooded(g, e) == e \in g.known /\ Cardinality(InWindow(g, e)) >= Threshold

\* dsai_should_suppress: the verdict, and the safeguard after it.
Suppressed(g, e, c) == e \in g.disabled \/ CoolingDown(g, e, c) \/ Flooded(g, e)

AfterCheck(g, e, c) ==
  IF e \in g.disabled \/ CoolingDown(g, e, c) THEN g
  ELSE [g EXCEPT !.recent = [@ EXCEPT ![e] = InWindow(g, e)],
                 !.disabled = IF Flooded(g, e) /\ AutoDisable THEN @ \cup {e} ELSE @]

\* dsai_record_alert.
AfterAlert(g, e, c) ==
  [g EXCEPT !.last = [@ EXCEPT ![<<e, c>>] = now], !.known = @ \cup {e},
            !.recent = [@ EXCEPT ![e] = g.recent[e] \cup {<<Len(issued) + 1, now>>}]]

--------------------------------------------------------------------------------
Init ==
  /\ now = 0 /\ pending = Detections /\ deadLetters = {}
  /\ rows = [k \in Entries \X Detections |-> 0]
  /\ emitted = [k \in Entries \X Detections |-> 0]
  /\ pc = [p \in Matchers |-> "idle"]
  /\ event = [p \in Matchers |-> None] /\ entry = [p \in Matchers |-> None]
  /\ todo = [p \in Matchers |-> {}]
  /\ attempts = [p \in Matchers |-> [d \in Detections |-> 0]]
  /\ guard = [p \in Matchers |-> NewGuard]
  /\ issued = <<>> /\ born = [p \in Matchers |-> 0]
  /\ crashes = 0 /\ faults = 0

Tick ==
  /\ now < MaxTime
  /\ now' = now + 1
  /\ UNCHANGED <<pending, deadLetters, rows, emitted, job, guard, issued, born, crashes, faults>>

Fault == faults < MaxFaults /\ faults' = faults + 1

\* The matching entries, by plate or by embedding, in the order of the cache.
MatchesOf(d) == {e \in Entries : <<e, d>> \in Matches}

\* A matcher reads a detection event and matches it.
Take(p, d) ==
  /\ pc[p] = "idle" /\ d \in pending
  /\ Overlap \/ \A q \in Matchers : event[q] # d
  /\ event' = [event EXCEPT ![p] = d]
  /\ todo' = [todo EXCEPT ![p] = MatchesOf(d)]
  /\ pc' = [pc EXCEPT ![p] = "match"]
  /\ UNCHANGED <<now, pending, deadLetters, rows, emitted, entry, attempts, guard, issued,
                 born, crashes, faults>>

\* Ask the safeguard about the next match: drop it, or go on to its alert row.
Check(p, e) ==
  LET c == CameraOf[event[p]] IN
  /\ pc[p] = "match" /\ e \in todo[p]
  /\ guard' = [guard EXCEPT ![p] = AfterCheck(@, e, c)]
  /\ todo' = [todo EXCEPT ![p] = @ \ {e}]
  /\ IF Suppressed(guard[p], e, c)
     THEN UNCHANGED <<pc, entry>>
     ELSE pc' = [pc EXCEPT ![p] = "lookup"] /\ entry' = [entry EXCEPT ![p] = e]
  /\ UNCHANGED <<now, pending, deadLetters, rows, emitted, event, attempts, issued,
                 born, crashes, faults>>

Idle(p) ==
  /\ pc' = [pc EXCEPT ![p] = "idle"] /\ event' = [event EXCEPT ![p] = None]
  /\ entry' = [entry EXCEPT ![p] = None] /\ todo' = [todo EXCEPT ![p] = {}]

\* The match that an alert is raised for.
Alert(p) == <<entry[p], event[p]>>

\* The attempt that fails now is not the last one.
MayRetry(p) == attempts[p][event[p]] + 1 < MaxRetries

\* The handler raises; the event stays pending, or goes to the dead letter stream.
Fail(p) ==
  /\ Fault
  /\ Idle(p)
  /\ IF MayRetry(p)
     THEN /\ attempts' = [attempts EXCEPT ![p][event[p]] = @ + 1]
          /\ UNCHANGED <<pending, deadLetters>>
     ELSE /\ attempts' = [attempts EXCEPT ![p][event[p]] = 0]
          /\ pending' = pending \ {event[p]}
          /\ deadLetters' = deadLetters \cup {event[p]}

\* The alert is in the database: record it in the safeguard, publish it next.
Committed(p) ==
  LET c == CameraOf[event[p]] IN
  /\ guard' = [guard EXCEPT ![p] = AfterAlert(@, entry[p], c)]
  /\ issued' = Append(issued, [by |-> p, entry |-> entry[p], camera |-> c, at |-> now])
  /\ pc' = [pc EXCEPT ![p] = "publish"]
  /\ UNCHANGED <<event, todo, entry, attempts, pending, deadLetters>>

\* No such alert yet: insert it.
Miss(p) == pc' = [pc EXCEPT ![p] = "insert"]

\* dsai_create, first the query: an alert of this match may exist already.
Lookup(p) ==
  /\ pc[p] = "lookup"
  /\ \/ rows[Alert(p)] > 0 /\ Committed(p) /\ UNCHANGED faults
     \/ /\ rows[Alert(p)] = 0
        /\ Miss(p)
        /\ UNCHANGED <<event, todo, entry, attempts, guard, issued, pending, deadLetters, faults>>
     \/ Fail(p) /\ UNCHANGED <<guard, issued>>
  /\ UNCHANGED <<now, rows, emitted, born, crashes>>

AddRowTwice(k) == rows' = [rows EXCEPT ![k] = @ + 1]

\* The insert; the unique constraint turns a second row into an IntegrityError, on which
\* the existing alert is returned.
AddRow(k) == IF rows[k] > 0 THEN UNCHANGED rows ELSE rows' = [rows EXCEPT ![k] = @ + 1]

FailedCommitRecorded(p) ==
  /\ Fail(p)
  /\ guard' = [guard EXCEPT ![p] = AfterAlert(@, entry[p], CameraOf[event[p]])]
  /\ UNCHANGED issued

\* Nothing is recorded in the safeguard when the commit fails.
FailedCommit(p) == Fail(p) /\ UNCHANGED <<guard, issued>>

\* Then the insert; its commit fails, or is done and reported as failed.
Insert(p) ==
  /\ pc[p] = "insert"
  /\ \/ AddRow(Alert(p)) /\ Committed(p) /\ UNCHANGED faults
     \/ FailedCommit(p) /\ (AddRow(Alert(p)) \/ UNCHANGED rows)
  /\ UNCHANGED <<now, emitted, born, crashes>>

\* Publish and broadcast the alert; a failing publish makes the whole handler fail.
Publish(p) ==
  /\ pc[p] = "publish"
  /\ \/ /\ emitted' = [emitted EXCEPT ![Alert(p)] = @ + 1]
        /\ pc' = [pc EXCEPT ![p] = "match"] /\ entry' = [entry EXCEPT ![p] = None]
        /\ UNCHANGED <<event, todo, attempts, pending, deadLetters, faults>>
     \/ Fail(p) /\ UNCHANGED emitted
  /\ UNCHANGED <<now, rows, guard, issued, born, crashes>>

AcknowledgeNothing(d) == UNCHANGED pending

Acknowledge(d) == pending' = pending \ {d}

\* All matches are dealt with: acknowledge the event.
Done(p) ==
  /\ pc[p] = "match" /\ todo[p] = {}
  /\ Idle(p)
  /\ Acknowledge(event[p])
  /\ attempts' = [attempts EXCEPT ![p][event[p]] = 0]
  /\ UNCHANGED <<now, deadLetters, rows, emitted, guard, issued, born, crashes, faults>>

\* A process dies and comes back with an empty safeguard.
Crash(p) ==
  /\ crashes < MaxCrashes /\ crashes' = crashes + 1
  /\ Idle(p)
  /\ attempts' = [attempts EXCEPT ![p] = [d \in Detections |-> 0]]
  /\ guard' = [guard EXCEPT ![p] = NewGuard]
  /\ born' = [born EXCEPT ![p] = Len(issued)]
  /\ UNCHANGED <<now, pending, deadLetters, rows, emitted, issued, faults>>

Step(p) ==
  \/ \E d \in Detections : Take(p, d)
  \/ \E e \in Entries : Check(p, e)
  \/ Lookup(p) \/ Insert(p) \/ Publish(p) \/ Done(p)

\* All events are settled; the processes wait for more.
Quiet ==
  /\ pending = {} /\ \A p \in Matchers : pc[p] = "idle"
  /\ UNCHANGED vars

Next == Tick \/ Quiet \/ \E p \in Matchers : Step(p) \/ Crash(p)

Spec == Init /\ [][Next]_vars

\* The consumer loop never stops working.
FairSpec == Spec /\ \A p \in Matchers : WF_vars(Step(p))

--------------------------------------------------------------------------------
(* Properties *)

Keys == Entries \X Detections

\* Every variable has its type.
TypeOK ==
  /\ now \in 0..MaxTime
  /\ pending \subseteq Detections /\ deadLetters \subseteq Detections
  /\ rows \in [Keys -> Nat] /\ emitted \in [Keys -> Nat]
  /\ pc \in [Matchers -> {"idle", "match", "lookup", "insert", "publish"}]
  /\ event \in [Matchers -> Detections \cup {None}]
  /\ entry \in [Matchers -> Entries \cup {None}]
  /\ todo \in [Matchers -> SUBSET Entries]
  /\ attempts \in [Matchers -> [Detections -> 0..(MaxRetries - 1)]]
  /\ \A p \in Matchers :
       /\ guard[p].last \in [Entries \X Cameras -> -Cooldown..MaxTime]
       /\ \A e \in Entries : guard[p].recent[e] \subseteq (1..Len(issued)) \X (0..now)
       /\ guard[p].known \subseteq Entries /\ guard[p].disabled \subseteq guard[p].known
  /\ crashes \in 0..MaxCrashes /\ faults \in 0..MaxFaults

\* The alerts a matcher has recorded since it was started last.
IssuedBy(p) == {i \in 1..Len(issued) : i > born[p] /\ issued[i].by = p}

\* One running matcher never raises two alerts for the same entry and camera closer
\* together than the cooldown, however long a commit takes after the check.
CooldownSpacing ==
  \A p \in Matchers : \A i, j \in IssuedBy(p) :
    i < j /\ issued[i].entry = issued[j].entry /\ issued[i].camera = issued[j].camera
      => issued[j].at - issued[i].at >= Cooldown

\* One running matcher never raises more than Threshold alerts for an entry within
\* any window, over all cameras together; with a Threshold of 0, the one that is not counted.
FloodBound ==
  \A p \in Matchers : \A i \in IssuedBy(p) :
    Cardinality({j \in IssuedBy(p) : j <= i /\ issued[j].entry = issued[i].entry
                                     /\ issued[i].at - issued[j].at <= Window})
      <= IF Threshold = 0 THEN 1 ELSE Threshold

\* An entry is auto-disabled only after a flood: some window held Threshold of its alerts.
DisabledForCause ==
  \A p \in Matchers : \A e \in guard[p].disabled :
    \E t \in 0..now :
      Cardinality({j \in IssuedBy(p) : issued[j].entry = e
                                       /\ issued[j].at \in (t - Window)..t}) >= Threshold

\* What the safeguard promises of one running matcher: alerts are spaced and their number is
\* bounded, and it is not disabled for less.
SafeguardHolds == TypeOK /\ CooldownSpacing /\ FloodBound /\ DisabledForCause

\* Two matchers that work on the same event, and retries after a commit whose reply
\* was lost, still leave one alert row per match, and it is there before anyone hears of it.
OneAlertRow == \A k \in Keys : rows[k] <= 1 /\ (emitted[k] > 0 => rows[k] = 1)

\* A match is only ever missing from the alerts table because of other alerts of the
\* same entry (cooldown, flood), or because its event was dead-lettered: a failed
\* commit does not let the safeguard suppress its own retry.
MatchesAccountedFor ==
  \A e \in Entries, d \in Detections :
    <<e, d>> \in Matches /\ d \notin pending \cup deadLetters
      => \E k \in Detections : rows[e, k] > 0

\* When no event is handed over, an alert is published again only as the price of a
\* crash or of a failing call.
RepeatsArePaidFor == \A k \in Keys : emitted[k] <= 1 + crashes + faults

\* Every detection event is settled.
EverySettles == \A d \in Detections : d \in pending ~> d \notin pending

(* What the comments say and the code does not do *)

\* "Inserts alerts durably, emits WatchlistAlertEvent, and broadcasts to SSE": once
\* its event is acknowledged, a committed alert has been emitted.
CommittedIsEmitted ==
  \A e \in Entries, d \in Detections :
    d \notin pending \cup deadLetters /\ rows[e, d] > 0 => emitted[e, d] > 0

\* "Rate limits duplicate alerts per (tenant_id, watchlist_entry_id, camera_id) within
\* cooldown window", whichever process raises them.
CooldownHolds ==
  \A i, j \in 1..Len(issued) :
    i < j /\ issued[i].entry = issued[j].entry /\ issued[i].camera = issued[j].camera
      => issued[j].at - issued[i].at >= Cooldown
================================================================================
