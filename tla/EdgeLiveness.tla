------------------------------ MODULE EdgeLiveness ------------------------------
(***************************************************************************)
(* Is a camera that pushes its events alive?  Heartbeats and ingested      *)
(* events, served by several threads, take the time and then store it;     *)
(* whoever asks compares what is stored with the time then.  What is       *)
(* stored is whole seconds, and Redis forgets it after a day.  One camera. *)
(***************************************************************************)
EXTENDS Integers

CONSTANTS
  Servers,       \* threads that serve heartbeats and events
  Second,        \* ticks of the clock in a second
  MaxIdle,       \* max_idle_seconds, in ticks
  Day,           \* the TTL, in ticks
  MaxTime,       \* bound: the clock
  MaxRefused     \* bound: calls that Redis refuses

ASSUME LivenessAssumption == Second \in Nat \ {0} /\ {MaxIdle, Day, MaxTime, MaxRefused} \subseteq Nat

Never == -1

VARIABLES
  now,
  beat,          \* per thread: the time it took, or Never
  lastSeen, setAt, \* what is stored, and since when; or Never
  heard,         \* history: the latest time that a call to Redis was made for
  refusals,      \* history: calls refused
  overtaken      \* history: an earlier time was stored over a later one

livenessVars == <<now, beat, lastSeen, setAt, heard, refusals, overtaken>>

LivenessInit ==
  /\ now = 0 /\ beat = [s \in Servers |-> Never] /\ lastSeen = Never /\ setAt = Never
  /\ heard = Never /\ refusals = 0 /\ overtaken = FALSE

WholeSeconds(t) == (t \div Second) * Second

LivenessTick == now < MaxTime /\ now' = now + 1 /\ UNCHANGED <<beat, lastSeen, setAt, heard, refusals, overtaken>>

\* A heartbeat for a camera of the device, or an event that was just inserted.
Beat(s) ==
  /\ beat[s] = Never /\ beat' = [beat EXCEPT ![s] = now]
  /\ UNCHANGED <<now, lastSeen, setAt, heard, refusals, overtaken>>

\* SET, or a warning.
RecordLiveness(s) ==
  /\ beat[s] # Never /\ beat' = [beat EXCEPT ![s] = Never]
  /\ heard' = IF beat[s] > heard THEN beat[s] ELSE heard
  /\ \/ lastSeen' = WholeSeconds(beat[s]) /\ setAt' = now /\ overtaken' = (beat[s] < heard) /\ UNCHANGED refusals
     \/ refusals < MaxRefused /\ refusals' = refusals + 1 /\ UNCHANGED <<lastSeen, setAt, overtaken>>
  /\ UNCHANGED now

Forget ==
  /\ setAt # Never /\ now - setAt >= Day /\ lastSeen' = Never /\ setAt' = Never
  /\ UNCHANGED <<now, beat, heard, refusals, overtaken>>

\* What the answer is if somebody asks.
Stale == lastSeen = Never \/ now - lastSeen > MaxIdle

LivenessNext ==
  \/ LivenessTick \/ Forget \/ \E s \in Servers : Beat(s) \/ RecordLiveness(s)

LivenessSpec == LivenessInit /\ [][LivenessNext]_livenessVars

--------------------------------------------------------------------------------
LivenessTypeOK ==
  /\ now \in 0 .. MaxTime /\ beat \in [Servers -> Never .. now]
  /\ {lastSeen, setAt, heard} \subseteq Never .. now /\ lastSeen <= setAt /\ refusals \in 0 .. MaxRefused

\* A camera is called active only if it was heard of within max_idle_seconds; and stale only
\* if it was not, but for the second that is cut off, or because Redis refused or forgot,
\* or one thread's earlier time came after another's later one.
LivenessHolds ==
  /\ LivenessTypeOK
  /\ ~Stale => heard # Never /\ now - heard <= MaxIdle
  /\ Stale /\ heard # Never /\ now - heard <= MaxIdle - (Second - 1) => refusals > 0 \/ overtaken \/ MaxIdle >= Day
================================================================================
