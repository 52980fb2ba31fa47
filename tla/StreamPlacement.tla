---------------------------- MODULE StreamPlacement ----------------------------
(***************************************************************************)
(* Pull-path ingestion: routers place camera streams on extractors they    *)
(* look up in the registry, extractors run the streams and report their    *)
(* load in heartbeats, and the registry's reconciliation loop moves the    *)
(* streams of extractors whose heartbeats have ceased.                     *)
(*                                                                         *)
(* The registry knows a stream by its assignment, the extractor by its     *)
(* table of active streams; no step of the system changes both.            *)
(***************************************************************************)
EXTENDS Integers, Sequences, FiniteSets, FiniteSetsExt

CONSTANTS
  Extractors, Cameras, Routers,
  None,          \* not an extractor, not a camera
  HardLimit,     \* RTSP_HARD_LIMIT, streams of an extractor
  SoftLimit,     \* RTSP_SOFT_LIMIT, streams of a degraded extractor
  Batch,         \* DSAI_MAX_FAILOVER_BATCH
  Trusted,       \* TRUE: an extractor may take the failover's call; FALSE: the code, whose
                 \* call carries no token and is answered 401
  Restarts,      \* TRUE: crashed extractors come back under their id
  MaxStarts,     \* bound: requests to start a camera
  MaxStreams,    \* bound: streams ever opened
  MaxCrashes,    \* bound: crashes of extractors, drained extractors
  MaxFaults      \* bound: lost calls, lost answers, missed heartbeats, failed cameras,
                 \* crashes of the registry

ASSUME PlacementAssumption ==
  /\ None \notin Extractors \cup Cameras
  /\ HardLimit \in Nat \ {0} /\ SoftLimit \in 1 .. HardLimit /\ Batch \in Nat \ {0}
  /\ Trusted \in BOOLEAN /\ Restarts \in BOOLEAN
  /\ MaxStarts \in Nat /\ MaxStreams \in Nat /\ MaxCrashes \in Nat /\ MaxFaults \in Nat

VARIABLES
  up, draining, degraded,  \* sets of extractors
  active,        \* per extractor: _active_rtsp_streams
  byCamera,      \* per extractor and camera: _active_camera_streams, 0 for no entry
  stopping,      \* streams whose event is set
  cameraOf,      \* cameras of the streams opened so far; a stream is an index of it
  alive,         \* registry: extractors with a heartbeat within the TTL of 60 s
  spare,         \* registry: the sorted set of spare capacity
  assigned,      \* registry: extractor of each assigned stream, None for no entry
  pending,       \* registry: assignments in "failover_pending"
  loop,          \* the reconciliation loop: pc, streams left, and the one it moves
  job,           \* per router: the request it works on
  wanted,        \* cameras whose last request that was answered with success started them
  starts,        \* history: per camera, requests to start it
  crashes, faults

node == <<up, draining, degraded>>
table == <<active, byCamera, cameraOf>>
registry == <<alive, spare, assigned, pending>>
vars == <<node, table, stopping, registry, loop, job, wanted, starts, crashes, faults>>

Streams == 1 .. MaxStreams

Running == UNION {active[e] : e \in Extractors}

\* A router's request that starts a camera at e, or asks the extractors left to stop it.
Request(pc, c, e, left) ==
  [pc |-> pc, camera |-> c, target |-> e, stream |-> 0, left |-> left, found |-> FALSE]

Idle == Request("idle", None, None, {})

\* The reconciliation loop with these streams left to move, waiting when there are none.
Scan(left) ==
  [pc |-> IF left = {} THEN "idle" ELSE "lookup", left |-> left,
   old |-> 0, target |-> None, new |-> 0]

Waiting == Scan({})

Init ==
  /\ up = Extractors /\ draining = {} /\ degraded = {}
  /\ active = [e \in Extractors |-> {}]
  /\ byCamera = [e \in Extractors |-> [c \in Cameras |-> 0]]
  /\ stopping = {} /\ cameraOf = <<>>
  /\ alive = Extractors /\ spare = [e \in Extractors |-> HardLimit]
  /\ assigned = [s \in Streams |-> None] /\ pending = {}
  /\ loop = Waiting /\ job = [q \in Routers |-> Idle]
  /\ wanted = {} /\ starts = [c \in Cameras |-> 0] /\ crashes = 0 /\ faults = 0

Fault == faults < MaxFaults /\ faults' = faults + 1
Crashing == crashes < MaxCrashes /\ crashes' = crashes + 1

--------------------------------------------------------------------------------
(* The registry's lookup.  Entries it prunes are those of extractors without a  *)
(* heartbeat, which it would pass over anyway.                                  *)

\* Extractors the lookup may return: alive, and of the highest spare capacity.
Best ==
  LET healthy == {e \in alive : spare[e] > 0}
  IN {e \in healthy : \A f \in healthy : spare[f] <= spare[e]}

--------------------------------------------------------------------------------
(* Extractors.                                                                  *)

EffectiveLimit(e) == IF e \in draining THEN 0
                     ELSE IF e \in degraded THEN SoftLimit ELSE HardLimit

HasRoomForOneMore(e) == Cardinality(active[e]) <= EffectiveLimit(e)

HasRoom(e) == Cardinality(active[e]) < EffectiveLimit(e)

\* POST /extract_stream: admit the stream under a fresh id, under the extractor's lock.
Open(e, c) ==
  LET s == Len(cameraOf) + 1 IN
  /\ e \in up /\ HasRoom(e) /\ s \in Streams
  /\ cameraOf' = Append(cameraOf, c)
  /\ active' = [active EXCEPT ![e] = @ \cup {s}]
  /\ byCamera' = [byCamera EXCEPT ![e][c] = s]

\* The call is rejected, or nobody answers it.
Refused(e) == (e \notin up \/ ~HasRoom(e)) /\ UNCHANGED table

ForgetCameraAlways(e, s) == byCamera' = [byCamera EXCEPT ![e][cameraOf[s]] = 0]

\* The camera's entry goes with the stream it names.
ForgetCamera(e, s) ==
  byCamera' = [byCamera EXCEPT ![e][cameraOf[s]] = IF @ = s THEN 0 ELSE @]

\* A stream's job ends: it was told to stop, or the camera failed too often.
StreamEnds(e, s) ==
  /\ s \in active[e]
  /\ \/ s \in stopping /\ UNCHANGED faults
     \/ s \notin stopping /\ Fault
  /\ active' = [active EXCEPT ![e] = @ \ {s}]
  /\ ForgetCamera(e, s)
  /\ stopping' = stopping \ {s}
  /\ UNCHANGED <<node, cameraOf, registry, loop, job, wanted, starts, crashes>>

\* An extractor that was throttled or is draining may be above its limit.
Room(e) == Max({0, EffectiveLimit(e) - Cardinality(active[e])})

\* Load and liveness as the registry sees them, every 30 s.
Heartbeat(e) ==
  /\ e \in up
  /\ alive' = alive \cup {e}
  /\ spare' = [spare EXCEPT ![e] = Room(e)]
  /\ UNCHANGED <<node, table, stopping, assigned, pending, loop, job, wanted, starts,
                 crashes, faults>>

\* No heartbeat for 60 s: the extractor is down, or two heartbeats were missed.
LeaseExpires(e) ==
  /\ e \in alive
  /\ \/ e \notin up /\ UNCHANGED faults
     \/ e \in up /\ Fault
  /\ alive' = alive \ {e}
  /\ UNCHANGED <<node, table, stopping, spare, assigned, pending, loop, job, wanted,
                 starts, crashes>>

\* Frames take longer than half a second on average, or no longer do.
Throttle(e) ==
  /\ e \in up /\ SoftLimit < HardLimit
  /\ degraded' = IF e \in degraded THEN degraded \ {e} ELSE degraded \cup {e}
  /\ UNCHANGED <<up, draining, table, stopping, registry, loop, job, wanted, starts,
                 crashes, faults>>

\* POST /drain, by a caller with a token, which the preStop hook has not: no new streams,
\* and the running ones are told to stop.
Drain(e) ==
  /\ e \in up \ draining /\ Crashing
  /\ draining' = draining \cup {e} /\ stopping' = stopping \cup active[e]
  /\ UNCHANGED <<up, degraded, table, registry, loop, job, wanted, starts, faults>>

\* The process dies, and its tables with it.
ExtractorCrash(e) ==
  /\ e \in up /\ Crashing
  /\ up' = up \ {e} /\ draining' = draining \ {e} /\ degraded' = degraded \ {e}
  /\ stopping' = stopping \ active[e]
  /\ active' = [active EXCEPT ![e] = {}]
  /\ byCamera' = [byCamera EXCEPT ![e] = [c \in Cameras |-> 0]]
  /\ UNCHANGED <<cameraOf, registry, loop, job, wanted, starts, faults>>

\* It comes back under its id and registers itself as empty.
ExtractorRestart(e) ==
  /\ Restarts /\ e \notin up
  /\ up' = up \cup {e}
  /\ alive' = alive \cup {e} /\ spare' = [spare EXCEPT ![e] = HardLimit]
  /\ UNCHANGED <<draining, degraded, table, stopping, assigned, pending, loop, job,
                 wanted, starts, crashes, faults>>

--------------------------------------------------------------------------------
(* The routers: starting and stopping the stream of a camera.                   *)

StartsSoFar == MapThenSumSet(LAMBDA c : starts[c], Cameras)

\* POST /process_rtsp_stream: look an extractor up; without one it ends with 503.
StartRequest(q, c) ==
  /\ job[q].pc = "idle" /\ StartsSoFar < MaxStarts
  /\ starts' = [starts EXCEPT ![c] = @ + 1]
  /\ \E e \in Best :
       job' = [job EXCEPT ![q] = Request("dispatch", c, e, {})]
  /\ UNCHANGED <<node, table, stopping, registry, loop, wanted, crashes, faults>>

\* The extractor takes the stream; or refuses it; or the call or its answer is lost.
Dispatch(q) ==
  /\ job[q].pc = "dispatch"
  /\ \/ /\ Open(job[q].target, job[q].camera) /\ UNCHANGED faults
        /\ job' = [job EXCEPT ![q].pc = "assign", ![q].stream = Len(cameraOf')]
     \/ /\ Refused(job[q].target) /\ UNCHANGED faults
        /\ job' = [job EXCEPT ![q] = Idle]
     \/ /\ Fault /\ job' = [job EXCEPT ![q] = Idle]
        /\ Open(job[q].target, job[q].camera) \/ UNCHANGED table
  /\ UNCHANGED <<node, stopping, registry, loop, wanted, starts, crashes>>

\* Record the assignment; a failure is only printed, and the start answered.
Assign(q) ==
  /\ job[q].pc = "assign"
  /\ \/ assigned' = [assigned EXCEPT ![job[q].stream] = job[q].target] /\ UNCHANGED faults
     \/ Fault /\ UNCHANGED assigned
  /\ wanted' = wanted \cup {job[q].camera}
  /\ job' = [job EXCEPT ![q] = Idle]
  /\ UNCHANGED <<node, table, stopping, alive, spare, pending, loop, starts, crashes>>

\* POST /rtsp/stop: ask every registered extractor in turn.
StopRequest(q, c) ==
  /\ job[q].pc = "idle" /\ c \in wanted
  /\ job' = [job EXCEPT ![q] = Request("stop", c, None, Extractors)]
  /\ UNCHANGED <<node, table, stopping, registry, loop, wanted, starts, crashes, faults>>

\* POST /stop_camera of one extractor.
StopAt(q, e) ==
  LET s == byCamera[e][job[q].camera] IN
  /\ job[q].pc = "stop" /\ e \in job[q].left
  /\ \/ /\ e \in up /\ s \in active[e]
        /\ stopping' = stopping \cup {s}
        /\ job' = [job EXCEPT ![q].left = @ \ {e}, ![q].found = TRUE]
        /\ UNCHANGED faults
     \/ /\ e \notin up \/ s \notin active[e]
        /\ job' = [job EXCEPT ![q].left = @ \ {e}]
        /\ UNCHANGED <<stopping, faults>>
     \/ /\ Fault /\ job' = [job EXCEPT ![q].left = @ \ {e}]
        /\ UNCHANGED stopping
  /\ UNCHANGED <<node, table, registry, loop, wanted, starts, crashes>>

\* 404 when no extractor had the camera.  The assignment is not removed.
StopAnswer(q) ==
  /\ job[q].pc = "stop" /\ job[q].left = {}
  /\ wanted' = IF job[q].found THEN wanted \ {job[q].camera} ELSE wanted
  /\ job' = [job EXCEPT ![q] = Idle]
  /\ UNCHANGED <<node, table, stopping, registry, loop, starts, crashes, faults>>

--------------------------------------------------------------------------------
(* The reconciliation loop, every 20 s.                                         *)

\* Assignments of extractors without a heartbeat, but for those already pending.
Orphan(s) == assigned[s] # None /\ s \notin pending /\ assigned[s] \notin alive

NothingInAStorm(orphans) == {IF Cardinality(orphans) <= Batch THEN orphans ELSE {}}

\* At most Batch of them, in the order of the hash.
FailoverBatch(orphans) ==
  IF Cardinality(orphans) <= Batch THEN {orphans}
  ELSE {B \in SUBSET orphans : Cardinality(B) = Batch}

Tick ==
  LET orphans == {s \in Streams : Orphan(s)} IN
  /\ loop.pc = "idle" /\ orphans # {}
  /\ \E B \in FailoverBatch(orphans) : loop' = Scan(B)
  /\ UNCHANGED <<node, table, stopping, registry, job, wanted, starts, crashes, faults>>

\* Take the next stream, or end the tick.
Advance(done) == loop' = Scan(loop.left \ done)

\* Look for an extractor; without one, or without an answer of Redis, the stream is
\* set pending.
FailoverLookup(s) ==
  /\ loop.pc = "lookup" /\ s \in loop.left
  /\ \/ /\ \E e \in Best :
             loop' = [loop EXCEPT !.pc = "dispatch", !.old = s, !.target = e]
        /\ UNCHANGED <<assigned, pending>>
        /\ UNCHANGED faults
     \/ /\ (Best = {} /\ UNCHANGED faults) \/ Fault
        /\ Advance({s}) /\ pending' = pending \cup {s} /\ UNCHANGED assigned
  /\ UNCHANGED <<node, table, stopping, alive, spare, job, wanted, starts, crashes>>

\* The call a router makes, without its token, is answered 401, 503 or not at all: whatever
\* goes wrong is printed, and the stream is left for the next tick.  Only where the call
\* may be taken do the steps below it follow, or its answer get lost.
FailoverDispatch ==
  LET taken == Trusted /\ Open(loop.target, cameraOf[loop.old]) IN
  /\ loop.pc = "dispatch"
  /\ \/ UNCHANGED <<table, faults>> /\ Advance({loop.old})
     \/ /\ taken /\ UNCHANGED faults
        /\ loop' = [loop EXCEPT !.pc = "delete", !.new = Len(cameraOf')]
     \/ taken /\ Fault /\ Advance({loop.old})
  /\ UNCHANGED <<node, stopping, registry, job, wanted, starts, crashes>>

KeepOld == UNCHANGED <<assigned, pending>>

\* HDEL of the old stream's assignment, and HSET of the new one's.
DropOld == assigned' = [assigned EXCEPT ![loop.old] = None] /\ UNCHANGED pending

FailoverDelete ==
  /\ loop.pc = "delete"
  /\ \/ /\ DropOld /\ UNCHANGED faults
        /\ loop' = [loop EXCEPT !.pc = "record"]
     \/ Fault /\ Advance({loop.old}) /\ UNCHANGED <<assigned, pending>>
  /\ UNCHANGED <<node, table, stopping, alive, spare, job, wanted, starts, crashes>>

RecordOld == assigned' = [assigned EXCEPT ![loop.old] = loop.target]

RecordNew == assigned' = [assigned EXCEPT ![loop.new] = loop.target]

FailoverRecord ==
  /\ loop.pc = "record"
  /\ \/ RecordNew /\ UNCHANGED faults
     \/ Fault /\ UNCHANGED assigned
  /\ Advance({loop.old})
  /\ UNCHANGED <<node, table, stopping, alive, spare, pending, job, wanted, starts, crashes>>

\* The registry process dies; what it stored is in Redis.
RegistryCrash ==
  /\ loop.pc # "idle" /\ Fault
  /\ loop' = Waiting
  /\ UNCHANGED <<node, table, stopping, registry, job, wanted, starts, crashes>>

--------------------------------------------------------------------------------
Reconcile ==
  \/ Tick \/ (\E s \in Streams : FailoverLookup(s)) \/ FailoverDispatch
  \/ FailoverDelete \/ FailoverRecord

Route(q) ==
  \/ Dispatch(q) \/ Assign(q) \/ (\E e \in Extractors : StopAt(q, e)) \/ StopAnswer(q)

Extractor(e) ==
  \/ Heartbeat(e) \/ LeaseExpires(e) \/ Throttle(e) \/ Drain(e)
  \/ ExtractorCrash(e) \/ ExtractorRestart(e) \/ \E s \in Streams : StreamEnds(e, s)

Next ==
  \/ \E q \in Routers : Route(q) \/ \E c \in Cameras : StartRequest(q, c) \/ StopRequest(q, c)
  \/ \E e \in Extractors : Extractor(e)
  \/ Reconcile \/ RegistryCrash

Spec == Init /\ [][Next]_vars

\* Heartbeats, the reconciliation loop and requests go on; a dead extractor's lease
\* runs out, and a stream that is told to stop ends.
FairSpec ==
  /\ Spec
  /\ \A e \in Extractors :
       /\ WF_vars(Heartbeat(e)) /\ WF_vars(e \notin up /\ LeaseExpires(e))
       /\ WF_vars(\E s \in stopping : StreamEnds(e, s))
  /\ \A q \in Routers : WF_vars(Route(q))
  /\ WF_vars(Reconcile)

--------------------------------------------------------------------------------
TypeOK ==
  /\ up \subseteq Extractors /\ draining \subseteq up /\ degraded \subseteq up
  /\ cameraOf \in Seq(Cameras) /\ Len(cameraOf) <= MaxStreams
  /\ active \in [Extractors -> SUBSET (1 .. Len(cameraOf))]
  /\ byCamera \in [Extractors -> [Cameras -> 0 .. Len(cameraOf)]]
  /\ stopping \subseteq Running
  /\ alive \subseteq Extractors /\ spare \in [Extractors -> 0 .. HardLimit]
  /\ assigned \in [Streams -> Extractors \cup {None}]
  /\ pending \subseteq {s \in Streams : assigned[s] # None}
  /\ loop.pc \in {"idle", "lookup", "dispatch", "delete", "record"}
  /\ loop.left \subseteq 1 .. Len(cameraOf)
  /\ \A q \in Routers : job[q].pc \in {"idle", "dispatch", "assign", "stop"}
  /\ wanted \subseteq Cameras /\ starts \in [Cameras -> Nat]
  /\ crashes \in 0 .. MaxCrashes /\ faults \in 0 .. MaxFaults

\* However stale the registry's numbers are, routers and the reconciliation loop
\* together never get an extractor to run more streams than its hard limit.
CapacityRespected == \A e \in Extractors : Cardinality(active[e]) <= HardLimit

\* The stream a camera was last given can be stopped through its camera wherever it
\* runs, whichever older streams of the camera ended since.
LatestStoppable ==
  \A e \in Extractors : \A s \in active[e] :
    (\A t \in s + 1 .. Len(cameraOf) : cameraOf[t] # cameraOf[s])
      => byCamera[e][cameraOf[s]] = s

\* A camera is extracted more often than it was started only for a reason: each lost
\* call or answer, missed heartbeat or registry crash adds a copy per start at most.
CopiesPaidFor ==
  \A c \in Cameras :
    Cardinality({s \in Running : cameraOf[s] = c}) <= starts[c] * (1 + faults)

\* A stream that runs without an assignment, and so would not be failed over, goes
\* back to a fault, or is on its way into the registry.
UntrackedPaidFor ==
  LET onTheWay == {loop.new} \cup {job[q].stream : q \in Routers}
  IN \A c \in Cameras :
       Cardinality({s \in Running \ onTheWay : assigned[s] = None /\ cameraOf[s] = c})
         <= starts[c] * faults

\* A stray stream has its cause: one too many, or one that nobody would fail over.
StraysPaidFor == TypeOK /\ CopiesPaidFor /\ UntrackedPaidFor

\* The registry never has a running stream down for another extractor than its own,
\* even after failovers away from extractors that still ran.
TrackedWhereItRuns ==
  \A s \in Running : assigned[s] # None => s \in active[assigned[s]]

\* Every running stream can be stopped through its camera.
Stoppable ==
  \A e \in Extractors : \A s \in active[e] : byCamera[e][cameraOf[s]] # 0

\* A camera whose stream was stopped is not extracted again until somebody starts it.
StoppedStaysStopped ==
  [][\A s \in Len(cameraOf) + 1 .. Len(cameraOf') :
       \/ cameraOf'[s] \in wanted
       \/ \E q \in Routers : job[q].pc = "dispatch" /\ job[q].camera = cameraOf'[s]]_vars

\* Without capacity anywhere, every assignment whose extractor has lost its lease is set
\* pending, or the extractor is heard of again: those that exceed the batch of one tick,
\* and those whose failover failed before, are not starved by the others.
UnplacedIsPending ==
  \A s \in Streams : (Orphan(s) /\ [](Best = {})) ~> ~Orphan(s)

\* "Redispatches them to extractors with spare capacity": an assignment whose extractor has
\* lost its lease is moved or set pending, or the extractor is heard of again.
OrphansSettle == \A s \in Streams : Orphan(s) ~> ~Orphan(s)

\* A stream that waits for capacity is resumed once capacity is there for good.
PendingResumes ==
  \A s \in Streams : (s \in pending /\ [](Best # {})) ~> s \notin pending

\* The stream of a camera somebody wants does not stay dead on the books: if it no
\* longer runs where its assignment says, it is moved or set pending.
DeadStreamsNoticed ==
  \A s \in Streams :
    (assigned[s] # None /\ s \notin Running)
      ~> (assigned[s] = None \/ s \in pending \cup Running \/ cameraOf[s] \notin wanted)
================================================================================
