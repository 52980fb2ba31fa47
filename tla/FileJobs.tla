-------------------------------- MODULE FileJobs --------------------------------
(***************************************************************************)
(* Video files: the main API cuts a video into segments, claims an         *)
(* extractor for each of them in the registry, and then sends the jobs.    *)
(* Whether an extractor is busy is written by three parties that do not    *)
(* know of each other: the claim script, the jobs, and its registration.   *)
(***************************************************************************)
EXTENDS Integers, FiniteSets

CONSTANTS
  N,            \* extractors, numbered in the order of their ids
  Videos,       \* videos to be processed, by a request each
  Segments,     \* segments of a video
  Threads,      \* EXTRACTOR_THREADS, job slots of an extractor
  MaxCrashes,   \* bound: crashes of extractors
  MaxFaults     \* bound: lost calls or answers, failed jobs, silent heartbeats

ASSUME FileJobsAssumption ==
  /\ N \in Nat \ {0} /\ Segments \in Nat \ {0} /\ Threads \in Nat \ {0}
  /\ MaxCrashes \in Nat /\ MaxFaults \in Nat /\ IsFiniteSet(Videos)

Extractors == 0 .. N - 1
Jobs == Videos \X (1 .. Segments)
None == -1

VARIABLES
  up,        \* extractors that run
  status,    \* registry: "available" or "busy"
  silent,    \* registry: extractors without a heartbeat for more than 180 s
  index,     \* registry: where the next claim starts looking
  next,      \* per video: the segment to claim next; Segments + 1: all jobs are being sent
  at,        \* extractor claimed for a job
  stage,     \* of each job
  leaked,    \* per extractor: slots whose job ended without releasing them
  crashes, faults

vars == <<up, status, silent, index, next, at, stage, leaked, crashes, faults>>

\* Stages of a job on its extractor, with and without a slot.
InSlot == {"starting", "running", "finishing"}
OnNode == InSlot \cup {"queued"}

Init ==
  /\ up = Extractors /\ status = [e \in Extractors |-> "available"]
  /\ silent = {} /\ index = 0
  /\ next = [v \in Videos |-> 1]
  /\ at = [j \in Jobs |-> None] /\ stage = [j \in Jobs |-> "new"]
  /\ leaked = [e \in Extractors |-> 0] /\ crashes = 0 /\ faults = 0

Fault == faults < MaxFaults /\ faults' = faults + 1

Move(j, s) == stage' = [stage EXCEPT ![j] = s]

--------------------------------------------------------------------------------
(* The registry.                                                                *)

\* POST /update_status, which counts as a heartbeat as well.
UpdateStatus(e, s) ==
  /\ status' = [status EXCEPT ![e] = s]
  /\ silent' = silent \ {e}

\* Available, or busy and without a heartbeat for so long that it is taken for dead.
Claimable(e) == status[e] = "available" \/ e \in silent

\* The first claimable extractor, round robin.
Distance(e) == (e - index + N) % N

First == {e \in Extractors : /\ Claimable(e)
                             /\ \A f \in Extractors :
                                  Claimable(f) => Distance(e) <= Distance(f)}

ClaimWithoutMark(e) == index' = (e + 1) % N /\ UNCHANGED <<status, silent>>

\* The claim script marks the extractor busy and renews its heartbeat.
Claim(e) == index' = (e + 1) % N /\ UpdateStatus(e, "busy")

--------------------------------------------------------------------------------
(* POST /process_video.                                                         *)

\* Claim an extractor for the next segment.  Without one, or without an answer, the
\* remaining segments are given up.
ClaimNext(v) ==
  LET j == <<v, next[v]>> IN
  /\ next[v] <= Segments
  /\ \/ /\ \E e \in First : Claim(e) /\ at' = [at EXCEPT ![j] = e]
        /\ Move(j, "claimed") /\ next' = [next EXCEPT ![v] = @ + 1]
        /\ UNCHANGED faults
     \/ /\ First = {} /\ next' = [next EXCEPT ![v] = Segments + 1]
        /\ UNCHANGED <<status, silent, index, at, stage, faults>>
     \/ /\ Fault /\ next' = [next EXCEPT ![v] = Segments + 1]
        /\ \/ \E e \in First : Claim(e)
           \/ UNCHANGED <<status, silent, index>>
        /\ UNCHANGED <<at, stage>>
  /\ UNCHANGED <<up, leaked, crashes>>

\* Only then are the jobs sent, all at once; what becomes of a call is not looked at.
Send(j) ==
  /\ stage[j] = "claimed" /\ next[j[1]] > Segments
  /\ \/ at[j] \in up /\ Move(j, "queued") /\ UNCHANGED faults
     \/ at[j] \notin up /\ Move(j, "lost") /\ UNCHANGED faults
     \/ at[j] \in up /\ Move(j, "lost") /\ Fault
  /\ UNCHANGED <<up, status, silent, index, next, at, leaked, crashes>>

--------------------------------------------------------------------------------
(* The extractors.                                                              *)

On(e, stages) == {j \in Jobs : at[j] = e /\ stage[j] \in stages}

SlotsTaken(e) == Cardinality(On(e, InSlot)) + leaked[e]

\* Mutant: one job more than there are slots.
HasSlotLate(e) == SlotsTaken(e) <= Threads

\* Mutant: one slot stays free.
HasSlotSpare(e) == SlotsTaken(e) + 1 < Threads

HasSlot(e) == SlotsTaken(e) < Threads

\* A job waits for a slot.
Acquire(j) ==
  /\ stage[j] = "queued" /\ HasSlot(at[j])
  /\ Move(j, "starting")
  /\ UNCHANGED <<up, status, silent, index, next, at, leaked, crashes, faults>>

\* A call of the registry outside of the job's try block: it raises, after it reached
\* the registry or not, and the slot is never released.
Leak(j, s) ==
  /\ Fault /\ Move(j, "lost")
  /\ leaked' = [leaked EXCEPT ![at[j]] = @ + 1]
  /\ UpdateStatus(at[j], s) \/ UNCHANGED <<status, silent>>

\* The job reports its extractor busy.
MarkBusy(j) ==
  /\ stage[j] = "starting"
  /\ \/ UpdateStatus(at[j], "busy") /\ Move(j, "running") /\ UNCHANGED <<leaked, faults>>
     \/ Leak(j, "busy")
  /\ UNCHANGED <<up, index, next, at, crashes>>

\* Fetch, cut, extract, upload and publish; an exception is printed.
Extract(j) ==
  /\ stage[j] = "running" /\ Move(j, "finishing")
  /\ UNCHANGED faults \/ Fault
  /\ UNCHANGED <<up, status, silent, index, next, at, leaked, crashes>>

Free(e) == UpdateStatus(e, "available")

\* Whatever became of it, the job reports its extractor available, even when other
\* jobs are on it, and releases the slot.
Finish(j) ==
  /\ stage[j] = "finishing"
  /\ \/ Free(at[j]) /\ Move(j, "ended") /\ UNCHANGED <<leaked, faults>>
     \/ Leak(j, "available")
  /\ UNCHANGED <<up, index, next, at, crashes>>

\* Every 30 s, whatever the jobs do.
Heartbeat(e) ==
  /\ e \in up /\ silent' = silent \ {e}
  /\ UNCHANGED <<up, status, index, next, at, stage, leaked, crashes, faults>>

\* 180 s without one: the extractor is down; or, as a fault, six in a row were missed,
\* or a request took that long between claiming a dead extractor and sending the job.
FallSilent(e) ==
  /\ e \notin silent /\ silent' = silent \cup {e}
  /\ IF e \in up \/ On(e, {"claimed"}) # {} THEN Fault ELSE UNCHANGED faults
  /\ UNCHANGED <<up, status, index, next, at, stage, leaked, crashes>>

\* The process dies with its jobs.
Crash(e) ==
  /\ e \in up /\ crashes < MaxCrashes /\ crashes' = crashes + 1
  /\ up' = up \ {e}
  /\ stage' = [j \in Jobs |-> IF j \in On(e, OnNode) THEN "lost" ELSE stage[j]]
  /\ leaked' = [leaked EXCEPT ![e] = 0]
  /\ UNCHANGED <<status, silent, index, next, at, faults>>

\* It comes back under its id and registers itself as available.
Restart(e) ==
  /\ e \notin up /\ up' = up \cup {e}
  /\ UpdateStatus(e, "available")
  /\ UNCHANGED <<index, next, at, stage, leaked, crashes, faults>>

--------------------------------------------------------------------------------
Request(v) == ClaimNext(v) \/ \E j \in {v} \X (1 .. Segments) : Send(j)

Run(j) == Acquire(j) \/ MarkBusy(j) \/ Extract(j) \/ Finish(j)

Next ==
  \/ \E v \in Videos : Request(v)
  \/ \E j \in Jobs : Run(j)
  \/ \E e \in Extractors : Heartbeat(e) \/ FallSilent(e) \/ Crash(e) \/ Restart(e)

Spec == Init /\ [][Next]_vars

\* Requests and jobs go on, heartbeats are sent, and a dead extractor falls silent.
FairSpec ==
  /\ Spec
  /\ \A v \in Videos : WF_vars(Request(v))
  /\ \A j \in Jobs : WF_vars(Run(j))
  /\ \A e \in Extractors : WF_vars(Heartbeat(e)) /\ WF_vars(e \notin up /\ FallSilent(e))

--------------------------------------------------------------------------------
Over == {"ended", "lost"}

\* Jobs claimed for the extractor and not over yet.
Load(e) == Cardinality(On(e, OnNode \cup {"claimed"}))

TypeOK ==
  /\ up \subseteq Extractors /\ silent \subseteq Extractors
  /\ status \in [Extractors -> {"available", "busy"}] /\ index \in Extractors
  /\ next \in [Videos -> 1 .. Segments + 1]
  /\ at \in [Jobs -> Extractors \cup {None}]
  /\ stage \in [Jobs -> {"new", "claimed"} \cup OnNode \cup Over]
  /\ \A j \in Jobs : stage[j] = "new" <=> at[j] = None
  /\ leaked \in [Extractors -> 0 .. Threads]
  /\ \A e \in Extractors : SlotsTaken(e) <= Threads
  /\ crashes \in 0 .. MaxCrashes /\ faults \in 0 .. MaxFaults

\* An extractor has one job at a time.  Every further one goes back to a crash or a
\* fault, in spite of the jobs that declare it available while another one runs.
JobsPaidFor == \A e \in Extractors : Load(e) <= 1 + crashes + faults

\* An extractor that the registry has down as busy has a job, or one on its way; each
\* crash or fault leaves at most one behind that is busy with nothing.
BusyForCause ==
  Cardinality({e \in Extractors : status[e] = "busy" /\ Load(e) = 0}) <= crashes + faults

\* What the registry says of an extractor, available or busy, is true but for crashes and faults.
AvailabilityIsTrue == TypeOK /\ JobsPaidFor /\ BusyForCause

\* Every claimed job comes to an end: fewer failing calls than slots do not leave a
\* job waiting for a slot for ever.
EveryJobEnds == \A j \in Jobs : stage[j] = "claimed" ~> stage[j] \in Over

\* "Includes automatic reclaim of zombie "busy" workers that have timed out": an
\* extractor that is busy with nothing can be claimed again, or gets a job.
ZombiesReclaimed ==
  \A e \in Extractors :
    (status[e] = "busy" /\ Load(e) = 0) ~> (Claimable(e) \/ Load(e) > 0)

\* Every segment of a video is sent to an extractor.
EverySegmentClaimed ==
  \A v \in Videos : next[v] > Segments => \A i \in 1 .. Segments : at[v, i] # None
================================================================================
