------------------------------- MODULE FrameUpload -------------------------------
(***************************************************************************)
(* The end of a file job in the extractor: the frames of a segment are     *)
(* uploaded to MinIO one by one, each with retries behind the breaker, and *)
(* one FrameReadyEvent announces those that arrived.                       *)
(***************************************************************************)
EXTENDS CircuitBreaker, FiniteSets

CONSTANTS
  Segments,      \* segments of video, one event each
  F,             \* frames of a segment
  Attempts,      \* max_retries of an upload and of a publish
  MaxFaults      \* bound: failing calls

ASSUME UploadAssumption ==
  /\ IsFiniteSet(Segments) /\ F \in Nat \ {0} /\ Attempts \in Nat \ {0} /\ MaxFaults \in Nat

Frames == 1 .. F

VARIABLES
  job,           \* per segment: the frame at hand (F + 1: the event) and the attempt
  stored,        \* MinIO: frames uploaded
  posted,        \* per segment: what became of its event
  lost,          \* uploads on the dead letter stream
  upload,        \* the extractor's breaker for MinIO
  skipped,       \* history: uploads its open breaker refused
  faults

jobs == <<job, stored, posted, lost, upload, skipped>>
uploadVars == <<jobs, faults>>

At(n) == [frame |-> n, attempt |-> 0]

InitUpload ==
  /\ job = [s \in Segments |-> At(1)]
  /\ stored = {} /\ lost = {} /\ skipped = {}
  /\ posted = [s \in Segments |-> "no"]
  /\ upload = Closed /\ faults = 0

Fault == faults < MaxFaults /\ faults' = faults + 1

\* The frames an event names, in the order of their sequence numbers.
Listed(s) == {f \in Frames : <<s, f>> \in stored}

NextFrame(s) == job' = [job EXCEPT ![s] = At(@.frame + 1)]

TryAgain(s) == job' = [job EXCEPT ![s] = [frame |-> @.frame, attempt |-> @.attempt + 1]]

\* The breaker is asked once for a frame; when it is open the upload fails fast, and
\* nothing is put on record.
Ask(s) ==
  /\ job[s].frame <= F /\ job[s].attempt = 0
  /\ upload' = Asked(upload)
  /\ IF Admits(upload)
     THEN TryAgain(s) /\ UNCHANGED skipped
     ELSE NextFrame(s) /\ skipped' = skipped \cup {<<s, job[s].frame>>}
  /\ UNCHANGED <<stored, posted, lost, faults>>

UploadOk(s) ==
  /\ stored' = stored \cup {<<s, job[s].frame>>} /\ NextFrame(s)
  /\ upload' = Succeeded(upload)
  /\ UNCHANGED <<lost, faults>>

\* After the last attempt the frame is put on the dead letter stream, if that is to be
\* reached.
UploadFails(s) ==
  /\ upload' = Failed(upload) /\ UNCHANGED stored
  /\ IF job[s].attempt < Attempts
     THEN Fault /\ TryAgain(s) /\ UNCHANGED lost
     ELSE /\ NextFrame(s)
          /\ \/ Fault /\ lost' = lost \cup {<<s, job[s].frame>>}
             \/ faults + 1 < MaxFaults /\ faults' = faults + 2 /\ UNCHANGED lost

UploadFrame(s) ==
  /\ job[s].frame <= F /\ job[s].attempt > 0
  /\ UploadOk(s) \/ UploadFails(s)
  /\ UNCHANGED <<posted, skipped>>

\* A segment without frames is not announced.  A publish that keeps failing leaves the
\* event with the recoverable orphans.
Announce(s) ==
  /\ job[s].frame > F /\ posted[s] = "no"
  /\ \/ Listed(s) = {} /\ posted' = [posted EXCEPT ![s] = "empty"] /\ UNCHANGED <<job, faults>>
     \/ Listed(s) # {} /\ posted' = [posted EXCEPT ![s] = "stream"] /\ UNCHANGED <<job, faults>>
     \/ /\ Listed(s) # {} /\ Fault
        /\ IF job[s].attempt + 1 < Attempts
           THEN TryAgain(s) /\ UNCHANGED posted
           ELSE posted' = [posted EXCEPT ![s] = "orphan"] /\ UNCHANGED job
  /\ UNCHANGED <<stored, lost, upload, skipped>>

UploadCools == Cools(upload) /\ upload' = Cooled(upload)
               /\ UNCHANGED <<job, stored, posted, lost, skipped, faults>>

Upload == UploadCools \/ \E s \in Segments : Ask(s) \/ UploadFrame(s) \/ Announce(s)

--------------------------------------------------------------------------------
UploadTypeOK ==
  /\ job \in [Segments -> [frame : 1 .. F + 1, attempt : 0 .. Attempts]]
  /\ stored \cup lost \cup skipped \subseteq Segments \X Frames
  /\ posted \in [Segments -> {"no", "stream", "orphan", "empty"}]
  /\ upload \in Breakers /\ faults \in 0 .. MaxFaults
================================================================================
