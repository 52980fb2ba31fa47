-------------------------------- MODULE RtspJob --------------------------------
(***************************************************************************)
(* An extractor's job for one camera.  run_rtsp_extraction_job starts a    *)
(* pipeline, whose streaming thread uploads each frame and announces it    *)
(* under the next sequence number; when the pipeline ends, for an error    *)
(* or the end of the stream, the job waits and starts another, until it    *)
(* is told to stop or too many in a row were short.  The sequence number   *)
(* is carried from one pipeline to the next.                               *)
(***************************************************************************)
EXTENDS Naturals, FiniteSets, Sequences

CONSTANTS
  MaxFailures,   \* DSAI_MAX_STREAM_FAILURES
  FirstDelay, LastDelay,  \* backoff, max_backoff
  MaxFrames,     \* bound: frames of the camera
  MaxHealthy,    \* bound: pipelines that stay up for 30 s
  MaxRefusals    \* bound: uploads and publishes that fail

ASSUME RtspAssumption ==
  /\ MaxFailures \in Nat \ {0} /\ {FirstDelay, LastDelay} \subseteq Nat \ {0}
  /\ FirstDelay <= LastDelay /\ MaxRefusals \in Nat

VARIABLES
  at,            \* start, playing, ended (the pipeline), waiting, or over (the job)
  stop,          \* stream_event
  counter,       \* sequence_counter of the pipeline
  next,          \* dsai_next_sequence
  healthy,       \* the pipeline has been up for 30 s
  failed,        \* consecutive_failures
  delay,         \* backoff
  sample,        \* of a frame: none, new, uploaded
  numbered,      \* sequence numbers of the FrameReadyEvents
  gaveUp,        \* stream.failed is in the dead letter stream
  frames, healths, refusals,
  brief,         \* history: pipelines since the last that stayed up
  silent         \* history: frames stored and not announced

pipeline == <<counter, healthy, sample>>
job == <<next, failed, delay>>
rtspHistory == <<brief, silent>>
rtspVars == <<at, stop, pipeline, job, numbered, gaveUp, frames, healths, refusals, rtspHistory>>

RtspInit ==
  /\ at = "start" /\ stop = FALSE /\ counter = 0 /\ next = 0 /\ healthy = FALSE
  /\ failed = 0 /\ delay = FirstDelay /\ sample = "none" /\ numbered = <<>> /\ gaveUp = FALSE
  /\ frames = 0 /\ healths = 0 /\ refusals = 0 /\ brief = 0 /\ silent = 0

Refused == refusals < MaxRefusals /\ refusals' = refusals + 1

\* A request to stop the stream or its camera, a drain, or a signal to the process.
StopStream ==
  /\ ~stop /\ at # "over" /\ stop' = TRUE
  /\ UNCHANGED <<at, pipeline, job, numbered, gaveUp, frames, healths, refusals, rtspHistory>>

\* Mutant: every pipeline counts from 0.
FromZero(n) == 0

CarriedOn(n) == n

\* while not stream_event: the next pipeline starts, or raises at once.
StartPipeline ==
  /\ at = "start"
  /\ \/ stop /\ at' = "over" /\ UNCHANGED <<pipeline, next>>
     \/ ~stop /\ at' \in {"playing", "ended"} /\ counter' = CarriedOn(next)
        /\ healthy' = FALSE /\ sample' = "none" /\ UNCHANGED next
  /\ UNCHANGED <<stop, failed, delay, numbered, gaveUp, frames, healths, refusals, rtspHistory>>

\* The pipeline has been up for 30 s.
StayUp ==
  /\ at = "playing" /\ ~healthy /\ healths < MaxHealthy
  /\ healthy' = TRUE /\ healths' = healths + 1
  /\ UNCHANGED <<at, stop, counter, sample, job, numbered, gaveUp, frames, refusals, rtspHistory>>

Sample ==
  /\ at = "playing" /\ sample = "none" /\ frames < MaxFrames
  /\ frames' = frames + 1 /\ sample' = "new"
  /\ UNCHANGED <<at, stop, counter, healthy, job, numbered, gaveUp, healths, refusals, rtspHistory>>

\* Uploaded, under a name with the counter in it; or, after the retries, given up.
UploadSample ==
  /\ sample = "new"
  /\ \/ sample' = "uploaded" /\ UNCHANGED refusals
     \/ sample' = "none" /\ Refused
  /\ UNCHANGED <<at, stop, counter, healthy, job, numbered, gaveUp, frames, healths, rtspHistory>>

\* The number is taken before the event is published; a failing publish leaves a gap.
AnnounceSample ==
  /\ sample = "uploaded" /\ sample' = "none" /\ counter' = counter + 1
  /\ \/ numbered' = Append(numbered, counter) /\ UNCHANGED <<refusals, silent>>
     \/ Refused /\ silent' = silent + 1 /\ UNCHANGED numbered
  /\ UNCHANGED <<at, stop, healthy, job, gaveUp, frames, healths, brief>>

\* An error, the end of the stream, or the stop event: stop() waits for the frame at hand.
PipelineEnds ==
  /\ at = "playing" /\ sample = "none" /\ at' = "ended"
  /\ UNCHANGED <<stop, pipeline, job, numbered, gaveUp, frames, healths, refusals, rtspHistory>>

\* A pipeline that stayed up starts a new streak; so does the delay.
Streak == IF healthy THEN 1 ELSE failed + 1

Doubled(d) == IF 2 * d < LastDelay THEN 2 * d ELSE LastDelay

Delay == IF healthy THEN FirstDelay ELSE delay

\* After a pipeline: over if told to stop; given up after too many in a row, with a dead
\* letter if Redis takes it; or on to the next after the delay.
Reassess ==
  /\ at = "ended" /\ next' = counter
  /\ IF stop
     THEN at' = "over" /\ UNCHANGED <<failed, delay, gaveUp, refusals, brief>>
     ELSE /\ failed' = Streak /\ brief' = IF healthy THEN 0 ELSE brief + 1
          /\ IF Streak >= MaxFailures
             THEN /\ at' = "over" /\ delay' = Delay
                  /\ (gaveUp' = TRUE /\ UNCHANGED refusals) \/ (Refused /\ UNCHANGED gaveUp)
             ELSE /\ at' = "waiting" /\ delay' = Doubled(Delay) /\ UNCHANGED <<gaveUp, refusals>>
  /\ UNCHANGED <<stop, pipeline, numbered, frames, healths, silent>>

\* time.sleep, which the stop event does not interrupt.
Waited ==
  /\ at = "waiting" /\ at' = "start"
  /\ UNCHANGED <<stop, pipeline, job, numbered, gaveUp, frames, healths, refusals, rtspHistory>>

RtspNext ==
  \/ StopStream \/ StartPipeline \/ StayUp \/ Sample \/ UploadSample \/ AnnounceSample
  \/ PipelineEnds \/ Reassess \/ Waited

RtspSpec == RtspInit /\ [][RtspNext]_rtspVars

\* The job's thread goes on, frames are handled, and a pipeline ends once told to: its loop
\* looks at the event every 500 ms.
RtspFairness ==
  /\ WF_rtspVars(StartPipeline) /\ WF_rtspVars(Reassess) /\ WF_rtspVars(Waited)
  /\ WF_rtspVars(UploadSample) /\ WF_rtspVars(AnnounceSample)
  /\ SF_rtspVars(stop /\ PipelineEnds)

--------------------------------------------------------------------------------
RtspTypeOK ==
  /\ at \in {"start", "playing", "ended", "waiting", "over"} /\ stop \in BOOLEAN
  /\ failed \in 0 .. MaxFailures /\ delay \in FirstDelay .. LastDelay
  /\ sample \in {"none", "new", "uploaded"} /\ (at \notin {"playing", "ended"} => sample = "none")
  /\ counter <= frames /\ refusals \in 0 .. MaxRefusals

\* Across reconnects every frame has a number of its own, in the order of the frames, and
\* numbers are left out only for frames that were stored and could not be announced.
NumbersInOrder ==
  /\ \A i, j \in DOMAIN numbered : i < j => numbered[i] < numbered[j]
  /\ Len(numbered) + silent = counter

\* A stream that nobody stopped is given up only after the limit of short pipelines in a row,
\* the one after a long one counting, or a limit of one.
GivesUpForCause == at = "over" /\ ~stop => failed = MaxFailures /\ brief >= MaxFailures - 1

\* What a camera's job promises over all of its pipelines.
JobHolds == RtspTypeOK /\ NumbersInOrder /\ GivesUpForCause

\* A stop, whenever it comes, ends the job.
StopEndsJob == stop ~> at = "over"
================================================================================
