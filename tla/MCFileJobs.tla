-------------------------------- MODULE MCFileJobs --------------------------------
(***************************************************************************)
(* What the main API starts, for TLC: the jobs of video files, and replays *)
(* of a video's events.  They share no state, so a behaviour runs one of   *)
(* the two, picked at the start, and leaves the other alone.               *)
(***************************************************************************)
EXTENDS FileJobs, StreamReplay

CONSTANTS v1, v2, a1, a2, f1, g1

VARIABLE side

MCInit == side \in {"files", "replays"} /\ Init /\ ReplayInit

MCNext ==
  /\ UNCHANGED side
  /\ \/ side = "files" /\ Next /\ UNCHANGED replayVars
     \/ side = "replays" /\ ReplayNext /\ UNCHANGED vars

\* The fairness of FileJobs for its side; a replay that was begun goes on.
MCFairSpec ==
  /\ MCInit /\ [][MCNext]_<<side, vars, replayVars>>
  /\ \A v \in Videos : WF_vars(side = "files" /\ Request(v))
  /\ \A j \in Jobs : WF_vars(side = "files" /\ Run(j))
  /\ \A e \in Extractors :
       WF_vars(side = "files" /\ Heartbeat(e)) /\ WF_vars(side = "files" /\ e \notin up /\ FallSilent(e))
  /\ \A a \in Apis : WF_replayVars(side = "replays" /\ (Republish(a) \/ EndReplay(a)))

\* Whatever was begun, a job of an extractor or a replay, comes to an end.
EveryRequestEnds == EveryJobEnds /\ EveryReplayEnds
================================================================================
