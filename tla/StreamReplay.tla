------------------------------ MODULE StreamReplay ------------------------------
(***************************************************************************)
(* The frame events of one video are published again: a replay reads the   *)
(* whole of a stream once and appends the video's entries to that stream,  *)
(* which the code names "events:frame_ready".  Extractors append to and    *)
(* the embedder reads the stream of FRAME_EVENTS_STREAM, "frames" where it *)
(* is not set: replays and they meet only if it is set to the other name.  *)
(* MAXLEN drops the oldest entries.  An API process serves one replay at a *)
(* time.                                                                   *)
(***************************************************************************)
EXTENDS Integers, Sequences, FiniteSets

CONSTANTS
  Apis,          \* processes of the main API
  Frames,        \* events of the video
  Others,        \* events of other videos
  Configured,    \* the values FRAME_EVENTS_STREAM may have
  MaxLen,        \* maxlen
  MaxReplays,    \* bound: replays
  MaxLost,       \* bound: calls that fail
  MaxAppended    \* bound: entries ever appended, more than what is asked for leads to

\* The stream that is read and appended to by replays.
Replayed == "events:frame_ready"

Streams == {"frames", Replayed}

ASSUME ReplayAssumption ==
  /\ {MaxLen, MaxReplays, MaxLost, MaxAppended} \subseteq Nat /\ Frames \cap Others = {}
  /\ Configured \subseteq Streams

VARIABLES
  named,         \* the stream that FRAME_EVENTS_STREAM names
  log,           \* per stream: entries ever appended, oldest first; an entry's id is its place
  dropped,       \* per stream: how many of them it has dropped, from the oldest on
  cursor,        \* how many of its stream the embedder was given or missed
  replay,        \* per process: the ids that are left of what was read, and whether it is at it
  missed,        \* history: entries dropped unread
  replays, lost  \* history: replays begun, calls that failed

replayVars == <<named, log, dropped, cursor, replay, missed, replays, lost>>

Idle == [left |-> {}, busy |-> FALSE]

ReplayInit ==
  /\ named \in Configured
  /\ log = [s \in Streams |-> <<>>] /\ dropped = [s \in Streams |-> 0] /\ cursor = 0
  /\ replay = [a \in Apis |-> Idle]
  /\ missed = 0 /\ replays = 0 /\ lost = 0

\* The entries of an event that were ever made in a stream.
Entries(s, f) == {i \in DOMAIN log[s] : log[s][i] = f}

\* What the embedder is given next is not older than what its stream still has.
Overtaken(n) ==
  /\ cursor' = IF cursor < n THEN n ELSE cursor
  /\ missed' = missed + cursor' - cursor

\* XADD with an approximate MAXLEN: the oldest entries may go, never below it.
Append1(s, f) ==
  /\ Len(log[s]) < MaxAppended /\ log' = [log EXCEPT ![s] = Append(@, f)]
  /\ \E n \in {dropped[s]} \cup dropped[s] .. Len(log[s]) + 1 - MaxLen :
       /\ dropped' = [dropped EXCEPT ![s] = n]
       /\ IF s = named THEN Overtaken(n) ELSE UNCHANGED <<cursor, missed>>

\* An extractor publishes an event: once, and again when the answer was lost.
Extracted(f) ==
  /\ Append1(named, f)
  /\ \/ Entries(named, f) = {} /\ UNCHANGED lost
     \/ Entries(named, f) # {} /\ lost < MaxLost /\ lost' = lost + 1
  /\ UNCHANGED <<named, replay, replays>>

\* The video's entries in the stream that a replay reads.
OfVideo == {i \in dropped[Replayed] + 1 .. Len(log[Replayed]) : log[Replayed][i] \in Frames}

\* POST /admin/replay: XRANGE of the whole stream.
BeginReplay(a) ==
  /\ ~replay[a].busy /\ replays < MaxReplays /\ replays' = replays + 1
  /\ replay' = [replay EXCEPT ![a] = [left |-> OfVideo, busy |-> TRUE]]
  /\ UNCHANGED <<named, log, dropped, cursor, missed, lost>>

\* Mutant: what was just appended is read as well.
LeftWithNew(a, i) == (replay[a].left \ {i}) \cup Len(log[Replayed]) + 1 .. Len(log'[Replayed])

\* What is left after an entry.
Left(a, i) == replay[a].left \ {i}

\* The oldest one left is appended anew; one that fails is skipped.
Republish(a) ==
  /\ \E i \in replay[a].left :
       /\ \A k \in replay[a].left : i <= k
       /\ \/ Append1(Replayed, log[Replayed][i]) /\ UNCHANGED lost
          \/ lost < MaxLost /\ lost' = lost + 1 /\ UNCHANGED <<log, dropped, cursor, missed>>
       /\ replay' = [replay EXCEPT ![a].left = Left(a, i)]
  /\ UNCHANGED <<named, replays>>

\* {"replayed": N}.
EndReplay(a) ==
  /\ replay[a].busy /\ replay[a].left = {} /\ replay' = [replay EXCEPT ![a] = Idle]
  /\ UNCHANGED <<named, log, dropped, cursor, missed, replays, lost>>

\* The embedder is given the next entry of its stream, or none.
Read ==
  /\ cursor' = IF cursor < Len(log[named]) THEN cursor + 1 ELSE cursor
  /\ UNCHANGED <<named, log, dropped, replay, missed, replays, lost>>

ReplayNext ==
  \/ \E f \in Frames \cup Others : Extracted(f)
  \/ \E a \in Apis : BeginReplay(a) \/ Republish(a) \/ EndReplay(a)
  \/ Read

ReplaySpec == ReplayInit /\ [][ReplayNext]_replayVars

--------------------------------------------------------------------------------
\* However replays overlap, each of them at most doubles the entries of an event in the
\* stream it reads (it reads those of earlier ones as well), of other videos and in the other
\* stream none is made again, and every failing call pays for one entry to begin with; the
\* embedder misses nothing as long as its stream is not over its length, whoever appends.
CopiesPaidFor ==
  /\ \A s \in Streams : \A f \in Frames \cup Others :
       Cardinality(Entries(s, f))
         <= (1 + lost) * (IF s = Replayed /\ f \in Frames THEN 2 ^ replays ELSE 1)
  /\ Len(log[named]) <= MaxLen => missed = 0

\* A replay ends, although it appends to the stream that it reads.
EveryReplayEnds == \A a \in Apis : replay[a].busy ~> ~replay[a].busy

\* "Republishing all original events": an event is published once more by each replay.
OriginalsOnly ==
  \A f \in Frames : Cardinality(Entries(Replayed, f)) <= (1 + lost) * (1 + replays)

\* "Replay all historical FrameReadyEvents for a given video": a replay has before it
\* every event of the video that the extractors' stream still has.
ReplaysAll ==
  [][\A a \in Apis : ~replay[a].busy /\ replay'[a].busy =>
       \A i \in dropped[named] + 1 .. Len(log[named]) :
         log[named][i] \in Frames => \E k \in replay'[a].left : log[Replayed][k] = log[named][i]]_replayVars
================================================================================
