------------------------------ MODULE FrameIndexing ------------------------------
(***************************************************************************)
(* Embedders behind the extractor: each reads FrameReadyEvents in one      *)
(* consumer group, fetches the frames of an event chunk by chunk, encodes  *)
(* them, and inserts the vectors into Milvus.  A failing event is left     *)
(* pending and taken up again once it has been idle for 60 s, by anybody.  *)
(* MinIO and Milvus are called behind circuit breakers, one per process.   *)
(***************************************************************************)
EXTENDS FrameUpload

CONSTANTS
  Workers,       \* embedder processes
  None,          \* not a worker, not a segment
  Chunk,         \* FILES_PER_EMBED_BATCH
  InsertSize,    \* INSERT_BATCH_SIZE
  MaxRetries,    \* MAX_MESSAGE_RETRIES
  Threads,       \* EMBEDDER_THREADS, downloads at a time
  Unreadable,    \* frames that no image library opens
  MaxCrashes     \* bound: crashes of embedders

ASSUME IndexingAssumption ==
  /\ Chunk \in Nat \ {0} /\ InsertSize \in Nat \ {0} /\ MaxRetries \in Nat \ {0}
  /\ Threads \in Nat \ {0} /\ Unreadable \subseteq Segments \X Frames
  /\ IsFiniteSet(Workers) /\ MaxCrashes \in Nat /\ None \notin Workers \cup Segments

VARIABLES
  pending,       \* events read and not acknowledged
  idle,          \* pending events idle for 60 s
  delivered,     \* deliveries of an event, counted up to MaxRetries
  acked, dead,   \* events acknowledged, events on the dead letter stream
  pc, todo,      \* per worker: where it is, the events it read
  event, part,   \* per worker: the event at hand and the number of its chunk
  flight,        \* per worker: downloads let through and not back yet
  got,           \* per worker: frames of the chunk downloaded
  left,          \* per worker: frames of the chunk to be downloaded
  buffer,        \* per worker: <<path, image>> pairs to be inserted
  tries,         \* per worker: message_retry_counts
  minio, milvus, \* per worker: its breakers
  rows,          \* Milvus: rows of a segment with this path and the vector of this image
  crashes,
  missed,        \* history: failing downloads
  refused        \* history: per segment, attempts that an open breaker refused

stream == <<pending, idle, delivered, acked, dead>>
work == <<pc, todo, event, part, flight, got, left, buffer, tries, minio, milvus>>
history == <<missed, refused>>
vars == <<uploadVars, stream, work, rows, crashes, history>>

Init ==
  /\ InitUpload
  /\ pending = {} /\ idle = {} /\ acked = {} /\ dead = {}
  /\ delivered = [s \in Segments |-> 0]
  /\ pc = [w \in Workers |-> "loop"] /\ todo = [w \in Workers |-> {}]
  /\ event = [w \in Workers |-> None] /\ part = [w \in Workers |-> 0]
  /\ flight = [w \in Workers |-> {}] /\ got = [w \in Workers |-> {}]
  /\ left = [w \in Workers |-> {}] /\ buffer = [w \in Workers |-> {}]
  /\ tries = [w \in Workers |-> [s \in Segments |-> 0]]
  /\ minio = [w \in Workers |-> Closed] /\ milvus = [w \in Workers |-> Closed]
  /\ rows = [r \in Segments \X Frames \X Frames |-> 0]
  /\ crashes = 0 /\ missed = 0 /\ refused = [s \in Segments |-> 0]

Goto(w, where) == pc' = [pc EXCEPT ![w] = where]

--------------------------------------------------------------------------------
(* The consumer group.                                                          *)

CountUpTo(n, max) == IF n < max THEN n + 1 ELSE n

\* The events become pending, delivered once more; for whom does not matter below.
Deliver(S) ==
  /\ pending' = pending \cup S
  /\ delivered' = [s \in Segments |->
                     IF s \in S THEN CountUpTo(delivered[s], MaxRetries) ELSE delivered[s]]
  /\ idle' = idle \ S
  /\ UNCHANGED <<acked, dead>>

Working(s) == {w \in Workers : s \in todo[w] \/ event[w] = s}

\* 60 s pass without a word about s: its worker is gone or gave it back; or, as a fault,
\* is still at it.
Age(s) ==
  /\ s \in pending \ idle /\ idle' = idle \cup {s}
  /\ IF Working(s) = {} THEN UNCHANGED faults ELSE Fault
  /\ UNCHANGED <<jobs, pending, delivered, acked, dead, work, rows,
                 crashes, history>>

\* Mutant: nothing is taken up again.
ReclaimNothing(w) == pc[w] = "loop" /\ Goto(w, "read") /\ UNCHANGED <<uploadVars, stream, todo,
  event, part, flight, got, left, buffer, tries, minio, milvus, rows, crashes, history>>

\* XAUTOCLAIM of what is idle; a failing call claims nothing.
Reclaim(w) ==
  /\ pc[w] = "loop" /\ Goto(w, "read")
  /\ \/ Deliver(idle) /\ todo' = [todo EXCEPT ![w] = idle] /\ UNCHANGED faults
     \/ idle # {} /\ Fault /\ UNCHANGED <<stream, todo>>
  /\ UNCHANGED <<jobs, event, part, flight, got, left, buffer,
                 tries, minio, milvus, rows, crashes, history>>

Fresh == {s \in Segments : posted[s] = "stream" /\ delivered[s] = 0}

\* XREADGROUP of what is new.  When it fails, delivering or not, what it read is unknown to
\* the worker; after a timeout it goes on with the events it claimed, otherwise they are
\* forgotten too.
Read(w) ==
  /\ pc[w] = "read"
  /\ \/ Deliver(Fresh) /\ todo' = [todo EXCEPT ![w] = @ \cup Fresh] /\ UNCHANGED faults
     \/ /\ Fault /\ (Deliver(Fresh) \/ UNCHANGED stream)
        /\ \E kept \in {todo[w], {}} : todo' = [todo EXCEPT ![w] = kept]
  /\ Goto(w, IF todo'[w] = {} THEN "loop" ELSE "next")
  /\ UNCHANGED <<jobs, event, part, flight, got, left, buffer,
                 tries, minio, milvus, rows, crashes, history>>

--------------------------------------------------------------------------------
(* The frames of an event.                                                      *)

Rank(x, S) == Cardinality({y \in S : y <= x})

\* The number of the chunk that a frame of an event is in, counted from 0.
ChunkNo(s, f) == (Rank(f, Listed(s)) - 1) \div Chunk

ChunkOf(s, n) == {f \in Listed(s) : ChunkNo(s, f) = n}

LastChunk(s) == (Cardinality(Listed(s)) - 1) \div Chunk

StartChunk(w, s, n) ==
  /\ part' = [part EXCEPT ![w] = n]
  /\ left' = [left EXCEPT ![w] = ChunkOf(s, n)]
  /\ got' = [got EXCEPT ![w] = {}]

\* The next event of the batch, whose collection is made sure of; or around the loop.
Take(w) ==
  /\ pc[w] = "next"
  /\ \/ /\ todo[w] = {} /\ Goto(w, "loop") /\ UNCHANGED <<todo, event, part, left, got, faults>>
     \/ \E s \in todo[w] :
          /\ todo' = [todo EXCEPT ![w] = @ \ {s}]
          /\ event' = [event EXCEPT ![w] = s]
          /\ \/ StartChunk(w, s, 0) /\ Goto(w, "fetch") /\ UNCHANGED faults
             \/ Fault /\ Goto(w, "fail") /\ UNCHANGED <<part, left, got>>
  /\ UNCHANGED <<jobs, stream, flight, buffer, tries, minio, milvus, rows, crashes,
                 history>>

\* A thread of the pool asks the breaker before a download.  A frame that is refused is
\* left out, without a word.
Launch(w) ==
  /\ pc[w] = "fetch" /\ Cardinality(flight[w]) < Threads
  /\ \E f \in left[w] :
       /\ \A g \in left[w] : f <= g
       /\ left' = [left EXCEPT ![w] = @ \ {f}]
       /\ IF Admits(minio[w]) THEN flight' = [flight EXCEPT ![w] = @ \cup {f}]
                               ELSE UNCHANGED flight
  /\ minio' = [minio EXCEPT ![w] = Asked(@)]
  /\ UNCHANGED <<uploadVars, stream, pc, todo, event, part, got, buffer, tries, milvus, rows,
                 crashes, history>>

\* The download is back.  So is a failing one left out.
Land(w) ==
  /\ \E f \in flight[w] :
       /\ flight' = [flight EXCEPT ![w] = @ \ {f}]
       /\ \/ /\ got' = [got EXCEPT ![w] = @ \cup {f}]
             /\ minio' = [minio EXCEPT ![w] = Succeeded(@)]
             /\ UNCHANGED <<faults, missed>>
          \/ /\ Fault /\ missed' = missed + 1
             /\ minio' = [minio EXCEPT ![w] = Failed(@)] /\ UNCHANGED got
  /\ UNCHANGED <<jobs, stream, pc, todo, event, part, left,
                 buffer, tries, milvus, rows, crashes, refused>>

Encoded(w) == {f \in got[w] : <<event[w], f>> \notin Unreadable}

\* Mutant: paths already in Milvus are left out before they meet their vectors.
ZippedFiltered(w) ==
  LET known == {f \in Frames : \E g \in Frames : rows[<<event[w], f, g>>] > 0}
      paths == ChunkOf(event[w], part[w]) \ known IN
  {p \in paths \X Encoded(w) : Rank(p[1], paths) = Rank(p[2], Encoded(w))}

\* zip(frame_batch, feats): the paths of the whole chunk against the vectors of those
\* images that were fetched and read.
Zipped(w) ==
  LET paths == ChunkOf(event[w], part[w]) IN
  {p \in paths \X Encoded(w) : Rank(p[1], paths) = Rank(p[2], Encoded(w))}

Indexed(s) == {f \in Frames : \E g \in Frames : rows[<<s, f, g>>] > 0}

\* Frames already in Milvus are left out; a query that fails says they are not there.
NotYetThere(s, pairs) == {p \in pairs : p[1] \notin Indexed(s)}

EncodeOk(w) ==
  /\ \/ buffer' = [buffer EXCEPT ![w] = @ \cup NotYetThere(event[w], Zipped(w))]
        /\ UNCHANGED faults
     \/ /\ Fault /\ buffer' = [buffer EXCEPT ![w] = @ \cup Zipped(w)]
        /\ buffer'[w] # buffer[w] \cup NotYetThere(event[w], Zipped(w))
  /\ IF buffer'[w] # {} /\ (Cardinality(buffer'[w]) >= InsertSize
                            \/ part[w] = LastChunk(event[w]))
     THEN Goto(w, "insert") /\ UNCHANGED <<part, left, got>>
     ELSE IF part[w] = LastChunk(event[w])
     THEN Goto(w, "ack") /\ UNCHANGED <<part, left, got>>
     ELSE StartChunk(w, event[w], part[w] + 1) /\ UNCHANGED pc

\* The images are encoded, or that raises.
Encode(w) ==
  /\ pc[w] = "fetch" /\ left[w] = {} /\ flight[w] = {}
  /\ EncodeOk(w) \/ (Fault /\ Goto(w, "fail") /\ UNCHANGED <<buffer, part, left, got>>)
  /\ UNCHANGED <<jobs, stream, todo, event, flight, tries, minio,
                 milvus, rows, crashes, history>>

AddRows(w) ==
  rows' = [r \in DOMAIN rows |->
             IF r[1] = event[w] /\ <<r[2], r[3]>> \in buffer[w] THEN rows[r] + 1 ELSE rows[r]]

InsertOk(w) ==
  /\ Admits(milvus[w]) /\ AddRows(w)
  /\ milvus' = [milvus EXCEPT ![w] = Succeeded(Asked(@))]
  /\ buffer' = [buffer EXCEPT ![w] = {}]
  /\ IF part[w] = LastChunk(event[w])
     THEN Goto(w, "ack") /\ UNCHANGED <<part, left, got>>
     ELSE StartChunk(w, event[w], part[w] + 1) /\ Goto(w, "fetch")
  /\ UNCHANGED <<faults, refused>>

\* Mutant: a failing insert is swallowed and the event goes on to be acknowledged.
InsertSwallowed(w) ==
  /\ Admits(milvus[w]) /\ Fault /\ UNCHANGED <<rows, refused>>
  /\ milvus' = [milvus EXCEPT ![w] = Failed(Asked(@))]
  /\ Goto(w, "ack") /\ UNCHANGED <<buffer, part, left, got>>

\* The insert fails, or the flush after it does; a breaker that is open refuses it, and
\* is told of that as of a failure.
InsertFails(w) ==
  /\ \/ Admits(milvus[w]) /\ Fault /\ (AddRows(w) \/ UNCHANGED rows) /\ UNCHANGED refused
     \/ ~Admits(milvus[w]) /\ UNCHANGED <<rows, faults>>
        /\ refused' = [refused EXCEPT ![event[w]] = CountUpTo(@, MaxRetries)]
  /\ milvus' = [milvus EXCEPT ![w] = Failed(Asked(@))]
  /\ Goto(w, "fail") /\ UNCHANGED <<buffer, part, left, got>>

Insert(w) ==
  /\ pc[w] = "insert"
  /\ InsertOk(w) \/ InsertFails(w)
  /\ UNCHANGED <<jobs, stream, todo, event, flight, tries, minio,
                 crashes, missed>>

--------------------------------------------------------------------------------
(* The end of an attempt.                                                       *)

XAck(s) ==
  /\ acked' = acked \cup {s} /\ pending' = pending \ {s} /\ idle' = idle \ {s}

Leave(w) ==
  /\ event' = [event EXCEPT ![w] = None] /\ buffer' = [buffer EXCEPT ![w] = {}]
  /\ part' = [part EXCEPT ![w] = 0] /\ got' = [got EXCEPT ![w] = {}]

Forget(w) == tries' = [tries EXCEPT ![w] = [@ EXCEPT ![event[w]] = 0]]

\* Acknowledged; an XACK that raises counts as a failed attempt.
Ack(w) ==
  /\ pc[w] = "ack"
  /\ \/ XAck(event[w]) /\ Forget(w) /\ Leave(w) /\ Goto(w, "next") /\ UNCHANGED faults
     \/ /\ Fault /\ Goto(w, "fail")
        /\ UNCHANGED <<pending, idle, acked, tries, event, buffer, part, got>>
  /\ UNCHANGED <<jobs, delivered, dead, todo, flight, left,
                 minio, milvus, rows, crashes, history>>

\* The attempts of this process or the deliveries Redis counts, whichever are more.
Exhausted(w) ==
  LET s == event[w] IN tries[w][s] + 1 >= MaxRetries \/ delivered[s] >= MaxRetries

Count(w) ==
  LET s == event[w] IN
  tries' = [tries EXCEPT ![w] = [@ EXCEPT ![s] = CountUpTo(tries[w][s], MaxRetries)]]

\* Left pending, to be taken up again when it is idle.
GiveBack(w) == Count(w) /\ Leave(w) /\ Goto(w, "next")
               /\ UNCHANGED <<todo, pending, idle, acked, dead>>

\* An attempt failed.  After the last one the event goes to the dead letter stream and is
\* acknowledged, in that order; if it does not get there, it stays pending.  An XACK that
\* raises here ends the batch.
Fail(w) ==
  LET s == event[w] IN
  /\ pc[w] = "fail"
  /\ UNCHANGED <<jobs, delivered, flight, left, minio, milvus,
                 rows, crashes, history>>
  /\ \/ ~Exhausted(w) /\ GiveBack(w) /\ UNCHANGED faults
     \/ Exhausted(w) /\ Fault /\ GiveBack(w)
     \/ /\ Exhausted(w) /\ dead' = dead \cup {s} /\ Leave(w)
        /\ \/ XAck(s) /\ Forget(w) /\ Goto(w, "next") /\ UNCHANGED <<todo, faults>>
           \/ Fault /\ Goto(w, "loop") /\ todo' = [todo EXCEPT ![w] = {}] /\ Count(w)
              /\ UNCHANGED <<pending, idle, acked>>

\* The process dies and comes back with new breakers and counts.
Crash(w) ==
  /\ crashes < MaxCrashes /\ crashes' = crashes + 1
  /\ Goto(w, "loop") /\ Leave(w)
  /\ todo' = [todo EXCEPT ![w] = {}] /\ left' = [left EXCEPT ![w] = {}]
  /\ flight' = [flight EXCEPT ![w] = {}]
  /\ tries' = [tries EXCEPT ![w] = [s \in Segments |-> 0]]
  /\ minio' = [minio EXCEPT ![w] = Closed] /\ milvus' = [milvus EXCEPT ![w] = Closed]
  /\ UNCHANGED <<uploadVars, stream, rows, history>>

\* A recovery timeout passes.
Recover(w) ==
  /\ \/ Cools(minio[w]) /\ minio' = [minio EXCEPT ![w] = Cooled(@)] /\ UNCHANGED milvus
     \/ Cools(milvus[w]) /\ milvus' = [milvus EXCEPT ![w] = Cooled(@)] /\ UNCHANGED minio
  /\ UNCHANGED <<uploadVars, stream, pc, todo, event, part, flight, got, left, buffer, tries,
                 rows, crashes, history>>

--------------------------------------------------------------------------------
Work(w) == \/ Reclaim(w) \/ Read(w) \/ Take(w) \/ Launch(w) \/ Land(w)
           \/ Encode(w) \/ Insert(w) \/ Ack(w) \/ Fail(w)

Extract == Upload /\ UNCHANGED <<stream, work, rows, crashes, history>>

Next ==
  \/ Extract
  \/ \E s \in Segments : Age(s)
  \/ \E w \in Workers : Work(w) \/ Crash(w) \/ Recover(w)

Spec == Init /\ [][Next]_vars

\* Jobs and the embedders' loops go on; an event nobody works on grows idle.
FairSpec ==
  /\ Spec
  /\ WF_vars(Extract)
  /\ \A s \in Segments : WF_vars(Age(s) /\ UNCHANGED faults)
  /\ \A w \in Workers : WF_vars(Work(w))

--------------------------------------------------------------------------------
Places == {"loop", "read", "next", "fetch", "insert", "ack", "fail"}

TypeOK ==
  /\ UploadTypeOK
  /\ idle \subseteq pending /\ pending \subseteq Segments
  /\ delivered \in [Segments -> 0 .. MaxRetries]
  /\ acked \subseteq Segments /\ dead \subseteq Segments
  /\ pc \in [Workers -> Places] /\ todo \in [Workers -> SUBSET Segments]
  /\ event \in [Workers -> Segments \cup {None}] /\ part \in [Workers -> 0 .. F - 1]
  /\ \A w \in Workers : /\ (event[w] # None) = (pc[w] \in {"fetch", "insert", "ack", "fail"})
                        /\ left[w] \cup flight[w] \cup got[w] \subseteq Frames
                        /\ Cardinality(flight[w]) <= Threads
                        /\ buffer[w] \subseteq Frames \X Frames
  /\ tries \in [Workers -> [Segments -> 0 .. MaxRetries]]
  /\ minio \in [Workers -> Breakers] /\ milvus \in [Workers -> Breakers]
  /\ rows \in [Segments \X Frames \X Frames -> Nat]
  /\ crashes \in 0 .. MaxCrashes /\ missed \in 0 .. MaxFaults
  /\ refused \in [Segments -> 0 .. MaxRetries]
  \* An event is pending, or it is settled, or it was never read.
  /\ \A s \in Segments : s \in pending \cup acked => delivered[s] > 0 /\ posted[s] = "stream"
\* The frames an event named that have no row, and the rows under another frame's path.
Missing(s) == Listed(s) \ Indexed(s)

Misfiled(s) == {p \in Frames \X Frames : p[1] # p[2] /\ rows[<<s, p[1], p[2]>>] > 0}

\* "Swallowing here would let the caller ACK an event whose frames were never indexed":
\* of the frames of an acknowledged event no more are missing than no library opens, or
\* the event is on the dead letter stream.
AckedIsIndexed ==
  \A s \in acked \ dead :
    Cardinality(Missing(s)) <= Cardinality({u \in Unreadable : u[1] = s})

\* As long as no breaker had reason to open, the loss of an acknowledged event is that of
\* its failing downloads, each of which costs one frame at most: retries, crashes and
\* take-overs lose none.
LossPaidFor ==
  faults < Threshold =>
    \A s \in acked \ dead :
      Cardinality(Missing(s)) <= missed + Cardinality({u \in Unreadable : u[1] = s})

\* A frame given up before that is on the dead letter stream, unless publishing failed
\* too, after all attempts had, or the open breaker refused it; that goes back to its
\* threshold of failing calls.
UploadsOnRecord ==
  LET passed == {p \in Segments \X Frames : p[2] < job[p[1]].frame}
      untold == passed \ (stored \cup lost \cup skipped) IN
  /\ Cardinality(untold) * (Attempts + 1) <= faults
  /\ skipped # {} => faults >= Threshold

\* A row carries the vector of the frame its path names, unless a download failed or an
\* earlier image of its chunk could not be read: then it carries that of a later frame of
\* the same chunk.
RowsMatch ==
  missed = 0 => \A s \in Segments : \A p \in Misfiled(s) :
                  /\ p[1] < p[2]
                  /\ \E u \in Unreadable :
                       /\ u[1] = s /\ u[2] < p[2]
                       /\ \E n \in 0 .. LastChunk(s) : {p[1], p[2], u[2]} \subseteq ChunkOf(s, n)

\* "Check for duplicates before adding to buffer": rows are repeated only where a fault
\* let two workers at an event or hid what was there; a crash, a retry or an insert that
\* was reported as failed repeats none.
RowsPaidFor ==
  \A s \in Segments : \A f, g \in Frames : rows[<<s, f, g>>] <= 1 + faults - missed

\* What Milvus holds of a segment is right: each row once, and with its own vector.
RowsAreRight == RowsMatch /\ RowsPaidFor

\* An event is given up only after MaxRetries deliveries that crashes,
\* faults and an open breaker account for.
DeadLetterPaidFor ==
  \A s \in dead : crashes + faults - missed + refused[s] >= MaxRetries

\* From the extractor's disk to the rows of Milvus no frame and no event goes missing but for
\* failures that account for it, wherever on its way it is.
FramesAccountedFor == TypeOK /\ UploadsOnRecord /\ LossPaidFor /\ DeadLetterPaidFor

\* Every announced event is indexed or given up in the end, whichever worker dies.
EverySettles == \A s \in Segments : posted[s] = "stream" ~> s \in acked
================================================================================
