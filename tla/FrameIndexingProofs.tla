--------------------------- MODULE FrameIndexingProofs ---------------------------
(***************************************************************************)
(* Proofs about the embedders and the uploads they depend on, for every    *)
(* number of segments, frames, embedders, retries, crashes and failing     *)
(* calls.  The inductive invariant has five parts, each about one way in   *)
(* which things could go wrong:                                            *)
(*   BaseInv      the types; what a worker holds belongs to its event and  *)
(*                chunk; an upload given up without a word cost its        *)
(*                attempts; a breaker opens after Threshold faults only;   *)
(*   MatchInv     the pairs of path and vector, as long as no download     *)
(*                failed;                                                  *)
(*   DeliveryInv  each delivery of an event but one is paid for;           *)
(*   CopiesInv    each copy of a row, or worker at an event, but one is    *)
(*                paid for;                                                *)
(*   LossInv      the frames a worker went past without a row to come are  *)
(*                no more than failed downloads and unreadable images.     *)
(* For each, a lemma says that Init implies it, that every step keeps it,  *)
(* and which property it gives.                                            *)
(***************************************************************************)
EXTENDS FrameIndexing, FiniteSetTheorems, TLAPS

--------------------------------------------------------------------------------
(* The inductive invariant.                                                     *)

\* A breaker opens at the threshold, and counts no more failures than n.
Sound(b, n) == b \in Breakers /\ (b.state # "closed" => b.failures = Threshold) /\ b.failures <= n

\* The frames given up without a word, and the failed attempts at those that may yet be.
Untold == {p \in Segments \X Frames : p[2] < job[p[1]].frame} \ (stored \cup lost \cup skipped)

UnderWay == {q \in Segments \X (1 .. Attempts) : job[q[1]].frame <= F /\ q[2] < job[q[1]].attempt}

UploadInv ==
  /\ UploadTypeOK /\ Sound(upload, faults)
  /\ skipped # {} => faults >= Threshold
  /\ Cardinality(Untold) * (Attempts + 1) + Cardinality(UnderWay) <= faults
  /\ \A s \in Segments : posted[s] # "no" => job[s].frame > F
  /\ \A s \in Segments : posted[s] = "stream" => Listed(s) # {}

\* The announced events that were delivered.
Named == {s \in Segments : posted[s] = "stream" /\ delivered[s] > 0}

AtWork == {"fetch", "insert", "ack", "fail"}

WorkTypes ==
  /\ pc \in [Workers -> Places] /\ todo \in [Workers -> SUBSET Segments]
  /\ event \in [Workers -> Segments \cup {None}] /\ part \in [Workers -> 0 .. F - 1]
  /\ flight \in [Workers -> SUBSET Frames] /\ got \in [Workers -> SUBSET Frames]
  /\ left \in [Workers -> SUBSET Frames] /\ buffer \in [Workers -> SUBSET (Frames \X Frames)]
  /\ tries \in [Workers -> [Segments -> 0 .. MaxRetries]]
  /\ minio \in [Workers -> Breakers] /\ milvus \in [Workers -> Breakers]

Rows == Segments \X Frames \X Frames

\* Only what was delivered is pending, settled or indexed.
StreamInv ==
  /\ delivered \in [Segments -> 0 .. MaxRetries]
  /\ idle \subseteq pending /\ pending \subseteq Named /\ acked \subseteq Named /\ dead \subseteq Named
  /\ rows \in [Rows -> Nat] /\ \A r \in Rows : rows[r] > 0 => r[1] \in Named

HistoryTypes ==
  /\ crashes \in 0 .. MaxCrashes /\ missed \in 0 .. faults
  /\ refused \in [Segments -> 0 .. MaxRetries]

\* What a worker holds belongs to its event, and to the chunk it is at.
WorkerInv(w) ==
  /\ event[w] # None <=> pc[w] \in AtWork
  /\ todo[w] \subseteq Named /\ (event[w] # None => event[w] \in Named)
  /\ pc[w] = "loop" => todo[w] = {}
  /\ pc[w] \notin AtWork => buffer[w] = {} /\ part[w] = 0
  /\ pc[w] # "fetch" => flight[w] = {} /\ left[w] = {}
  /\ pc[w] = "fetch" => left[w] \cup flight[w] \cup got[w] \subseteq ChunkOf(event[w], part[w])
  /\ Cardinality(flight[w]) <= Threads
  /\ pc[w] \in {"fetch", "insert"} => part[w] <= LastChunk(event[w])
  /\ pc[w] = "ack" => part[w] = LastChunk(event[w]) /\ buffer[w] = {}
  /\ pc[w] \in AtWork => buffer[w] \subseteq Listed(event[w]) \X Listed(event[w])
  /\ Sound(minio[w], faults) /\ Sound(milvus[w], faults)

BaseInv == UploadInv /\ WorkTypes /\ StreamInv /\ HistoryTypes /\ \A w \in Workers : WorkerInv(w)

\* A row or a pair of the buffer that may be there: the frame's own image, or that of a
\* later frame of the chunk after one that could not be read.
Apt(s, p) ==
  p[1] # p[2] =>
    /\ p[1] < p[2]
    /\ \E u \in Unreadable :
         /\ u[1] = s /\ u[2] < p[2]
         /\ \E n \in 0 .. LastChunk(s) : {p[1], p[2], u[2]} \subseteq ChunkOf(s, n)

MatchOf(w) ==
  /\ minio[w] = Closed
  /\ pc[w] = "fetch" => left[w] \cup flight[w] \cup got[w] = ChunkOf(event[w], part[w])
  /\ \A p \in buffer[w] : Apt(event[w], p)

MatchInv ==
  missed = 0 =>
    /\ \A w \in Workers : MatchOf(w)
    /\ \A r \in Rows : rows[r] > 0 => Apt(r[1], <<r[2], r[3]>>)

\* What crashes, failing calls and an open breaker account for.
Paid(s) == crashes + (faults - missed) + refused[s]

Failing(s) == {w \in Workers : event[w] = s /\ pc[w] = "fail"}

One(b) == IF b THEN 1 ELSE 0

\* Each delivery of an event is paid for but one, that of an event at work or idle.
DeliveryOf(s) ==
  Paid(s) < MaxRetries =>
    /\ delivered[s] + One(s \in idle) + Cardinality(Failing(s)) <= Paid(s) + 1
    /\ s \in pending /\ Working(s) = {} => delivered[s] <= Paid(s)
    /\ \A w \in Workers : tries[w][s] + One(w \in Failing(s)) <= Paid(s)
    /\ s \notin dead

DeliveryInv == \A s \in Segments : DeliveryOf(s)

\* The workers that are about to add a row.
Holding(r) == {w \in Workers : event[w] = r[1] /\ <<r[2], r[3]>> \in buffer[w]}

\* Two workers at an event, or a row and a worker about to add it again, cost a fault each.
WorkOf(s) == Cardinality(Working(s)) + One(s \in idle) <= 1 + (faults - missed)

RowOf(r) == rows[r] + Cardinality(Holding(r)) <= 1 + (faults - missed)

CopiesInv == (\A s \in Segments : WorkOf(s)) /\ \A r \in Rows : RowOf(r)

Going == {"fetch", "insert", "ack"}

\* The frames of an event in its first m chunks, and those of them that have no row and will
\* get none from the pairs B.
Before(s, m) == {f \in Listed(s) : ChunkNo(s, f) < m}

Unseen(s, m, B) == {f \in Before(s, m) : f \notin Indexed(s) /\ \A g \in Frames : <<f, g>> \notin B}

Blank(s, S) == {f \in S : <<s, f>> \in Unreadable}

\* How many chunks a worker is done with, or will be after the insert; and the frames of the
\* chunk at hand whose download failed, the others being H.
Upto(n, p) == IF p = "fetch" THEN n ELSE n + 1

Unfetched(s, n, p, H) == IF p = "fetch" THEN ChunkOf(s, n) \ H ELSE {}

Held(w) == left[w] \cup flight[w] \cup got[w]

LossOf(w) ==
  faults < Threshold /\ pc[w] \in Going =>
    Cardinality(Unseen(event[w], Upto(part[w], pc[w]), buffer[w]))
      + Cardinality(Unfetched(event[w], part[w], pc[w], Held(w)))
      <= missed + Cardinality(Blank(event[w], Before(event[w], Upto(part[w], pc[w]))))

GoneOf(s) ==
  faults < Threshold /\ s \in acked \ dead =>
    Cardinality(Missing(s)) <= missed + Cardinality({u \in Unreadable : u[1] = s})

LossInv == (\A w \in Workers : LossOf(w)) /\ \A s \in Segments : GoneOf(s)

--------------------------------------------------------------------------------
(* Counting.                                                                    *)

\* A set with at most one element more.
LEMMA OneMoreCounted ==
  ASSUME NEW S, NEW T, NEW x, IsFiniteSet(S), T \subseteq S \cup {x}
  PROVE  IsFiniteSet(T) /\ Cardinality(T) \in Nat /\ Cardinality(S) \in Nat /\ Cardinality(T) <= Cardinality(S) + 1
<1>1. /\ IsFiniteSet(S \cup {x}) /\ Cardinality(S) \in Nat
      /\ Cardinality(S \cup {x}) = Cardinality(S) \/ Cardinality(S \cup {x}) = Cardinality(S) + 1
  BY FS_AddElement, FS_CardinalityType
<1>2. IsFiniteSet(T) /\ Cardinality(T) <= Cardinality(S \cup {x})
  BY <1>1, FS_Subset
<1>3. Cardinality(T) \in Nat
  BY <1>2, FS_CardinalityType
<1>4. QED
  BY <1>1, <1>2, <1>3

\* A set with no more elements.
LEMMA NoMoreCounted ==
  ASSUME NEW S, NEW T, IsFiniteSet(S), T \subseteq S
  PROVE  IsFiniteSet(T) /\ Cardinality(T) \in Nat /\ Cardinality(S) \in Nat /\ Cardinality(T) <= Cardinality(S)
<1>1. IsFiniteSet(T) /\ Cardinality(T) <= Cardinality(S)
  BY FS_Subset
<1>2. Cardinality(T) \in Nat /\ Cardinality(S) \in Nat
  BY <1>1, FS_CardinalityType
<1>3. QED
  BY <1>1, <1>2

\* A set with at least one element less.
LEMMA OneLessCounted ==
  ASSUME NEW S, NEW x \in S, NEW T, IsFiniteSet(S), T \subseteq S \ {x}
  PROVE  IsFiniteSet(T) /\ Cardinality(T) \in Nat /\ Cardinality(S) \in Nat /\ Cardinality(T) + 1 <= Cardinality(S)
<1>1. IsFiniteSet(S \ {x}) /\ Cardinality(S \ {x}) = Cardinality(S) - 1 /\ Cardinality(S) \in Nat
  BY FS_RemoveElement, FS_CardinalityType
<1>2. IsFiniteSet(T) /\ Cardinality(T) <= Cardinality(S \ {x})
  BY <1>1, FS_Subset
<1>3. Cardinality(T) \in Nat
  BY <1>2, FS_CardinalityType
<1>4. QED
  BY <1>1, <1>2, <1>3

LEMMA UpToFinite == \A n \in Nat : IsFiniteSet(1 .. n) /\ Cardinality(1 .. n) = n
<1>1. TAKE n \in Nat
<1>2. 1 \in Int /\ n \in Int
  OBVIOUS
<1>3. IsFiniteSet(1 .. n) /\ Cardinality(1 .. n) = IF 1 > n THEN 0 ELSE n - 1 + 1
  BY <1>2, FS_Interval
<1>4. QED
  BY <1>1, <1>3

LEMMA FramesFinite ==
  /\ IsFiniteSet(Frames) /\ Cardinality(Frames) = F
  /\ IsFiniteSet(Segments \X Frames) /\ IsFiniteSet(Segments \X (1 .. Attempts))
<1>1. /\ F \in Nat /\ Attempts \in Nat /\ IsFiniteSet(Segments)
  BY UploadAssumption DEF UploadAssumption
<1>2. IsFiniteSet(1 .. F) /\ Cardinality(1 .. F) = F /\ IsFiniteSet(1 .. Attempts)
  BY <1>1, UpToFinite
<1>3. IsFiniteSet(Segments \X (1 .. F)) /\ IsFiniteSet(Segments \X (1 .. Attempts))
  BY <1>1, <1>2, FS_Product
<1>4. QED
  BY <1>2, <1>3 DEF Frames

--------------------------------------------------------------------------------
(* Breakers.                                                                    *)

LEMMA ClosedSound == \A n \in Nat : Sound(Closed, n)
BY BreakerAssumption DEF Sound, Breakers, Closed, BreakerAssumption

LEMMA MoreSound == \A b : \A n, m \in Nat : Sound(b, n) /\ n <= m => Sound(b, m)
BY BreakerAssumption DEF Sound, Breakers, BreakerAssumption

\* A breaker stays sound, whatever it is told; a failure counts.
LEMMA BreakerSteps ==
  ASSUME NEW n \in Nat, NEW b, Sound(b, n)
  PROVE  /\ Sound(Asked(b), n) /\ Sound(Succeeded(b), n) /\ Sound(Failed(b), n + 1)
         /\ Cools(b) => Sound(Cooled(b), n)
         /\ ~Admits(b) => Sound(Failed(b), n) /\ Asked(b) = b
         /\ n < Threshold => b.state = "closed" /\ Admits(b)
<1> USE BreakerAssumption DEF BreakerAssumption
<1>0. /\ b \in Breakers /\ b.state \in {"closed", "open", "half"} /\ b.failures \in 0 .. Threshold
      /\ b.successes \in 0 .. Probes - 1 /\ b.cool \in BOOLEAN
      /\ b.state # "closed" => b.failures = Threshold
      /\ b.failures <= n
  BY DEF Sound, Breakers
<1>1. \A c, k, m : c = [state |-> "open", failures |-> k, successes |-> 0, cool |-> m]
        /\ k = Threshold /\ m \in BOOLEAN /\ k <= n + 1 => Sound(c, n + 1) /\ (k <= n => Sound(c, n))
  BY DEF Sound, Breakers
<1>2. Sound(Asked(b), n)
  BY <1>0 DEF Asked, HalfOpen, Sound, Breakers
<1>3. Sound(Succeeded(b), n)
  <2>1. CASE b.state = "half" /\ b.successes + 1 < Probes
    BY <1>0, <2>1 DEF Succeeded, HalfOpen, Sound, Breakers
  <2>2. CASE b.state = "open"
    <3>1. Succeeded(b) = b
      BY <2>2 DEF Succeeded
    <3>2. QED
      BY <3>1
  <2>3. CASE ~(b.state = "half" /\ b.successes + 1 < Probes) /\ b.state # "open"
    <3>1. Succeeded(b) = Closed
      BY <2>3 DEF Succeeded
    <3>2. QED
      BY <3>1, ClosedSound
  <2>4. QED
    BY <2>1, <2>2, <2>3
<1>4. Sound(Failed(b), n + 1) /\ (~Admits(b) => Sound(Failed(b), n) /\ Asked(b) = b)
  <2> DEFINE k == OneMore(b.failures)
  <2>0. k \in 0 .. Threshold /\ k <= b.failures + 1 /\ (b.state # "closed" => k = Threshold)
    BY <1>0 DEF OneMore
  <2>1. CASE b.state = "open"
    <3>1. Failed(b) = [state |-> "open", failures |-> k, successes |-> 0, cool |-> b.cool]
      BY <2>1 DEF Failed
    <3>2. k = b.failures
      BY <1>0, <2>1 DEF OneMore
    <3>3. Sound(Failed(b), n + 1) /\ Sound(Failed(b), n)
      BY <1>0, <1>1, <2>0, <2>1, <3>1, <3>2
    <3>4. ~Admits(b) => Asked(b) = b
      BY DEF Admits, Asked
    <3>5. QED
      BY <3>3, <3>4
  <2>2. CASE b.state # "open" /\ (b.state = "half" \/ k >= Threshold)
    <3>1. Failed(b) = Opened(k)
      BY <1>0, <2>2 DEF Failed
    <3>2. k = Threshold /\ k <= n + 1
      BY <1>0, <2>0, <2>2
    <3>3. QED
      BY <1>1, <2>2, <3>1, <3>2 DEF Opened, Admits
  <2>3. CASE b.state # "open" /\ ~(b.state = "half" \/ k >= Threshold)
    <3>1. Failed(b) = [state |-> "closed", failures |-> k, successes |-> 0, cool |-> FALSE]
      BY <1>0, <2>3 DEF Failed
    <3>2. QED
      BY <1>0, <2>0, <2>3, <3>1 DEF Sound, Breakers, Admits
  <2>4. QED
    BY <2>1, <2>2, <2>3
<1>5. Cools(b) => Sound(Cooled(b), n)
  BY <1>0 DEF Cools, Cooled, Sound, Breakers
<1>6. n < Threshold => b.state = "closed" /\ Admits(b)
  BY <1>0 DEF Admits
<1>7. QED
  BY <1>2, <1>3, <1>4, <1>5, <1>6

--------------------------------------------------------------------------------
(* Uploads.                                                                     *)

Job == [frame : 1 .. F + 1, attempt : 0 .. Attempts]

LEMMA Times ==
  \A a, c, d \in Nat : c * a \in Nat /\ (c + 1) * a = c * a + a /\ (c <= d => c * a <= d * a)
<1>1. TAKE a, c, d \in Nat
<1>2. (c + 1) * a = c * a + a /\ c * a \in Nat
  OBVIOUS
<1>3. ASSUME c <= d PROVE c * a <= d * a
  <2>1. PICK k \in Nat : d = c + k
    <3>1. d - c \in Nat /\ d = c + (d - c)
      BY <1>3
    <3>2. QED
      BY <3>1
  <2>2. d * a = c * a + k * a /\ k * a \in Nat /\ d * a \in Nat
    BY <2>1
  <2>3. QED
    BY <1>2, <2>2
<1>4. QED
  BY <1>2, <1>3

\* What is paid stays paid when no more frames are given up.
LEMMA StillPaid ==
  ASSUME NEW c \in Nat, NEW c2 \in Nat, NEW u \in Nat, NEW u2 \in Nat, NEW n \in Nat, NEW m \in Nat,
         NEW a \in Nat, c * (a + 1) + u <= n,
         \/ c2 <= c /\ u2 + n <= u + m
         \/ c2 <= c + 1 /\ u2 + (a - 1) <= u /\ m = n + 2
  PROVE  c2 * (a + 1) + u2 <= m
<1>1. a + 1 \in Nat /\ c + 1 \in Nat
  OBVIOUS
<1>2. /\ c * (a + 1) \in Nat /\ c2 * (a + 1) \in Nat
      /\ c2 <= c => c2 * (a + 1) <= c * (a + 1)
      /\ c2 <= c + 1 => c2 * (a + 1) <= (c + 1) * (a + 1)
      /\ (c + 1) * (a + 1) = c * (a + 1) + (a + 1)
  BY <1>1, Times
<1>3. QED
  BY <1>1, <1>2

LEMMA JobFields == \A j \in Job : j.frame \in 1 .. F + 1 /\ j.attempt \in 0 .. Attempts
BY DEF Job

LEMMA InitUploadInv == InitUpload => UploadInv
<1> SUFFICES ASSUME InitUpload PROVE UploadInv
  OBVIOUS
<1> USE UploadAssumption DEF UploadAssumption
<1>1. UploadTypeOK /\ Sound(upload, faults)
  <2>1. Sound(Closed, 0)
    BY ClosedSound
  <2>2. QED
    BY <2>1 DEF InitUpload, UploadTypeOK, At, Sound
<1>2. Untold = {} /\ UnderWay = {}
  <2>1. \A s \in Segments : job[s].frame = 1 /\ job[s].attempt = 0
    BY DEF InitUpload, At
  <2>2. QED
    BY <2>1 DEF Untold, UnderWay, Frames
<1>3. Cardinality(Untold) = 0 /\ Cardinality(UnderWay) = 0
  BY <1>2, FS_EmptySet
<1>4. Cardinality(Untold) * (Attempts + 1) + Cardinality(UnderWay) <= faults
  BY <1>3 DEF InitUpload
<1>5. QED
  BY <1>1, <1>4 DEF UploadInv, InitUpload

\* The counts that the books are kept with.
LEMMA UploadCounts ==
  ASSUME UploadTypeOK
  PROVE  /\ IsFiniteSet(Untold) /\ Cardinality(Untold) \in Nat
         /\ IsFiniteSet(UnderWay) /\ Cardinality(UnderWay) \in Nat
<1>1. Untold \subseteq Segments \X Frames /\ UnderWay \subseteq Segments \X (1 .. Attempts)
  BY DEF Untold, UnderWay
<1>2. QED
  BY <1>1, FramesFinite, FS_Subset, FS_CardinalityType

\* Only the step of a job changes what there is of it, and the job of an announced event is over.
LEMMA AskStep ==
  ASSUME UploadInv, NEW s \in Segments, Ask(s)
  PROVE  /\ UploadInv' /\ faults' = faults
         /\ \A t \in Segments : posted[t] = "stream" => posted'[t] = "stream" /\ Listed(t)' = Listed(t)
<1> USE UploadAssumption DEF UploadAssumption
<1>0. /\ job \in [Segments -> Job] /\ UploadTypeOK /\ Sound(upload, faults) /\ faults \in Nat
      /\ job[s].frame <= F /\ job[s].attempt = 0 /\ upload' = Asked(upload)
      /\ UNCHANGED <<stored, posted, lost, faults>>
  BY DEF UploadInv, UploadTypeOK, Ask, Job
<1>1. job[s] \in Job /\ job[s].frame \in 1 .. F
  <2>1. job[s] \in Job
    BY <1>0
  <2>2. QED
    BY <1>0, <2>1, JobFields
<1>2. Sound(upload', faults')
  BY <1>0, BreakerSteps
<1>3. \A t \in Segments : Listed(t)' = Listed(t)
  BY <1>0 DEF Listed
<1>4. ASSUME NEW j \in Job, job' = [job EXCEPT ![s] = j], j.frame >= job[s].frame,
             j.attempt <= 1,
             skipped' \subseteq Segments \X Frames, skipped \subseteq skipped', skipped' # {} => faults >= Threshold,
             j.frame # job[s].frame => j.frame = job[s].frame + 1 /\ <<s, job[s].frame>> \in skipped'
      PROVE  UploadInv'
  <2>1. job'[s] = j /\ \A t \in Segments \ {s} : job'[t] = job[t]
    BY <1>0, <1>4
  <2>2. UploadTypeOK'
    BY <1>0, <1>2, <1>4 DEF UploadTypeOK, Job, Sound
  <2>3. Untold' \subseteq Untold
    <3>1. ASSUME NEW p \in Segments \X Frames, p[2] < job'[p[1]].frame, p \notin stored \cup lost \cup skipped'
          PROVE  p[2] < job[p[1]].frame /\ p \notin stored \cup lost \cup skipped
      <4>1. p = <<p[1], p[2]>> /\ p[1] \in Segments /\ p[2] \in 1 .. F
        BY DEF Frames
      <4>2. CASE p[1] # s
        BY <1>4, <2>1, <3>1, <4>1, <4>2
      <4>3. CASE p[1] = s
        <5>1. p[2] # job[s].frame \/ j.frame = job[s].frame
          BY <1>4, <3>1, <4>1, <4>3
        <5>2. p[2] < j.frame
          BY <2>1, <3>1, <4>3
        <5>3. j.frame = job[s].frame \/ j.frame = job[s].frame + 1
          BY <1>4
        <5>4. p[2] < job[s].frame
          BY <1>1, <4>1, <5>1, <5>2, <5>3
        <5>5. QED
          BY <1>4, <3>1, <4>3, <5>4
      <4>4. QED
        BY <4>2, <4>3
    <3>2. QED
      BY <1>0, <3>1 DEF Untold
  <2>4. UnderWay' \subseteq UnderWay
    <3>1. ASSUME NEW q \in Segments \X (1 .. Attempts), q[2] < job'[q[1]].attempt, job'[q[1]].frame <= F
          PROVE  q[2] < job[q[1]].attempt /\ job[q[1]].frame <= F
      <4>1. q[1] \in Segments /\ q[2] \in 1 .. Attempts
        OBVIOUS
      <4>2. j.attempt \in 0 .. 1
        BY <1>4, JobFields
      <4>3. QED
        BY <2>1, <3>1, <4>1, <4>2
    <3>2. QED
      BY <3>1 DEF UnderWay
  <2>5. /\ Cardinality(Untold') <= Cardinality(Untold) /\ Cardinality(Untold') \in Nat /\ Cardinality(Untold) \in Nat
        /\ Cardinality(UnderWay') <= Cardinality(UnderWay) /\ Cardinality(UnderWay') \in Nat /\ Cardinality(UnderWay) \in Nat
    BY <1>0, <2>3, <2>4, UploadCounts, NoMoreCounted
  <2>6. Cardinality(Untold) * (Attempts + 1) + Cardinality(UnderWay) <= faults
    BY DEF UploadInv
  <2>7. Cardinality(Untold') * (Attempts + 1) + Cardinality(UnderWay') <= faults
    BY <1>0, <2>5, <2>6, StillPaid
  <2>8. /\ \A t \in Segments : posted[t] # "no" => job'[t].frame > F
        /\ \A t \in Segments : posted[t] = "stream" => Listed(t)' # {}
    <3>1. posted[s] = "no"
      BY <1>0, <1>1 DEF UploadInv
    <3>2. QED
      BY <1>3, <2>1, <3>1 DEF UploadInv
  <2>9. QED
    BY <1>0, <1>2, <1>4, <2>2, <2>7, <2>8 DEF UploadInv
<1>5. CASE Admits(upload)
  <2>1. TryAgain(s) /\ UNCHANGED skipped
    BY <1>5 DEF Ask
  <2>2. PICK j : j = [frame |-> job[s].frame, attempt |-> job[s].attempt + 1]
    OBVIOUS
  <2>3. j \in Job /\ j.frame = job[s].frame /\ j.attempt = 1 /\ job' = [job EXCEPT ![s] = j]
    <3>2. job' = [job EXCEPT ![s] = j]
      BY <2>1, <2>2 DEF TryAgain
    <3>3. QED
      BY <1>0, <1>1, <2>2, <3>2 DEF Job
  <2>4. skipped' \subseteq Segments \X Frames /\ skipped \subseteq skipped' /\ (skipped' # {} => faults >= Threshold)
    BY <1>0, <2>1 DEF UploadInv, UploadTypeOK
  <2>5. j.frame >= job[s].frame /\ j.attempt <= 1
        /\ (j.frame # job[s].frame => j.frame = job[s].frame + 1 /\ <<s, job[s].frame>> \in skipped')
    BY <1>1, <2>3
  <2>6. UploadInv'
    BY <1>4, <2>3, <2>4, <2>5, Zenon
  <2>7. QED
    BY <1>0, <1>3, <2>6
<1>6. CASE ~Admits(upload)
  <2>1. NextFrame(s) /\ skipped' = skipped \cup {<<s, job[s].frame>>}
    BY <1>6 DEF Ask
  <2>2. faults >= Threshold
    BY <1>0, <1>6, BreakerSteps, BreakerAssumption DEF BreakerAssumption
  <2>3. PICK j : j = [frame |-> job[s].frame + 1, attempt |-> 0]
    OBVIOUS
  <2>4. j \in Job /\ j.frame = job[s].frame + 1 /\ j.attempt = 0 /\ job' = [job EXCEPT ![s] = j]
    BY <1>0, <1>1, <2>1, <2>3 DEF Job, NextFrame, At
  <2>5. skipped' \subseteq Segments \X Frames /\ skipped \subseteq skipped' /\ <<s, job[s].frame>> \in skipped'
    BY <1>0, <1>1, <2>1 DEF UploadTypeOK, Frames
  <2>6. j.frame >= job[s].frame /\ j.attempt <= 1
        /\ (j.frame # job[s].frame => j.frame = job[s].frame + 1 /\ <<s, job[s].frame>> \in skipped')
    BY <1>1, <2>4, <2>5
  <2>7. UploadInv'
    BY <1>4, <2>2, <2>4, <2>5, <2>6, Zenon
  <2>8. QED
    BY <1>0, <1>3, <2>7
<1>7. QED
  BY <1>5, <1>6

\* A job goes on with a frame, or to the next: when it tries again one call has failed; when it
\* leaves a frame without a word, all attempts have, and the dead letter too.
LEMMA JobStep ==
  ASSUME UploadInv, NEW s \in Segments, NEW j \in Job, job' = [job EXCEPT ![s] = j],
         Sound(upload', faults'), faults' \in 0 .. MaxFaults, faults <= faults',
         UNCHANGED <<posted, skipped>>, posted[s] = "no",
         stored \subseteq stored', lost \subseteq lost', lost' \subseteq Segments \X Frames,
         stored' \subseteq (stored \cup {<<s, job[s].frame>>}) \cap (Segments \X Frames),
         \/ j.frame = job[s].frame /\ j.attempt <= job[s].attempt + 1 /\ faults' = faults + 1
         \/ /\ job[s].frame <= F /\ j.frame = job[s].frame + 1 /\ j.attempt = 0
            /\ \/ <<s, job[s].frame>> \in stored' \cup lost'
               \/ job[s].attempt = Attempts /\ faults' = faults + 2
  PROVE  /\ UploadInv'
         /\ \A t \in Segments : posted[t] = "stream" => posted'[t] = "stream" /\ Listed(t)' = Listed(t)
<1> USE UploadAssumption DEF UploadAssumption
<1>0. /\ job \in [Segments -> Job] /\ UploadTypeOK /\ faults \in Nat /\ faults' \in Nat
      /\ job[s] \in Job /\ job'[s] = j /\ \A t \in Segments \ {s} : job'[t] = job[t]
  BY DEF UploadInv, UploadTypeOK, Job
<1>1. /\ job[s].frame \in 1 .. F + 1 /\ job[s].attempt \in 0 .. Attempts
      /\ j.frame \in 1 .. F + 1 /\ j.attempt \in 0 .. Attempts
  BY <1>0, JobFields
<1>2. \A t \in Segments : posted[t] = "stream" => posted'[t] = "stream" /\ Listed(t)' = Listed(t)
  <2>1. ASSUME NEW t \in Segments, posted[t] = "stream" PROVE Listed(t)' = Listed(t)
    <3>1. t # s
      BY <2>1
    <3>2. \A f : <<t, f>> \in stored' <=> <<t, f>> \in stored
      BY <3>1
    <3>3. QED
      BY <3>2 DEF Listed
  <2>2. QED
    BY <2>1
<1>3. UploadTypeOK'
  BY <1>0 DEF UploadTypeOK, Job, Sound
<1>4. Untold' \subseteq Untold \cup {<<s, job[s].frame>>}
      /\ (j.frame = job[s].frame \/ <<s, job[s].frame>> \in stored' \cup lost' => Untold' \subseteq Untold)
  <2>1. ASSUME NEW p \in Segments \X Frames, p[2] < job'[p[1]].frame, p \notin stored' \cup lost' \cup skipped,
               p # <<s, job[s].frame>> \/ j.frame = job[s].frame
        PROVE  p[2] < job[p[1]].frame /\ p \notin stored \cup lost \cup skipped
    <3>1. p = <<p[1], p[2]>> /\ p[1] \in Segments /\ p[2] \in 1 .. F
      BY DEF Frames
    <3>2. CASE p[1] # s
      BY <1>0, <2>1, <3>1, <3>2
    <3>3. CASE p[1] = s
      <4>1. p[2] # job[s].frame \/ j.frame = job[s].frame
        BY <2>1, <3>1, <3>3
      <4>2. p[2] < j.frame
        BY <1>0, <2>1, <3>3
      <4>3. j.frame = job[s].frame \/ j.frame = job[s].frame + 1
        OBVIOUS
      <4>4. p[2] < job[s].frame
        BY <1>1, <3>1, <4>1, <4>2, <4>3
      <4>5. QED
        BY <2>1, <3>3, <4>4
    <3>4. QED
      BY <3>2, <3>3
  <2>2. QED
    BY <2>1 DEF Untold
<1>5. /\ UnderWay' \subseteq UnderWay \cup {<<s, job[s].attempt>>}
      /\ j.frame # job[s].frame => UnderWay' \subseteq UnderWay \ ({s} \X (1 .. Attempts))
  <2>1. ASSUME NEW q \in Segments \X (1 .. Attempts), q[2] < job'[q[1]].attempt, job'[q[1]].frame <= F,
               q # <<s, job[s].attempt>> \/ j.frame # job[s].frame
        PROVE  /\ q[2] < job[q[1]].attempt /\ job[q[1]].frame <= F
               /\ j.frame # job[s].frame => q[1] # s
    <3>1. q = <<q[1], q[2]>> /\ q[1] \in Segments /\ q[2] \in 1 .. Attempts
      OBVIOUS
    <3>2. CASE q[1] # s
      BY <1>0, <2>1, <3>1, <3>2
    <3>3. CASE q[1] = s
      <4>1. q[2] < j.attempt /\ j.frame <= F
        BY <1>0, <2>1, <3>3
      <4>2. j.frame = job[s].frame /\ j.attempt <= job[s].attempt + 1
        BY <1>1, <3>1, <4>1
      <4>3. q[2] # job[s].attempt
        BY <2>1, <3>1, <3>3, <4>2
      <4>4. q[2] < job[s].attempt
        BY <1>1, <3>1, <4>1, <4>2, <4>3
      <4>5. QED
        BY <3>3, <4>1, <4>2, <4>4
    <3>4. QED
      BY <3>2, <3>3
  <2>2. QED
    BY <2>1 DEF UnderWay
<1>6. /\ Cardinality(Untold') <= Cardinality(Untold) + 1
      /\ j.frame = job[s].frame \/ <<s, job[s].frame>> \in stored' \cup lost' => Cardinality(Untold') <= Cardinality(Untold)
      /\ Cardinality(Untold') \in Nat /\ Cardinality(Untold) \in Nat
  <2>1. IsFiniteSet(Untold)
    BY <1>0, UploadCounts
  <2>2. Cardinality(Untold') <= Cardinality(Untold) + 1 /\ Cardinality(Untold') \in Nat /\ Cardinality(Untold) \in Nat
    BY <1>4, <2>1, OneMoreCounted
  <2>3. Untold' \subseteq Untold => Cardinality(Untold') <= Cardinality(Untold)
    BY <2>1, NoMoreCounted
  <2>4. QED
    BY <1>4, <2>2, <2>3
<1>7. /\ Cardinality(UnderWay') \in Nat /\ Cardinality(UnderWay) \in Nat
      /\ Cardinality(UnderWay') <= Cardinality(UnderWay) + 1
      /\ j.frame # job[s].frame => Cardinality(UnderWay') <= Cardinality(UnderWay)
      /\ j.frame # job[s].frame /\ job[s].attempt = Attempts
           => Cardinality(UnderWay') + (Attempts - 1) <= Cardinality(UnderWay)
  <2>1. IsFiniteSet(UnderWay)
    BY <1>0, UploadCounts
  <2>2. Cardinality(UnderWay') <= Cardinality(UnderWay) + 1 /\ Cardinality(UnderWay') \in Nat /\ Cardinality(UnderWay) \in Nat
    BY <1>5, <2>1, OneMoreCounted
  <2>3. UnderWay' \subseteq UnderWay => Cardinality(UnderWay') <= Cardinality(UnderWay)
    BY <2>1, NoMoreCounted
  <2>4. ASSUME j.frame # job[s].frame, job[s].attempt = Attempts
        PROVE  Cardinality(UnderWay') + (Attempts - 1) <= Cardinality(UnderWay)
    <3> DEFINE D == {s} \X (1 .. Attempts - 1)
    <3>1. D \subseteq UnderWay
      BY <1>1, <2>4 DEF UnderWay
    <3>2. Attempts - 1 \in Nat
      OBVIOUS
    <3>3. IsFiniteSet(1 .. Attempts - 1) /\ Cardinality(1 .. Attempts - 1) = Attempts - 1
      BY <3>2, UpToFinite
    <3>4. IsFiniteSet({s}) /\ Cardinality({s}) = 1
      BY FS_Singleton
    <3>5. Cardinality(D) = Cardinality({s}) * Cardinality(1 .. Attempts - 1)
      BY <3>3, <3>4, FS_Product
    <3>6. Cardinality(D) = Attempts - 1
      BY <3>2, <3>3, <3>4, <3>5
    <3>7. UnderWay \cap D = D
      BY <3>1
    <3>8. IsFiniteSet(UnderWay \ D) /\ Cardinality(UnderWay \ D) = Cardinality(UnderWay) - Cardinality(UnderWay \cap D)
      BY <2>1, FS_Difference
    <3>9. UnderWay' \subseteq UnderWay \ D
      BY <1>5, <2>4
    <3>10. Cardinality(UnderWay') <= Cardinality(UnderWay \ D)
      BY <3>8, <3>9, NoMoreCounted
    <3> HIDE DEF D
    <3>11. Cardinality(UnderWay \ D) = Cardinality(UnderWay) - (Attempts - 1)
      BY <3>6, <3>7, <3>8
    <3>12. QED
      BY <2>2, <3>2, <3>10, <3>11
  <2>5. QED
    BY <1>5, <2>2, <2>3, <2>4
<1>8. Cardinality(Untold') * (Attempts + 1) + Cardinality(UnderWay') <= faults'
  <2>1. Cardinality(Untold) * (Attempts + 1) + Cardinality(UnderWay) <= faults
    BY DEF UploadInv
  <2>2. \/ Cardinality(Untold') <= Cardinality(Untold) /\ Cardinality(UnderWay') + faults <= Cardinality(UnderWay) + faults'
        \/ /\ Cardinality(Untold') <= Cardinality(Untold) + 1 /\ faults' = faults + 2
           /\ Cardinality(UnderWay') + (Attempts - 1) <= Cardinality(UnderWay)
    <3>1. CASE j.frame = job[s].frame
      <4>1. faults' = faults + 1
        BY <1>0, <1>1, <3>1
      <4>2. Cardinality(Untold') <= Cardinality(Untold) /\ Cardinality(UnderWay') <= Cardinality(UnderWay) + 1
        BY <1>6, <1>7, <3>1
      <4>3. QED
        BY <1>0, <1>7, <4>1, <4>2
    <3>2. CASE j.frame # job[s].frame /\ <<s, job[s].frame>> \in stored' \cup lost'
      <4>1. Cardinality(Untold') <= Cardinality(Untold) /\ Cardinality(UnderWay') <= Cardinality(UnderWay)
        BY <1>6, <1>7, <3>2
      <4>2. QED
        BY <1>0, <1>7, <4>1
    <3>3. CASE j.frame # job[s].frame /\ <<s, job[s].frame>> \notin stored' \cup lost'
      <4>1. job[s].attempt = Attempts /\ faults' = faults + 2
        BY <3>3
      <4>2. QED
        BY <1>6, <1>7, <3>3, <4>1
    <3>4. QED
      BY <3>1, <3>2, <3>3
  <2>3. QED
    BY <1>0, <1>6, <1>7, <2>1, <2>2, StillPaid
<1>9. /\ \A t \in Segments : posted'[t] # "no" => job'[t].frame > F
      /\ \A t \in Segments : posted'[t] = "stream" => Listed(t)' # {}
      /\ skipped' # {} => faults' >= Threshold
  BY <1>0, <1>2, BreakerAssumption DEF UploadInv, BreakerAssumption
<1>10. QED
  BY <1>2, <1>3, <1>8, <1>9 DEF UploadInv

LEMMA UploadFrameStep ==
  ASSUME UploadInv, NEW s \in Segments, UploadFrame(s)
  PROVE  /\ UploadInv' /\ faults \in Nat /\ faults' \in Nat /\ faults <= faults'
         /\ \A t \in Segments : posted[t] = "stream" => posted'[t] = "stream" /\ Listed(t)' = Listed(t)
<1> USE UploadAssumption DEF UploadAssumption
<1>0. /\ job \in [Segments -> Job] /\ UploadTypeOK /\ Sound(upload, faults) /\ faults \in 0 .. MaxFaults
      /\ faults \in Nat
      /\ job[s].frame <= F /\ job[s].attempt > 0 /\ job[s] \in Job
      /\ UNCHANGED <<posted, skipped>>
  BY DEF UploadInv, UploadTypeOK, UploadFrame, Job
<1>1. job[s].frame \in 1 .. F /\ job[s].attempt \in 1 .. Attempts
  BY <1>0, JobFields
<1>2. posted[s] = "no" /\ stored \cup lost \subseteq Segments \X Frames
      /\ <<s, job[s].frame>> \in Segments \X Frames
  BY <1>0, <1>1 DEF UploadInv, UploadTypeOK, Frames
<1>3. PICK j : j = [frame |-> job[s].frame + 1, attempt |-> 0]
  OBVIOUS
<1>4. j \in Job /\ j.frame = job[s].frame + 1 /\ j.attempt = 0 /\ (NextFrame(s) => job' = [job EXCEPT ![s] = j])
  BY <1>0, <1>1, <1>3 DEF Job, NextFrame, At
<1>5. CASE UploadOk(s)
  <2>1. /\ stored' = stored \cup {<<s, job[s].frame>>} /\ job' = [job EXCEPT ![s] = j]
        /\ UNCHANGED <<lost, faults>> /\ upload' = Succeeded(upload)
    BY <1>4, <1>5 DEF UploadOk
  <2>2. Sound(upload', faults')
    BY <1>0, <2>1, BreakerSteps
  <2>3. /\ stored \subseteq stored' /\ lost \subseteq lost' /\ lost' \subseteq Segments \X Frames
        /\ stored' \subseteq (stored \cup {<<s, job[s].frame>>}) \cap (Segments \X Frames)
        /\ <<s, job[s].frame>> \in stored' \cup lost' /\ faults' \in 0 .. MaxFaults /\ faults <= faults'
    BY <1>0, <1>2, <2>1
  <2>4. QED
    BY <1>0, <1>2, <1>4, <2>1, <2>2, <2>3, JobStep
<1>6. CASE UploadFails(s)
  <2>1. upload' = Failed(upload) /\ UNCHANGED stored
    BY <1>6 DEF UploadFails
  <2>2. CASE job[s].attempt < Attempts
    <3>1. Fault /\ TryAgain(s) /\ UNCHANGED lost
      BY <1>6, <2>2 DEF UploadFails
    <3>2. PICK k : k = [frame |-> job[s].frame, attempt |-> job[s].attempt + 1]
      OBVIOUS
    <3>3. k \in Job /\ k.frame = job[s].frame /\ k.attempt = job[s].attempt + 1 /\ job' = [job EXCEPT ![s] = k]
      BY <1>0, <1>1, <2>2, <3>1, <3>2 DEF Job, TryAgain
    <3>4. faults' = faults + 1 /\ faults' \in 0 .. MaxFaults /\ faults <= faults'
      BY <1>0, <3>1 DEF Fault
    <3>5. Sound(upload', faults')
      BY <1>0, <2>1, <3>4, BreakerSteps
    <3>6. /\ stored \subseteq stored' /\ lost \subseteq lost' /\ lost' \subseteq Segments \X Frames
          /\ stored' \subseteq (stored \cup {<<s, job[s].frame>>}) \cap (Segments \X Frames)
          /\ k.attempt <= job[s].attempt + 1
      BY <1>1, <1>2, <2>1, <3>1, <3>3
    <3>7. UploadInv' /\ \A t \in Segments : posted[t] = "stream" => posted'[t] = "stream" /\ Listed(t)' = Listed(t)
      BY <1>0, <1>2, <3>3, <3>4, <3>5, <3>6, JobStep
    <3>8. QED
      BY <1>0, <3>4, <3>7
  <2>3. CASE ~(job[s].attempt < Attempts)
    <3>1. /\ NextFrame(s)
          /\ \/ Fault /\ lost' = lost \cup {<<s, job[s].frame>>}
             \/ faults + 1 < MaxFaults /\ faults' = faults + 2 /\ UNCHANGED lost
      BY <1>6, <2>3 DEF UploadFails
    <3>2. /\ faults' \in 0 .. MaxFaults /\ faults <= faults' /\ faults + 1 <= faults' /\ faults' \in Nat
          /\ lost \subseteq lost' /\ lost' \subseteq Segments \X Frames
          /\ \/ <<s, job[s].frame>> \in stored' \cup lost'
             \/ job[s].attempt = Attempts /\ faults' = faults + 2
      BY <1>0, <1>1, <1>2, <2>3, <3>1 DEF Fault
    <3>3. Sound(upload', faults')
      <4>1. Sound(upload', faults + 1)
        BY <1>0, <2>1, BreakerSteps
      <4>2. QED
        BY <1>0, <3>2, <4>1, MoreSound
    <3>4. /\ stored \subseteq stored' /\ stored' \subseteq (stored \cup {<<s, job[s].frame>>}) \cap (Segments \X Frames)
      BY <1>2, <2>1
    <3>5. QED
      BY <1>0, <1>2, <1>4, <3>1, <3>2, <3>3, <3>4, JobStep
  <2>4. QED
    BY <2>2, <2>3
<1>7. QED
  BY <1>5, <1>6 DEF UploadFrame

\* Nothing happens to the jobs.
LEMMA JobsKept ==
  ASSUME UploadInv, UNCHANGED jobs, faults' = faults \/ Fault
  PROVE  /\ UploadInv' /\ faults \in Nat /\ faults' \in Nat /\ faults <= faults'
         /\ \A t \in Segments : posted[t] = "stream" => posted'[t] = "stream" /\ Listed(t)' = Listed(t)
<1>0. /\ UNCHANGED <<job, stored, posted, lost, upload, skipped>>
      /\ faults \in 0 .. MaxFaults /\ faults' \in 0 .. MaxFaults /\ faults <= faults'
      /\ faults \in Nat /\ faults' \in Nat
  BY UploadAssumption DEF jobs, Fault, UploadInv, UploadTypeOK, UploadAssumption
<1>1. Untold' = Untold /\ UnderWay' = UnderWay /\ \A t : Listed(t)' = Listed(t)
  BY <1>0 DEF Untold, UnderWay, Listed
<1>2. UploadTypeOK'
  BY <1>0 DEF UploadInv, UploadTypeOK
<1>3. Sound(upload', faults')
  BY <1>0, MoreSound DEF UploadInv
<1>4. Cardinality(Untold) \in Nat /\ Cardinality(UnderWay) \in Nat /\ Attempts \in Nat
  BY UploadCounts, UploadAssumption DEF UploadInv, UploadAssumption
<1>5. Cardinality(Untold) * (Attempts + 1) + Cardinality(UnderWay) <= faults'
  BY <1>0, <1>4 DEF UploadInv
<1>6. skipped # {} => faults' >= Threshold
  BY <1>0, BreakerAssumption DEF UploadInv, BreakerAssumption
<1>7. QED
  BY <1>0, <1>1, <1>2, <1>3, <1>5, <1>6 DEF UploadInv

LEMMA AnnounceStep ==
  ASSUME UploadInv, NEW s \in Segments, Announce(s)
  PROVE  /\ UploadInv' /\ faults \in Nat /\ faults' \in Nat /\ faults <= faults'
         /\ \A t \in Segments : posted[t] = "stream" => posted'[t] = "stream" /\ Listed(t)' = Listed(t)
<1> USE UploadAssumption DEF UploadAssumption
<1>0. /\ job \in [Segments -> Job] /\ UploadTypeOK /\ Sound(upload, faults) /\ faults \in 0 .. MaxFaults
      /\ job[s].frame > F /\ posted[s] = "no" /\ job[s] \in Job /\ faults \in Nat
      /\ UNCHANGED <<stored, lost, upload, skipped>> /\ stored \cup lost \subseteq Segments \X Frames
  BY DEF UploadInv, UploadTypeOK, Announce, Job
<1>1. job[s].frame = F + 1 /\ job[s].attempt \in 0 .. Attempts
  BY <1>0, JobFields
<1>2. ASSUME UNCHANGED job, NEW where \in {"stream", "empty", "orphan"}, posted' = [posted EXCEPT ![s] = where],
             where = "stream" => Listed(s) # {},
             faults' = faults \/ Fault
      PROVE  /\ UploadInv' /\ faults' \in Nat /\ faults <= faults'
             /\ \A t \in Segments : posted[t] = "stream" => posted'[t] = "stream" /\ Listed(t)' = Listed(t)
    <2>1. faults' \in 0 .. MaxFaults /\ faults <= faults' /\ faults' \in Nat
      BY <1>0, <1>2 DEF Fault
    <2>2. Untold' = Untold /\ UnderWay' = UnderWay /\ \A t : Listed(t)' = Listed(t)
      BY <1>0, <1>2 DEF Untold, UnderWay, Listed
    <2>3. posted \in [Segments -> {"no", "stream", "orphan", "empty"}] /\ posted'[s] = where
          /\ \A t \in Segments \ {s} : posted'[t] = posted[t]
      BY <1>0, <1>2 DEF UploadTypeOK
    <2>4. UploadTypeOK'
      BY <1>0, <1>2, <2>1 DEF UploadTypeOK
    <2>5. Sound(upload', faults')
      BY <1>0, <2>1, MoreSound
    <2>6. Cardinality(Untold) * (Attempts + 1) + Cardinality(UnderWay) <= faults'
      <3>1. Cardinality(Untold) \in Nat /\ Cardinality(UnderWay) \in Nat
        BY <1>0, UploadCounts
      <3>2. QED
        BY <1>0, <2>1, <3>1 DEF UploadInv
    <2>7. skipped # {} => faults' >= Threshold
      BY <1>0, <2>1, BreakerAssumption DEF UploadInv, BreakerAssumption
    <2>8. /\ \A t \in Segments : posted'[t] # "no" => job'[t].frame > F
          /\ \A t \in Segments : posted'[t] = "stream" => Listed(t)' # {}
      BY <1>0, <1>2, <2>2, <2>3 DEF UploadInv
    <2>9. UploadInv'
      BY <1>0, <2>2, <2>4, <2>5, <2>6, <2>7, <2>8 DEF UploadInv
    <2>10. QED
      BY <1>0, <2>1, <2>2, <2>3, <2>9
<1>3. CASE Fault /\ TryAgain(s) /\ UNCHANGED posted /\ job[s].attempt + 1 < Attempts
  <2>1. PICK k : k = [frame |-> job[s].frame, attempt |-> job[s].attempt + 1]
    OBVIOUS
  <2>2. k \in Job /\ k.frame = job[s].frame /\ k.attempt = job[s].attempt + 1 /\ job' = [job EXCEPT ![s] = k]
    BY <1>0, <1>1, <1>3, <2>1 DEF Job, TryAgain
  <2>3. faults' = faults + 1 /\ faults' \in 0 .. MaxFaults /\ faults <= faults' /\ faults' \in Nat
    BY <1>0, <1>3 DEF Fault
  <2>4. Sound(upload', faults')
    BY <1>0, <2>3, MoreSound
  <2>5. /\ stored \subseteq stored' /\ lost \subseteq lost' /\ lost' \subseteq Segments \X Frames
        /\ stored' \subseteq (stored \cup {<<s, job[s].frame>>}) \cap (Segments \X Frames)
        /\ k.attempt <= job[s].attempt + 1
    BY <1>0, <1>1, <2>2
  <2>6. QED
    BY <1>0, <1>3, <2>2, <2>3, <2>4, <2>5, JobStep
<1>4. CASE UNCHANGED job /\ UNCHANGED faults /\ Listed(s) # {} /\ posted' = [posted EXCEPT ![s] = "stream"]
  BY <1>0, <1>2, <1>4
<1>5. CASE UNCHANGED job /\ UNCHANGED faults /\ posted' = [posted EXCEPT ![s] = "empty"]
  BY <1>0, <1>2, <1>5
<1>6. CASE UNCHANGED job /\ Fault /\ posted' = [posted EXCEPT ![s] = "orphan"]
  BY <1>0, <1>2, <1>6
<1>7. QED
  BY <1>3, <1>4, <1>5, <1>6 DEF Announce

LEMMA UploadStep ==
  ASSUME UploadInv, Upload \/ (UNCHANGED jobs /\ (faults' = faults \/ Fault))
  PROVE  /\ UploadInv' /\ faults \in Nat /\ faults' \in Nat /\ faults <= faults'
         /\ \A t \in Segments : posted[t] = "stream" => posted'[t] = "stream" /\ Listed(t)' = Listed(t)
<1>1. CASE UploadCools
  <2>0. /\ UNCHANGED <<job, stored, posted, lost, skipped, faults>> /\ Cools(upload) /\ upload' = Cooled(upload)
        /\ faults \in Nat /\ Sound(upload, faults) /\ UploadTypeOK
    BY <1>1 DEF UploadCools, UploadInv, UploadTypeOK
  <2>1. Untold' = Untold /\ UnderWay' = UnderWay /\ \A t : Listed(t)' = Listed(t)
    BY <2>0 DEF Untold, UnderWay, Listed
  <2>2. Sound(upload', faults')
    BY <2>0, BreakerSteps
  <2>3. UploadTypeOK'
    BY <2>0, <2>2 DEF UploadTypeOK, Sound
  <2>4. UploadInv'
    BY <2>0, <2>1, <2>2, <2>3 DEF UploadInv
  <2>5. QED
    BY <2>0, <2>1, <2>4
<1>2. ASSUME NEW s \in Segments, Ask(s)
      PROVE  /\ UploadInv' /\ faults \in Nat /\ faults' \in Nat /\ faults <= faults'
             /\ \A t \in Segments : posted[t] = "stream" => posted'[t] = "stream" /\ Listed(t)' = Listed(t)
  <2>1. faults \in Nat
    BY DEF UploadInv, UploadTypeOK
  <2>2. QED
    BY <1>2, <2>1, AskStep
<1>3. QED
  BY <1>1, <1>2, UploadFrameStep, AnnounceStep, JobsKept DEF Upload

--------------------------------------------------------------------------------
(* Chunks.                                                                      *)

LEMMA Quotients ==
  \A c \in Nat \ {0} : \A a, b \in Nat : a \div c \in Nat /\ a \div c <= a /\ (a <= b => a \div c <= b \div c)
OBVIOUS

LEMMA Ranks ==
  ASSUME NEW S, IsFiniteSet(S), S \subseteq Nat, NEW x \in S
  PROVE  /\ Rank(x, S) \in 1 .. Cardinality(S) /\ Cardinality(S) \in Nat
         /\ \A y \in S : x < y => Rank(x, S) < Rank(y, S)
<1>1. IsFiniteSet({y \in S : y <= x}) /\ Rank(x, S) \in Nat /\ Rank(x, S) <= Cardinality(S) /\ Cardinality(S) \in Nat
  <2>1. {y \in S : y <= x} \subseteq S
    OBVIOUS
  <2>2. QED
    BY <2>1, NoMoreCounted DEF Rank
<1>2. Rank(x, S) >= 1
  <2>1. {} \subseteq {y \in S : y <= x} \ {x} /\ x \in {y \in S : y <= x}
    OBVIOUS
  <2>2. Cardinality({}) + 1 <= Rank(x, S) /\ Cardinality({}) \in Nat
    BY <1>1, <2>1, OneLessCounted DEF Rank
  <2>3. QED
    BY <1>1, <2>2
<1>3. ASSUME NEW y \in S, x < y PROVE Rank(x, S) < Rank(y, S)
  <2>0. x \in Nat /\ y \in Nat /\ \A z \in S : z \in Nat
    OBVIOUS
  <2>a. \A z \in S : z <= x => z <= y /\ z # y
    BY <1>3, <2>0
  <2>b. y <= y
    BY <2>0
  <2>1. {z \in S : z <= x} \subseteq {z \in S : z <= y} \ {y} /\ y \in {z \in S : z <= y}
    BY <2>a, <2>b, Zenon
  <2>2. IsFiniteSet({z \in S : z <= y})
    <3>1. {z \in S : z <= y} \subseteq S
      OBVIOUS
    <3>2. QED
      BY <3>1, NoMoreCounted
  <2>3. /\ Cardinality({z \in S : z <= x}) + 1 <= Cardinality({z \in S : z <= y})
        /\ Cardinality({z \in S : z <= x}) \in Nat /\ Cardinality({z \in S : z <= y}) \in Nat
    BY <2>1, <2>2, OneLessCounted
  <2>4. QED
    BY <2>3 DEF Rank
<1>4. QED
  BY <1>1, <1>2, <1>3

\* The chunks of an event, from 0 to the last, hold its frames.
LEMMA Chunks ==
  ASSUME NEW s \in Segments, Listed(s) # {}
  PROVE  /\ IsFiniteSet(Listed(s)) /\ Listed(s) \subseteq Frames /\ Frames \subseteq Nat
         /\ LastChunk(s) \in 0 .. F - 1
         /\ \A f \in Listed(s) : ChunkNo(s, f) \in 0 .. LastChunk(s)
<1> USE UploadAssumption, IndexingAssumption DEF UploadAssumption, IndexingAssumption
<1>1. /\ IsFiniteSet(Listed(s)) /\ Listed(s) \subseteq Frames /\ Frames \subseteq Nat
      /\ Cardinality(Listed(s)) \in Nat /\ Cardinality(Listed(s)) <= F
  <2>1. Listed(s) \subseteq Frames /\ Frames \subseteq Nat
    BY DEF Listed, Frames
  <2>2. QED
    BY <2>1, FramesFinite, NoMoreCounted
<1>2. Cardinality(Listed(s)) >= 1
  BY <1>1, FS_EmptySet
<1>3. LastChunk(s) \in 0 .. F - 1
  <2>1. Cardinality(Listed(s)) - 1 \in Nat /\ Cardinality(Listed(s)) - 1 <= F - 1
    BY <1>1, <1>2
  <2>2. QED
    BY <2>1, Quotients DEF LastChunk
<1>4. ASSUME NEW f \in Listed(s) PROVE ChunkNo(s, f) \in 0 .. LastChunk(s)
  <2>1. Rank(f, Listed(s)) \in 1 .. Cardinality(Listed(s))
    BY <1>1, Ranks
  <2>2. Rank(f, Listed(s)) - 1 \in Nat /\ Cardinality(Listed(s)) - 1 \in Nat
        /\ Rank(f, Listed(s)) - 1 <= Cardinality(Listed(s)) - 1
    BY <1>1, <2>1
  <2>3. QED
    BY <2>2, Quotients DEF ChunkNo, LastChunk
<1>5. QED
  BY <1>1, <1>3, <1>4

\* A worker to which nothing happens.
Kept(v) ==
  /\ pc'[v] = pc[v] /\ todo'[v] = todo[v] /\ event'[v] = event[v] /\ part'[v] = part[v]
  /\ flight'[v] = flight[v] /\ got'[v] = got[v] /\ left'[v] = left[v] /\ buffer'[v] = buffer[v]
  /\ tries'[v] = tries[v] /\ minio'[v] = minio[v] /\ milvus'[v] = milvus[v]

\* Frames that stay as they are stay in their chunks.
LEMMA ChunksKept ==
  ASSUME NEW s, Listed(s)' = Listed(s)
  PROVE  /\ LastChunk(s)' = LastChunk(s)
         /\ \A f : ChunkNo(s, f)' = ChunkNo(s, f)
         /\ \A n : ChunkOf(s, n)' = ChunkOf(s, n)
<1>1. LastChunk(s)' = LastChunk(s)
  BY DEF LastChunk
<1>2. ASSUME NEW f PROVE ChunkNo(s, f)' = ChunkNo(s, f)
  BY DEF ChunkNo, Rank
<1>3. ASSUME NEW n PROVE ChunkOf(s, n)' = ChunkOf(s, n)
  BY DEF ChunkOf, ChunkNo, Rank
<1>4. QED
  BY <1>1, <1>2, <1>3

LEMMA OthersInv ==
  ASSUME BaseInv, NEW v \in Workers, Kept(v), faults \in Nat, faults' \in Nat, faults <= faults',
         Named \subseteq Named', \A s \in Named : Listed(s)' = Listed(s)
  PROVE  WorkerInv(v)'
<1>0. WorkerInv(v)
  BY DEF BaseInv
<1>1. Sound(minio[v], faults') /\ Sound(milvus[v], faults')
  BY <1>0, MoreSound DEF WorkerInv
<1>2. CASE event[v] = None
  <2>1. pc[v] \notin AtWork
    BY <1>0, <1>2 DEF WorkerInv
  <2>2. QED
    BY <1>0, <1>1, <1>2, <2>1 DEF WorkerInv, Kept, AtWork
<1>3. CASE event[v] # None
  <2>1. PICK s, n : s = event[v] /\ n = part[v]
    OBVIOUS
  <2>2. s \in Named /\ s \in Named'
    BY <1>0, <1>3, <2>1 DEF WorkerInv
  <2>3. Listed(s)' = Listed(s) /\ ChunkOf(s, n)' = ChunkOf(s, n) /\ LastChunk(s)' = LastChunk(s)
    BY <2>2, ChunksKept
  <2>4. Listed(event[v])' = Listed(s) /\ ChunkOf(event[v], part[v])' = ChunkOf(s, n) /\ LastChunk(event[v])' = LastChunk(s)
    <3>1. event'[v] = s /\ part'[v] = n
      BY <2>1 DEF Kept
    <3>2. Listed(event[v])' = Listed(s)'
      BY <3>1 DEF Listed
    <3>3. LastChunk(event[v])' = LastChunk(s)'
      BY <3>2 DEF LastChunk
    <3>4. ChunkOf(event[v], part[v])' = ChunkOf(s, n)'
      BY <3>1, <3>2 DEF ChunkOf, ChunkNo, Rank
    <3>5. QED
      BY <2>3, <3>2, <3>3, <3>4
  <2>5. todo[v] \subseteq Named'
    BY <1>0 DEF WorkerInv
  <2>6. QED
    BY <1>0, <1>1, <2>1, <2>2, <2>4, <2>5 DEF WorkerInv, Kept
<1>4. QED
  BY <1>2, <1>3

LEMMA WorkerInvNext ==
  ASSUME NEW w, UNCHANGED stored, NEW e, NEW n, event'[w] = e, part'[w] = n,
         e # None <=> pc'[w] \in AtWork, todo'[w] \subseteq Named', e # None => e \in Named',
         pc'[w] = "loop" => todo'[w] = {},
         pc'[w] \notin AtWork => buffer'[w] = {} /\ n = 0,
         pc'[w] # "fetch" => flight'[w] = {} /\ left'[w] = {},
         pc'[w] = "fetch" => left'[w] \cup flight'[w] \cup got'[w] \subseteq ChunkOf(e, n),
         Cardinality(flight'[w]) <= Threads,
         pc'[w] \in {"fetch", "insert"} => n <= LastChunk(e),
         pc'[w] = "ack" => n = LastChunk(e) /\ buffer'[w] = {},
         pc'[w] \in AtWork => buffer'[w] \subseteq Listed(e) \X Listed(e),
         Sound(minio'[w], faults'), Sound(milvus'[w], faults')
  PROVE  WorkerInv(w)'
<1>1. Listed(event[w])' = Listed(e)
  BY DEF Listed
<1>2. LastChunk(event[w])' = LastChunk(e)
  BY <1>1 DEF LastChunk
<1>3. ChunkOf(event[w], part[w])' = ChunkOf(e, n)
  BY <1>1 DEF ChunkOf, ChunkNo, Rank
<1>4. QED
  BY <1>1, <1>2, <1>3 DEF WorkerInv

LEMMA Assemble ==
  ASSUME BaseInv, NEW w \in Workers, UNCHANGED jobs, faults' = faults \/ Fault,
         WorkTypes', \A v \in Workers \ {w} : Kept(v), Named \subseteq Named',
         StreamInv', HistoryTypes', WorkerInv(w)'
  PROVE  BaseInv'
<1>1. /\ UploadInv' /\ faults \in Nat /\ faults' \in Nat /\ faults <= faults'
      /\ \A s \in Named : Listed(s)' = Listed(s)
  BY JobsKept DEF BaseInv, Named
<1>2. ASSUME NEW v \in Workers PROVE WorkerInv(v)'
  <2>1. CASE v = w
    BY <2>1
  <2>2. CASE v # w
    <3>1. Kept(v)
      BY <2>2
    <3>2. QED
      BY <1>1, <3>1, OthersInv
  <2>3. QED
    BY <2>1, <2>2
<1>3. QED
  BY <1>1, <1>2 DEF BaseInv

\* What happens to the counts when calls fail.
LEMMA FaultsOnly ==
  ASSUME BaseInv, faults' = faults \/ Fault
  PROVE  /\ faults \in Nat /\ faults' \in Nat /\ faults <= faults' /\ missed \in Nat /\ missed <= faults
         /\ faults' \in 0 .. MaxFaults
         /\ UNCHANGED <<crashes, missed, refused>> => HistoryTypes'
         /\ \A b : Sound(b, faults) => Sound(b, faults')
<1>1. /\ faults \in Nat /\ faults' \in Nat /\ faults <= faults' /\ missed \in Nat /\ missed <= faults
      /\ faults' \in 0 .. MaxFaults
  BY UploadAssumption DEF BaseInv, UploadInv, UploadTypeOK, Fault, HistoryTypes, UploadAssumption
<1>2. UNCHANGED <<crashes, missed, refused>> => HistoryTypes'
  BY <1>1 DEF BaseInv, HistoryTypes
<1>3. QED
  BY <1>1, <1>2, MoreSound

LEMMA ExtractStep ==
  ASSUME BaseInv, Extract
  PROVE  BaseInv'
<1>1. /\ UploadInv' /\ faults \in Nat /\ faults' \in Nat /\ faults <= faults'
      /\ \A t \in Segments : posted[t] = "stream" => posted'[t] = "stream" /\ Listed(t)' = Listed(t)
  BY UploadStep DEF BaseInv, Extract
<1>2. UNCHANGED <<stream, work, rows, crashes, history>>
  BY DEF Extract
<1>3. WorkTypes'
  BY <1>2 DEF BaseInv, WorkTypes, work
<1>4. Named \subseteq Named' /\ \A s \in Named : Listed(s)' = Listed(s)
  BY <1>1, <1>2 DEF Named, stream
<1>5. StreamInv'
  BY <1>2, <1>4 DEF BaseInv, StreamInv, stream
<1>6. HistoryTypes'
  BY <1>1, <1>2 DEF BaseInv, HistoryTypes, history
<1>7. ASSUME NEW v \in Workers PROVE WorkerInv(v)'
  <2>1. Kept(v)
    BY <1>2 DEF Kept, work
  <2>2. QED
    BY <1>1, <1>4, <2>1, OthersInv
<1>8. QED
  BY <1>1, <1>3, <1>5, <1>6, <1>7 DEF BaseInv

LEMMA AgeStep ==
  ASSUME BaseInv, NEW s \in Segments, Age(s)
  PROVE  BaseInv'
<1>0. /\ UNCHANGED <<jobs, pending, delivered, acked, dead, work, rows, crashes, history>>
      /\ s \in pending /\ idle' = idle \cup {s} /\ (faults' = faults \/ Fault)
  BY DEF Age
<1>1. /\ UploadInv' /\ faults \in Nat /\ faults' \in Nat /\ faults <= faults'
      /\ \A t \in Segments : posted[t] = "stream" => posted'[t] = "stream" /\ Listed(t)' = Listed(t)
  BY <1>0, JobsKept DEF BaseInv
<1>3. WorkTypes'
  BY <1>0 DEF BaseInv, WorkTypes, work
<1>4. Named \subseteq Named' /\ \A t \in Named : Listed(t)' = Listed(t)
  BY <1>0, <1>1 DEF Named
<1>5. StreamInv'
  BY <1>0, <1>4 DEF BaseInv, StreamInv
<1>6. HistoryTypes'
  BY <1>0, <1>1 DEF BaseInv, HistoryTypes, history
<1>7. ASSUME NEW v \in Workers PROVE WorkerInv(v)'
  <2>1. Kept(v)
    BY <1>0 DEF Kept, work
  <2>2. QED
    BY <1>1, <1>4, <2>1, OthersInv
<1>8. QED
  BY <1>1, <1>3, <1>5, <1>6, <1>7 DEF BaseInv

LEMMA Delivering ==
  ASSUME BaseInv, UNCHANGED <<jobs, rows>>, NEW S \in SUBSET Segments, \A s \in S : posted[s] = "stream", Deliver(S)
  PROVE  StreamInv' /\ Named \subseteq Named' /\ S \subseteq Named'
<1>0. /\ pending' = pending \cup S /\ idle' = idle \ S /\ UNCHANGED <<acked, dead, posted, rows>>
      /\ \A s \in Segments : delivered[s] \in 0 .. MaxRetries
      /\ delivered' = [s \in Segments |-> IF s \in S THEN CountUpTo(delivered[s], MaxRetries) ELSE delivered[s]]
  BY DEF Deliver, jobs, BaseInv, StreamInv
<1>1. \A s \in Segments : /\ delivered'[s] \in 0 .. MaxRetries /\ delivered[s] <= delivered'[s]
                          /\ s \in S => delivered'[s] > 0
  BY <1>0, IndexingAssumption DEF CountUpTo, IndexingAssumption
<1>2. delivered' \in [Segments -> 0 .. MaxRetries]
  BY <1>0, <1>1
<1>3. Named \subseteq Named' /\ S \subseteq Named'
  BY <1>0, <1>1 DEF Named
<1>4. QED
  BY <1>0, <1>2, <1>3 DEF BaseInv, StreamInv

LEMMA ReclaimStep ==
  ASSUME BaseInv, NEW w \in Workers, Reclaim(w)
  PROVE  BaseInv'
<1>0. /\ pc[w] = "loop" /\ Goto(w, "read")
      /\ UNCHANGED <<jobs, event, part, flight, got, left, buffer, tries, minio, milvus, rows, crashes, history>>
      /\ \/ Deliver(idle) /\ todo' = [todo EXCEPT ![w] = idle] /\ UNCHANGED faults
         \/ idle # {} /\ Fault /\ UNCHANGED <<stream, todo>>
  BY DEF Reclaim
<1>1. WorkTypes /\ WorkerInv(w) /\ StreamInv /\ idle \in SUBSET Segments /\ \A s \in idle : posted[s] = "stream"
  BY DEF BaseInv, StreamInv, Named
<1>2. /\ faults' = faults \/ Fault
      /\ todo' = [todo EXCEPT ![w] = idle] \/ todo' = todo
  BY <1>0
<1>3. WorkTypes'
  BY <1>0, <1>1, <1>2 DEF WorkTypes, Goto, Places
<1>4. \A v \in Workers \ {w} : Kept(v)
  BY <1>0, <1>1, <1>2 DEF WorkTypes, Goto, Kept
<1>5. StreamInv' /\ Named \subseteq Named' /\ todo'[w] \subseteq Named'
  <2>1. CASE Deliver(idle) /\ todo' = [todo EXCEPT ![w] = idle]
    <3>1. todo'[w] = idle
      BY <1>1, <2>1 DEF WorkTypes
    <3>2. QED
      BY <1>0, <1>1, <2>1, <3>1, Delivering
  <2>2. CASE UNCHANGED <<stream, todo>>
    BY <1>0, <1>1, <2>2 DEF StreamInv, stream, jobs, WorkerInv, Named
  <2>3. QED
    BY <1>0, <2>1, <2>2
<1>6. HistoryTypes' /\ \A b : Sound(b, faults) => Sound(b, faults')
  BY <1>0, <1>2, FaultsOnly DEF history
<1>7. WorkerInv(w)'
  <2>1. event[w] = None /\ part[w] = 0 /\ flight[w] = {} /\ left[w] = {} /\ buffer[w] = {}
    BY <1>0, <1>1 DEF WorkerInv, AtWork
  <2>2. pc'[w] = "read" /\ event'[w] = None /\ part'[w] = 0
    BY <1>0, <1>1, <2>1 DEF WorkTypes, Goto
  <2>3. QED
    BY <1>0, <1>1, <1>5, <1>6, <2>1, <2>2, WorkerInvNext DEF AtWork, jobs, WorkerInv
<1>8. QED
  BY <1>0, <1>2, <1>3, <1>4, <1>5, <1>6, <1>7, Assemble

LEMMA ReadStep ==
  ASSUME BaseInv, NEW w \in Workers, Read(w)
  PROVE  BaseInv'
<1>0. /\ pc[w] = "read"
      /\ \/ Deliver(Fresh) /\ todo' = [todo EXCEPT ![w] = @ \cup Fresh] /\ UNCHANGED faults
         \/ /\ Fault /\ (Deliver(Fresh) \/ UNCHANGED stream)
            /\ \E kept \in {todo[w], {}} : todo' = [todo EXCEPT ![w] = kept]
      /\ Goto(w, IF todo'[w] = {} THEN "loop" ELSE "next")
      /\ UNCHANGED <<jobs, event, part, flight, got, left, buffer, tries, minio, milvus, rows, crashes, history>>
  BY DEF Read
<1>1. WorkTypes /\ WorkerInv(w) /\ StreamInv /\ Fresh \in SUBSET Segments /\ \A s \in Fresh : posted[s] = "stream"
  BY DEF BaseInv, Fresh
<1>2. /\ (faults' = faults \/ Fault) /\ (Deliver(Fresh) \/ UNCHANGED stream)
      /\ todo \in [Workers -> SUBSET Segments]
      /\ \E T \in SUBSET Segments : todo' = [todo EXCEPT ![w] = T]
  BY <1>0, <1>1 DEF WorkTypes
<1>3. todo' \in [Workers -> SUBSET Segments] /\ \A v \in Workers \ {w} : todo'[v] = todo[v]
  BY <1>2
<1>4. pc' = [pc EXCEPT ![w] = IF todo'[w] = {} THEN "loop" ELSE "next"]
  BY <1>0 DEF Goto
<1>5. WorkTypes'
  BY <1>0, <1>1, <1>3, <1>4 DEF WorkTypes, Places
<1>6. \A v \in Workers \ {w} : Kept(v)
  BY <1>0, <1>1, <1>3, <1>4 DEF WorkTypes, Kept
<1>7. StreamInv' /\ Named \subseteq Named' /\ (Deliver(Fresh) => Fresh \subseteq Named')
  <2>1. CASE Deliver(Fresh)
    BY <1>0, <1>1, <2>1, Delivering
  <2>2. CASE UNCHANGED stream
    <3>1. StreamInv' /\ Named \subseteq Named'
      BY <1>0, <1>1, <2>2 DEF StreamInv, stream, jobs, Named
    <3>2. Deliver(Fresh) => Fresh \subseteq Named'
      BY <2>1
    <3>3. QED
      BY <3>1, <3>2
  <2>3. QED
    BY <1>2, <2>1, <2>2
<1>8. HistoryTypes' /\ \A b : Sound(b, faults) => Sound(b, faults')
  BY <1>0, <1>2, FaultsOnly DEF history
<1>9. WorkerInv(w)'
  <2>1. event[w] = None /\ part[w] = 0 /\ flight[w] = {} /\ left[w] = {} /\ buffer[w] = {} /\ todo[w] \subseteq Named
    BY <1>0, <1>1 DEF WorkerInv, AtWork
  <2>2. event'[w] = None /\ part'[w] = 0 /\ pc'[w] = IF todo'[w] = {} THEN "loop" ELSE "next"
    BY <1>0, <1>1, <1>4, <2>1 DEF WorkTypes
  <2>3. todo'[w] \subseteq Named'
    <3>1. \/ todo'[w] = todo[w] \cup Fresh /\ Deliver(Fresh)
          \/ todo'[w] \in {todo[w], {}}
      BY <1>0, <1>2
    <3>2. QED
      BY <1>7, <2>1, <3>1
  <2>4. QED
    BY <1>0, <1>1, <1>8, <2>1, <2>2, <2>3, WorkerInvNext DEF AtWork, jobs, WorkerInv
<1>10. QED
  BY <1>0, <1>2, <1>5, <1>6, <1>7, <1>8, <1>9, Assemble

LEMMA StreamKept ==
  ASSUME BaseInv, UNCHANGED <<jobs, stream, rows>>
  PROVE  StreamInv' /\ Named' = Named
BY DEF BaseInv, StreamInv, stream, jobs, Named

\* What chunk a worker may start with.
LEMMA ChunkParts ==
  ASSUME BaseInv, NEW s \in Named
  PROVE  /\ Listed(s) # {} /\ Listed(s) \subseteq Frames /\ LastChunk(s) \in 0 .. F - 1
         /\ \A n : ChunkOf(s, n) \subseteq Listed(s)
<1>1. s \in Segments /\ Listed(s) # {}
  BY DEF Named, BaseInv, UploadInv
<1>2. Listed(s) \subseteq Frames /\ LastChunk(s) \in 0 .. F - 1
  BY <1>1, Chunks
<1>3. QED
  BY <1>1, <1>2 DEF ChunkOf

LEMMA NothingCounts == Cardinality({}) <= Threads
BY FS_EmptySet, IndexingAssumption DEF IndexingAssumption

LEMMA TakeStep ==
  ASSUME BaseInv, NEW w \in Workers, Take(w)
  PROVE  BaseInv'
<1>0. /\ pc[w] = "next"
      /\ UNCHANGED <<jobs, stream, flight, buffer, tries, minio, milvus, rows, crashes, history>>
      /\ faults' = faults \/ Fault
  BY DEF Take
<1>1. WorkTypes /\ WorkerInv(w)
  BY DEF BaseInv
<1>2. StreamInv' /\ Named' = Named /\ HistoryTypes' /\ \A b : Sound(b, faults) => Sound(b, faults')
  BY <1>0, StreamKept, FaultsOnly DEF history
<1>3. /\ event[w] = None /\ part[w] = 0 /\ flight[w] = {} /\ left[w] = {} /\ buffer[w] = {} /\ todo[w] \subseteq Named
      /\ Sound(minio[w], faults') /\ Sound(milvus[w], faults') /\ Cardinality(flight[w]) <= Threads
  BY <1>0, <1>1, <1>2 DEF WorkerInv, AtWork
<1>4. CASE todo[w] = {} /\ Goto(w, "loop") /\ UNCHANGED <<todo, event, part, left, got, faults>>
  <2>1. WorkTypes' /\ (\A v \in Workers \ {w} : Kept(v)) /\ pc'[w] = "loop"
    BY <1>0, <1>1, <1>4 DEF WorkTypes, Kept, Goto, Places
  <2>2. WorkerInv(w)'
    BY <1>0, <1>2, <1>3, <1>4, <2>1, WorkerInvNext DEF AtWork, jobs
  <2>3. QED
    BY <1>0, <1>2, <2>1, <2>2, Assemble
<1>5. ASSUME NEW s \in todo[w], todo' = [todo EXCEPT ![w] = @ \ {s}], event' = [event EXCEPT ![w] = s],
             \/ StartChunk(w, s, 0) /\ Goto(w, "fetch") /\ UNCHANGED faults
             \/ Fault /\ Goto(w, "fail") /\ UNCHANGED <<part, left, got>>
      PROVE  BaseInv'
  <2>1. /\ s \in Named /\ s \in Segments /\ s # None /\ Listed(s) \subseteq Frames /\ LastChunk(s) \in 0 .. F - 1
        /\ ChunkOf(s, 0) \subseteq Listed(s)
    BY <1>1, <1>3, <1>5, ChunkParts, IndexingAssumption DEF WorkTypes, IndexingAssumption, Named
  <2>2. /\ todo' \in [Workers -> SUBSET Segments] /\ event' \in [Workers -> Segments \cup {None}]
        /\ todo'[w] \subseteq Named /\ event'[w] = s
        /\ \A v \in Workers \ {w} : todo'[v] = todo[v] /\ event'[v] = event[v]
    BY <1>1, <1>3, <1>5, <2>1 DEF WorkTypes
  <2>3. CASE StartChunk(w, s, 0) /\ Goto(w, "fetch") /\ UNCHANGED faults
    <3>1. /\ part' = [part EXCEPT ![w] = 0] /\ left' = [left EXCEPT ![w] = ChunkOf(s, 0)]
          /\ got' = [got EXCEPT ![w] = {}] /\ pc' = [pc EXCEPT ![w] = "fetch"]
      BY <2>3 DEF StartChunk, Goto
    <3>2. ChunkOf(s, 0) \in SUBSET Frames /\ 0 \in 0 .. F - 1
      BY <2>1, UploadAssumption DEF UploadAssumption
    <3>3. WorkTypes' /\ (\A v \in Workers \ {w} : Kept(v))
      BY <1>0, <1>1, <2>2, <3>1, <3>2 DEF WorkTypes, Kept, Places
    <3>4. pc'[w] = "fetch" /\ part'[w] = 0 /\ left'[w] = ChunkOf(s, 0) /\ got'[w] = {}
      BY <1>1, <3>1 DEF WorkTypes
    <3>5. /\ left'[w] \cup flight'[w] \cup got'[w] \subseteq ChunkOf(s, 0) /\ 0 <= LastChunk(s)
          /\ buffer'[w] = {} /\ flight'[w] = flight[w] /\ minio'[w] = minio[w] /\ milvus'[w] = milvus[w]
          /\ todo'[w] \subseteq Named' /\ s \in Named' /\ UNCHANGED stored
      BY <1>0, <1>2, <1>3, <2>1, <2>2, <3>4 DEF jobs
    <3>6. WorkerInv(w)'
      BY <1>3, <2>1, <2>2, <3>4, <3>5, WorkerInvNext DEF AtWork
    <3>7. QED
      BY <1>0, <1>2, <3>3, <3>6, Assemble
  <2>4. CASE Fault /\ Goto(w, "fail") /\ UNCHANGED <<part, left, got>>
    <3>1. WorkTypes' /\ (\A v \in Workers \ {w} : Kept(v)) /\ pc'[w] = "fail"
      BY <1>0, <1>1, <2>2, <2>4 DEF WorkTypes, Kept, Goto, Places
    <3>2. WorkerInv(w)'
      BY <1>0, <1>2, <1>3, <2>1, <2>2, <2>4, <3>1, WorkerInvNext DEF AtWork, jobs
    <3>3. QED
      BY <1>0, <1>2, <3>1, <3>2, Assemble
  <2>5. QED
    BY <1>5, <2>3, <2>4
<1>6. QED
  BY <1>4, <1>5 DEF Take

LEMMA LaunchStep ==
  ASSUME BaseInv, NEW w \in Workers, Launch(w)
  PROVE  BaseInv'
<1>0. /\ pc[w] = "fetch" /\ Cardinality(flight[w]) < Threads
      /\ minio' = [minio EXCEPT ![w] = Asked(@)]
      /\ UNCHANGED <<jobs, faults, stream, pc, todo, event, part, got, buffer, tries, milvus, rows, crashes, history>>
  BY DEF Launch, uploadVars
<1>1. PICK f \in left[w] : /\ left' = [left EXCEPT ![w] = @ \ {f}]
                           /\ flight' = [flight EXCEPT ![w] = @ \cup {f}] \/ flight' = flight
  BY DEF Launch
<1>2. WorkTypes /\ WorkerInv(w) /\ faults \in Nat
  BY DEF BaseInv, UploadInv, UploadTypeOK
<1>3. StreamInv' /\ Named' = Named /\ HistoryTypes'
  BY <1>0, StreamKept, FaultsOnly DEF history
<1>4. Sound(minio'[w], faults') /\ minio' \in [Workers -> Breakers]
  <2>1. Sound(Asked(minio[w]), faults)
    BY <1>2, BreakerSteps DEF WorkerInv
  <2>2. minio'[w] = Asked(minio[w])
    BY <1>0, <1>2 DEF WorkTypes
  <2>3. QED
    BY <1>0, <1>2, <2>1, <2>2 DEF WorkTypes, Sound
<1>5. /\ left'[w] = left[w] \ {f} /\ flight'[w] \subseteq flight[w] \cup {f} /\ f \in Frames
      /\ left' \in [Workers -> SUBSET Frames] /\ flight' \in [Workers -> SUBSET Frames]
      /\ \A v \in Workers \ {w} : left'[v] = left[v] /\ flight'[v] = flight[v]
  BY <1>1, <1>2 DEF WorkTypes
<1>6. WorkTypes' /\ \A v \in Workers \ {w} : Kept(v)
  BY <1>0, <1>2, <1>4, <1>5 DEF WorkTypes, Kept
<1>7. Cardinality(flight'[w]) <= Threads
  <2>1. flight[w] \subseteq Frames
    BY <1>2 DEF WorkTypes
  <2>2. IsFiniteSet(flight[w])
    BY <2>1, FramesFinite, NoMoreCounted
  <2>3. /\ Cardinality(flight'[w]) \in Nat /\ Cardinality(flight[w]) \in Nat
        /\ Cardinality(flight'[w]) <= Cardinality(flight[w]) + 1
    BY <1>5, <2>2, OneMoreCounted
  <2>4. QED
    BY <1>0, <2>3, IndexingAssumption DEF IndexingAssumption
<1>8. WorkerInv(w)'
  <2>1. pc'[w] = "fetch" /\ event'[w] = event[w] /\ part'[w] = part[w] /\ todo'[w] = todo[w] /\ buffer'[w] = buffer[w]
        /\ got'[w] = got[w] /\ milvus'[w] = milvus[w] /\ left'[w] \cup flight'[w] \subseteq left[w] \cup flight[w]
    BY <1>0, <1>1, <1>5
  <2>2. PICK e, n : e = event[w] /\ n = part[w]
    OBVIOUS
  <2>3. left'[w] \cup flight'[w] \cup got'[w] \subseteq ChunkOf(e, n)
    BY <1>0, <1>2, <2>1, <2>2 DEF WorkerInv
  <2>4. QED
    BY <1>0, <1>2, <1>3, <1>4, <1>7, <2>1, <2>2, <2>3, WorkerInvNext DEF AtWork, jobs, WorkerInv
<1>9. QED
  BY <1>0, <1>3, <1>6, <1>8, Assemble

LEMMA LandStep ==
  ASSUME BaseInv, NEW w \in Workers, Land(w)
  PROVE  BaseInv'
<1>0. UNCHANGED <<jobs, stream, pc, todo, event, part, left, buffer, tries, milvus, rows, crashes, refused>>
  BY DEF Land
<1>1. PICK f \in flight[w] :
        /\ flight' = [flight EXCEPT ![w] = @ \ {f}]
        /\ \/ /\ got' = [got EXCEPT ![w] = @ \cup {f}]
              /\ minio' = [minio EXCEPT ![w] = Succeeded(@)]
              /\ UNCHANGED <<faults, missed>>
           \/ /\ Fault /\ missed' = missed + 1
              /\ minio' = [minio EXCEPT ![w] = Failed(@)] /\ UNCHANGED got
  BY DEF Land
<1>2. WorkTypes /\ WorkerInv(w) /\ faults \in Nat /\ (faults' = faults \/ Fault)
  BY <1>1 DEF BaseInv, UploadInv, UploadTypeOK
<1>3. /\ StreamInv' /\ Named' = Named
      /\ \A b : Sound(b, faults) => Sound(b, faults')
  BY <1>0, <1>2, StreamKept, FaultsOnly
<1>4. HistoryTypes'
  <2>1. missed \in 0 .. faults /\ faults \in Nat
    BY <1>2 DEF BaseInv, HistoryTypes
  <2>2. missed' \in 0 .. faults'
    BY <1>1, <2>1 DEF Fault
  <2>3. QED
    BY <1>0, <2>2 DEF BaseInv, HistoryTypes
<1>5. Sound(minio'[w], faults') /\ minio' \in [Workers -> Breakers] /\ \A v \in Workers \ {w} : minio'[v] = minio[v]
  <2>1. Sound(Succeeded(minio[w]), faults) /\ Sound(Failed(minio[w]), faults + 1)
    BY <1>2, BreakerSteps DEF WorkerInv
  <2>2. \/ minio' = [minio EXCEPT ![w] = Succeeded(minio[w])] /\ faults' = faults
        \/ minio' = [minio EXCEPT ![w] = Failed(minio[w])] /\ faults' = faults + 1
    BY <1>1 DEF Fault
  <2>3. minio \in [Workers -> Breakers]
    BY <1>2 DEF WorkTypes
  <2>4. Sound(minio'[w], faults')
    BY <2>1, <2>2, <2>3
  <2>5. minio'[w] \in Breakers
    BY <2>4 DEF Sound
  <2>6. QED
    BY <2>2, <2>3, <2>4, <2>5
<1>6. /\ flight'[w] = flight[w] \ {f} /\ got'[w] \subseteq got[w] \cup {f} /\ f \in Frames
      /\ got' \in [Workers -> SUBSET Frames] /\ flight' \in [Workers -> SUBSET Frames]
      /\ \A v \in Workers \ {w} : got'[v] = got[v] /\ flight'[v] = flight[v]
  BY <1>1, <1>2 DEF WorkTypes
<1>7. WorkTypes' /\ \A v \in Workers \ {w} : Kept(v)
  BY <1>0, <1>2, <1>5, <1>6 DEF WorkTypes, Kept
<1>8. Cardinality(flight'[w]) <= Threads
  <2>1. flight[w] \subseteq Frames /\ flight'[w] \subseteq flight[w]
    BY <1>2, <1>6 DEF WorkTypes
  <2>2. IsFiniteSet(flight[w])
    BY <2>1, FramesFinite, NoMoreCounted
  <2>3. /\ Cardinality(flight'[w]) \in Nat /\ Cardinality(flight[w]) \in Nat
        /\ Cardinality(flight'[w]) <= Cardinality(flight[w])
    BY <2>1, <2>2, NoMoreCounted
  <2>4. QED
    BY <1>2, <2>3, IndexingAssumption DEF IndexingAssumption, WorkerInv
<1>9. WorkerInv(w)'
  <2>0. pc[w] = "fetch"
    BY <1>1, <1>2 DEF WorkerInv
  <2>1. pc'[w] = "fetch" /\ event'[w] = event[w] /\ part'[w] = part[w] /\ todo'[w] = todo[w] /\ buffer'[w] = buffer[w]
        /\ left'[w] = left[w] /\ milvus'[w] = milvus[w] /\ got'[w] \cup flight'[w] \subseteq got[w] \cup flight[w]
    BY <1>0, <1>1, <1>6, <2>0
  <2>2. PICK e, n : e = event[w] /\ n = part[w]
    OBVIOUS
  <2>3. left'[w] \cup flight'[w] \cup got'[w] \subseteq ChunkOf(e, n)
    BY <1>2, <2>0, <2>1, <2>2 DEF WorkerInv
  <2>4. QED
    BY <1>0, <1>2, <1>3, <1>5, <1>8, <2>0, <2>1, <2>2, <2>3, WorkerInvNext DEF AtWork, jobs, WorkerInv
<1>10. QED
  BY <1>0, <1>2, <1>3, <1>4, <1>7, <1>9, Assemble

LEMMA EncodeMoves ==
  ASSUME BaseInv, NEW w \in Workers, Encode(w)
  PROVE  /\ pc[w] = "fetch" /\ left[w] = {} /\ flight[w] = {} /\ (faults' = faults \/ Fault)
         /\ UNCHANGED <<jobs, stream, todo, event, flight, tries, minio, milvus, rows, crashes, history>>
         /\ \/ Fault /\ Goto(w, "fail") /\ UNCHANGED <<buffer, part, left, got>>
            \/ \E B \in SUBSET Zipped(w) :
                 /\ NotYetThere(event[w], Zipped(w)) \subseteq B
                 /\ B # NotYetThere(event[w], Zipped(w)) => Fault
                 /\ buffer' = [buffer EXCEPT ![w] = buffer[w] \cup B]
                 /\ \/ /\ buffer'[w] # {} /\ Goto(w, "insert") /\ UNCHANGED <<part, left, got>>
                    \/ /\ buffer'[w] = {} /\ part[w] = LastChunk(event[w])
                       /\ Goto(w, "ack") /\ UNCHANGED <<part, left, got>>
                    \/ /\ part[w] # LastChunk(event[w])
                       /\ StartChunk(w, event[w], part[w] + 1) /\ UNCHANGED pc
<1>1. CASE Fault /\ Goto(w, "fail") /\ UNCHANGED <<buffer, part, left, got>>
  BY <1>1 DEF Encode
<1>2. CASE EncodeOk(w)
  <2> DEFINE N == NotYetThere(event[w], Zipped(w))
  <2>1. N \subseteq Zipped(w)
    BY DEF NotYetThere
  <2>2. \/ buffer' = [buffer EXCEPT ![w] = buffer[w] \cup N] /\ UNCHANGED faults
        \/ Fault /\ buffer' = [buffer EXCEPT ![w] = buffer[w] \cup Zipped(w)]
    BY <1>2 DEF EncodeOk
  <2>3. PICK B \in SUBSET Zipped(w) : /\ N \subseteq B /\ (B # N => Fault)
                                      /\ buffer' = [buffer EXCEPT ![w] = buffer[w] \cup B]
    <3> HIDE DEF N
    <3>1. QED
      BY <2>1, <2>2
  <2>4. \/ /\ buffer'[w] # {} /\ Goto(w, "insert") /\ UNCHANGED <<part, left, got>>
        \/ /\ buffer'[w] = {} /\ part[w] = LastChunk(event[w])
           /\ Goto(w, "ack") /\ UNCHANGED <<part, left, got>>
        \/ /\ part[w] # LastChunk(event[w])
           /\ StartChunk(w, event[w], part[w] + 1) /\ UNCHANGED pc
    BY <1>2, Zenon DEF EncodeOk
  <2>5. faults' = faults \/ Fault
    BY <2>2
  <2>6. QED
    BY <2>3, <2>4, <2>5 DEF Encode
<1>3. QED
  BY <1>1, <1>2 DEF Encode

LEMMA ZippedListed ==
  ASSUME BaseInv, NEW w \in Workers, pc[w] = "fetch"
  PROVE  Zipped(w) \subseteq Listed(event[w]) \X Listed(event[w])
<1>1. got[w] \subseteq ChunkOf(event[w], part[w])
  BY DEF BaseInv, WorkerInv
<1>2. ChunkOf(event[w], part[w]) \subseteq Listed(event[w])
  BY DEF ChunkOf
<1>3. Encoded(w) \subseteq Listed(event[w])
  BY <1>1, <1>2 DEF Encoded
<1>4. QED
  BY <1>2, <1>3 DEF Zipped

\* A worker goes on to the next chunk of its event.
LEMMA NextChunk ==
  ASSUME BaseInv, NEW w \in Workers, pc[w] \in {"fetch", "insert"}, part[w] # LastChunk(event[w]),
         StartChunk(w, event[w], part[w] + 1)
  PROVE  /\ part' \in [Workers -> 0 .. F - 1] /\ left' \in [Workers -> SUBSET Frames]
         /\ got' \in [Workers -> SUBSET Frames]
         /\ part'[w] = part[w] + 1 /\ part'[w] <= LastChunk(event[w])
         /\ left'[w] = ChunkOf(event[w], part'[w]) /\ got'[w] = {}
         /\ \A v \in Workers \ {w} : part'[v] = part[v] /\ left'[v] = left[v] /\ got'[v] = got[v]
<1>1. WorkTypes /\ WorkerInv(w)
  BY DEF BaseInv
<1>2. event[w] \in Named /\ part[w] <= LastChunk(event[w]) /\ part[w] \in 0 .. F - 1
  BY <1>1 DEF WorkerInv, AtWork, WorkTypes
<1>3. /\ Listed(event[w]) \subseteq Frames /\ LastChunk(event[w]) \in 0 .. F - 1
      /\ ChunkOf(event[w], part[w] + 1) \subseteq Listed(event[w])
  BY <1>2, ChunkParts
<1>4. part[w] + 1 \in 0 .. F - 1 /\ part[w] + 1 <= LastChunk(event[w])
  BY <1>2, <1>3, UploadAssumption DEF UploadAssumption
<1>5. ChunkOf(event[w], part[w] + 1) \in SUBSET Frames
  BY <1>3
<1>6. /\ part' = [part EXCEPT ![w] = part[w] + 1] /\ left' = [left EXCEPT ![w] = ChunkOf(event[w], part[w] + 1)]
      /\ got' = [got EXCEPT ![w] = {}]
  BY DEF StartChunk
<1>7. QED
  BY <1>1, <1>4, <1>5, <1>6 DEF WorkTypes

LEMMA EncodeStep ==
  ASSUME BaseInv, NEW w \in Workers, Encode(w)
  PROVE  BaseInv'
<1>0. /\ pc[w] = "fetch" /\ left[w] = {} /\ flight[w] = {} /\ (faults' = faults \/ Fault)
      /\ UNCHANGED <<jobs, stream, todo, event, flight, tries, minio, milvus, rows, crashes, history>>
  BY EncodeMoves
<1>1. WorkTypes /\ WorkerInv(w)
  BY DEF BaseInv
<1>2. StreamInv' /\ Named' = Named /\ HistoryTypes' /\ \A b : Sound(b, faults) => Sound(b, faults')
  BY <1>0, StreamKept, FaultsOnly DEF history
<1>3. /\ event[w] \in Named /\ event[w] # None /\ todo[w] \subseteq Named /\ Cardinality(flight[w]) <= Threads
      /\ Sound(minio[w], faults') /\ Sound(milvus[w], faults') /\ part[w] <= LastChunk(event[w])
      /\ buffer[w] \subseteq Listed(event[w]) \X Listed(event[w])
  BY <1>0, <1>1, <1>2 DEF WorkerInv, AtWork
<1>4. PICK e : e = event[w]
  OBVIOUS
<1>5. /\ UNCHANGED stored /\ event'[w] = e /\ todo'[w] \subseteq Named' /\ e # None /\ e \in Named' /\ flight'[w] = {}
      /\ Sound(minio'[w], faults') /\ Sound(milvus'[w], faults') /\ Cardinality(flight'[w]) <= Threads
  BY <1>0, <1>2, <1>3, <1>4 DEF jobs
<1>6. CASE Fault /\ Goto(w, "fail") /\ UNCHANGED <<buffer, part, left, got>>
  <2>1. WorkTypes' /\ (\A v \in Workers \ {w} : Kept(v)) /\ pc'[w] = "fail"
    BY <1>0, <1>1, <1>6 DEF WorkTypes, Kept, Goto, Places
  <2>2. PICK n : n = part[w]
    OBVIOUS
  <2>3. part'[w] = n /\ left'[w] = {} /\ buffer'[w] \subseteq Listed(e) \X Listed(e)
    BY <1>0, <1>3, <1>4, <1>6, <2>2
  <2>4. WorkerInv(w)'
    BY <1>5, <2>1, <2>3, WorkerInvNext DEF AtWork
  <2>5. QED
    BY <1>0, <1>2, <2>1, <2>4, Assemble
<1>7. ASSUME NEW B \in SUBSET Zipped(w), buffer' = [buffer EXCEPT ![w] = buffer[w] \cup B],
             \/ /\ buffer'[w] # {} /\ Goto(w, "insert") /\ UNCHANGED <<part, left, got>>
             \/ /\ buffer'[w] = {} /\ part[w] = LastChunk(event[w])
                /\ Goto(w, "ack") /\ UNCHANGED <<part, left, got>>
             \/ /\ part[w] # LastChunk(event[w])
                /\ StartChunk(w, event[w], part[w] + 1) /\ UNCHANGED pc
      PROVE  BaseInv'
  <2>1. B \subseteq Listed(e) \X Listed(e) /\ Listed(e) \subseteq Frames
    BY <1>0, <1>3, <1>4, ZippedListed, ChunkParts
  <2>2. /\ buffer' \in [Workers -> SUBSET (Frames \X Frames)] /\ buffer'[w] \subseteq Listed(e) \X Listed(e)
        /\ \A v \in Workers \ {w} : buffer'[v] = buffer[v]
    <3>1. buffer[w] \cup B \in SUBSET (Frames \X Frames)
      BY <1>1, <2>1 DEF WorkTypes
    <3>2. buffer \in [Workers -> SUBSET (Frames \X Frames)]
      BY <1>1 DEF WorkTypes
    <3>3. QED
      BY <1>3, <1>4, <1>7, <2>1, <3>1, <3>2
  <2>3. CASE UNCHANGED <<part, left, got>> /\ (Goto(w, "insert") \/ Goto(w, "ack"))
    <3>1. WorkTypes' /\ (\A v \in Workers \ {w} : Kept(v)) /\ pc'[w] \in {"insert", "ack"}
      BY <1>0, <1>1, <2>2, <2>3 DEF WorkTypes, Kept, Goto, Places
    <3>2. pc'[w] = "ack" => buffer'[w] = {} /\ part[w] = LastChunk(event[w])
      <4>1. pc[w] # "ack" /\ w \in DOMAIN pc
        BY <1>0, <1>1 DEF WorkTypes
      <4>2. Goto(w, "insert") => pc'[w] = "insert"
        BY <4>1 DEF Goto
      <4>3. QED
        BY <1>0, <1>7, <4>1, <4>2
    <3>3. PICK n : n = part[w]
      OBVIOUS
    <3>4. part'[w] = n /\ left'[w] = {} /\ n <= LastChunk(e) /\ (pc'[w] = "ack" => n = LastChunk(e) /\ buffer'[w] = {})
      BY <1>0, <1>3, <1>4, <2>3, <3>2, <3>3
    <3>5. WorkerInv(w)'
      BY <1>5, <2>2, <3>1, <3>4, WorkerInvNext DEF AtWork
    <3>6. QED
      BY <1>0, <1>2, <3>1, <3>5, Assemble
  <2>4. CASE part[w] # LastChunk(event[w]) /\ StartChunk(w, event[w], part[w] + 1) /\ UNCHANGED pc
    <3>1. /\ part' \in [Workers -> 0 .. F - 1] /\ left' \in [Workers -> SUBSET Frames]
          /\ got' \in [Workers -> SUBSET Frames]
          /\ part'[w] = part[w] + 1 /\ part'[w] <= LastChunk(event[w])
          /\ left'[w] = ChunkOf(event[w], part'[w]) /\ got'[w] = {}
          /\ \A v \in Workers \ {w} : part'[v] = part[v] /\ left'[v] = left[v] /\ got'[v] = got[v]
      BY <1>0, <2>4, NextChunk
    <3>2. WorkTypes' /\ \A v \in Workers \ {w} : Kept(v)
      BY <1>0, <1>1, <2>2, <2>4, <3>1 DEF WorkTypes, Kept
    <3>3. PICK n : n = part'[w]
      OBVIOUS
    <3>4. pc'[w] = "fetch" /\ left'[w] \cup flight'[w] \cup got'[w] \subseteq ChunkOf(e, n) /\ n <= LastChunk(e)
      BY <1>0, <1>4, <1>5, <2>4, <3>1, <3>3
    <3>5. WorkerInv(w)'
      BY <1>5, <2>2, <3>3, <3>4, WorkerInvNext DEF AtWork
    <3>6. QED
      BY <1>0, <1>2, <3>2, <3>5, Assemble
  <2>5. QED
    BY <1>7, <2>3, <2>4
<1>8. QED
  BY <1>6, <1>7, EncodeMoves

\* What an insert adds.
LEMMA RowsAdded ==
  ASSUME BaseInv, NEW w \in Workers, event[w] \in Named, AddRows(w)
  PROVE  /\ rows' \in [Rows -> Nat]
         /\ \A r \in Rows : rows'[r] = IF r \in {x \in Rows : x[1] = event[w] /\ <<x[2], x[3]>> \in buffer[w]}
                                        THEN rows[r] + 1 ELSE rows[r]
         /\ UNCHANGED <<jobs, stream>> => StreamInv'
<1>1. rows \in [Rows -> Nat]
  BY DEF BaseInv, StreamInv
<1>2. rows' = [r \in Rows |-> IF r[1] = event[w] /\ <<r[2], r[3]>> \in buffer[w] THEN rows[r] + 1 ELSE rows[r]]
  BY <1>1 DEF AddRows
<1>3. /\ rows' \in [Rows -> Nat]
      /\ \A r \in Rows : rows'[r] = IF r \in {x \in Rows : x[1] = event[w] /\ <<x[2], x[3]>> \in buffer[w]}
                                     THEN rows[r] + 1 ELSE rows[r]
  BY <1>1, <1>2
<1>4. \A r \in Rows : rows'[r] > 0 => r[1] \in Named
  BY <1>1, <1>3 DEF BaseInv, StreamInv
<1>5. UNCHANGED <<jobs, stream>> => StreamInv'
  BY <1>3, <1>4 DEF BaseInv, StreamInv, stream, jobs, Named
<1>6. QED
  BY <1>3, <1>5

LEMMA InsertStep ==
  ASSUME BaseInv, NEW w \in Workers, Insert(w)
  PROVE  BaseInv'
<1>0. /\ pc[w] = "insert" /\ (InsertOk(w) \/ InsertFails(w)) /\ (faults' = faults \/ Fault)
      /\ UNCHANGED <<jobs, stream, todo, event, flight, tries, minio, crashes, missed>>
  BY DEF Insert, InsertOk, InsertFails
<1>1. WorkTypes /\ WorkerInv(w) /\ faults \in Nat
  BY DEF BaseInv, UploadInv, UploadTypeOK
<1>2. \A b : Sound(b, faults) => Sound(b, faults')
  BY <1>0, FaultsOnly
<1>3. /\ event[w] \in Named /\ event[w] # None /\ todo[w] \subseteq Named
      /\ Sound(minio[w], faults') /\ part[w] <= LastChunk(event[w])
      /\ flight[w] = {} /\ left[w] = {}
      /\ buffer[w] \subseteq Listed(event[w]) \X Listed(event[w])
  BY <1>0, <1>1, <1>2 DEF WorkerInv, AtWork
<1>4. StreamInv' /\ Named' = Named
  <2>1. AddRows(w) \/ UNCHANGED rows
    BY <1>0 DEF InsertOk, InsertFails
  <2>2. Named' = Named
    BY <1>0 DEF Named, jobs, stream
  <2>3. QED
    BY <1>0, <1>3, <2>1, <2>2, RowsAdded, StreamKept
<1>5. HistoryTypes'
  <2>1. UNCHANGED refused => HistoryTypes'
    BY <1>0, FaultsOnly
  <2>2. ASSUME refused' = [refused EXCEPT ![event[w]] = CountUpTo(@, MaxRetries)] PROVE HistoryTypes'
    <3>1. refused \in [Segments -> 0 .. MaxRetries] /\ event[w] \in Segments
      BY <1>3 DEF BaseInv, HistoryTypes, Named
    <3>2. CountUpTo(refused[event[w]], MaxRetries) \in 0 .. MaxRetries
      BY <3>1, IndexingAssumption DEF CountUpTo, IndexingAssumption
    <3>3. refused' \in [Segments -> 0 .. MaxRetries]
      BY <2>2, <3>1, <3>2
    <3>4. faults \in Nat /\ faults' \in Nat /\ faults <= faults' /\ missed \in 0 .. faults /\ crashes \in 0 .. MaxCrashes
      BY <1>0, FaultsOnly DEF BaseInv, HistoryTypes
    <3>5. QED
      BY <1>0, <3>3, <3>4 DEF HistoryTypes
  <2>3. QED
    BY <1>0, <2>1, <2>2 DEF InsertOk, InsertFails
<1>6. PICK e : e = event[w]
  OBVIOUS
<1>7. /\ UNCHANGED stored /\ event'[w] = e /\ todo'[w] \subseteq Named' /\ e # None /\ e \in Named'
      /\ flight'[w] = {} /\ Sound(minio'[w], faults') /\ Cardinality(flight'[w]) <= Threads
  BY <1>0, <1>2, <1>3, <1>4, <1>6, NothingCounts DEF jobs
<1>8. CASE InsertOk(w)
  <2>0. /\ milvus' = [milvus EXCEPT ![w] = Succeeded(Asked(milvus[w]))] /\ buffer' = [buffer EXCEPT ![w] = {}]
        /\ \/ /\ part[w] = LastChunk(event[w])
              /\ Goto(w, "ack") /\ UNCHANGED <<part, left, got>>
           \/ /\ part[w] # LastChunk(event[w])
              /\ StartChunk(w, event[w], part[w] + 1) /\ Goto(w, "fetch")
    BY <1>8 DEF InsertOk
  <2>1. /\ Sound(milvus'[w], faults') /\ milvus' \in [Workers -> Breakers]
        /\ \A v \in Workers \ {w} : milvus'[v] = milvus[v]
    <3>1. Sound(milvus[w], faults)
      BY <1>1 DEF WorkerInv
    <3>2. Sound(Asked(milvus[w]), faults)
      BY <1>1, <3>1, BreakerSteps
    <3>3. Sound(Succeeded(Asked(milvus[w])), faults)
      BY <1>1, <3>2, BreakerSteps
    <3>4. milvus \in [Workers -> Breakers] /\ Succeeded(Asked(milvus[w])) \in Breakers
      BY <1>1, <3>3 DEF WorkTypes, Sound
    <3>5. QED
      BY <1>2, <2>0, <3>3, <3>4
  <2>2. /\ buffer' \in [Workers -> SUBSET (Frames \X Frames)] /\ buffer'[w] = {}
        /\ \A v \in Workers \ {w} : buffer'[v] = buffer[v]
    BY <1>1, <2>0 DEF WorkTypes
  <2>3. CASE part[w] = LastChunk(event[w]) /\ Goto(w, "ack") /\ UNCHANGED <<part, left, got>>
    <3>1. WorkTypes' /\ (\A v \in Workers \ {w} : Kept(v)) /\ pc'[w] = "ack"
      BY <1>0, <1>1, <2>1, <2>2, <2>3 DEF WorkTypes, Kept, Goto, Places
    <3>2. PICK n : n = part[w]
      OBVIOUS
    <3>3. part'[w] = n /\ left'[w] = {} /\ n = LastChunk(e)
      BY <1>3, <1>6, <2>3, <3>2
    <3>4. WorkerInv(w)'
      BY <1>7, <2>1, <2>2, <3>1, <3>3, WorkerInvNext DEF AtWork
    <3>5. QED
      BY <1>0, <1>4, <1>5, <3>1, <3>4, Assemble
  <2>4. CASE part[w] # LastChunk(event[w]) /\ StartChunk(w, event[w], part[w] + 1) /\ Goto(w, "fetch")
    <3>1. /\ part' \in [Workers -> 0 .. F - 1] /\ left' \in [Workers -> SUBSET Frames]
          /\ got' \in [Workers -> SUBSET Frames]
          /\ part'[w] = part[w] + 1 /\ part'[w] <= LastChunk(event[w])
          /\ left'[w] = ChunkOf(event[w], part'[w]) /\ got'[w] = {}
          /\ \A v \in Workers \ {w} : part'[v] = part[v] /\ left'[v] = left[v] /\ got'[v] = got[v]
      BY <1>0, <2>4, NextChunk
    <3>2. WorkTypes' /\ (\A v \in Workers \ {w} : Kept(v)) /\ pc'[w] = "fetch"
      BY <1>0, <1>1, <2>1, <2>2, <2>4, <3>1 DEF WorkTypes, Kept, Goto, Places
    <3>3. PICK n : n = part'[w]
      OBVIOUS
    <3>4. left'[w] \cup flight'[w] \cup got'[w] \subseteq ChunkOf(e, n) /\ n <= LastChunk(e)
      BY <1>6, <1>7, <3>1, <3>3
    <3>5. WorkerInv(w)'
      BY <1>7, <2>1, <2>2, <3>2, <3>3, <3>4, WorkerInvNext DEF AtWork
    <3>6. QED
      BY <1>0, <1>4, <1>5, <3>2, <3>5, Assemble
  <2>5. QED
    BY <2>0, <2>3, <2>4
<1>9. CASE InsertFails(w)
  <2>0. /\ milvus' = [milvus EXCEPT ![w] = Failed(Asked(milvus[w]))]
        /\ Goto(w, "fail") /\ UNCHANGED <<buffer, part, left, got>>
        /\ (Admits(milvus[w]) /\ Fault) \/ (~Admits(milvus[w]) /\ UNCHANGED faults)
    BY <1>9 DEF InsertFails
  <2>1. /\ Sound(milvus'[w], faults') /\ milvus' \in [Workers -> Breakers]
        /\ \A v \in Workers \ {w} : milvus'[v] = milvus[v]
    <3>1. Sound(milvus[w], faults)
      BY <1>1 DEF WorkerInv
    <3>2. Sound(Asked(milvus[w]), faults)
      BY <1>1, <3>1, BreakerSteps
    <3>3. Sound(Failed(Asked(milvus[w])), faults + 1) /\ (~Admits(milvus[w]) => Sound(Failed(milvus[w]), faults) /\ Asked(milvus[w]) = milvus[w])
      BY <1>1, <3>1, <3>2, BreakerSteps
    <3>4. Sound(Failed(Asked(milvus[w])), faults')
      BY <2>0, <3>3 DEF Fault
    <3>5. milvus \in [Workers -> Breakers] /\ Failed(Asked(milvus[w])) \in Breakers
      BY <1>1, <3>4 DEF WorkTypes, Sound
    <3>6. QED
      BY <2>0, <3>4, <3>5
  <2>2. WorkTypes' /\ (\A v \in Workers \ {w} : Kept(v)) /\ pc'[w] = "fail"
    BY <1>0, <1>1, <2>0, <2>1 DEF WorkTypes, Kept, Goto, Places
  <2>3. PICK n : n = part[w]
    OBVIOUS
  <2>4. part'[w] = n /\ left'[w] = {} /\ buffer'[w] \subseteq Listed(e) \X Listed(e)
    BY <1>3, <1>6, <2>0, <2>3
  <2>5. WorkerInv(w)'
    BY <1>7, <2>1, <2>2, <2>4, WorkerInvNext DEF AtWork
  <2>6. QED
    BY <1>0, <1>4, <1>5, <2>2, <2>5, Assemble
<1>10. QED
  BY <1>0, <1>8, <1>9

\* A worker leaves its event, for the next one or to go around its loop.
LEMMA Leaving ==
  ASSUME BaseInv, NEW w \in Workers, NEW p \in {"next", "loop"}, NEW T \in SUBSET todo[w],
         Leave(w), Goto(w, p), todo' = [todo EXCEPT ![w] = T], p = "loop" => T = {},
         UNCHANGED jobs, faults' = faults \/ Fault,
         flight' = [flight EXCEPT ![w] = {}], left' = [left EXCEPT ![w] = {}],
         tries' \in [Workers -> [Segments -> 0 .. MaxRetries]],
         minio' \in [Workers -> Breakers], milvus' \in [Workers -> Breakers],
         Sound(minio'[w], faults'), Sound(milvus'[w], faults'),
         \A v \in Workers \ {w} : tries'[v] = tries[v] /\ minio'[v] = minio[v] /\ milvus'[v] = milvus[v],
         StreamInv', Named \subseteq Named', HistoryTypes'
  PROVE  BaseInv'
<1>1. WorkTypes /\ WorkerInv(w)
  BY DEF BaseInv
<1>2. /\ pc' = [pc EXCEPT ![w] = p] /\ event' = [event EXCEPT ![w] = None] /\ buffer' = [buffer EXCEPT ![w] = {}]
      /\ part' = [part EXCEPT ![w] = 0] /\ got' = [got EXCEPT ![w] = {}]
  BY DEF Goto, Leave
<1>3. T \in SUBSET Segments /\ T \subseteq Named /\ 0 \in 0 .. F - 1
  BY <1>1, UploadAssumption DEF WorkTypes, WorkerInv, UploadAssumption
<1>4. /\ pc' \in [Workers -> Places] /\ event' \in [Workers -> Segments \cup {None}]
      /\ buffer' \in [Workers -> SUBSET (Frames \X Frames)] /\ part' \in [Workers -> 0 .. F - 1]
      /\ got' \in [Workers -> SUBSET Frames] /\ todo' \in [Workers -> SUBSET Segments]
      /\ flight' \in [Workers -> SUBSET Frames] /\ left' \in [Workers -> SUBSET Frames]
  BY <1>1, <1>2, <1>3 DEF WorkTypes, Places
<1>5. WorkTypes'
  BY <1>4 DEF WorkTypes
<1>6. \A v \in Workers \ {w} : Kept(v)
  BY <1>1, <1>2 DEF WorkTypes, Kept
<1>7. /\ pc'[w] = p /\ event'[w] = None /\ buffer'[w] = {} /\ part'[w] = 0 /\ todo'[w] = T
      /\ flight'[w] = {} /\ left'[w] = {} /\ UNCHANGED stored
  BY <1>1, <1>2 DEF WorkTypes, jobs
<1>8. todo'[w] \subseteq Named' /\ (pc'[w] = "loop" => todo'[w] = {}) /\ Cardinality(flight'[w]) <= Threads /\ pc'[w] \notin AtWork
  BY <1>3, <1>7, NothingCounts DEF AtWork
<1>9. WorkerInv(w)'
  BY <1>7, <1>8, WorkerInvNext DEF AtWork
<1>10. QED
  BY <1>5, <1>6, <1>9, Assemble

\* What the counts of a process may be set to.
LEMMA TriesSet ==
  ASSUME BaseInv, NEW w \in Workers, event[w] \in Segments, Forget(w) \/ Count(w)
  PROVE  /\ tries' \in [Workers -> [Segments -> 0 .. MaxRetries]]
         /\ \A v \in Workers \ {w} : tries'[v] = tries[v]
<1>1. PICK s : s = event[w]
  OBVIOUS
<1>2. tries \in [Workers -> [Segments -> 0 .. MaxRetries]] /\ s \in Segments
  BY <1>1 DEF BaseInv, WorkTypes
<1>3. PICK n \in 0 .. MaxRetries : tries' = [tries EXCEPT ![w] = [tries[w] EXCEPT ![s] = n]]
  <2>1. CASE Forget(w)
    <3>1. tries' = [tries EXCEPT ![w] = [tries[w] EXCEPT ![s] = 0]] /\ 0 \in 0 .. MaxRetries
      BY <1>1, <2>1, IndexingAssumption DEF Forget, IndexingAssumption
    <3>2. QED
      BY <3>1
  <2>2. CASE Count(w)
    <3>1. tries' = [tries EXCEPT ![w] = [tries[w] EXCEPT ![s] = CountUpTo(tries[w][s], MaxRetries)]]
      BY <1>1, <2>2 DEF Count
    <3>2. CountUpTo(tries[w][s], MaxRetries) \in 0 .. MaxRetries
      BY <1>2, IndexingAssumption DEF CountUpTo, IndexingAssumption
    <3>3. QED
      BY <3>1, <3>2
  <2>3. QED
    BY <2>1, <2>2
<1>4. [tries[w] EXCEPT ![s] = n] \in [Segments -> 0 .. MaxRetries]
  BY <1>2
<1>5. QED
  BY <1>2, <1>3, <1>4

LEMMA BreakersHeld ==
  ASSUME BaseInv, NEW w \in Workers, faults' = faults \/ Fault, UNCHANGED <<minio, milvus>>
  PROVE  /\ minio' \in [Workers -> Breakers] /\ milvus' \in [Workers -> Breakers]
         /\ Sound(minio'[w], faults') /\ Sound(milvus'[w], faults')
<1>1. WorkTypes /\ WorkerInv(w)
  BY DEF BaseInv
<1>2. \A b : Sound(b, faults) => Sound(b, faults')
  BY FaultsOnly
<1>3. QED
  BY <1>1, <1>2 DEF WorkTypes, WorkerInv

\* An event is settled.
LEMMA Settling ==
  ASSUME BaseInv, NEW w \in Workers, event[w] \in Named, UNCHANGED <<jobs, delivered, rows>>,
         \/ XAck(event[w]) /\ dead' \in {dead, dead \cup {event[w]}}
         \/ dead' \in {dead, dead \cup {event[w]}} /\ UNCHANGED <<pending, idle, acked>>
  PROVE  StreamInv' /\ Named' = Named
<1>1. Named' = Named
  BY DEF Named, jobs
<1>2. StreamInv
  BY DEF BaseInv
<1>3. idle' \subseteq pending' /\ pending' \subseteq Named /\ acked' \subseteq Named /\ dead' \subseteq Named
  BY <1>2 DEF StreamInv, XAck
<1>4. QED
  BY <1>1, <1>2, <1>3 DEF StreamInv

LEMMA AckStep ==
  ASSUME BaseInv, NEW w \in Workers, Ack(w)
  PROVE  BaseInv'
<1>0. /\ pc[w] = "ack"
      /\ UNCHANGED <<jobs, delivered, dead, todo, flight, left, minio, milvus, rows, crashes, history>>
      /\ faults' = faults \/ Fault
      /\ \/ XAck(event[w]) /\ Forget(w) /\ Leave(w) /\ Goto(w, "next")
         \/ Goto(w, "fail") /\ UNCHANGED <<pending, idle, acked, tries, event, buffer, part, got>>
  BY DEF Ack
<1>1. WorkTypes /\ WorkerInv(w)
  BY DEF BaseInv
<1>2. event[w] \in Named /\ event[w] # None /\ event[w] \in Segments /\ flight[w] = {} /\ left[w] = {} /\ todo[w] \subseteq Named
      /\ buffer[w] = {}
  BY <1>0, <1>1 DEF WorkerInv, AtWork, Named
<1>3. StreamInv' /\ Named' = Named /\ HistoryTypes'
  BY <1>0, <1>2, Settling, FaultsOnly DEF history
<1>4. /\ minio' \in [Workers -> Breakers] /\ milvus' \in [Workers -> Breakers]
      /\ Sound(minio'[w], faults') /\ Sound(milvus'[w], faults')
  BY <1>0, BreakersHeld
<1>5. CASE XAck(event[w]) /\ Forget(w) /\ Leave(w) /\ Goto(w, "next")
  <2>1. flight' = [flight EXCEPT ![w] = {}] /\ left' = [left EXCEPT ![w] = {}] /\ todo' = [todo EXCEPT ![w] = todo[w]]
    BY <1>0, <1>1, <1>2 DEF WorkTypes
  <2>2. /\ tries' \in [Workers -> [Segments -> 0 .. MaxRetries]]
        /\ \A v \in Workers \ {w} : tries'[v] = tries[v] /\ minio'[v] = minio[v] /\ milvus'[v] = milvus[v]
    BY <1>0, <1>2, <1>5, TriesSet
  <2>3. todo[w] \in SUBSET todo[w] /\ "next" \in {"next", "loop"} /\ UNCHANGED jobs
    BY <1>0
  <2>4. QED
    BY <1>0, <1>3, <1>4, <1>5, <2>1, <2>2, <2>3, Leaving
<1>6. CASE Goto(w, "fail") /\ UNCHANGED <<pending, idle, acked, tries, event, buffer, part, got>>
  <2>1. WorkTypes' /\ (\A v \in Workers \ {w} : Kept(v)) /\ pc'[w] = "fail"
    BY <1>0, <1>1, <1>6 DEF WorkTypes, Kept, Goto, Places
  <2>2. PICK e, n : e = event[w] /\ n = part[w]
    OBVIOUS
  <2>3. /\ event'[w] = e /\ part'[w] = n /\ e # None /\ e \in Named' /\ todo'[w] \subseteq Named' /\ buffer'[w] \subseteq Listed(e) \X Listed(e)
        /\ flight'[w] = {} /\ left'[w] = {} /\ Cardinality(flight'[w]) <= Threads /\ UNCHANGED stored
    BY <1>0, <1>2, <1>3, <1>6, <2>2, NothingCounts DEF jobs
  <2>4. WorkerInv(w)'
    BY <1>4, <2>1, <2>3, WorkerInvNext DEF AtWork
  <2>5. QED
    BY <1>0, <1>3, <2>1, <2>4, Assemble
<1>7. QED
  BY <1>0, <1>5, <1>6

\* How an attempt that failed ends.
LEMMA FailEnds ==
  ASSUME BaseInv, NEW w \in Workers, Fail(w)
  PROVE  /\ pc[w] = "fail" /\ Leave(w) /\ (faults' = faults \/ Fault)
         /\ UNCHANGED <<jobs, delivered, flight, left, minio, milvus, rows, crashes, history>>
         /\ \/ Goto(w, "next") /\ UNCHANGED todo
            \/ Goto(w, "loop") /\ todo' = [todo EXCEPT ![w] = {}]
         /\ Forget(w) \/ Count(w)
         /\ \/ XAck(event[w]) /\ dead' = dead \cup {event[w]}
            \/ dead' \in {dead, dead \cup {event[w]}} /\ UNCHANGED <<pending, idle, acked>>
BY DEF Fail, GiveBack

LEMMA FailStep ==
  ASSUME BaseInv, NEW w \in Workers, Fail(w)
  PROVE  BaseInv'
<1>0. /\ pc[w] = "fail" /\ Leave(w) /\ (faults' = faults \/ Fault)
      /\ UNCHANGED <<jobs, delivered, flight, left, minio, milvus, rows, crashes, history>>
      /\ \/ Goto(w, "next") /\ UNCHANGED todo
         \/ Goto(w, "loop") /\ todo' = [todo EXCEPT ![w] = {}]
      /\ Forget(w) \/ Count(w)
      /\ \/ XAck(event[w]) /\ dead' = dead \cup {event[w]}
         \/ dead' \in {dead, dead \cup {event[w]}} /\ UNCHANGED <<pending, idle, acked>>
  BY FailEnds
<1>1. WorkTypes /\ WorkerInv(w)
  BY DEF BaseInv
<1>2. event[w] \in Named /\ event[w] \in Segments /\ flight[w] = {} /\ left[w] = {} /\ todo[w] \subseteq Named
  BY <1>0, <1>1 DEF WorkerInv, AtWork, Named
<1>3. StreamInv' /\ Named' = Named /\ HistoryTypes' /\ Named \subseteq Named'
  BY <1>0, <1>2, Settling, FaultsOnly DEF history
<1>4. /\ minio' \in [Workers -> Breakers] /\ milvus' \in [Workers -> Breakers]
      /\ Sound(minio'[w], faults') /\ Sound(milvus'[w], faults')
  BY <1>0, BreakersHeld
<1>5. flight' = [flight EXCEPT ![w] = {}] /\ left' = [left EXCEPT ![w] = {}] /\ UNCHANGED jobs
  BY <1>0, <1>1, <1>2 DEF WorkTypes
<1>6. /\ tries' \in [Workers -> [Segments -> 0 .. MaxRetries]]
      /\ \A v \in Workers \ {w} : tries'[v] = tries[v] /\ minio'[v] = minio[v] /\ milvus'[v] = milvus[v]
  BY <1>0, <1>2, TriesSet
<1>7. CASE Goto(w, "next") /\ UNCHANGED todo
  <2>1. todo' = [todo EXCEPT ![w] = todo[w]] /\ todo[w] \in SUBSET todo[w] /\ "next" \in {"next", "loop"}
    BY <1>1, <1>7 DEF WorkTypes
  <2>2. QED
    BY <1>0, <1>3, <1>4, <1>5, <1>6, <1>7, <2>1, Leaving
<1>8. CASE Goto(w, "loop") /\ todo' = [todo EXCEPT ![w] = {}]
  <2>1. {} \in SUBSET todo[w] /\ "loop" \in {"next", "loop"}
    OBVIOUS
  <2>2. QED
    BY <1>0, <1>3, <1>4, <1>5, <1>6, <1>8, <2>1, Leaving
<1>9. QED
  BY <1>0, <1>7, <1>8

LEMMA CrashStep ==
  ASSUME BaseInv, NEW w \in Workers, Crash(w)
  PROVE  BaseInv'
<1>0. /\ crashes < MaxCrashes /\ crashes' = crashes + 1 /\ Goto(w, "loop") /\ Leave(w)
      /\ todo' = [todo EXCEPT ![w] = {}] /\ left' = [left EXCEPT ![w] = {}]
      /\ flight' = [flight EXCEPT ![w] = {}]
      /\ tries' = [tries EXCEPT ![w] = [s \in Segments |-> 0]]
      /\ minio' = [minio EXCEPT ![w] = Closed] /\ milvus' = [milvus EXCEPT ![w] = Closed]
      /\ UNCHANGED <<uploadVars, stream, rows, history>>
  BY DEF Crash
<1>1. WorkTypes
  BY DEF BaseInv
<1>2. UNCHANGED <<jobs, faults>> /\ UNCHANGED <<jobs, stream, rows>> /\ UNCHANGED missed /\ UNCHANGED refused
  BY <1>0 DEF uploadVars, history
<1>3. StreamInv' /\ Named' = Named /\ Named \subseteq Named'
  BY <1>2, StreamKept
<1>4. HistoryTypes'
  BY <1>0, <1>2, IndexingAssumption DEF BaseInv, HistoryTypes, IndexingAssumption
<1>5. Sound(Closed, faults') /\ Closed \in Breakers
  BY <1>2, ClosedSound DEF Sound, BaseInv, UploadInv, UploadTypeOK
<1>6. /\ minio' \in [Workers -> Breakers] /\ milvus' \in [Workers -> Breakers]
      /\ Sound(minio'[w], faults') /\ Sound(milvus'[w], faults')
      /\ \A v \in Workers \ {w} : minio'[v] = minio[v] /\ milvus'[v] = milvus[v]
  BY <1>0, <1>1, <1>5 DEF WorkTypes
<1>7. /\ tries' \in [Workers -> [Segments -> 0 .. MaxRetries]]
      /\ \A v \in Workers \ {w} : tries'[v] = tries[v]
  <2>1. [s \in Segments |-> 0] \in [Segments -> 0 .. MaxRetries]
    BY IndexingAssumption DEF IndexingAssumption
  <2>2. QED
    BY <1>0, <1>1, <2>1 DEF WorkTypes
<1>8. {} \in SUBSET todo[w] /\ "loop" \in {"next", "loop"} /\ UNCHANGED jobs /\ faults' = faults
  BY <1>2
<1>9. \A v \in Workers \ {w} : tries'[v] = tries[v] /\ minio'[v] = minio[v] /\ milvus'[v] = milvus[v]
  BY <1>6, <1>7
<1>10. QED
  BY <1>0, <1>3, <1>4, <1>6, <1>7, <1>8, <1>9, Leaving

LEMMA RecoverStep ==
  ASSUME BaseInv, NEW w \in Workers, Recover(w)
  PROVE  BaseInv'
<1>0. /\ \/ Cools(minio[w]) /\ minio' = [minio EXCEPT ![w] = Cooled(minio[w])] /\ UNCHANGED milvus
         \/ Cools(milvus[w]) /\ milvus' = [milvus EXCEPT ![w] = Cooled(milvus[w])] /\ UNCHANGED minio
      /\ UNCHANGED <<uploadVars, stream, pc, todo, event, part, flight, got, left, buffer, tries, rows, crashes, history>>
  BY DEF Recover
<1>1. WorkTypes /\ WorkerInv(w) /\ faults \in Nat
  BY DEF BaseInv, UploadInv, UploadTypeOK
<1>2. UNCHANGED <<jobs, stream, rows>> /\ UNCHANGED <<jobs, faults, crashes, missed, refused>>
  BY <1>0 DEF uploadVars, history
<1>3. StreamInv' /\ Named' = Named /\ HistoryTypes'
  BY <1>2, StreamKept, FaultsOnly
<1>4. Sound(minio[w], faults) /\ Sound(milvus[w], faults)
  BY <1>1 DEF WorkerInv
<1>5. (Cools(minio[w]) => Sound(Cooled(minio[w]), faults)) /\ (Cools(milvus[w]) => Sound(Cooled(milvus[w]), faults))
  BY <1>1, <1>4, BreakerSteps
<1>6. /\ Cools(minio[w]) => Cooled(minio[w]) \in Breakers
      /\ Cools(milvus[w]) => Cooled(milvus[w]) \in Breakers
  BY <1>5 DEF Sound
<1>7. /\ Sound(minio'[w], faults') /\ Sound(milvus'[w], faults')
      /\ minio' \in [Workers -> Breakers] /\ milvus' \in [Workers -> Breakers]
      /\ \A v \in Workers \ {w} : minio'[v] = minio[v] /\ milvus'[v] = milvus[v]
  BY <1>0, <1>1, <1>2, <1>4, <1>5, <1>6 DEF WorkTypes
<1>8. WorkTypes' /\ \A v \in Workers \ {w} : Kept(v)
  BY <1>0, <1>1, <1>7 DEF WorkTypes, Kept
<1>9. WorkerInv(w)'
  <2>1. PICK e, n : e = event[w] /\ n = part[w]
    OBVIOUS
  <2>2. /\ event'[w] = e /\ part'[w] = n /\ UNCHANGED stored /\ pc'[w] = pc[w] /\ todo'[w] = todo[w] /\ buffer'[w] = buffer[w]
        /\ flight'[w] = flight[w] /\ left'[w] = left[w] /\ got'[w] = got[w]
    BY <1>0, <1>2, <2>1 DEF jobs
  <2>3. /\ e # None <=> pc'[w] \in AtWork
        /\ todo'[w] \subseteq Named' /\ (e # None => e \in Named')
        /\ (pc'[w] = "loop" => todo'[w] = {})
        /\ (pc'[w] \notin AtWork => buffer'[w] = {} /\ n = 0)
        /\ (pc'[w] # "fetch" => flight'[w] = {} /\ left'[w] = {})
        /\ (pc'[w] = "fetch" => left'[w] \cup flight'[w] \cup got'[w] \subseteq ChunkOf(e, n))
        /\ Cardinality(flight'[w]) <= Threads
        /\ (pc'[w] \in {"fetch", "insert"} => n <= LastChunk(e))
        /\ (pc'[w] = "ack" => n = LastChunk(e) /\ buffer'[w] = {})
        /\ (pc'[w] \in AtWork => buffer'[w] \subseteq Listed(e) \X Listed(e))
    BY <1>1, <1>3, <2>1, <2>2 DEF WorkerInv
  <2>4. QED
    BY <1>7, <2>2, <2>3, WorkerInvNext
<1>10. faults' = faults \/ Fault
  BY <1>2
<1>11. QED
  BY <1>2, <1>3, <1>7, <1>8, <1>9, <1>10, Assemble

LEMMA StutterStep ==
  ASSUME BaseInv, UNCHANGED vars
  PROVE  BaseInv'
<1>0. UNCHANGED <<jobs, faults, stream, work, rows, crashes, history>>
  BY DEF vars, uploadVars
<1>1. UNCHANGED <<jobs, stream, rows>> /\ UNCHANGED missed /\ UNCHANGED crashes /\ UNCHANGED refused /\ UNCHANGED stored
  BY <1>0 DEF history, jobs
<1>2. StreamInv' /\ Named' = Named /\ HistoryTypes' /\ WorkTypes' /\ UploadInv' /\ faults \in Nat
  BY <1>0, <1>1, StreamKept, FaultsOnly, JobsKept DEF BaseInv, WorkTypes, work
<1>3. ASSUME NEW v \in Workers PROVE WorkerInv(v)'
  <2>1. Kept(v) /\ faults' \in Nat /\ faults <= faults' /\ Named \subseteq Named' /\ \A s \in Named : Listed(s)' = Listed(s)
    BY <1>0, <1>1, <1>2 DEF Kept, work, Listed
  <2>2. QED
    BY <1>2, <2>1, OthersInv
<1>4. QED
  BY <1>2, <1>3 DEF BaseInv

LEMMA InitBaseInv == Init => BaseInv
<1> SUFFICES ASSUME Init PROVE BaseInv
  OBVIOUS
<1>1. UploadInv /\ faults = 0
  BY InitUploadInv DEF Init, InitUpload
<1>2. /\ 0 \in 0 .. F - 1 /\ 0 \in 0 .. MaxRetries /\ 0 \in 0 .. MaxCrashes
      /\ Closed \in Breakers /\ Sound(Closed, faults)
  BY <1>1, UploadAssumption, IndexingAssumption, ClosedSound DEF UploadAssumption, IndexingAssumption, Sound
<1>3. WorkTypes
  BY <1>2 DEF Init, WorkTypes, Places
<1>4. StreamInv
  <2>1. rows = [r \in Rows |-> 0] /\ delivered = [s \in Segments |-> 0]
    BY DEF Init, Rows
  <2>2. idle = {} /\ pending = {} /\ acked = {} /\ dead = {}
    BY DEF Init
  <2>3. QED
    BY <1>2, <2>1, <2>2 DEF StreamInv
<1>5. HistoryTypes
  BY <1>1, <1>2 DEF Init, HistoryTypes
<1>6. ASSUME NEW w \in Workers PROVE WorkerInv(w)
  <2>1. /\ pc[w] = "loop" /\ todo[w] = {} /\ event[w] = None /\ part[w] = 0 /\ flight[w] = {} /\ left[w] = {}
        /\ buffer[w] = {} /\ minio[w] = Closed /\ milvus[w] = Closed
    BY DEF Init
  <2>2. Cardinality(flight[w]) <= Threads
    BY <2>1, NothingCounts
  <2>3. QED
    BY <1>2, <2>1, <2>2 DEF WorkerInv, AtWork
<1>7. QED
  BY <1>1, <1>3, <1>4, <1>5, <1>6 DEF BaseInv

LEMMA NextBaseInv ==
  ASSUME BaseInv, [Next]_vars
  PROVE  BaseInv'
<1>1. CASE Extract
  BY <1>1, ExtractStep
<1>2. ASSUME NEW s \in Segments, Age(s) PROVE BaseInv'
  BY <1>2, AgeStep
<1>3. ASSUME NEW w \in Workers, Work(w) PROVE BaseInv'
  <2>1. CASE Reclaim(w)
    BY <2>1, ReclaimStep
  <2>2. CASE Read(w)
    BY <2>2, ReadStep
  <2>3. CASE Take(w)
    BY <2>3, TakeStep
  <2>4. CASE Launch(w)
    BY <2>4, LaunchStep
  <2>5. CASE Land(w)
    BY <2>5, LandStep
  <2>6. CASE Encode(w)
    BY <2>6, EncodeStep
  <2>7. CASE Insert(w)
    BY <2>7, InsertStep
  <2>8. CASE Ack(w)
    BY <2>8, AckStep
  <2>9. CASE Fail(w)
    BY <2>9, FailStep
  <2>10. QED
    BY <1>3, <2>1, <2>2, <2>3, <2>4, <2>5, <2>6, <2>7, <2>8, <2>9 DEF Work
<1>4. ASSUME NEW w \in Workers, Crash(w) \/ Recover(w) PROVE BaseInv'
  BY <1>4, CrashStep, RecoverStep
<1>5. CASE UNCHANGED vars
  BY <1>5, StutterStep
<1>6. QED
  BY <1>1, <1>2, <1>3, <1>4, <1>5 DEF Next

\* What the types and the uploads promise.
LEMMA BaseGives == BaseInv => TypeOK /\ UploadsOnRecord
<1> SUFFICES ASSUME BaseInv PROVE TypeOK /\ UploadsOnRecord
  OBVIOUS
<1>1. UploadInv /\ WorkTypes /\ StreamInv /\ HistoryTypes /\ UploadTypeOK
  BY DEF BaseInv, UploadInv
<1>2. Named \subseteq Segments
  BY DEF Named
<1>3. TypeOK
  <2>1. missed \in 0 .. MaxFaults
    BY <1>1, UploadAssumption DEF HistoryTypes, UploadTypeOK, UploadAssumption
  <2>2. rows \in [Segments \X Frames \X Frames -> Nat]
    BY <1>1 DEF StreamInv, Rows
  <2>3. ASSUME NEW w \in Workers
        PROVE  /\ (event[w] # None) = (pc[w] \in {"fetch", "insert", "ack", "fail"})
               /\ left[w] \cup flight[w] \cup got[w] \subseteq Frames
               /\ Cardinality(flight[w]) <= Threads
               /\ buffer[w] \subseteq Frames \X Frames
    <3>1. WorkerInv(w)
      BY DEF BaseInv
    <3>2. left[w] \cup flight[w] \cup got[w] \subseteq Frames /\ buffer[w] \subseteq Frames \X Frames
      BY <1>1 DEF WorkTypes
    <3>3. QED
      BY <3>1, <3>2 DEF WorkerInv, AtWork
  <2>4. \A s \in Segments : s \in pending \cup acked => delivered[s] > 0 /\ posted[s] = "stream"
    BY <1>1 DEF StreamInv, Named
  <2>5. idle \subseteq pending /\ pending \subseteq Segments /\ acked \subseteq Segments /\ dead \subseteq Segments
        /\ delivered \in [Segments -> 0 .. MaxRetries]
    BY <1>1, <1>2 DEF StreamInv
  <2>6. QED
    BY <1>1, <2>1, <2>2, <2>3, <2>4, <2>5 DEF TypeOK, WorkTypes, HistoryTypes
<1>4. UploadsOnRecord
  <2> DEFINE untold == {p \in Segments \X Frames : p[2] < job[p[1]].frame} \ (stored \cup lost \cup skipped)
  <2>1. untold = Untold
    BY DEF Untold
  <2>2. /\ Cardinality(Untold) \in Nat /\ Cardinality(UnderWay) \in Nat /\ faults \in Nat
        /\ Cardinality(Untold) * (Attempts + 1) + Cardinality(UnderWay) <= faults /\ Attempts \in Nat
    BY <1>1, UploadCounts, UploadAssumption DEF UploadInv, UploadTypeOK, UploadAssumption
  <2>3. Cardinality(Untold) * (Attempts + 1) <= faults
    <3>1. PICK c \in Nat : c = Cardinality(Untold) * (Attempts + 1)
      BY <2>2, Times
    <3>2. QED
      BY <2>2, <3>1
  <2>4. skipped # {} => faults >= Threshold
    BY <1>1 DEF UploadInv
  <2>5. QED
    BY <2>1, <2>3, <2>4 DEF UploadsOnRecord
<1>5. QED
  BY <1>3, <1>4

--------------------------------------------------------------------------------
(* Deliveries.                                                                  *)

\* A step of a worker is nothing to the others.
LEMMA OthersKept ==
  ASSUME BaseInv, NEW w \in Workers, Work(w) \/ Crash(w) \/ Recover(w)
  PROVE  \A v \in Workers \ {w} : Kept(v)
<1>1. WorkTypes
  BY DEF BaseInv
<1>2. CASE Reclaim(w)
  <2>1. /\ UNCHANGED <<event, part, flight, got, left, buffer, tries, minio, milvus>>
        /\ Goto(w, "read") /\ (todo' = [todo EXCEPT ![w] = idle] \/ UNCHANGED todo)
    BY <1>2 DEF Reclaim
  <2>2. QED
    BY <1>1, <2>1 DEF Kept, Goto, WorkTypes
<1>3. CASE Read(w)
  <2>1. /\ UNCHANGED <<event, part, flight, got, left, buffer, tries, minio, milvus>>
        /\ \E p : pc' = [pc EXCEPT ![w] = p]
        /\ \E T : todo' = [todo EXCEPT ![w] = T]
    BY <1>3 DEF Read, Goto
  <2>2. QED
    BY <1>1, <2>1 DEF Kept, WorkTypes
<1>4. CASE Take(w)
  <2>1. /\ UNCHANGED <<flight, buffer, tries, minio, milvus>>
        /\ \E p : Goto(w, p)
        /\ (\E T : todo' = [todo EXCEPT ![w] = T]) \/ UNCHANGED todo
        /\ (\E e : event' = [event EXCEPT ![w] = e]) \/ UNCHANGED event
        /\ UNCHANGED <<part, left, got>> \/ \E s, n : StartChunk(w, s, n)
    BY <1>4 DEF Take
  <2>2. QED
    BY <1>1, <2>1 DEF Kept, Goto, WorkTypes, StartChunk
<1>5. CASE Launch(w)
  <2>1. /\ UNCHANGED <<pc, todo, event, part, got, buffer, tries, milvus>>
        /\ \E L : left' = [left EXCEPT ![w] = L]
        /\ (\E L : flight' = [flight EXCEPT ![w] = L]) \/ UNCHANGED flight
        /\ \E b : minio' = [minio EXCEPT ![w] = b]
    BY <1>5 DEF Launch
  <2>2. QED
    BY <1>1, <2>1 DEF Kept, WorkTypes
<1>6. CASE Land(w)
  <2>1. /\ UNCHANGED <<pc, todo, event, part, left, buffer, tries, milvus>>
        /\ (\E L : got' = [got EXCEPT ![w] = L]) \/ UNCHANGED got
        /\ \E L : flight' = [flight EXCEPT ![w] = L]
        /\ \E b : minio' = [minio EXCEPT ![w] = b]
    BY <1>6 DEF Land
  <2>2. QED
    BY <1>1, <2>1 DEF Kept, WorkTypes
<1>7. CASE Encode(w)
  <2>1. /\ UNCHANGED <<todo, event, flight, tries, minio, milvus>>
        /\ (\E p : Goto(w, p)) \/ UNCHANGED pc
        /\ (\E B : buffer' = [buffer EXCEPT ![w] = B]) \/ UNCHANGED buffer
        /\ UNCHANGED <<part, left, got>> \/ \E s, n : StartChunk(w, s, n)
    BY <1>7, EncodeMoves
  <2>2. QED
    BY <1>1, <2>1 DEF Kept, Goto, WorkTypes, StartChunk
<1>8. CASE Insert(w)
  <2>1. /\ UNCHANGED <<todo, event, flight, tries, minio>>
        /\ \E p : Goto(w, p)
        /\ (\E B : buffer' = [buffer EXCEPT ![w] = B]) \/ UNCHANGED buffer
        /\ \E b : milvus' = [milvus EXCEPT ![w] = b]
        /\ UNCHANGED <<part, left, got>> \/ \E s, n : StartChunk(w, s, n)
    BY <1>8 DEF Insert, InsertOk, InsertFails
  <2>2. QED
    BY <1>1, <2>1 DEF Kept, Goto, WorkTypes, StartChunk
<1>9. CASE Ack(w)
  <2>1. /\ UNCHANGED <<todo, flight, left, minio, milvus>>
        /\ \E p : Goto(w, p)
        /\ (Leave(w) /\ Forget(w)) \/ UNCHANGED <<tries, event, buffer, part, got>>
    BY <1>9 DEF Ack
  <2>2. QED
    BY <1>1, <2>1 DEF Kept, Goto, WorkTypes, Leave, Forget
<1>10. CASE Fail(w)
  <2>1. /\ UNCHANGED <<flight, left, minio, milvus>>
        /\ \E p : Goto(w, p)
        /\ Leave(w) /\ \E t : tries' = [tries EXCEPT ![w] = t]
        /\ UNCHANGED todo \/ \E T : todo' = [todo EXCEPT ![w] = T]
    BY <1>10, FailEnds DEF Forget, Count
  <2>2. QED
    BY <1>1, <2>1 DEF Kept, Goto, WorkTypes, Leave
<1>11. CASE Crash(w)
  <2>1. /\ Goto(w, "loop") /\ Leave(w)
        /\ todo' = [todo EXCEPT ![w] = {}] /\ left' = [left EXCEPT ![w] = {}]
        /\ flight' = [flight EXCEPT ![w] = {}]
        /\ \E t : tries' = [tries EXCEPT ![w] = t]
        /\ minio' = [minio EXCEPT ![w] = Closed] /\ milvus' = [milvus EXCEPT ![w] = Closed]
    BY <1>11 DEF Crash
  <2>2. QED
    BY <1>1, <2>1 DEF Kept, Goto, WorkTypes, Leave
<1>12. CASE Recover(w)
  <2>1. /\ UNCHANGED <<pc, todo, event, part, flight, got, left, buffer, tries>>
        /\ (\E b : minio' = [minio EXCEPT ![w] = b]) \/ UNCHANGED minio
        /\ (\E b : milvus' = [milvus EXCEPT ![w] = b]) \/ UNCHANGED milvus
    BY <1>12 DEF Recover
  <2>2. QED
    BY <1>1, <2>1 DEF Kept, WorkTypes
<1>13. QED
  BY <1>2, <1>3, <1>4, <1>5, <1>6, <1>7, <1>8, <1>9, <1>10, <1>11, <1>12 DEF Work

\* What pays for deliveries.
LEMMA Payments ==
  ASSUME BaseInv, BaseInv', NEW s \in Segments
  PROVE  /\ Paid(s) \in Nat /\ Paid(s)' \in Nat
         /\ UNCHANGED <<crashes, missed, refused>> /\ faults <= faults' => Paid(s) <= Paid(s)'
         /\ UNCHANGED <<crashes, missed, refused>> /\ Fault => Paid(s)' = Paid(s) + 1
         /\ UNCHANGED <<crashes, refused>> /\ Fault /\ missed' = missed + 1 => Paid(s)' = Paid(s)
         /\ UNCHANGED <<missed, refused, faults>> /\ crashes' = crashes + 1 => Paid(s)' = Paid(s) + 1
<1>1. crashes \in Nat /\ missed \in Nat /\ faults \in Nat /\ missed <= faults /\ refused[s] \in Nat
  BY IndexingAssumption, UploadAssumption DEF BaseInv, HistoryTypes, UploadInv, UploadTypeOK, IndexingAssumption, UploadAssumption
<1>2. crashes' \in Nat /\ missed' \in Nat /\ faults' \in Nat /\ missed' <= faults' /\ refused'[s] \in Nat
  BY IndexingAssumption, UploadAssumption DEF BaseInv, HistoryTypes, UploadInv, UploadTypeOK, IndexingAssumption, UploadAssumption
<1>3. Paid(s) = crashes + (faults - missed) + refused[s] /\ Paid(s)' = crashes' + (faults' - missed') + refused'[s]
  BY DEF Paid
<1>4. PICK n, m : n = Paid(s) /\ m = Paid(s)'
  OBVIOUS
<1>5. n = crashes + (faults - missed) + refused[s] /\ m = crashes' + (faults' - missed') + refused'[s]
  BY <1>3, <1>4
<1>6. /\ n \in Nat /\ m \in Nat
      /\ UNCHANGED <<crashes, missed, refused>> /\ faults <= faults' => n <= m
      /\ UNCHANGED <<crashes, missed, refused>> /\ Fault => m = n + 1
      /\ UNCHANGED <<crashes, refused>> /\ Fault /\ missed' = missed + 1 => m = n
      /\ UNCHANGED <<missed, refused, faults>> /\ crashes' = crashes + 1 => m = n + 1
  BY <1>1, <1>2, <1>5 DEF Fault
<1>7. QED
  BY <1>4, <1>6

LEMMA WorkersCounted ==
  ASSUME NEW S, NEW T, S \subseteq Workers, T \subseteq Workers
  PROVE  /\ Cardinality(S) \in Nat /\ Cardinality(T) \in Nat
         /\ T \subseteq S => Cardinality(T) <= Cardinality(S)
         /\ \A w : T \subseteq S \cup {w} => Cardinality(T) <= Cardinality(S) + 1
         /\ \A w \in S : T \subseteq S \ {w} => Cardinality(T) + 1 <= Cardinality(S)
<1>1. IsFiniteSet(Workers)
  BY IndexingAssumption DEF IndexingAssumption
<1>2. IsFiniteSet(S) /\ Cardinality(S) \in Nat
  BY <1>1, NoMoreCounted
<1>3. IsFiniteSet(T) /\ Cardinality(T) \in Nat
  BY <1>1, NoMoreCounted
<1>4. T \subseteq S => Cardinality(T) <= Cardinality(S)
  BY <1>2, NoMoreCounted
<1>5. ASSUME NEW w, T \subseteq S \cup {w} PROVE Cardinality(T) <= Cardinality(S) + 1
  BY <1>2, <1>5, OneMoreCounted
<1>6. ASSUME NEW w \in S, T \subseteq S \ {w} PROVE Cardinality(T) + 1 <= Cardinality(S)
  BY <1>2, <1>6, OneLessCounted
<1>7. QED
  BY <1>2, <1>3, <1>4, <1>5, <1>6

\* The numbers DeliveryOf speaks of.
LEMMA DeliveryNumbers ==
  ASSUME BaseInv, BaseInv', NEW s \in Segments
  PROVE  /\ delivered[s] \in Nat /\ delivered'[s] \in Nat
         /\ Failing(s) \subseteq Workers /\ Failing(s)' \subseteq Workers
         /\ Cardinality(Failing(s)) \in Nat /\ Cardinality(Failing(s)') \in Nat
         /\ One(s \in idle) \in {0, 1} /\ One(s \in idle') \in {0, 1}
         /\ \A w \in Workers : /\ tries[w][s] \in Nat /\ tries'[w][s] \in Nat
                               /\ One(w \in Failing(s)) \in {0, 1} /\ One(w \in Failing(s)') \in {0, 1}
<1>1. Failing(s) \subseteq Workers /\ Failing(s)' \subseteq Workers
  BY DEF Failing
<1>2. Cardinality(Failing(s)) \in Nat /\ Cardinality(Failing(s)') \in Nat
  BY <1>1, WorkersCounted
<1>3. delivered[s] \in Nat /\ delivered'[s] \in Nat
  BY IndexingAssumption DEF BaseInv, StreamInv, IndexingAssumption
<1>4. \A w \in Workers : tries[w][s] \in Nat /\ tries'[w][s] \in Nat
  BY IndexingAssumption DEF BaseInv, WorkTypes, IndexingAssumption
<1>5. QED
  BY <1>1, <1>2, <1>3, <1>4 DEF One

\* A step that does nothing to what DeliveryOf(s) speaks of, or less than is paid for.
LEMMA Unmoved ==
  ASSUME BaseInv, BaseInv', NEW s \in Segments, DeliveryOf(s), Paid(s) <= Paid(s)',
         delivered'[s] = delivered[s], s \in idle' => s \in idle, s \in dead' => s \in dead,
         s \in pending' /\ Working(s)' = {} => s \in pending /\ Working(s) = {},
         Failing(s)' \subseteq Failing(s), \A w \in Workers : tries'[w][s] <= tries[w][s]
  PROVE  DeliveryOf(s)'
<1>1. Paid(s) \in Nat /\ Paid(s)' \in Nat /\ MaxRetries \in Nat
  BY Payments, IndexingAssumption DEF IndexingAssumption
<1>2. Cardinality(Failing(s)') <= Cardinality(Failing(s))
  BY WorkersCounted DEF Failing
<1>3. One(s \in idle') <= One(s \in idle) /\ \A w \in Workers : One(w \in Failing(s)') <= One(w \in Failing(s))
  BY DEF One
<1>4. SUFFICES ASSUME Paid(s)' < MaxRetries, Paid(s) < MaxRetries
               PROVE  /\ delivered'[s] + One(s \in idle') + Cardinality(Failing(s)') <= Paid(s)' + 1
                      /\ s \in pending' /\ Working(s)' = {} => delivered'[s] <= Paid(s)'
                      /\ \A w \in Workers : tries'[w][s] + One(w \in Failing(s)') <= Paid(s)'
                      /\ s \notin dead'
  BY <1>1 DEF DeliveryOf
<1>5. /\ delivered[s] + One(s \in idle) + Cardinality(Failing(s)) <= Paid(s) + 1
      /\ s \in pending /\ Working(s) = {} => delivered[s] <= Paid(s)
      /\ \A w \in Workers : tries[w][s] + One(w \in Failing(s)) <= Paid(s)
      /\ s \notin dead
  BY <1>4 DEF DeliveryOf
<1>6. /\ delivered[s] \in Nat /\ One(s \in idle) \in {0, 1} /\ One(s \in idle') \in {0, 1}
      /\ Cardinality(Failing(s)) \in Nat /\ Cardinality(Failing(s)') \in Nat
      /\ \A w \in Workers : /\ tries[w][s] \in Nat /\ tries'[w][s] \in Nat
                            /\ One(w \in Failing(s)) \in {0, 1} /\ One(w \in Failing(s)') \in {0, 1}
  BY DeliveryNumbers
<1>7. delivered'[s] + One(s \in idle') + Cardinality(Failing(s)') <= Paid(s)' + 1
  BY <1>1, <1>2, <1>3, <1>5, <1>6
<1>8. ASSUME NEW w \in Workers PROVE tries'[w][s] + One(w \in Failing(s)') <= Paid(s)'
  BY <1>1, <1>3, <1>5, <1>6
<1>9. s \in pending' /\ Working(s)' = {} => delivered'[s] <= Paid(s)'
  BY <1>1, <1>5, <1>6
<1>10. QED
  BY <1>5, <1>7, <1>8, <1>9

\* A step that is paid for may add one to each sum.
LEMMA Charged ==
  ASSUME BaseInv, BaseInv', NEW s \in Segments, DeliveryOf(s), Paid(s) + 1 <= Paid(s)',
         s \in dead' => s \in dead, delivered'[s] = delivered[s],
         NEW w \in Workers,
         \/ s \in idle' /\ Failing(s)' \subseteq Failing(s) /\ \A v \in Workers : tries'[v][s] <= tries[v][s]
         \/ (s \in idle' => s \in idle) /\ Failing(s)' \subseteq Failing(s) \cup {w}
            /\ \A v \in Workers : tries'[v][s] <= tries[v][s]
  PROVE  DeliveryOf(s)'
<1>1. Paid(s) \in Nat /\ Paid(s)' \in Nat /\ MaxRetries \in Nat
  BY Payments, IndexingAssumption DEF IndexingAssumption
<1>2. One(s \in idle') + Cardinality(Failing(s)') <= One(s \in idle) + Cardinality(Failing(s)) + 1
  <2>1. /\ Failing(s)' \subseteq Failing(s) => Cardinality(Failing(s)') <= Cardinality(Failing(s))
        /\ Failing(s)' \subseteq Failing(s) \cup {w} => Cardinality(Failing(s)') <= Cardinality(Failing(s)) + 1
    BY WorkersCounted DEF Failing
  <2>2. One(s \in idle) \in {0, 1} /\ One(s \in idle') \in {0, 1} /\ ((s \in idle' => s \in idle) => One(s \in idle') <= One(s \in idle))
    BY DEF One
  <2>3. Cardinality(Failing(s)) \in Nat /\ Cardinality(Failing(s)') \in Nat
    BY DeliveryNumbers
  <2>4. QED
    BY <2>1, <2>2, <2>3
<1>3. ASSUME NEW v \in Workers PROVE tries'[v][s] + One(v \in Failing(s)') <= tries[v][s] + One(v \in Failing(s)) + 1
  <2>1. tries[v][s] \in Nat /\ tries'[v][s] \in Nat
    BY DeliveryNumbers
  <2>2. QED
    BY <2>1 DEF One
<1>4. SUFFICES ASSUME Paid(s)' < MaxRetries, Paid(s) < MaxRetries
               PROVE  /\ delivered'[s] + One(s \in idle') + Cardinality(Failing(s)') <= Paid(s)' + 1
                      /\ s \in pending' /\ Working(s)' = {} => delivered'[s] <= Paid(s)'
                      /\ \A v \in Workers : tries'[v][s] + One(v \in Failing(s)') <= Paid(s)'
                      /\ s \notin dead'
  BY <1>1 DEF DeliveryOf
<1>5. /\ delivered[s] + One(s \in idle) + Cardinality(Failing(s)) <= Paid(s) + 1
      /\ \A v \in Workers : tries[v][s] + One(v \in Failing(s)) <= Paid(s)
      /\ s \notin dead
  BY <1>4 DEF DeliveryOf
<1>6. /\ delivered[s] \in Nat /\ One(s \in idle) \in {0, 1} /\ One(s \in idle') \in {0, 1}
      /\ Cardinality(Failing(s)) \in Nat /\ Cardinality(Failing(s)') \in Nat
      /\ \A v \in Workers : /\ tries[v][s] \in Nat /\ tries'[v][s] \in Nat
                            /\ One(v \in Failing(s)) \in {0, 1} /\ One(v \in Failing(s)') \in {0, 1}
  BY DeliveryNumbers
<1>7. delivered'[s] + One(s \in idle') + Cardinality(Failing(s)') <= Paid(s)' + 1
  BY <1>1, <1>2, <1>5, <1>6
<1>8. ASSUME NEW v \in Workers PROVE tries'[v][s] + One(v \in Failing(s)') <= Paid(s)'
  BY <1>1, <1>3, <1>5, <1>6
<1>9. delivered'[s] <= Paid(s)'
  BY <1>1, <1>5, <1>6
<1>10. QED
  BY <1>5, <1>7, <1>8, <1>9

\* What a step of w does to who works on s or fails at it.
LEMMA Effects ==
  ASSUME NEW w \in Workers, \A v \in Workers \ {w} : Kept(v), NEW s
  PROVE  /\ Failing(s)' \subseteq Failing(s) \cup {w}
         /\ pc'[w] # "fail" \/ event'[w] # s => Failing(s)' \subseteq Failing(s) \ {w}
         /\ (s \in todo[w] \/ event[w] = s => s \in todo'[w] \/ event'[w] = s) /\ Working(s)' = {} => Working(s) = {}
         /\ s \in todo'[w] \/ event'[w] = s => Working(s)' # {}
<1>1. \A v \in Workers : v # w => pc'[v] = pc[v] /\ event'[v] = event[v] /\ todo'[v] = todo[v]
  BY DEF Kept
<1>2. Failing(s)' = {v \in Workers : event'[v] = s /\ pc'[v] = "fail"}
  BY DEF Failing
<1>3. Working(s)' = {v \in Workers : s \in todo'[v] \/ event'[v] = s}
  BY DEF Working
<1>4. Failing(s)' \subseteq Failing(s) \cup {w}
  BY <1>1, <1>2 DEF Failing
<1>5. pc'[w] # "fail" \/ event'[w] # s => Failing(s)' \subseteq Failing(s) \ {w}
  BY <1>1, <1>2 DEF Failing
<1>6. (s \in todo[w] \/ event[w] = s => s \in todo'[w] \/ event'[w] = s) /\ Working(s)' = {} => Working(s) = {}
  BY <1>1, <1>3 DEF Working
<1>7. s \in todo'[w] \/ event'[w] = s => Working(s)' # {}
  BY <1>3
<1>8. QED
  BY <1>4, <1>5, <1>6, <1>7

\* Steps that leave alone what it is about.
LEMMA StillDelivery ==
  ASSUME BaseInv, BaseInv', DeliveryInv, UNCHANGED <<delivered, idle, dead, tries, pending, pc, todo, event>>,
         \A s \in Segments : Paid(s) <= Paid(s)'
  PROVE  DeliveryInv'
<1>1. SUFFICES ASSUME NEW s \in Segments PROVE DeliveryOf(s)'
  BY DEF DeliveryInv
<1>2. DeliveryOf(s) /\ \A v \in Workers : tries[v][s] \in Nat
  BY DeliveryNumbers DEF DeliveryInv
<1>3. Failing(s)' \subseteq Failing(s) /\ (s \in pending' /\ Working(s)' = {} => s \in pending /\ Working(s) = {})
  BY DEF Failing, Working
<1>4. /\ (s \in idle' => s \in idle) /\ (s \in dead' => s \in dead) /\ delivered'[s] = delivered[s]
      /\ \A v \in Workers : tries'[v][s] <= tries[v][s]
  BY <1>2
<1>5. QED
  BY <1>2, <1>3, <1>4, Unmoved

LEMMA AgeDelivery ==
  ASSUME BaseInv, BaseInv', DeliveryInv, NEW t \in Segments, Age(t)
  PROVE  DeliveryInv'
<1>1. SUFFICES ASSUME NEW s \in Segments PROVE DeliveryOf(s)'
  BY DEF DeliveryInv
<1>2. DeliveryOf(s) /\ \A v \in Workers : tries[v][s] \in Nat
  BY DeliveryNumbers DEF DeliveryInv
<1>3. /\ UNCHANGED <<delivered, dead, tries, pending, pc, todo, event>> /\ UNCHANGED <<crashes, missed, refused>>
      /\ t \in pending \ idle /\ idle' = idle \cup {t}
      /\ IF Working(t) = {} THEN UNCHANGED faults ELSE Fault
  BY DEF Age, work, history
<1>4. faults \in Nat
  BY DEF BaseInv, UploadInv, UploadTypeOK
<1>5. Paid(s) <= Paid(s)' /\ (Working(t) # {} => Paid(s) + 1 <= Paid(s)') /\ Paid(s) \in Nat /\ Paid(s)' \in Nat
  <2>1. faults <= faults' /\ (Working(t) # {} => Fault)
    BY <1>3, <1>4 DEF Fault
  <2>2. Paid(s) \in Nat /\ Paid(s)' \in Nat
    BY Payments
  <2>3. Paid(s) <= Paid(s)' /\ (Fault => Paid(s)' = Paid(s) + 1)
    BY <1>3, <2>1, Payments
  <2>4. QED
    BY <2>1, <2>2, <2>3
<1>6. Failing(s)' = Failing(s) /\ Working(s)' = Working(s)
  BY <1>3 DEF Failing, Working
<1>7. \A v \in Workers : tries'[v][s] <= tries[v][s]
  BY <1>2, <1>3
<1>8. CASE s # t
  <2>1. /\ delivered'[s] = delivered[s] /\ (s \in idle' => s \in idle) /\ (s \in dead' => s \in dead)
        /\ (s \in pending' /\ Working(s)' = {} => s \in pending /\ Working(s) = {}) /\ Failing(s)' \subseteq Failing(s)
    BY <1>3, <1>6, <1>8
  <2>2. QED
    BY <1>2, <1>5, <1>7, <2>1, Unmoved
<1>9. CASE s = t /\ Working(t) # {}
  <2>1. /\ delivered'[s] = delivered[s] /\ s \in idle' /\ (s \in dead' => s \in dead) /\ Failing(s)' \subseteq Failing(s)
        /\ Paid(s) + 1 <= Paid(s)'
    BY <1>3, <1>5, <1>6, <1>9
  <2>2. PICK w \in Workers : TRUE
    BY <1>9 DEF Working
  <2>3. QED
    BY <1>2, <1>7, <2>1, Charged
<1>10. CASE s = t /\ Working(t) = {}
  <2>1. Failing(s) = {} /\ Cardinality(Failing(s)') = 0
    BY <1>6, <1>10, FS_EmptySet DEF Failing, Working
  <2>2. Paid(s)' < MaxRetries => delivered[s] <= Paid(s) /\ s \notin dead /\ \A v \in Workers : tries[v][s] + One(v \in Failing(s)) <= Paid(s)
    BY <1>2, <1>3, <1>5, <1>10, IndexingAssumption DEF DeliveryOf, IndexingAssumption
  <2>3. delivered'[s] = delivered[s] /\ delivered[s] \in Nat /\ UNCHANGED <<dead, tries>> /\ One(s \in idle') = 1
    BY <1>3, <1>10, DeliveryNumbers DEF One
  <2>4. \A v \in Workers : One(v \in Failing(s)') = One(v \in Failing(s)) /\ One(v \in Failing(s)) \in {0, 1} /\ tries[v][s] \in Nat
    BY <1>6, DeliveryNumbers
  <2>5. Paid(s)' < MaxRetries =>
          /\ delivered'[s] + One(s \in idle') + Cardinality(Failing(s)') <= Paid(s)' + 1
          /\ delivered'[s] <= Paid(s)' /\ s \notin dead'
    BY <1>5, <2>1, <2>2, <2>3
  <2>6. Paid(s)' < MaxRetries => \A v \in Workers : tries'[v][s] + One(v \in Failing(s)') <= Paid(s)'
    BY <1>5, <2>2, <2>3, <2>4
  <2>7. QED
    BY <2>5, <2>6 DEF DeliveryOf
<1>11. QED
  BY <1>8, <1>9, <1>10

\* Events handed to a worker: they were idle, or are new.
LEMMA HandedOver ==
  ASSUME BaseInv, BaseInv', DeliveryInv, NEW w \in Workers, \A v \in Workers \ {w} : Kept(v),
         NEW S \in SUBSET Segments, Deliver(S), UNCHANGED tries, pc'[w] # "fail",
         NEW s \in S, Paid(s) <= Paid(s)', s \in idle \/ delivered[s] = 0,
         s \in todo'[w] \/ Paid(s) + 1 <= Paid(s)'
  PROVE  DeliveryOf(s)'
<1>1. s \in Segments /\ DeliveryOf(s) /\ MaxRetries \in Nat /\ Paid(s) \in Nat /\ Paid(s)' \in Nat
  BY Payments, IndexingAssumption DEF DeliveryInv, IndexingAssumption
<1>2. SUFFICES ASSUME Paid(s)' < MaxRetries
               PROVE  /\ delivered'[s] + One(s \in idle') + Cardinality(Failing(s)') <= Paid(s)' + 1
                      /\ s \in pending' /\ Working(s)' = {} => delivered'[s] <= Paid(s)'
                      /\ \A v \in Workers : tries'[v][s] + One(v \in Failing(s)') <= Paid(s)'
                      /\ s \notin dead'
  BY DEF DeliveryOf
<1>3. /\ delivered[s] + One(s \in idle) + Cardinality(Failing(s)) <= Paid(s) + 1
      /\ \A v \in Workers : tries[v][s] + One(v \in Failing(s)) <= Paid(s)
      /\ s \notin dead
  BY <1>1, <1>2 DEF DeliveryOf
<1>4. /\ delivered[s] \in Nat /\ delivered'[s] \in Nat /\ One(s \in idle) \in {0, 1}
      /\ Cardinality(Failing(s)) \in Nat /\ Cardinality(Failing(s)') \in Nat
      /\ \A v \in Workers : /\ tries[v][s] \in Nat
                            /\ One(v \in Failing(s)) \in {0, 1} /\ One(v \in Failing(s)') \in {0, 1}
  BY <1>1, DeliveryNumbers
<1>5. s \notin idle' /\ dead' = dead /\ delivered'[s] <= delivered[s] + 1
  BY <1>1, <1>4, IndexingAssumption DEF Deliver, CountUpTo, IndexingAssumption
<1>6. Failing(s)' \subseteq Failing(s) /\ (s \in todo'[w] => Working(s)' # {})
  BY Effects
<1>7. Cardinality(Failing(s)') <= Cardinality(Failing(s)) /\ One(s \in idle') = 0
      /\ \A v \in Workers : One(v \in Failing(s)') <= One(v \in Failing(s))
  BY <1>5, <1>6, WorkersCounted DEF Failing, One
<1>8. \A v \in Workers : tries'[v][s] + One(v \in Failing(s)') <= Paid(s)'
  BY <1>1, <1>3, <1>4, <1>7
<1>9. CASE s \in idle
  <2>1. One(s \in idle) = 1 /\ delivered[s] # 0
    BY <1>1, <1>9 DEF One, BaseInv, StreamInv, Named
  <2>2. delivered'[s] + One(s \in idle') + Cardinality(Failing(s)') <= Paid(s)' + 1
    BY <1>1, <1>3, <1>4, <1>5, <1>7, <2>1
  <2>3. Working(s)' = {} => delivered'[s] <= Paid(s)'
    <3>1. Working(s)' = {} => Paid(s) + 1 <= Paid(s)'
      BY <1>6
    <3>2. QED
      BY <1>1, <1>3, <1>4, <1>5, <2>1, <3>1
  <2>4. QED
    BY <1>3, <1>5, <1>8, <2>2, <2>3
<1>10. CASE s \notin idle
  <2>1. delivered[s] = 0 /\ Failing(s) = {}
    <3>1. s \notin Named
      BY <1>10 DEF Named
    <3>2. \A v \in Workers : event[v] # s
      BY <1>1, <3>1, IndexingAssumption DEF BaseInv, WorkerInv, IndexingAssumption
    <3>3. QED
      BY <1>10, <3>2 DEF Failing
  <2>2. Cardinality(Failing(s)') = 0
    BY <1>6, <2>1, FS_EmptySet
  <2>3. Working(s)' = {} => Paid(s) + 1 <= Paid(s)'
    BY <1>6
  <2>4. QED
    BY <1>1, <1>3, <1>4, <1>5, <1>7, <1>8, <2>1, <2>2, <2>3
<1>11. QED
  BY <1>9, <1>10

LEMMA ReclaimDelivery ==
  ASSUME BaseInv, BaseInv', DeliveryInv, NEW w \in Workers, Reclaim(w)
  PROVE  DeliveryInv'
<1>1. SUFFICES ASSUME NEW s \in Segments PROVE DeliveryOf(s)'
  BY DEF DeliveryInv
<1>2. DeliveryOf(s) /\ \A v \in Workers : tries[v][s] \in Nat
  BY DeliveryNumbers DEF DeliveryInv
<1>3. \A v \in Workers \ {w} : Kept(v)
  BY OthersKept DEF Work
<1>4. /\ UNCHANGED tries /\ UNCHANGED event /\ UNCHANGED <<crashes, missed, refused>> /\ pc[w] = "loop" /\ Goto(w, "read")
      /\ \/ Deliver(idle) /\ todo' = [todo EXCEPT ![w] = idle] /\ UNCHANGED faults
         \/ Fault /\ UNCHANGED <<stream, todo>>
  BY DEF Reclaim, history
<1>5. /\ pc'[w] = "read" /\ event[w] = None /\ todo[w] = {} /\ w \in DOMAIN todo /\ faults \in Nat /\ s # None
  BY <1>4, IndexingAssumption DEF BaseInv, WorkTypes, WorkerInv, AtWork, Goto, IndexingAssumption, UploadInv, UploadTypeOK
<1>6. Failing(s)' \subseteq Failing(s) \ {w} /\ (Working(s)' = {} => Working(s) = {})
  <2>1. s \in todo[w] \/ event[w] = s => s \in todo'[w] \/ event'[w] = s
    BY <1>5
  <2>2. QED
    BY <1>3, <1>5, <2>1, Effects
<1>7. /\ Failing(s)' \subseteq Failing(s) /\ \A v \in Workers : tries'[v][s] <= tries[v][s]
  BY <1>2, <1>4, <1>6
<1>8. CASE Deliver(idle) /\ todo' = [todo EXCEPT ![w] = idle] /\ UNCHANGED faults
  <2>1. Paid(s) <= Paid(s)'
    BY <1>4, <1>5, <1>8, Payments
  <2>2. CASE s \in idle
    <3>1. idle \in SUBSET Segments /\ s \in todo'[w] /\ UNCHANGED tries /\ pc'[w] # "fail"
      BY <1>4, <1>5, <1>8, <2>2 DEF BaseInv, StreamInv, Named
    <3>2. QED
      BY <1>3, <1>8, <2>1, <2>2, <3>1, HandedOver
  <2>3. CASE s \notin idle
    <3>1. /\ delivered'[s] = delivered[s] /\ (s \in idle' => s \in idle) /\ (s \in dead' => s \in dead)
          /\ (s \in pending' => s \in pending)
      BY <1>8, <2>3 DEF Deliver
    <3>2. s \in pending' /\ Working(s)' = {} => s \in pending /\ Working(s) = {}
      BY <1>6, <3>1
    <3>3. QED
      BY <1>2, <1>7, <2>1, <3>1, <3>2, Unmoved
  <2>4. QED
    BY <2>2, <2>3
<1>9. CASE Fault /\ UNCHANGED <<stream, todo>>
  <2>1. Paid(s) <= Paid(s)'
    BY <1>4, <1>5, <1>9, Payments DEF Fault
  <2>2. /\ delivered'[s] = delivered[s] /\ (s \in idle' => s \in idle) /\ (s \in dead' => s \in dead)
        /\ (s \in pending' /\ Working(s)' = {} => s \in pending /\ Working(s) = {})
    BY <1>6, <1>9 DEF stream
  <2>3. QED
    BY <1>2, <1>7, <2>1, <2>2, Unmoved
<1>10. QED
  BY <1>4, <1>8, <1>9

LEMMA ReadDelivery ==
  ASSUME BaseInv, BaseInv', DeliveryInv, NEW w \in Workers, Read(w)
  PROVE  DeliveryInv'
<1>1. SUFFICES ASSUME NEW s \in Segments PROVE DeliveryOf(s)'
  BY DEF DeliveryInv
<1>2. DeliveryOf(s) /\ \A v \in Workers : tries[v][s] \in Nat
  BY DeliveryNumbers DEF DeliveryInv
<1>3. \A v \in Workers \ {w} : Kept(v)
  BY OthersKept DEF Work
<1>4. /\ UNCHANGED tries /\ UNCHANGED event /\ UNCHANGED <<crashes, missed, refused>> /\ pc[w] = "read"
      /\ Goto(w, IF todo'[w] = {} THEN "loop" ELSE "next")
      /\ \/ Deliver(Fresh) /\ todo' = [todo EXCEPT ![w] = @ \cup Fresh] /\ UNCHANGED faults
         \/ Fault /\ (Deliver(Fresh) \/ UNCHANGED stream)
  BY DEF Read, history
<1>5. /\ pc'[w] # "fail" /\ event[w] = None /\ w \in DOMAIN todo /\ faults \in Nat /\ s # None
  BY <1>4, IndexingAssumption DEF BaseInv, WorkTypes, WorkerInv, AtWork, Goto, IndexingAssumption, UploadInv, UploadTypeOK
<1>6. Failing(s)' \subseteq Failing(s) \ {w}
  BY <1>3, <1>5, Effects
<1>7. /\ Failing(s)' \subseteq Failing(s) /\ \A v \in Workers : tries'[v][s] <= tries[v][s]
  BY <1>2, <1>4, <1>6
<1>8. /\ Fresh \in SUBSET Segments /\ \A t \in Fresh : delivered[t] = 0
  BY DEF Fresh
<1>9. CASE Deliver(Fresh) /\ s \in Fresh
  <2>1. s \in todo'[w] \/ Fault
    BY <1>4, <1>5, <1>9
  <2>2. Paid(s) <= Paid(s)' /\ (s \in todo'[w] \/ Paid(s) + 1 <= Paid(s)')
    <3>1. Paid(s) \in Nat /\ Paid(s)' \in Nat /\ faults <= faults'
      BY <1>4, <1>5, Payments DEF Fault
    <3>2. Paid(s) <= Paid(s)' /\ (Fault => Paid(s)' = Paid(s) + 1)
      BY <1>4, <3>1, Payments
    <3>3. QED
      BY <2>1, <3>1, <3>2
  <2>3. QED
    BY <1>3, <1>4, <1>5, <1>8, <1>9, <2>2, HandedOver
<1>10. CASE ~(Deliver(Fresh) /\ s \in Fresh)
  <2>1. /\ delivered'[s] = delivered[s] /\ (s \in idle' => s \in idle) /\ (s \in dead' => s \in dead)
        /\ (s \in pending' => s \in pending)
    <3>1. CASE Deliver(Fresh)
      BY <1>10, <3>1 DEF Deliver
    <3>2. CASE UNCHANGED stream
      BY <3>2 DEF stream
    <3>3. QED
      BY <1>4, <3>1, <3>2
  <2>2. CASE UNCHANGED faults /\ todo' = [todo EXCEPT ![w] = @ \cup Fresh]
    <3>1. Paid(s) <= Paid(s)'
      BY <1>4, <1>5, <2>2, Payments
    <3>2. s \in todo[w] \/ event[w] = s => s \in todo'[w] \/ event'[w] = s
      BY <1>5, <2>2
    <3>3. Working(s)' = {} => Working(s) = {}
      BY <1>3, <3>2, Effects
    <3>4. QED
      BY <1>2, <1>7, <2>1, <3>1, <3>3, Unmoved
  <2>3. CASE Fault
    <3>1. Paid(s)' = Paid(s) + 1 /\ Paid(s) \in Nat /\ Paid(s)' \in Nat
      BY <1>4, <2>3, Payments
    <3>2. Paid(s) + 1 <= Paid(s)' /\ Failing(s)' \subseteq Failing(s) \cup {w}
      BY <1>7, <3>1
    <3>3. QED
      BY <1>2, <1>7, <2>1, <3>2, Charged
  <2>4. QED
    BY <1>4, <2>2, <2>3
<1>11. QED
  BY <1>9, <1>10

\* Steps of a worker that leave the stream and the counts alone: an attempt that fails is
\* paid for.
LEMMA AttemptDelivery ==
  ASSUME BaseInv, BaseInv', DeliveryInv, NEW w \in Workers, \A v \in Workers \ {w} : Kept(v),
         UNCHANGED <<stream, tries>>, NEW s \in Segments,
         s \in todo[w] \/ event[w] = s => s \in todo'[w] \/ event'[w] = s,
         \/ Paid(s) <= Paid(s)' /\ (pc'[w] # "fail" \/ event'[w] # s)
         \/ Paid(s) + 1 <= Paid(s)'
         \/ Paid(s)' >= MaxRetries
  PROVE  DeliveryOf(s)'
<1>1. DeliveryOf(s) /\ \A v \in Workers : tries[v][s] \in Nat
  BY DeliveryNumbers DEF DeliveryInv
<1>2. /\ delivered'[s] = delivered[s] /\ (s \in idle' => s \in idle) /\ (s \in dead' => s \in dead)
      /\ s \in pending' /\ Working(s)' = {} => s \in pending /\ Working(s) = {}
      /\ Failing(s)' \subseteq Failing(s) \cup {w} /\ (pc'[w] # "fail" \/ event'[w] # s => Failing(s)' \subseteq Failing(s))
      /\ \A v \in Workers : tries'[v][s] <= tries[v][s]
  <2>1. /\ Working(s)' = {} => Working(s) = {}
        /\ Failing(s)' \subseteq Failing(s) \cup {w} /\ (pc'[w] # "fail" \/ event'[w] # s => Failing(s)' \subseteq Failing(s) \ {w})
    BY Effects
  <2>2. QED
    BY <1>1, <2>1 DEF stream
<1>3. CASE Paid(s) <= Paid(s)' /\ (pc'[w] # "fail" \/ event'[w] # s)
  BY <1>1, <1>2, <1>3, Unmoved
<1>4. CASE Paid(s) + 1 <= Paid(s)'
  BY <1>1, <1>2, <1>4, Charged
<1>5. CASE Paid(s)' >= MaxRetries
  <2>1. ~(Paid(s)' < MaxRetries)
    BY <1>5, Payments, IndexingAssumption DEF IndexingAssumption
  <2>2. QED
    BY <2>1 DEF DeliveryOf
<1>6. QED
  BY <1>3, <1>4, <1>5

\* A call that does not fail pays for nothing, one that fails does.
LEMMA CallsPay ==
  ASSUME BaseInv, BaseInv', faults' = faults \/ Fault, UNCHANGED <<crashes, missed, refused>>
  PROVE  \A s \in Segments : Paid(s) <= Paid(s)' /\ (Fault => Paid(s) + 1 <= Paid(s)')
<1>1. TAKE s \in Segments
<1>2. Paid(s) \in Nat /\ Paid(s)' \in Nat /\ faults <= faults'
  BY Payments, FaultsOnly
<1>3. Paid(s) <= Paid(s)' /\ (Fault => Paid(s)' = Paid(s) + 1)
  BY <1>2, Payments
<1>4. QED
  BY <1>2, <1>3

LEMMA TakeDelivery ==
  ASSUME BaseInv, BaseInv', DeliveryInv, NEW w \in Workers, Take(w)
  PROVE  DeliveryInv'
<1>1. SUFFICES ASSUME NEW s \in Segments PROVE DeliveryOf(s)'
  BY DEF DeliveryInv
<1>2. /\ UNCHANGED <<stream, tries>> /\ UNCHANGED <<crashes, missed, refused>> /\ pc[w] = "next" /\ (faults' = faults \/ Fault)
      /\ pc' = [pc EXCEPT ![w] = "fail"] => Fault
      /\ \E p \in {"loop", "fetch", "fail"} : pc' = [pc EXCEPT ![w] = p]
      /\ \/ UNCHANGED <<todo, event>>
         \/ \E t \in todo[w] : todo' = [todo EXCEPT ![w] = @ \ {t}] /\ event' = [event EXCEPT ![w] = t]
  <2>1. WorkTypes
    BY DEF BaseInv
  <2>2. QED
    BY <2>1 DEF Take, Goto, history, WorkTypes
<1>3. (\A v \in Workers \ {w} : Kept(v)) /\ WorkTypes /\ WorkerInv(w) /\ s # None
  BY OthersKept, IndexingAssumption DEF Work, BaseInv, IndexingAssumption
<1>4. s \in todo[w] \/ event[w] = s => s \in todo'[w] \/ event'[w] = s
  <2>1. event[w] = None
    BY <1>2, <1>3 DEF WorkerInv, AtWork
  <2>2. QED
    BY <1>2, <1>3, <2>1 DEF WorkTypes
<1>5. Paid(s) <= Paid(s)' /\ (Fault => Paid(s) + 1 <= Paid(s)')
  BY <1>2, CallsPay
<1>6. pc'[w] # "fail" \/ Fault
  BY <1>2, <1>3 DEF WorkTypes
<1>7. QED
  BY <1>2, <1>3, <1>4, <1>5, <1>6, AttemptDelivery

LEMMA EncodeDelivery ==
  ASSUME BaseInv, BaseInv', DeliveryInv, NEW w \in Workers, Encode(w)
  PROVE  DeliveryInv'
<1>1. SUFFICES ASSUME NEW s \in Segments PROVE DeliveryOf(s)'
  BY DEF DeliveryInv
<1>2. /\ UNCHANGED <<stream, tries>> /\ UNCHANGED <<crashes, missed, refused>> /\ UNCHANGED <<todo, event>>
      /\ pc[w] = "fetch" /\ (faults' = faults \/ Fault)
      /\ Fault \/ Goto(w, "insert") \/ Goto(w, "ack") \/ UNCHANGED pc
  BY EncodeMoves DEF history
<1>3. (\A v \in Workers \ {w} : Kept(v)) /\ WorkTypes
  BY OthersKept DEF Work, BaseInv
<1>4. Paid(s) <= Paid(s)' /\ (Fault => Paid(s) + 1 <= Paid(s)')
  BY <1>2, CallsPay
<1>5. pc'[w] # "fail" \/ Fault
  BY <1>2, <1>3 DEF WorkTypes, Goto
<1>6. s \in todo[w] \/ event[w] = s => s \in todo'[w] \/ event'[w] = s
  BY <1>2
<1>7. QED
  BY <1>2, <1>3, <1>4, <1>5, <1>6, AttemptDelivery

LEMMA InsertDelivery ==
  ASSUME BaseInv, BaseInv', DeliveryInv, NEW w \in Workers, Insert(w)
  PROVE  DeliveryInv'
<1>1. SUFFICES ASSUME NEW s \in Segments PROVE DeliveryOf(s)'
  BY DEF DeliveryInv
<1>2. /\ UNCHANGED <<stream, tries>> /\ UNCHANGED <<todo, event>> /\ UNCHANGED <<crashes, missed>>
      /\ \/ UNCHANGED refused /\ UNCHANGED faults /\ (Goto(w, "ack") \/ Goto(w, "fetch"))
         \/ UNCHANGED refused /\ Fault
         \/ UNCHANGED faults /\ Goto(w, "fail") /\ refused' = [refused EXCEPT ![event[w]] = CountUpTo(refused[event[w]], MaxRetries)]
  BY DEF Insert, InsertOk, InsertFails
<1>3. (\A v \in Workers \ {w} : Kept(v)) /\ WorkTypes /\ WorkerInv(w) /\ HistoryTypes
  BY OthersKept DEF Work, BaseInv
<1>4. s \in todo[w] \/ event[w] = s => s \in todo'[w] \/ event'[w] = s
  BY <1>2
<1>5. CASE UNCHANGED refused /\ ((UNCHANGED faults /\ (Goto(w, "ack") \/ Goto(w, "fetch"))) \/ Fault)
  <2>1. Paid(s) <= Paid(s)' /\ (Fault => Paid(s) + 1 <= Paid(s)')
    BY <1>2, <1>5, CallsPay
  <2>2. pc'[w] # "fail" \/ Fault
    BY <1>3, <1>5 DEF WorkTypes, Goto
  <2>3. QED
    BY <1>2, <1>3, <1>4, <2>1, <2>2, AttemptDelivery
<1>6. CASE UNCHANGED faults /\ refused' = [refused EXCEPT ![event[w]] = CountUpTo(refused[event[w]], MaxRetries)]
  <2>1. PICK e : e = event[w]
    OBVIOUS
  <2>2. /\ crashes \in Nat /\ missed \in Nat /\ faults \in Nat /\ missed <= faults /\ refused[s] \in 0 .. MaxRetries
        /\ refused' = [refused EXCEPT ![e] = CountUpTo(refused[e], MaxRetries)] /\ MaxRetries \in Nat
        /\ refused \in [Segments -> 0 .. MaxRetries]
    BY <1>3, <1>6, <2>1, IndexingAssumption, UploadAssumption DEF HistoryTypes, BaseInv, UploadInv, UploadTypeOK, IndexingAssumption, UploadAssumption
  <2>3. Paid(s) = crashes + (faults - missed) + refused[s] /\ Paid(s)' = crashes' + (faults' - missed') + refused'[s]
    BY DEF Paid
  <2>4. CASE s # e
    <3>1. refused'[s] = refused[s]
      BY <2>2, <2>4
    <3>2. Paid(s) <= Paid(s)' /\ event'[w] # s
      BY <1>2, <1>6, <2>1, <2>2, <2>3, <2>4, <3>1
    <3>3. QED
      BY <1>2, <1>3, <1>4, <3>2, AttemptDelivery
  <2>5. CASE s = e
    <3>1. refused'[s] = CountUpTo(refused[s], MaxRetries)
      BY <2>2, <2>5
    <3>2. refused'[s] = refused[s] + 1 \/ refused'[s] = MaxRetries
      BY <2>2, <3>1 DEF CountUpTo
    <3>3. Paid(s) + 1 <= Paid(s)' \/ Paid(s)' >= MaxRetries
      BY <1>2, <1>6, <2>2, <2>3, <3>2
    <3>4. QED
      BY <1>2, <1>3, <1>4, <3>3, AttemptDelivery
  <2>6. QED
    BY <2>4, <2>5
<1>7. QED
  BY <1>2, <1>5, <1>6

LEMMA AckDelivery ==
  ASSUME BaseInv, BaseInv', DeliveryInv, NEW w \in Workers, Ack(w)
  PROVE  DeliveryInv'
<1>1. SUFFICES ASSUME NEW s \in Segments PROVE DeliveryOf(s)'
  BY DEF DeliveryInv
<1>2. /\ pc[w] = "ack" /\ UNCHANGED <<delivered, dead, todo>> /\ UNCHANGED <<crashes, missed, refused>>
      /\ \/ XAck(event[w]) /\ Forget(w) /\ Leave(w) /\ Goto(w, "next") /\ UNCHANGED faults
         \/ Fault /\ Goto(w, "fail") /\ UNCHANGED <<pending, idle, acked, tries, event>>
  BY DEF Ack, history
<1>3. (\A v \in Workers \ {w} : Kept(v)) /\ WorkTypes
  BY OthersKept DEF Work, BaseInv
<1>4. Paid(s) <= Paid(s)' /\ (Fault => Paid(s) + 1 <= Paid(s)')
  BY <1>2, CallsPay
<1>5. CASE XAck(event[w]) /\ Forget(w) /\ Leave(w) /\ Goto(w, "next")
  <2>1. pc'[w] # "fail"
    BY <1>3, <1>5 DEF WorkTypes, Goto
  <2>2. Failing(s)' \subseteq Failing(s) /\ ((event[w] = s => s \in todo'[w]) /\ Working(s)' = {} => Working(s) = {})
    BY <1>2, <1>3, <2>1, Effects
  <2>3. /\ s \in pending' => s \in pending /\ event[w] # s
        /\ s \in idle' => s \in idle
    BY <1>5 DEF XAck
  <2>4. s \in pending' /\ Working(s)' = {} => s \in pending /\ Working(s) = {}
    BY <2>2, <2>3
  <2>5. /\ DeliveryOf(s) /\ delivered'[s] = delivered[s] /\ (s \in dead' => s \in dead)
        /\ \A v \in Workers : tries'[v][s] <= tries[v][s]
    <3>1. PICK e : e = event[w]
      OBVIOUS
    <3>2. \A v \in Workers : tries[v][s] \in Nat
      BY DeliveryNumbers
    <3>3. tries' = [tries EXCEPT ![w] = [tries[w] EXCEPT ![e] = 0]]
      BY <1>5, <3>1 DEF Forget
    <3>4. \A v \in Workers : tries'[v][s] \in {0, tries[v][s]}
      BY <1>3, <3>3 DEF WorkTypes
    <3>5. QED
      BY <1>2, <3>2, <3>4 DEF DeliveryInv
  <2>6. QED
    BY <1>4, <2>2, <2>3, <2>4, <2>5, Unmoved
<1>6. CASE Fault /\ Goto(w, "fail") /\ UNCHANGED <<pending, idle, acked, tries, event>>
  <2>1. UNCHANGED <<stream, tries>> /\ (s \in todo[w] \/ event[w] = s => s \in todo'[w] \/ event'[w] = s)
    BY <1>2, <1>6 DEF stream
  <2>2. QED
    BY <1>3, <1>4, <1>6, <2>1, AttemptDelivery
<1>7. QED
  BY <1>2, <1>5, <1>6

LEMMA FailDelivery ==
  ASSUME BaseInv, BaseInv', DeliveryInv, NEW w \in Workers, Fail(w)
  PROVE  DeliveryInv'
<1>1. SUFFICES ASSUME NEW s \in Segments PROVE DeliveryOf(s)'
  BY DEF DeliveryInv
<1>2. PICK e : e = event[w]
  OBVIOUS
<1>3. /\ pc[w] = "fail" /\ Leave(w) /\ UNCHANGED delivered /\ UNCHANGED <<crashes, missed, refused>> /\ (faults' = faults \/ Fault)
      /\ \/ Goto(w, "next") /\ UNCHANGED todo
         \/ Goto(w, "loop") /\ Fault
      /\ \/ UNCHANGED <<pending, idle, dead>> /\ Count(w) /\ UNCHANGED todo
         \/ /\ Exhausted(w) /\ dead' = dead \cup {e}
            /\ XAck(e) \/ UNCHANGED <<pending, idle>>
            /\ Forget(w) \/ Count(w)
  BY <1>2 DEF Fail, GiveBack, history
<1>4. (\A v \in Workers \ {w} : Kept(v)) /\ WorkTypes /\ DeliveryOf(s) /\ e \in Segments /\ e # None
  BY <1>2, <1>3, OthersKept, IndexingAssumption DEF Work, BaseInv, DeliveryInv, WorkerInv, AtWork, Named, IndexingAssumption
<1>5. Paid(s) <= Paid(s)' /\ (Fault => Paid(s) + 1 <= Paid(s)')
  BY <1>3, CallsPay
<1>6. pc'[w] # "fail" /\ (Fault \/ todo' = todo)
  BY <1>3, <1>4 DEF WorkTypes, Goto
<1>7. Failing(s)' \subseteq Failing(s) \ {w}
  BY <1>4, <1>6, Effects
<1>8. Paid(s) \in Nat /\ Paid(s)' \in Nat /\ MaxRetries \in Nat
  BY Payments, IndexingAssumption DEF IndexingAssumption
<1>9. /\ delivered[s] \in Nat /\ delivered'[s] = delivered[s]
      /\ \A v \in Workers : tries[v][s] \in Nat
  BY <1>3, DeliveryNumbers
<1>10. \A v \in Workers : tries'[v][s] = tries[v][s] \/ (v = w /\ s = e /\ tries'[v][s] <= tries[v][s] + 1)
  <2>1. CASE Forget(w)
    <3>1. tries' = [tries EXCEPT ![w] = [tries[w] EXCEPT ![e] = 0]]
      BY <1>2, <2>1 DEF Forget
    <3>2. \A v \in Workers : tries'[v][s] = tries[v][s] \/ (v = w /\ s = e /\ tries'[v][s] = 0)
      BY <1>4, <3>1 DEF WorkTypes
    <3>3. QED
      BY <1>9, <3>2
  <2>2. CASE Count(w)
    <3>1. tries' = [tries EXCEPT ![w] = [tries[w] EXCEPT ![e] = CountUpTo(tries[w][e], MaxRetries)]]
      BY <1>2, <2>2 DEF Count
    <3>2. \A v \in Workers : tries'[v][s] = tries[v][s] \/ (v = w /\ s = e /\ tries'[v][s] = CountUpTo(tries[v][s], MaxRetries))
      BY <1>4, <3>1 DEF WorkTypes
    <3>3. QED
      BY <1>9, <3>2 DEF CountUpTo
  <2>3. QED
    BY <1>3, <2>1, <2>2
<1>11. CASE s # e
  <2>1. /\ s \in dead' => s \in dead /\ (s \in idle' => s \in idle)
        /\ s \in pending' => s \in pending
        /\ s \in idle' => s \in idle
    BY <1>3, <1>11 DEF XAck
  <2>2. Failing(s)' \subseteq Failing(s) /\ \A v \in Workers : tries'[v][s] <= tries[v][s]
    BY <1>7, <1>9, <1>10, <1>11
  <2>3. CASE Fault
    <3>1. Failing(s)' \subseteq Failing(s) \cup {w} /\ Paid(s) + 1 <= Paid(s)' /\ (s \in dead' => s \in dead)
      BY <1>3, <1>5, <1>11, <2>2, <2>3
    <3>2. QED
      BY <1>4, <1>9, <2>1, <2>2, <3>1, Charged
  <2>4. CASE todo' = todo
    <3>1. Working(s)' = {} => Working(s) = {}
      BY <1>2, <1>4, <1>11, <2>4, Effects
    <3>2. (s \in pending' /\ Working(s)' = {} => s \in pending /\ Working(s) = {}) /\ (s \in dead' => s \in dead)
      BY <1>3, <1>11, <2>1, <3>1
    <3>3. QED
      BY <1>4, <1>5, <1>9, <2>1, <2>2, <3>2, Unmoved
  <2>5. QED
    BY <1>6, <2>3, <2>4
<1>12. CASE s = e
  <2>1. w \in Failing(s) /\ One(w \in Failing(s)) = 1
    BY <1>2, <1>3, <1>12 DEF Failing, One
  <2>2. /\ Cardinality(Failing(s)) \in Nat /\ Cardinality(Failing(s)') \in Nat
        /\ Cardinality(Failing(s)') + 1 <= Cardinality(Failing(s))
    BY <1>7, <2>1, WorkersCounted DEF Failing
  <2>3. /\ One(s \in idle) \in {0, 1} /\ One(s \in idle') \in {0, 1}
        /\ \A v \in Workers : One(v \in Failing(s)) \in {0, 1} /\ One(v \in Failing(s)') \in {0, 1}
    BY DEF One
  <2>4. SUFFICES ASSUME Paid(s)' < MaxRetries
                 PROVE  /\ delivered'[s] + One(s \in idle') + Cardinality(Failing(s)') <= Paid(s)' + 1
                        /\ s \in pending' /\ Working(s)' = {} => delivered'[s] <= Paid(s)'
                        /\ \A v \in Workers : tries'[v][s] + One(v \in Failing(s)') <= Paid(s)'
                        /\ s \notin dead'
    BY DEF DeliveryOf
  <2>5. /\ delivered[s] + One(s \in idle) + Cardinality(Failing(s)) <= Paid(s) + 1
        /\ \A v \in Workers : tries[v][s] + One(v \in Failing(s)) <= Paid(s)
        /\ s \notin dead
    BY <1>4, <1>5, <1>8, <2>4 DEF DeliveryOf
  <2>6. delivered[s] <= Paid(s) /\ tries[w][s] + 1 <= Paid(s)
    BY <1>8, <1>9, <2>1, <2>2, <2>3, <2>5
  <2>7. ~Exhausted(w)
    <3>1. delivered[s] < MaxRetries /\ tries[w][s] + 1 < MaxRetries
      BY <1>5, <1>8, <1>9, <2>4, <2>6
    <3>2. tries[w][e] \in Nat /\ delivered[e] \in Nat /\ delivered[e] < MaxRetries /\ tries[w][e] + 1 < MaxRetries
      BY <1>9, <1>12, <3>1
    <3>3. QED
      BY <1>2, <1>8, <3>2 DEF Exhausted
  <2>8. UNCHANGED <<pending, idle, dead>>
    BY <1>3, <2>7
  <2>9. delivered'[s] + One(s \in idle') + Cardinality(Failing(s)') <= Paid(s)' + 1
    BY <1>5, <1>8, <1>9, <2>2, <2>3, <2>5, <2>8
  <2>10. ASSUME NEW v \in Workers PROVE tries'[v][s] + One(v \in Failing(s)') <= Paid(s)'
    <3>1. tries'[v][s] \in Nat
      BY DeliveryNumbers
    <3>2. CASE v = w
      <4>1. One(v \in Failing(s)') = 0
        BY <1>7, <3>2 DEF One
      <4>2. tries'[v][s] <= tries[v][s] + 1
        BY <1>9, <1>10
      <4>3. QED
        BY <1>5, <1>8, <1>9, <2>6, <3>1, <3>2, <4>1, <4>2
    <3>3. CASE v # w
      <4>1. One(v \in Failing(s)') <= One(v \in Failing(s)) /\ tries'[v][s] = tries[v][s]
        BY <1>7, <1>10, <3>3 DEF One
      <4>2. QED
        BY <1>5, <1>8, <1>9, <2>3, <2>5, <4>1
    <3>4. QED
      BY <3>2, <3>3
  <2>11. QED
    BY <1>5, <1>8, <1>9, <2>5, <2>6, <2>8, <2>9, <2>10
<1>13. QED
  BY <1>11, <1>12

LEMMA CrashDelivery ==
  ASSUME BaseInv, BaseInv', DeliveryInv, NEW w \in Workers, Crash(w)
  PROVE  DeliveryInv'
<1>1. SUFFICES ASSUME NEW s \in Segments PROVE DeliveryOf(s)'
  BY DEF DeliveryInv
<1>2. /\ UNCHANGED <<delivered, idle, dead, missed, refused, faults>> /\ crashes' = crashes + 1
      /\ tries' = [tries EXCEPT ![w] = [t \in Segments |-> 0]]
  BY DEF Crash, stream, history, uploadVars
<1>3. (\A v \in Workers \ {w} : Kept(v)) /\ WorkTypes
  BY OthersKept DEF BaseInv
<1>4. Paid(s) + 1 <= Paid(s)'
  <2>1. Paid(s) \in Nat /\ Paid(s)' \in Nat /\ Paid(s)' = Paid(s) + 1
    BY <1>2, Payments
  <2>2. QED
    BY <2>1
<1>5. \A v \in Workers : tries[v][s] \in Nat /\ tries'[v][s] \in {0, tries[v][s]}
  BY <1>2, <1>3, DeliveryNumbers DEF WorkTypes
<1>6. \A v \in Workers : tries'[v][s] <= tries[v][s]
  BY <1>5
<1>7. Failing(s)' \subseteq Failing(s) \cup {w}
  BY <1>3, Effects
<1>8. (s \in idle' => s \in idle) /\ (s \in dead' => s \in dead) /\ delivered'[s] = delivered[s] /\ DeliveryOf(s)
  BY <1>2 DEF DeliveryInv
<1>9. QED
  BY <1>4, <1>6, <1>7, <1>8, Charged

\* Downloads, uploads and the passing of time pay for nothing and change nothing.
LEMMA OtherDelivery ==
  ASSUME BaseInv, BaseInv', DeliveryInv,
         Extract \/ (\E w \in Workers : Launch(w) \/ Land(w) \/ Recover(w)) \/ UNCHANGED vars
  PROVE  DeliveryInv'
<1>1. UNCHANGED <<delivered, idle, dead, tries, pending, pc, todo, event>>
  BY DEF Extract, Launch, Land, Recover, vars, stream, work
<1>2. ASSUME NEW s \in Segments PROVE Paid(s) <= Paid(s)'
  <2>1. Paid(s) \in Nat /\ Paid(s)' \in Nat /\ faults \in Nat
    BY Payments DEF BaseInv, UploadInv, UploadTypeOK
  <2>2. CASE Extract
    <3>1. UNCHANGED <<crashes, missed, refused>> /\ faults <= faults'
      BY <2>2, UploadStep DEF Extract, history, BaseInv
    <3>2. QED
      BY <3>1, Payments
  <2>3. ASSUME NEW w \in Workers, Land(w) PROVE Paid(s) <= Paid(s)'
    <3>1. UNCHANGED <<crashes, refused>> /\ (UNCHANGED <<faults, missed>> \/ (Fault /\ missed' = missed + 1))
      BY <2>3 DEF Land
    <3>2. (UNCHANGED <<faults, missed>> => Paid(s) <= Paid(s)') /\ (Fault /\ missed' = missed + 1 => Paid(s)' = Paid(s))
      BY <2>1, <3>1, Payments
    <3>3. QED
      BY <2>1, <3>1, <3>2
  <2>4. CASE (\E w \in Workers : Launch(w) \/ Recover(w)) \/ UNCHANGED vars
    <3>1. UNCHANGED <<crashes, missed, refused>> /\ faults <= faults'
      BY <2>1, <2>4 DEF Launch, Recover, vars, history, uploadVars
    <3>2. QED
      BY <3>1, Payments
  <2>5. QED
    BY <2>2, <2>3, <2>4
<1>3. QED
  BY <1>1, <1>2, StillDelivery

LEMMA InitDelivery == Init => DeliveryInv
<1> SUFFICES ASSUME Init, NEW s \in Segments PROVE DeliveryOf(s)
  BY DEF DeliveryInv
<1>1. /\ delivered[s] = 0 /\ s \notin idle /\ s \notin pending /\ s \notin dead /\ crashes = 0 /\ missed = 0 /\ refused[s] = 0
      /\ faults = 0 /\ \A w \in Workers : tries[w][s] = 0 /\ pc[w] = "loop"
  BY DEF Init, InitUpload
<1>2. Paid(s) = 0 /\ Failing(s) = {} /\ One(s \in idle) = 0
  BY <1>1 DEF Paid, Failing, One
<1>3. Cardinality(Failing(s)) = 0 /\ \A w \in Workers : One(w \in Failing(s)) = 0
  BY <1>2, FS_EmptySet DEF One
<1>4. QED
  BY <1>1, <1>2, <1>3 DEF DeliveryOf

LEMMA NextDelivery ==
  ASSUME BaseInv, BaseInv', DeliveryInv, [Next]_vars
  PROVE  DeliveryInv'
<1>1. ASSUME NEW s \in Segments, Age(s) PROVE DeliveryInv'
  BY <1>1, AgeDelivery
<1>2. ASSUME NEW w \in Workers, Work(w) PROVE DeliveryInv'
  BY <1>2, ReclaimDelivery, ReadDelivery, TakeDelivery, EncodeDelivery, InsertDelivery, AckDelivery,
     FailDelivery, OtherDelivery DEF Work
<1>3. ASSUME NEW w \in Workers, Crash(w) \/ Recover(w) PROVE DeliveryInv'
  BY <1>3, CrashDelivery, OtherDelivery
<1>4. QED
  BY <1>1, <1>2, <1>3, OtherDelivery DEF Next

LEMMA DeliveryGives == BaseInv /\ DeliveryInv => DeadLetterPaidFor
<1> SUFFICES ASSUME BaseInv, DeliveryInv, NEW s \in dead PROVE crashes + faults - missed + refused[s] >= MaxRetries
  BY DEF DeadLetterPaidFor
<1>1. s \in Segments
  BY DEF BaseInv, StreamInv, Named
<1>2. crashes \in Nat /\ missed \in Nat /\ faults \in Nat /\ missed <= faults /\ refused[s] \in Nat /\ MaxRetries \in Nat
  BY <1>1, IndexingAssumption, UploadAssumption DEF BaseInv, HistoryTypes, UploadInv, UploadTypeOK, IndexingAssumption, UploadAssumption
<1>3. ~(Paid(s) < MaxRetries)
  BY <1>1 DEF DeliveryInv, DeliveryOf
<1>4. QED
  BY <1>2, <1>3 DEF Paid

--------------------------------------------------------------------------------
(* Copies of a row.                                                             *)

LEMMA Spare ==
  ASSUME BaseInv, BaseInv'
  PROVE  /\ faults \in Nat /\ missed \in Nat /\ missed <= faults /\ faults' \in Nat /\ missed' \in Nat /\ missed' <= faults'
         /\ Fault /\ UNCHANGED missed => faults' - missed' = (faults - missed) + 1
         /\ Fault /\ missed' = missed + 1 => faults' - missed' = faults - missed
         /\ faults <= faults' /\ UNCHANGED missed => faults - missed <= faults' - missed'
<1>1. /\ faults \in Nat /\ missed \in Nat /\ missed <= faults /\ faults' \in Nat /\ missed' \in Nat /\ missed' <= faults'
  BY UploadAssumption DEF BaseInv, HistoryTypes, UploadInv, UploadTypeOK, UploadAssumption
<1>2. PICK f, g, m, n : f = faults /\ g = faults' /\ m = missed /\ n = missed'
  OBVIOUS
<1>3. Fault => g = f + 1
  BY <1>2 DEF Fault
<1>4. f \in Nat /\ g \in Nat /\ m \in Nat /\ n \in Nat
  BY <1>1, <1>2
<1>5. /\ Fault /\ n = m => g - n = (f - m) + 1
      /\ Fault /\ n = m + 1 => g - n = f - m
      /\ f <= g /\ n = m => f - m <= g - n
  BY <1>3, <1>4
<1>6. QED
  BY <1>1, <1>2, <1>5

LEMMA CopyNumbers ==
  ASSUME BaseInv, BaseInv'
  PROVE  /\ \A s : /\ Working(s) \subseteq Workers /\ Working(s)' \subseteq Workers
                   /\ Cardinality(Working(s)) \in Nat /\ Cardinality(Working(s)') \in Nat
                   /\ One(s \in idle) \in {0, 1} /\ One(s \in idle') \in {0, 1}
         /\ \A r : /\ Holding(r) \subseteq Workers /\ Holding(r)' \subseteq Workers
                   /\ Cardinality(Holding(r)) \in Nat /\ Cardinality(Holding(r)') \in Nat
         /\ \A r \in Rows : rows[r] \in Nat /\ rows'[r] \in Nat
<1>1. ASSUME NEW s PROVE Working(s) \subseteq Workers /\ Working(s)' \subseteq Workers
  BY DEF Working
<1>2. ASSUME NEW r PROVE Holding(r) \subseteq Workers /\ Holding(r)' \subseteq Workers
  BY DEF Holding
<1>3. ASSUME NEW s PROVE Cardinality(Working(s)) \in Nat /\ Cardinality(Working(s)') \in Nat
  BY <1>1, WorkersCounted
<1>4. ASSUME NEW r PROVE Cardinality(Holding(r)) \in Nat /\ Cardinality(Holding(r)') \in Nat
  BY <1>2, WorkersCounted
<1>5. \A r \in Rows : rows[r] \in Nat /\ rows'[r] \in Nat
  BY DEF BaseInv, StreamInv
<1>6. \A s : One(s \in idle) \in {0, 1} /\ One(s \in idle') \in {0, 1}
  BY DEF One
<1>7. QED
  BY <1>1, <1>2, <1>3, <1>4, <1>5, <1>6

LEMMA WorkShrinks ==
  ASSUME BaseInv, BaseInv', NEW s, WorkOf(s), Working(s)' \subseteq Working(s), s \in idle' => s \in idle,
         faults - missed <= faults' - missed'
  PROVE  WorkOf(s)'
<1>1. Cardinality(Working(s)') <= Cardinality(Working(s))
  BY CopyNumbers, WorkersCounted
<1>2. One(s \in idle') <= One(s \in idle)
  BY DEF One
<1>3. Cardinality(Working(s)) \in Nat /\ Cardinality(Working(s)') \in Nat /\ One(s \in idle) \in {0, 1} /\ One(s \in idle') \in {0, 1}
  BY CopyNumbers
<1>4. QED
  BY <1>1, <1>2, <1>3, Spare DEF WorkOf

LEMMA HoldShrinks ==
  ASSUME BaseInv, BaseInv', NEW r \in Rows, RowOf(r), Holding(r)' \subseteq Holding(r), rows'[r] = rows[r],
         faults - missed <= faults' - missed'
  PROVE  RowOf(r)'
<1>1. Cardinality(Holding(r)') <= Cardinality(Holding(r))
  BY CopyNumbers, WorkersCounted
<1>2. Cardinality(Holding(r)) \in Nat /\ Cardinality(Holding(r)') \in Nat /\ rows[r] \in Nat
  BY CopyNumbers
<1>3. QED
  BY <1>1, <1>2, Spare DEF RowOf

\* What a step of w does to who works on s and who holds r.
LEMMA WorkEffects ==
  ASSUME NEW w \in Workers, \A v \in Workers \ {w} : Kept(v)
  PROVE  /\ \A s : /\ Working(s)' \subseteq Working(s) \cup {w}
                   /\ (s \in todo'[w] \/ event'[w] = s => s \in todo[w] \/ event[w] = s) => Working(s)' \subseteq Working(s)
         /\ \A r : /\ Holding(r)' \subseteq Holding(r) \cup {w}
                   /\ (event'[w] = r[1] /\ <<r[2], r[3]>> \in buffer'[w] => event[w] = r[1] /\ <<r[2], r[3]>> \in buffer[w])
                        => Holding(r)' \subseteq Holding(r)
                   /\ ~(event'[w] = r[1] /\ <<r[2], r[3]>> \in buffer'[w]) => Holding(r)' \subseteq Holding(r) \ {w}
<1>1. \A v \in Workers : v # w => buffer'[v] = buffer[v] /\ event'[v] = event[v] /\ todo'[v] = todo[v]
  BY DEF Kept
<1>2. ASSUME NEW s
      PROVE  /\ Working(s)' \subseteq Working(s) \cup {w}
             /\ (s \in todo'[w] \/ event'[w] = s => s \in todo[w] \/ event[w] = s) => Working(s)' \subseteq Working(s)
  <2>1. Working(s)' = {v \in Workers : s \in todo'[v] \/ event'[v] = s}
    BY DEF Working
  <2>2. QED
    BY <1>1, <2>1 DEF Working
<1>3. ASSUME NEW r
      PROVE  /\ Holding(r)' \subseteq Holding(r) \cup {w}
             /\ (event'[w] = r[1] /\ <<r[2], r[3]>> \in buffer'[w] => event[w] = r[1] /\ <<r[2], r[3]>> \in buffer[w])
                  => Holding(r)' \subseteq Holding(r)
             /\ ~(event'[w] = r[1] /\ <<r[2], r[3]>> \in buffer'[w]) => Holding(r)' \subseteq Holding(r) \ {w}
  <2>1. PICK e, p : e = r[1] /\ p = <<r[2], r[3]>>
    OBVIOUS
  <2>2. /\ Holding(r)' = {v \in Workers : event'[v] = e /\ p \in buffer'[v]}
        /\ Holding(r) = {v \in Workers : event[v] = e /\ p \in buffer[v]}
    BY <2>1 DEF Holding
  <2>3. /\ Holding(r)' \subseteq Holding(r) \cup {w}
        /\ (event'[w] = e /\ p \in buffer'[w] => event[w] = e /\ p \in buffer[w]) => Holding(r)' \subseteq Holding(r)
        /\ ~(event'[w] = e /\ p \in buffer'[w]) => Holding(r)' \subseteq Holding(r) \ {w}
    BY <1>1, <2>2
  <2>4. QED
    BY <2>1, <2>3
<1>4. QED
  BY <1>2, <1>3

\* Steps that give out no event and add neither to a buffer nor to the rows.
LEMMA QuietCopies ==
  ASSUME BaseInv, BaseInv', CopiesInv, NEW w \in Workers, \A v \in Workers \ {w} : Kept(v),
         rows' = rows, idle' \subseteq idle, faults - missed <= faults' - missed',
         \A s \in Segments : s \in todo'[w] \/ event'[w] = s => s \in todo[w] \/ event[w] = s,
         buffer'[w] = {} \/ (event'[w] = event[w] /\ buffer'[w] = buffer[w])
  PROVE  CopiesInv'
<1>1. ASSUME NEW s \in Segments PROVE WorkOf(s)'
  <2>1. Working(s)' \subseteq Working(s)
    BY WorkEffects
  <2>2. WorkOf(s) /\ (s \in idle' => s \in idle)
    BY DEF CopiesInv
  <2>3. QED
    BY <2>1, <2>2, WorkShrinks
<1>2. ASSUME NEW r \in Rows PROVE RowOf(r)'
  <2>1. event'[w] = r[1] /\ <<r[2], r[3]>> \in buffer'[w] => event[w] = r[1] /\ <<r[2], r[3]>> \in buffer[w]
    OBVIOUS
  <2>2. Holding(r)' \subseteq Holding(r)
    BY <2>1, WorkEffects
  <2>3. RowOf(r) /\ rows'[r] = rows[r]
    BY DEF CopiesInv
  <2>4. QED
    BY <2>2, <2>3, HoldShrinks
<1>3. QED
  BY <1>1, <1>2 DEF CopiesInv

\* Steps of no worker.
LEMMA StillCopies ==
  ASSUME BaseInv, BaseInv', CopiesInv, UNCHANGED <<work, rows>>, faults - missed <= faults' - missed',
         NEW S, idle' \subseteq idle \cup S, \A s \in S : Working(s) = {} \/ (faults - missed) + 1 <= faults' - missed'
  PROVE  CopiesInv'
<1>1. UNCHANGED <<todo, event, buffer>>
  BY DEF work
<1>2. ASSUME NEW s \in Segments PROVE WorkOf(s)'
  <2>1. Working(s)' = Working(s) /\ WorkOf(s)
    BY <1>1 DEF Working, CopiesInv
  <2>2. CASE s \in idle' => s \in idle
    <3>1. Working(s)' \subseteq Working(s)
      BY <2>1
    <3>2. QED
      BY <2>1, <2>2, <3>1, WorkShrinks
  <2>3. CASE s \in idle' /\ s \notin idle
    <3>1. Cardinality({}) = 0 /\ One(s \in idle') = 1 /\ One(s \in idle) = 0
      BY <2>3, FS_EmptySet DEF One
    <3>2. Cardinality(Working(s)) \in Nat /\ Cardinality(Working(s)') = Cardinality(Working(s))
      BY <2>1, CopyNumbers
    <3>3. Cardinality(Working(s)) = 0 \/ (faults - missed) + 1 <= faults' - missed'
      BY <2>3, <3>1
    <3>4. QED
      BY <2>1, <3>1, <3>2, <3>3, Spare DEF WorkOf
  <2>4. QED
    BY <2>2, <2>3
<1>3. ASSUME NEW r \in Rows PROVE RowOf(r)'
  <2>1. Holding(r)' \subseteq Holding(r) /\ RowOf(r) /\ rows'[r] = rows[r]
    BY <1>1 DEF Holding, CopiesInv
  <2>2. QED
    BY <2>1, HoldShrinks
<1>4. QED
  BY <1>2, <1>3 DEF CopiesInv

\* Events are handed out that were idle, or that nobody works on.
LEMMA HandedOut ==
  ASSUME BaseInv, BaseInv', CopiesInv, NEW w \in Workers, \A v \in Workers \ {w} : Kept(v),
         UNCHANGED <<rows, event, buffer>>, faults - missed <= faults' - missed',
         NEW S, idle' = idle \ S, todo'[w] \subseteq todo[w] \cup S, event[w] = None,
         \A s \in S : s \in idle \/ Working(s) = {}
  PROVE  CopiesInv'
<1>1. ASSUME NEW s \in Segments PROVE WorkOf(s)'
  <2>0. WorkOf(s) /\ s # None
    BY IndexingAssumption DEF CopiesInv, IndexingAssumption
  <2>1. /\ Working(s)' \subseteq Working(s) \cup {w}
        /\ s \notin S => Working(s)' \subseteq Working(s)
    BY <2>0, WorkEffects
  <2>2. CASE s \notin S
    <3>1. Working(s)' \subseteq Working(s) /\ (s \in idle' => s \in idle)
      BY <2>1, <2>2
    <3>2. QED
      BY <2>0, <3>1, WorkShrinks
  <2>3. CASE s \in S
    <3>1. One(s \in idle') = 0 /\ (s \in idle => One(s \in idle) = 1) /\ (Working(s) = {} => Cardinality(Working(s)) = 0)
      BY <2>3, FS_EmptySet DEF One
    <3>2. /\ Cardinality(Working(s)) \in Nat /\ Cardinality(Working(s)') \in Nat
          /\ Cardinality(Working(s)') <= Cardinality(Working(s)) + 1
      BY <2>1, CopyNumbers, WorkersCounted
    <3>3. One(s \in idle) \in {0, 1} /\ (One(s \in idle) = 1 \/ Cardinality(Working(s)) = 0)
      BY <2>3, <3>1, CopyNumbers
    <3>4. QED
      BY <2>0, <3>1, <3>2, <3>3, Spare DEF WorkOf
  <2>4. QED
    BY <2>2, <2>3
<1>2. ASSUME NEW r \in Rows PROVE RowOf(r)'
  <2>1. Holding(r)' \subseteq Holding(r) /\ RowOf(r) /\ rows'[r] = rows[r]
    BY DEF Holding, CopiesInv
  <2>2. QED
    BY <2>1, HoldShrinks
<1>3. QED
  BY <1>1, <1>2 DEF CopiesInv

\* Nobody works on an event that was never delivered.
LEMMA FreshIsFree == BaseInv => \A s \in Fresh : s \notin idle /\ Working(s) = {}
<1> SUFFICES ASSUME BaseInv, NEW s \in Fresh PROVE s \notin idle /\ Working(s) = {}
  OBVIOUS
<1>1. s \in Segments /\ delivered[s] = 0 /\ s # None
  BY IndexingAssumption DEF Fresh, IndexingAssumption
<1>2. s \notin Named
  BY <1>1 DEF Named
<1>3. s \notin idle
  BY <1>2 DEF BaseInv, StreamInv
<1>4. \A v \in Workers : s \notin todo[v] /\ event[v] # s
  BY <1>1, <1>2 DEF BaseInv, WorkerInv
<1>5. QED
  BY <1>3, <1>4 DEF Working

LEMMA LoopCopies ==
  ASSUME BaseInv, BaseInv', CopiesInv, NEW w \in Workers, Reclaim(w) \/ Read(w)
  PROVE  CopiesInv'
<1>1. (\A v \in Workers \ {w} : Kept(v)) /\ WorkTypes /\ WorkerInv(w)
  BY OthersKept DEF Work, BaseInv
<1>2. /\ UNCHANGED <<rows, event, buffer>> /\ UNCHANGED missed /\ (faults' = faults \/ Fault) /\ pc[w] \in {"loop", "read"}
  BY DEF Reclaim, Read, history
<1>3. event[w] = None /\ faults - missed <= faults' - missed'
  <2>1. event[w] = None /\ faults <= faults'
    BY <1>1, <1>2, FaultsOnly DEF WorkerInv, AtWork
  <2>2. QED
    BY <1>2, <2>1, Spare
<1>4. \/ Deliver(idle) /\ todo' = [todo EXCEPT ![w] = idle]
      \/ Deliver(Fresh) /\ todo' = [todo EXCEPT ![w] = @ \cup Fresh]
      \/ idle' \subseteq idle /\ \E kept \in {todo[w], {}} : todo' = [todo EXCEPT ![w] = kept]
  <2>1. todo' = todo => todo' = [todo EXCEPT ![w] = todo[w]]
    BY <1>1 DEF WorkTypes
  <2>2. CASE Reclaim(w)
    BY <2>1, <2>2 DEF Reclaim, stream
  <2>3. CASE Read(w)
    <3>1. \/ Deliver(Fresh) /\ todo' = [todo EXCEPT ![w] = @ \cup Fresh]
          \/ (Deliver(Fresh) \/ UNCHANGED stream) /\ \E kept \in {todo[w], {}} : todo' = [todo EXCEPT ![w] = kept]
      BY <2>3 DEF Read
    <3>2. Deliver(Fresh) \/ UNCHANGED stream => idle' \subseteq idle
      BY DEF Deliver, stream
    <3>3. QED
      BY <3>1, <3>2
  <2>4. QED
    BY <2>2, <2>3
<1>5. CASE Deliver(idle) /\ todo' = [todo EXCEPT ![w] = idle]
  <2>1. idle' = idle \ idle /\ todo'[w] \subseteq todo[w] \cup idle
    BY <1>1, <1>5 DEF Deliver, WorkTypes
  <2>2. QED
    BY <1>1, <1>2, <1>3, <2>1, HandedOut
<1>6. CASE Deliver(Fresh) /\ todo' = [todo EXCEPT ![w] = @ \cup Fresh]
  <2>1. idle' = idle \ Fresh /\ todo'[w] \subseteq todo[w] \cup Fresh
    BY <1>1, <1>6 DEF Deliver, WorkTypes
  <2>2. \A s \in Fresh : s \in idle \/ Working(s) = {}
    BY FreshIsFree
  <2>3. QED
    BY <1>1, <1>2, <1>3, <2>1, <2>2, HandedOut
<1>7. CASE idle' \subseteq idle /\ \E kept \in {todo[w], {}} : todo' = [todo EXCEPT ![w] = kept]
  <2>1. todo'[w] \subseteq todo[w]
    BY <1>1, <1>7 DEF WorkTypes
  <2>2. \A s \in Segments : s \in todo'[w] \/ event'[w] = s => s \in todo[w] \/ event[w] = s
    BY <1>2, <2>1
  <2>3. rows' = rows /\ idle' \subseteq idle /\ (buffer'[w] = {} \/ (event'[w] = event[w] /\ buffer'[w] = buffer[w]))
    BY <1>2, <1>7
  <2>4. QED
    BY <1>1, <1>3, <2>2, <2>3, QuietCopies
<1>8. QED
  BY <1>4, <1>5, <1>6, <1>7

\* Steps of a worker that read nothing, encode nothing and insert nothing.
LEMMA PlainCopies ==
  ASSUME BaseInv, BaseInv', CopiesInv, NEW w \in Workers,
         Take(w) \/ Launch(w) \/ Land(w) \/ Ack(w) \/ Fail(w) \/ Crash(w) \/ Recover(w)
  PROVE  CopiesInv'
<1>1. (\A v \in Workers \ {w} : Kept(v)) /\ WorkTypes /\ WorkerInv(w)
  BY OthersKept DEF Work, BaseInv
<1>2. rows' = rows /\ idle' \subseteq idle
  <2>1. CASE Take(w) \/ Launch(w) \/ Land(w) \/ Crash(w) \/ Recover(w)
    BY <2>1 DEF Take, Launch, Land, Crash, Recover, stream
  <2>2. CASE Ack(w)
    BY <2>2 DEF Ack, XAck
  <2>3. CASE Fail(w)
    BY <2>3, FailEnds DEF XAck
  <2>4. QED
    BY <2>1, <2>2, <2>3
<1>3. faults - missed <= faults' - missed'
  <2>1. CASE Land(w)
    <3>1. UNCHANGED <<faults, missed>> \/ (Fault /\ missed' = missed + 1)
      BY <2>1 DEF Land
    <3>2. faults \in Nat /\ missed \in Nat /\ missed <= faults
          /\ (Fault /\ missed' = missed + 1 => faults' - missed' = faults - missed)
      BY Spare
    <3>3. faults' - missed' = faults - missed
      BY <3>1, <3>2
    <3>4. QED
      BY <3>2, <3>3
  <2>2. CASE ~Land(w)
    <3>1. UNCHANGED missed /\ (faults' = faults \/ Fault)
      BY <2>2, FailEnds DEF Take, Launch, Ack, Crash, Recover, history, uploadVars
    <3>2. faults <= faults'
      BY <3>1, FaultsOnly
    <3>3. QED
      BY <3>1, <3>2, Spare
  <2>3. QED
    BY <2>1, <2>2
<1>4. /\ \A s \in Segments : s \in todo'[w] \/ event'[w] = s => s \in todo[w] \/ event[w] = s
      /\ buffer'[w] = {} \/ (event'[w] = event[w] /\ buffer'[w] = buffer[w])
  <2>1. CASE Take(w)
    <3>1. /\ pc[w] = "next" /\ UNCHANGED buffer
          /\ \/ UNCHANGED <<todo, event>>
             \/ \E t \in todo[w] : todo' = [todo EXCEPT ![w] = @ \ {t}] /\ event' = [event EXCEPT ![w] = t]
      BY <2>1 DEF Take
    <3>2. buffer[w] = {}
      BY <1>1, <3>1 DEF WorkerInv, AtWork
    <3>3. QED
      BY <1>1, <3>1, <3>2 DEF WorkTypes
  <2>2. CASE Launch(w) \/ Land(w) \/ Recover(w)
    BY <2>2 DEF Launch, Land, Recover
  <2>3. CASE Ack(w) \/ Fail(w) \/ Crash(w)
    <3>1. /\ Leave(w) \/ UNCHANGED <<event, buffer>>
          /\ UNCHANGED todo \/ todo' = [todo EXCEPT ![w] = {}]
      BY <2>3, FailEnds DEF Ack, Crash
    <3>2. \A s \in Segments : s # None
      BY IndexingAssumption DEF IndexingAssumption
    <3>3. /\ todo'[w] \subseteq todo[w]
          /\ (event'[w] = None /\ buffer'[w] = {}) \/ (event'[w] = event[w] /\ buffer'[w] = buffer[w])
      BY <1>1, <3>1 DEF WorkTypes, Leave
    <3>4. QED
      BY <3>2, <3>3
  <2>4. QED
    BY <2>1, <2>2, <2>3
<1>5. QED
  BY <1>1, <1>2, <1>3, <1>4, QuietCopies

\* A row is added by whom holds it, and a second time for a fault only.
LEMMA InsertCopies ==
  ASSUME BaseInv, BaseInv', CopiesInv, NEW w \in Workers, Insert(w)
  PROVE  CopiesInv'
<1>1. (\A v \in Workers \ {w} : Kept(v)) /\ WorkTypes /\ WorkerInv(w)
  BY OthersKept DEF Work, BaseInv
<1>2. /\ UNCHANGED stream /\ UNCHANGED todo /\ UNCHANGED event /\ UNCHANGED missed /\ pc[w] = "insert"
      /\ \/ AddRows(w) /\ buffer' = [buffer EXCEPT ![w] = {}] /\ UNCHANGED faults
         \/ AddRows(w) /\ UNCHANGED buffer /\ Fault
         \/ UNCHANGED rows /\ UNCHANGED buffer /\ (faults' = faults \/ Fault)
  BY DEF Insert, InsertOk, InsertFails
<1>3. faults - missed <= faults' - missed' /\ (Fault => faults' - missed' = (faults - missed) + 1)
  <2>1. faults <= faults' /\ UNCHANGED missed
    BY <1>2, FaultsOnly
  <2>2. QED
    BY <2>1, Spare
<1>4. ASSUME NEW s \in Segments PROVE WorkOf(s)'
  <2>1. Working(s)' \subseteq Working(s) /\ WorkOf(s) /\ (s \in idle' => s \in idle)
    BY <1>2 DEF Working, CopiesInv, stream
  <2>2. QED
    BY <1>3, <2>1, WorkShrinks
<1>5. ASSUME NEW r \in Rows PROVE RowOf(r)'
  <2>0. RowOf(r) /\ event[w] \in Named
    BY <1>1, <1>2 DEF CopiesInv, WorkerInv, AtWork
  <2>1. CASE UNCHANGED rows /\ UNCHANGED buffer
    <3>1. Holding(r)' \subseteq Holding(r) /\ rows'[r] = rows[r]
      BY <1>2, <2>1 DEF Holding
    <3>2. QED
      BY <1>3, <2>0, <3>1, HoldShrinks
  <2>2. CASE AddRows(w)
    <3> DEFINE mine == event[w] = r[1] /\ <<r[2], r[3]>> \in buffer[w]
    <3>1. rows'[r] = IF mine THEN rows[r] + 1 ELSE rows[r]
      BY <2>0, <2>2, RowsAdded
    <3>2. w \in Holding(r) <=> mine
      BY DEF Holding
    <3>3. CASE buffer' = [buffer EXCEPT ![w] = {}]
      <4>1. buffer'[w] = {}
        BY <1>1, <3>3 DEF WorkTypes
      <4>2. Holding(r)' \subseteq Holding(r) \ {w}
        BY <1>1, <4>1, WorkEffects
      <4>3. CASE mine
        <5>1. w \in Holding(r) /\ rows'[r] = rows[r] + 1
          BY <3>1, <3>2, <4>3
        <5>2. Cardinality(Holding(r)') + 1 <= Cardinality(Holding(r))
          BY <4>2, <5>1, CopyNumbers, WorkersCounted
        <5>3. Cardinality(Holding(r)) \in Nat /\ Cardinality(Holding(r)') \in Nat /\ rows[r] \in Nat
          BY CopyNumbers
        <5>4. QED
          BY <1>3, <2>0, <5>1, <5>2, <5>3, Spare DEF RowOf
      <4>4. CASE ~mine
        <5>1. Holding(r)' \subseteq Holding(r) /\ rows'[r] = rows[r]
          BY <3>1, <4>2, <4>4
        <5>2. QED
          BY <1>3, <2>0, <5>1, HoldShrinks
      <4>5. QED
        BY <4>3, <4>4
    <3>4. CASE UNCHANGED buffer /\ Fault
      <4>1. Holding(r)' = Holding(r) /\ Cardinality(Holding(r)) \in Nat /\ rows[r] \in Nat /\ rows'[r] \in Nat
        BY <1>2, <3>4, CopyNumbers DEF Holding
      <4>2. rows'[r] <= rows[r] + 1
        BY <3>1, <4>1
      <4>3. QED
        BY <1>3, <2>0, <3>4, <4>1, <4>2, Spare DEF RowOf
    <3>5. CASE UNCHANGED rows
      <4>1. ~mine
        BY <3>1, <3>5, CopyNumbers
      <4>2. QED
        BY <1>2, <2>1, <3>3, <3>4
    <3>6. QED
      BY <1>2, <3>3, <3>4, <3>5
  <2>3. QED
    BY <1>2, <2>1, <2>2
<1>6. QED
  BY <1>4, <1>5 DEF CopiesInv

\* What is encoded has no row yet, unless a fault hides it: so it is held by those at work
\* on its event only.
LEMMA EncodeCopies ==
  ASSUME BaseInv, BaseInv', CopiesInv, NEW w \in Workers, Encode(w)
  PROVE  CopiesInv'
<1>1. (\A v \in Workers \ {w} : Kept(v)) /\ WorkTypes /\ WorkerInv(w)
  BY OthersKept DEF Work, BaseInv
<1>2. /\ UNCHANGED <<stream, todo, event, rows>> /\ UNCHANGED missed /\ (faults' = faults \/ Fault)
      /\ \/ Fault /\ UNCHANGED buffer
         \/ \E B \in SUBSET Zipped(w) :
              /\ B # NotYetThere(event[w], Zipped(w)) => Fault
              /\ buffer' = [buffer EXCEPT ![w] = buffer[w] \cup B]
  BY EncodeMoves DEF history
<1>3. faults - missed <= faults' - missed' /\ (Fault => faults' - missed' = (faults - missed) + 1)
  <2>1. faults <= faults' /\ UNCHANGED missed
    BY <1>2, FaultsOnly
  <2>2. QED
    BY <2>1, Spare
<1>4. ASSUME NEW s \in Segments PROVE WorkOf(s)'
  <2>1. Working(s)' \subseteq Working(s) /\ WorkOf(s) /\ (s \in idle' => s \in idle)
    BY <1>2 DEF Working, CopiesInv, stream
  <2>2. QED
    BY <1>3, <2>1, WorkShrinks
<1>5. ASSUME NEW r \in Rows PROVE RowOf(r)'
  <2>0. RowOf(r) /\ rows'[r] = rows[r] /\ rows[r] \in Nat /\ Cardinality(Holding(r)) \in Nat /\ Cardinality(Holding(r)') \in Nat
    BY <1>2, CopyNumbers DEF CopiesInv
  <2>1. Holding(r)' \subseteq Holding(r) \cup {w}
    BY <1>1, WorkEffects
  <2>2. CASE Fault
    <3>1. Cardinality(Holding(r)') <= Cardinality(Holding(r)) + 1
      BY <2>1, CopyNumbers, WorkersCounted
    <3>2. QED
      BY <1>3, <2>0, <2>2, <3>1, Spare DEF RowOf
  <2>3. ASSUME buffer' = [buffer EXCEPT ![w] = buffer[w] \cup NotYetThere(event[w], Zipped(w))] PROVE RowOf(r)'
    <3>1. PICK e, p : e = r[1] /\ p = <<r[2], r[3]>>
      OBVIOUS
    <3>2. CASE event[w] = e /\ p \in NotYetThere(event[w], Zipped(w))
      <4>1. r[2] \notin Indexed(e) /\ r[3] \in Frames /\ r = <<e, r[2], r[3]>> /\ r[2] \in Frames
        BY <3>1, <3>2 DEF NotYetThere, Rows
      <4>2. rows[r] = 0
        <5>1. ~(\E g \in Frames : rows[<<e, r[2], g>>] > 0)
          BY <4>1 DEF Indexed
        <5>2. ~(rows[r] > 0)
          BY <4>1, <5>1
        <5>3. QED
          BY <2>0, <5>2
      <4>3. Holding(r)' \subseteq Working(e) /\ e \in Segments
        <5>1. Holding(r)' = {v \in Workers : event'[v] = e /\ p \in buffer'[v]}
          BY <3>1 DEF Holding
        <5>2. QED
          BY <1>2, <3>1, <5>1 DEF Working, Rows
      <4>4. /\ Cardinality(Holding(r)') <= Cardinality(Working(e)) /\ Cardinality(Working(e)) \in Nat
            /\ One(e \in idle) \in {0, 1}
        BY <4>3, CopyNumbers, WorkersCounted
      <4>5. WorkOf(e)
        BY <4>3 DEF CopiesInv
      <4>6. QED
        BY <1>3, <2>0, <4>2, <4>4, <4>5, Spare DEF RowOf, WorkOf
    <3>3. CASE ~(event[w] = e /\ p \in NotYetThere(event[w], Zipped(w)))
      <4>1. buffer'[w] = buffer[w] \cup NotYetThere(event[w], Zipped(w)) /\ event'[w] = event[w]
        BY <1>1, <1>2, <2>3 DEF WorkTypes
      <4>2. event'[w] = r[1] /\ <<r[2], r[3]>> \in buffer'[w] => event[w] = r[1] /\ <<r[2], r[3]>> \in buffer[w]
        BY <3>1, <3>3, <4>1
      <4>3. Holding(r)' \subseteq Holding(r)
        BY <1>1, <4>2, WorkEffects
      <4>4. QED
        BY <1>3, <2>0, <4>3, HoldShrinks
    <3>4. QED
      BY <3>2, <3>3
  <2>4. QED
    BY <1>2, <2>2, <2>3
<1>6. QED
  BY <1>4, <1>5 DEF CopiesInv

LEMMA OtherCopies ==
  ASSUME BaseInv, BaseInv', CopiesInv, Extract \/ (\E s \in Segments : Age(s)) \/ UNCHANGED vars
  PROVE  CopiesInv'
<1>1. UNCHANGED <<work, rows>> /\ UNCHANGED missed
  BY DEF Extract, Age, vars, history
<1>2. faults \in Nat /\ faults <= faults'
  <2>1. faults \in Nat
    BY Spare
  <2>2. CASE Extract
    BY <2>2, UploadStep DEF Extract, BaseInv
  <2>3. CASE \E s \in Segments : Age(s)
    BY <2>1, <2>3 DEF Age, Fault
  <2>4. CASE UNCHANGED vars
    BY <2>1, <2>4 DEF vars, uploadVars
  <2>5. QED
    BY <2>1, <2>2, <2>3, <2>4
<1>3. faults - missed <= faults' - missed'
  BY <1>1, <1>2, Spare
<1>4. CASE Extract \/ UNCHANGED vars
  <2>1. PICK S : S = {}
    OBVIOUS
  <2>2. idle' \subseteq idle \cup S
    BY <1>4 DEF Extract, vars, stream
  <2>3. \A s \in S : Working(s) = {} \/ (faults - missed) + 1 <= faults' - missed'
    BY <2>1
  <2>4. QED
    BY <1>1, <1>3, <2>2, <2>3, StillCopies
<1>5. ASSUME NEW s \in Segments, Age(s) PROVE CopiesInv'
  <2>1. idle' \subseteq idle \cup {s} /\ (Working(s) = {} \/ Fault)
    BY <1>5 DEF Age
  <2>2. Fault => (faults - missed) + 1 <= faults' - missed'
    BY <1>1, Spare
  <2>3. \A t \in {s} : Working(t) = {} \/ (faults - missed) + 1 <= faults' - missed'
    BY <2>1, <2>2
  <2>4. QED
    BY <1>1, <1>3, <2>1, <2>3, StillCopies
<1>6. QED
  BY <1>4, <1>5

LEMMA InitCopies == Init => CopiesInv
<1> SUFFICES ASSUME Init PROVE CopiesInv
  OBVIOUS
<1>1. /\ idle = {} /\ missed = 0 /\ faults = 0
      /\ \A w \in Workers : event[w] = None /\ todo[w] = {} /\ buffer[w] = {}
      /\ rows = [r \in Rows |-> 0]
  BY DEF Init, InitUpload, Rows
<1>2. Cardinality({}) = 0
  BY FS_EmptySet
<1>3. ASSUME NEW s \in Segments PROVE WorkOf(s)
  <2>1. Working(s) = {} /\ One(s \in idle) = 0
    BY <1>1, IndexingAssumption DEF Working, One, IndexingAssumption
  <2>2. QED
    BY <1>1, <1>2, <2>1 DEF WorkOf
<1>4. ASSUME NEW r \in Rows PROVE RowOf(r)
  <2>1. Holding(r) = {} /\ rows[r] = 0
    BY <1>1 DEF Holding
  <2>2. QED
    BY <1>1, <1>2, <2>1 DEF RowOf
<1>5. QED
  BY <1>3, <1>4 DEF CopiesInv

LEMMA NextCopies ==
  ASSUME BaseInv, BaseInv', CopiesInv, [Next]_vars
  PROVE  CopiesInv'
<1>1. ASSUME NEW w \in Workers, Work(w) \/ Crash(w) \/ Recover(w) PROVE CopiesInv'
  BY <1>1, LoopCopies, PlainCopies, EncodeCopies, InsertCopies DEF Work
<1>2. QED
  BY <1>1, OtherCopies DEF Next

LEMMA CopiesGive == BaseInv /\ CopiesInv => RowsPaidFor
<1> SUFFICES ASSUME BaseInv, CopiesInv, NEW s \in Segments, NEW f \in Frames, NEW g \in Frames
             PROVE  rows[<<s, f, g>>] <= 1 + faults - missed
  BY DEF RowsPaidFor
<1>1. PICK r : r = <<s, f, g>>
  OBVIOUS
<1>2. r \in Rows /\ RowOf(r)
  BY <1>1 DEF Rows, CopiesInv
<1>3. Cardinality(Holding(r)) \in Nat /\ rows[r] \in Nat /\ faults \in Nat /\ missed \in Nat /\ missed <= faults
  <2>1. Cardinality(Holding(r)) \in Nat
    BY WorkersCounted DEF Holding
  <2>2. rows[r] \in Nat /\ faults \in Nat /\ missed \in Nat /\ missed <= faults
    BY <1>2, UploadAssumption DEF BaseInv, StreamInv, HistoryTypes, UploadInv, UploadTypeOK, UploadAssumption
  <2>3. QED
    BY <2>1, <2>2
<1>4. rows[r] <= 1 + faults - missed
  BY <1>2, <1>3 DEF RowOf
<1>5. QED
  BY <1>1, <1>4

--------------------------------------------------------------------------------
(* Vectors and paths.                                                           *)

\* Pairs of the same rank, of a set and a part of it.
LEMMA RankPairs ==
  ASSUME NEW C, NEW E, IsFiniteSet(C), C \subseteq Nat, E \subseteq C, NEW p \in C, NEW q \in E,
         Rank(p, C) = Rank(q, E), p # q
  PROVE  p < q /\ \E f \in C \ E : f < q
<1>0. p \in Nat /\ q \in Nat /\ q \in C /\ IsFiniteSet(E)
  BY NoMoreCounted
<1>1. \A y, z \in C : y < z => Rank(y, C) < Rank(z, C) /\ Rank(y, C) \in Nat /\ Rank(z, C) \in Nat
  <2>1. ASSUME NEW y \in C PROVE Rank(y, C) \in Nat /\ \A z \in C : y < z => Rank(y, C) < Rank(z, C)
    <3>1. Rank(y, C) \in 1 .. Cardinality(C) /\ Cardinality(C) \in Nat /\ \A z \in C : y < z => Rank(y, C) < Rank(z, C)
      BY Ranks
    <3>2. QED
      BY <3>1
  <2>2. QED
    BY <2>1
<1>2. Rank(q, E) <= Rank(q, C) /\ Rank(q, E) \in Nat /\ Rank(q, C) \in Nat /\ Rank(p, C) \in Nat
  <2>1. {y \in E : y <= q} \subseteq {y \in C : y <= q} /\ {y \in C : y <= q} \subseteq C /\ {y \in C : y <= p} \subseteq C
    OBVIOUS
  <2>2. IsFiniteSet({y \in C : y <= q}) /\ IsFiniteSet({y \in C : y <= p})
    BY <2>1, NoMoreCounted
  <2>3. Cardinality({y \in C : y <= p}) \in Nat
    BY <2>2, FS_CardinalityType
  <2>4. /\ Cardinality({y \in E : y <= q}) <= Cardinality({y \in C : y <= q})
        /\ Cardinality({y \in E : y <= q}) \in Nat /\ Cardinality({y \in C : y <= q}) \in Nat
    BY <2>1, <2>2, NoMoreCounted
  <2>5. QED
    BY <2>3, <2>4 DEF Rank
<1>3. p < q
  <2>1. ~(q < p)
    BY <1>0, <1>1, <1>2
  <2>2. QED
    BY <1>0, <2>1
<1>4. \E f \in C \ E : f < q
  <2>1. SUFFICES ASSUME \A f \in C \ E : ~(f < q) PROVE FALSE
    OBVIOUS
  <2>2. \A y \in C : y <= q => y \in E
    BY <1>0, <2>1
  <2>3. {y \in E : y <= q} = {y \in C : y <= q}
    BY <2>2
  <2>4. Rank(q, E) = Rank(q, C)
    BY <2>3 DEF Rank
  <2>5. QED
    BY <1>0, <1>1, <1>2, <1>3, <2>4
<1>5. QED
  BY <1>3, <1>4

\* What belongs to frames that stay as they are stays apt.
LEMMA AptKept ==
  ASSUME NEW s, Listed(s)' = Listed(s)
  PROVE  \A p : Apt(s, p)' = Apt(s, p)
<1>1. TAKE p
<1>2. LastChunk(s)' = LastChunk(s) /\ \A n : ChunkOf(s, n)' = ChunkOf(s, n)
  BY ChunksKept
<1>3. QED
  BY <1>2 DEF Apt

LEMMA Growing ==
  ASSUME BaseInv, [Next]_vars
  PROVE  /\ missed \in Nat /\ missed' \in Nat /\ missed <= missed'
         /\ faults \in Nat /\ faults' \in Nat /\ faults <= faults'
         /\ \A s \in Named : Listed(s)' = Listed(s) /\ Indexed(s) \subseteq Indexed(s)'
<1>1. missed \in Nat /\ rows \in [Rows -> Nat]
  BY UploadAssumption DEF BaseInv, HistoryTypes, StreamInv, UploadInv, UploadTypeOK, UploadAssumption
<1>2. /\ missed' = missed \/ missed' = missed + 1
      /\ Extract \/ (UNCHANGED jobs /\ (faults' = faults \/ Fault))
      /\ UNCHANGED rows \/ \E w \in Workers : event[w] \in Named /\ AddRows(w)
  <2>1. CASE Extract \/ (\E s \in Segments : Age(s)) \/ UNCHANGED vars
    BY <2>1 DEF Extract, Age, vars, uploadVars, history
  <2>2. ASSUME NEW w \in Workers, Work(w) \/ Crash(w) \/ Recover(w)
        PROVE  /\ missed' = missed \/ missed' = missed + 1
               /\ UNCHANGED jobs /\ (faults' = faults \/ Fault)
               /\ UNCHANGED rows \/ (event[w] \in Named /\ AddRows(w))
    <3>1. CASE Land(w)
      BY <3>1 DEF Land
    <3>2. CASE Encode(w)
      BY <3>2, EncodeMoves DEF history
    <3>3. CASE Fail(w)
      BY <3>3, FailEnds DEF history
    <3>4. CASE Insert(w)
      <4>1. event[w] \in Named
        BY <3>4 DEF Insert, BaseInv, WorkerInv, AtWork
      <4>2. QED
        BY <3>4, <4>1 DEF Insert, InsertOk, InsertFails
    <3>5. CASE Reclaim(w) \/ Read(w) \/ Take(w) \/ Ack(w)
      BY <3>5 DEF Reclaim, Read, Take, Ack, history
    <3>6. CASE Launch(w) \/ Crash(w) \/ Recover(w)
      BY <3>6 DEF Launch, Crash, Recover, uploadVars, history
    <3>7. QED
      BY <2>2, <3>1, <3>2, <3>3, <3>4, <3>5, <3>6 DEF Work
  <2>3. QED
    BY <2>1, <2>2 DEF Next
<1>3. /\ faults \in Nat /\ faults' \in Nat /\ faults <= faults'
      /\ \A s \in Segments : posted[s] = "stream" => Listed(s)' = Listed(s)
  BY <1>2, UploadStep DEF Extract, BaseInv
<1>4. ASSUME NEW r \in Rows PROVE rows[r] > 0 => rows'[r] > 0
  <2>1. CASE UNCHANGED rows
    BY <2>1
  <2>2. ASSUME NEW w \in Workers, event[w] \in Named, AddRows(w) PROVE rows[r] > 0 => rows'[r] > 0
    <3>1. rows'[r] = rows[r] \/ rows'[r] = rows[r] + 1
      BY <2>2, RowsAdded
    <3>2. QED
      BY <1>1, <3>1
  <2>3. QED
    BY <1>2, <2>1, <2>2
<1>5. ASSUME NEW s \in Segments PROVE Indexed(s) \subseteq Indexed(s)'
  BY <1>4 DEF Indexed, Rows
<1>6. QED
  BY <1>1, <1>2, <1>3, <1>5 DEF Named

\* A worker to which nothing happens, and frames to which nothing happens.
LEMMA OthersMatch ==
  ASSUME BaseInv, NEW v \in Workers, Kept(v), MatchOf(v), \A s \in Named : Listed(s)' = Listed(s)
  PROVE  MatchOf(v)'
<1>1. WorkerInv(v)
  BY DEF BaseInv
<1>2. PICK e, n : e = event[v] /\ n = part[v]
  OBVIOUS
<1>3. /\ event'[v] = e /\ part'[v] = n /\ pc'[v] = pc[v] /\ minio'[v] = minio[v] /\ buffer'[v] = buffer[v]
      /\ left'[v] = left[v] /\ flight'[v] = flight[v] /\ got'[v] = got[v]
  BY <1>2 DEF Kept
<1>4. CASE e = None
  <2>1. pc[v] \notin AtWork /\ buffer[v] = {}
    BY <1>1, <1>2, <1>4 DEF WorkerInv
  <2>2. QED
    BY <1>3, <2>1 DEF MatchOf, AtWork
<1>5. CASE e # None
  <2>1. Listed(e)' = Listed(e)
    BY <1>1, <1>2, <1>5 DEF WorkerInv
  <2>2. (\A p : Apt(e, p)' = Apt(e, p)) /\ ChunkOf(e, n)' = ChunkOf(e, n)
    BY <2>1, AptKept, ChunksKept
  <2>3. ChunkOf(event[v], part[v])' = ChunkOf(e, n)'
    BY <1>3, <2>1 DEF ChunkOf, ChunkNo, Rank, Listed
  <2>4. \A p : Apt(event[v], p)' = Apt(e, p)'
    BY <1>3, <2>1 DEF Apt, ChunkOf, ChunkNo, Rank, Listed, LastChunk
  <2>5. QED
    BY <1>2, <1>3, <2>2, <2>3, <2>4 DEF MatchOf
<1>6. QED
  BY <1>4, <1>5

\* What w holds after a step, its event being e and its chunk n.
LEMMA MatchNext ==
  ASSUME NEW w, UNCHANGED stored, NEW e, NEW n, event'[w] = e, part'[w] = n,
         minio'[w] = Closed, pc'[w] = "fetch" => left'[w] \cup flight'[w] \cup got'[w] = ChunkOf(e, n),
         \A p \in buffer'[w] : Apt(e, p)
  PROVE  MatchOf(w)'
<1>1. Listed(e)' = Listed(e)
  BY DEF Listed
<1>2. (\A p : Apt(e, p)' = Apt(e, p)) /\ ChunkOf(e, n)' = ChunkOf(e, n)
  BY <1>1, AptKept, ChunksKept
<1>3. ChunkOf(event[w], part[w])' = ChunkOf(e, n)'
  BY <1>1 DEF ChunkOf, ChunkNo, Rank, Listed
<1>4. \A p : Apt(event[w], p)' = Apt(e, p)'
  BY <1>1 DEF Apt, ChunkOf, ChunkNo, Rank, Listed, LastChunk
<1>5. QED
  BY <1>2, <1>3, <1>4 DEF MatchOf

\* A step of w that adds no rows.
LEMMA MatchAssemble ==
  ASSUME BaseInv, MatchInv, missed = 0, NEW w \in Workers, \A v \in Workers \ {w} : Kept(v), UNCHANGED stored,
         UNCHANGED rows, MatchOf(w)'
  PROVE  MatchInv'
<1>1. \A s : Listed(s)' = Listed(s)
  BY DEF Listed
<1>2. ASSUME NEW v \in Workers PROVE MatchOf(v)'
  <2>1. CASE v = w
    BY <2>1
  <2>2. CASE v # w
    <3>1. Kept(v) /\ MatchOf(v)
      BY <2>2 DEF MatchInv
    <3>2. QED
      BY <1>1, <3>1, OthersMatch
  <2>3. QED
    BY <2>1, <2>2
<1>3. ASSUME NEW r \in Rows, rows'[r] > 0 PROVE Apt(r[1], <<r[2], r[3]>>)'
  <2>1. PICK s : s = r[1]
    OBVIOUS
  <2>2. Apt(s, <<r[2], r[3]>>)
    BY <1>3, <2>1 DEF MatchInv
  <2>3. Apt(s, <<r[2], r[3]>>)'
    BY <1>1, <2>2, AptKept
  <2>4. QED
    BY <2>1, <2>3
<1>4. QED
  BY <1>2, <1>3 DEF MatchInv

\* A closed breaker admits, and stays closed while calls succeed.
LEMMA StaysClosed ==
  Admits(Closed) /\ Asked(Closed) = Closed /\ Succeeded(Closed) = Closed /\ ~Cools(Closed)
<1>1. Closed.state = "closed"
  BY DEF Closed
<1>2. QED
  BY <1>1 DEF Admits, Asked, Succeeded, Cools

\* Steps of w that change nothing of what it is about, or leave the event.
LEMMA PlainMatch ==
  ASSUME BaseInv, MatchInv, missed = 0, NEW w \in Workers,
         Reclaim(w) \/ Read(w) \/ Ack(w) \/ Fail(w) \/ Crash(w) \/ Recover(w)
  PROVE  MatchInv'
<1>1. (\A v \in Workers \ {w} : Kept(v)) /\ WorkTypes /\ WorkerInv(w) /\ MatchOf(w)
  BY OthersKept DEF Work, BaseInv, MatchInv
<1>2. UNCHANGED stored /\ UNCHANGED rows
  BY FailEnds DEF Reclaim, Read, Ack, Crash, Recover, jobs, uploadVars
<1>3. minio[w] = Closed /\ minio'[w] = Closed
  <2>1. minio[w] = Closed
    BY <1>1 DEF MatchOf
  <2>2. minio' = minio \/ minio' = [minio EXCEPT ![w] = Closed]
    BY <2>1, StaysClosed, FailEnds DEF Reclaim, Read, Ack, Crash, Recover
  <2>3. QED
    BY <1>1, <2>1, <2>2 DEF WorkTypes
<1>4. \/ UNCHANGED <<pc, event, part, left, flight, got, buffer>>
      \/ UNCHANGED <<event, part, buffer>> /\ \E p \in {"read", "loop", "next", "fail"} : pc' = [pc EXCEPT ![w] = p]
      \/ Leave(w) /\ \E p \in {"next", "loop"} : pc' = [pc EXCEPT ![w] = p]
  <2>1. CASE Reclaim(w) \/ Read(w)
    BY <2>1 DEF Reclaim, Read, Goto
  <2>2. CASE Ack(w) \/ Fail(w)
    BY <2>2, FailEnds DEF Ack, Goto
  <2>3. CASE Crash(w) \/ Recover(w)
    BY <2>3 DEF Crash, Recover, Goto
  <2>4. QED
    BY <2>1, <2>2, <2>3
<1>5. PICK e, n : e = event'[w] /\ n = part'[w]
  OBVIOUS
<1>6. /\ pc'[w] = "fetch" => left'[w] \cup flight'[w] \cup got'[w] = ChunkOf(e, n)
      /\ \A p \in buffer'[w] : Apt(e, p)
  <2>1. CASE UNCHANGED <<pc, event, part, left, flight, got, buffer>>
    BY <1>1, <1>5, <2>1 DEF MatchOf
  <2>2. CASE UNCHANGED <<event, part, buffer>> /\ \E p \in {"read", "loop", "next", "fail"} : pc' = [pc EXCEPT ![w] = p]
    <3>1. pc'[w] # "fetch"
      BY <1>1, <2>2 DEF WorkTypes
    <3>2. QED
      BY <1>1, <1>5, <2>2, <3>1 DEF MatchOf
  <2>3. CASE Leave(w) /\ \E p \in {"next", "loop"} : pc' = [pc EXCEPT ![w] = p]
    <3>1. pc'[w] # "fetch" /\ buffer'[w] = {}
      BY <1>1, <2>3 DEF WorkTypes, Leave
    <3>2. QED
      BY <3>1
  <2>4. QED
    BY <1>4, <2>1, <2>2, <2>3
<1>7. event'[w] = e /\ part'[w] = n
  BY <1>5
<1>8. MatchOf(w)'
  BY <1>2, <1>3, <1>6, <1>7, MatchNext
<1>9. QED
  BY <1>1, <1>2, <1>8, MatchAssemble

LEMMA TakeMatch ==
  ASSUME BaseInv, MatchInv, missed = 0, NEW w \in Workers, Take(w)
  PROVE  MatchInv'
<1>1. (\A v \in Workers \ {w} : Kept(v)) /\ WorkTypes /\ WorkerInv(w) /\ MatchOf(w)
  BY OthersKept DEF Work, BaseInv, MatchInv
<1>2. /\ UNCHANGED stored /\ UNCHANGED rows /\ UNCHANGED <<minio, flight, buffer>> /\ pc[w] = "next"
      /\ \/ \E p \in {"loop", "fail"} : pc' = [pc EXCEPT ![w] = p]
         \/ \E s \in todo[w] : event' = [event EXCEPT ![w] = s] /\ StartChunk(w, s, 0)
  BY DEF Take, jobs, Goto
<1>3. minio'[w] = Closed /\ buffer'[w] = {} /\ flight'[w] = {}
  BY <1>1, <1>2 DEF MatchOf, WorkerInv, AtWork
<1>4. PICK e, n : e = event'[w] /\ n = part'[w]
  OBVIOUS
<1>5. pc'[w] = "fetch" => left'[w] \cup flight'[w] \cup got'[w] = ChunkOf(e, n)
  <2>1. CASE \E p \in {"loop", "fail"} : pc' = [pc EXCEPT ![w] = p]
    <3>1. pc'[w] # "fetch"
      BY <1>1, <2>1 DEF WorkTypes
    <3>2. QED
      BY <3>1
  <2>2. ASSUME NEW s \in todo[w], event' = [event EXCEPT ![w] = s], StartChunk(w, s, 0)
        PROVE  left'[w] \cup flight'[w] \cup got'[w] = ChunkOf(e, n)
    <3>1. event'[w] = s /\ part'[w] = 0 /\ left'[w] = ChunkOf(s, 0) /\ got'[w] = {}
      BY <1>1, <2>2 DEF WorkTypes, StartChunk
    <3>2. s = e /\ n = 0
      BY <1>4, <3>1
    <3>3. QED
      BY <1>3, <3>1, <3>2
  <2>3. QED
    BY <1>2, <2>1, <2>2
<1>6. \A p \in buffer'[w] : Apt(e, p)
  BY <1>3
<1>7. event'[w] = e /\ part'[w] = n
  BY <1>4
<1>8. MatchOf(w)'
  BY <1>2, <1>3, <1>5, <1>6, <1>7, MatchNext
<1>9. QED
  BY <1>1, <1>2, <1>8, MatchAssemble

\* Downloads that are let through and come back.
LEMMA DownloadMatch ==
  ASSUME BaseInv, MatchInv, missed = 0, missed' = 0, NEW w \in Workers, Launch(w) \/ Land(w)
  PROVE  MatchInv'
<1>1. (\A v \in Workers \ {w} : Kept(v)) /\ WorkTypes /\ WorkerInv(w) /\ MatchOf(w)
  BY OthersKept DEF Work, BaseInv, MatchInv
<1>2. minio[w] = Closed
  BY <1>1 DEF MatchOf
<1>3. UNCHANGED stored /\ UNCHANGED rows /\ UNCHANGED <<pc, event, part, buffer>>
  BY DEF Launch, Land, uploadVars, jobs
<1>4. /\ minio'[w] = Closed
      /\ left'[w] \cup flight'[w] \cup got'[w] = left[w] \cup flight[w] \cup got[w]
  <2>1. CASE Launch(w)
    <3>1. /\ \E f \in left[w] : left' = [left EXCEPT ![w] = @ \ {f}] /\ flight' = [flight EXCEPT ![w] = @ \cup {f}]
          /\ minio' = [minio EXCEPT ![w] = Asked(minio[w])] /\ UNCHANGED got
      BY <1>2, <2>1, StaysClosed DEF Launch
    <3>2. minio' = [minio EXCEPT ![w] = Closed]
      BY <1>2, <3>1, StaysClosed
    <3>3. QED
      BY <1>1, <3>1, <3>2 DEF WorkTypes
  <2>2. CASE Land(w)
    <3>1. /\ \E f \in flight[w] : flight' = [flight EXCEPT ![w] = @ \ {f}] /\ got' = [got EXCEPT ![w] = @ \cup {f}]
          /\ minio' = [minio EXCEPT ![w] = Succeeded(minio[w])] /\ UNCHANGED left
      <4>1. missed' # missed + 1
        OBVIOUS
      <4>2. QED
        BY <2>2, <4>1, Zenon DEF Land
    <3>2. minio' = [minio EXCEPT ![w] = Closed]
      BY <1>2, <3>1, StaysClosed
    <3>3. QED
      BY <1>1, <3>1, <3>2 DEF WorkTypes
  <2>3. QED
    BY <2>1, <2>2
<1>5. PICK e, n : e = event[w] /\ n = part[w]
  OBVIOUS
<1>6. /\ event'[w] = e /\ part'[w] = n
      /\ pc'[w] = "fetch" => left'[w] \cup flight'[w] \cup got'[w] = ChunkOf(e, n)
      /\ \A p \in buffer'[w] : Apt(e, p)
  BY <1>1, <1>3, <1>4, <1>5 DEF MatchOf
<1>7. MatchOf(w)'
  BY <1>3, <1>4, <1>6, MatchNext
<1>8. QED
  BY <1>1, <1>3, <1>7, MatchAssemble

\* When every frame of the chunk is there, zip pairs a path with a later frame only after
\* one that could not be read.
LEMMA ZippedApt ==
  ASSUME BaseInv, NEW w \in Workers, pc[w] = "fetch", got[w] = ChunkOf(event[w], part[w]), NEW p \in Zipped(w)
  PROVE  Apt(event[w], p)
<1>1. PICK e, n : e = event[w] /\ n = part[w]
  OBVIOUS
<1>2. /\ e \in Named /\ n <= LastChunk(e) /\ n \in 0 .. F - 1
  BY <1>1 DEF BaseInv, WorkerInv, AtWork, WorkTypes
<1>3. PICK C : C = ChunkOf(e, n)
  OBVIOUS
<1>4. PICK E : E = {f \in C : <<e, f>> \notin Unreadable}
  OBVIOUS
<1>5. Encoded(w) = E
  BY <1>1, <1>3, <1>4 DEF Encoded
<1>6. p \in C \X E /\ Rank(p[1], C) = Rank(p[2], E)
  BY <1>1, <1>3, <1>5 DEF Zipped
<1>7. IsFiniteSet(C) /\ C \subseteq Nat /\ E \subseteq C /\ C \subseteq Frames
  <2>1. Listed(e) \subseteq Frames /\ C \subseteq Listed(e)
    BY <1>2, <1>3, ChunkParts
  <2>2. C \subseteq Frames /\ Frames \subseteq Nat
    BY <2>1 DEF Frames
  <2>3. QED
    BY <1>4, <2>2, FramesFinite, NoMoreCounted
<1>8. CASE p[1] = p[2]
  BY <1>8 DEF Apt
<1>9. CASE p[1] # p[2]
  <2>1. p[1] \in C /\ p[2] \in E
    BY <1>6
  <2>2. p[1] < p[2] /\ \E f \in C \ E : f < p[2]
    <3>1. PICK a \in C, b \in E : a = p[1] /\ b = p[2]
      BY <2>1
    <3>2. Rank(a, C) = Rank(b, E) /\ a # b
      BY <1>6, <1>9, <3>1
    <3>3. a < b /\ \E f \in C \ E : f < b
      BY <1>7, <3>2, RankPairs
    <3>4. QED
      BY <3>1, <3>3
  <2>3. PICK f \in C \ E : f < p[2]
    BY <2>2
  <2>4. PICK u : u = <<e, f>>
    OBVIOUS
  <2>5. u \in Unreadable /\ u[1] = e /\ u[2] = f
    BY <1>4, <2>3, <2>4
  <2>6. n \in 0 .. LastChunk(e)
    <3>1. LastChunk(e) \in 0 .. F - 1
      BY <1>2, ChunkParts
    <3>2. QED
      BY <1>2, <3>1, UploadAssumption DEF UploadAssumption
  <2>7. {p[1], p[2], u[2]} \subseteq ChunkOf(e, n)
    BY <1>3, <1>7, <2>1, <2>3, <2>5
  <2>8. Apt(e, p)
    BY <2>2, <2>3, <2>5, <2>6, <2>7 DEF Apt
  <2>9. QED
    BY <1>1, <2>8
<1>10. QED
  BY <1>8, <1>9

LEMMA EncodeMatch ==
  ASSUME BaseInv, MatchInv, missed = 0, NEW w \in Workers, Encode(w)
  PROVE  MatchInv'
<1>1. (\A v \in Workers \ {w} : Kept(v)) /\ WorkTypes /\ WorkerInv(w) /\ MatchOf(w)
  BY OthersKept DEF Work, BaseInv, MatchInv
<1>2. /\ pc[w] = "fetch" /\ left[w] = {} /\ flight[w] = {}
      /\ UNCHANGED stored /\ UNCHANGED rows /\ UNCHANGED <<minio, event, flight>>
      /\ \/ Goto(w, "fail") /\ UNCHANGED buffer
         \/ \E B \in SUBSET Zipped(w) :
              /\ buffer' = [buffer EXCEPT ![w] = buffer[w] \cup B]
              /\ \/ Goto(w, "insert") \/ Goto(w, "ack")
                 \/ StartChunk(w, event[w], part[w] + 1) /\ UNCHANGED pc
  BY EncodeMoves DEF jobs
<1>3. minio'[w] = Closed /\ got[w] = ChunkOf(event[w], part[w])
  BY <1>1, <1>2 DEF MatchOf
<1>4. PICK e, n : e = event[w] /\ n = part'[w]
  OBVIOUS
<1>5. \A p \in buffer'[w] : Apt(e, p)
  <2>1. \A p \in buffer[w] : Apt(event[w], p)
    BY <1>1 DEF MatchOf
  <2>2. \A p \in Zipped(w) : Apt(event[w], p)
    BY <1>2, <1>3, ZippedApt
  <2>3. buffer'[w] \subseteq buffer[w] \cup Zipped(w)
    BY <1>1, <1>2 DEF WorkTypes
  <2>4. QED
    BY <1>4, <2>1, <2>2, <2>3
<1>6. pc'[w] = "fetch" => left'[w] \cup flight'[w] \cup got'[w] = ChunkOf(e, n)
  <2>1. CASE Goto(w, "fail") \/ Goto(w, "insert") \/ Goto(w, "ack")
    <3>1. pc'[w] # "fetch"
      BY <1>1, <2>1 DEF WorkTypes, Goto
    <3>2. QED
      BY <3>1
  <2>2. CASE StartChunk(w, event[w], part[w] + 1) /\ UNCHANGED pc
    <3>1. /\ part' = [part EXCEPT ![w] = part[w] + 1]
          /\ left' = [left EXCEPT ![w] = ChunkOf(event[w], part[w] + 1)] /\ got' = [got EXCEPT ![w] = {}]
      BY <2>2 DEF StartChunk
    <3>2. part'[w] = part[w] + 1 /\ left'[w] = ChunkOf(event[w], part[w] + 1) /\ got'[w] = {} /\ flight'[w] = {}
      BY <1>1, <1>2, <3>1 DEF WorkTypes
    <3>3. ChunkOf(e, n) = ChunkOf(event[w], part[w] + 1)
      BY <1>4, <3>2
    <3>4. QED
      BY <3>2, <3>3
  <2>3. QED
    BY <1>2, <2>1, <2>2
<1>7. event'[w] = e /\ part'[w] = n
  BY <1>2, <1>4
<1>8. MatchOf(w)'
  BY <1>2, <1>3, <1>5, <1>6, <1>7, MatchNext
<1>9. QED
  BY <1>1, <1>2, <1>8, MatchAssemble

LEMMA InsertMatch ==
  ASSUME BaseInv, MatchInv, missed = 0, NEW w \in Workers, Insert(w)
  PROVE  MatchInv'
<1>1. (\A v \in Workers \ {w} : Kept(v)) /\ WorkTypes /\ WorkerInv(w) /\ MatchOf(w)
  BY OthersKept DEF Work, BaseInv, MatchInv
<1>2. /\ pc[w] = "insert" /\ UNCHANGED stored /\ UNCHANGED <<minio, event, flight>>
      /\ AddRows(w) \/ UNCHANGED rows
      /\ \/ Goto(w, "fail") /\ UNCHANGED <<buffer, part>>
         \/ buffer' = [buffer EXCEPT ![w] = {}] /\ Goto(w, "ack") /\ UNCHANGED part
         \/ buffer' = [buffer EXCEPT ![w] = {}] /\ StartChunk(w, event[w], part[w] + 1)
  BY DEF Insert, InsertOk, InsertFails, jobs
<1>3. minio'[w] = Closed /\ flight[w] = {} /\ event[w] \in Named
  BY <1>1, <1>2 DEF MatchOf, WorkerInv, AtWork
<1>4. PICK e, n : e = event[w] /\ n = part'[w]
  OBVIOUS
<1>5. \A p \in buffer'[w] : Apt(e, p)
  <2>1. \A p \in buffer[w] : Apt(event[w], p)
    BY <1>1 DEF MatchOf
  <2>2. buffer'[w] \subseteq buffer[w]
    BY <1>1, <1>2 DEF WorkTypes
  <2>3. QED
    BY <1>4, <2>1, <2>2
<1>6. pc'[w] = "fetch" => left'[w] \cup flight'[w] \cup got'[w] = ChunkOf(e, n)
  <2>1. CASE Goto(w, "fail") \/ Goto(w, "ack")
    <3>1. pc'[w] # "fetch"
      BY <1>1, <2>1 DEF WorkTypes, Goto
    <3>2. QED
      BY <3>1
  <2>2. CASE StartChunk(w, event[w], part[w] + 1)
    <3>1. /\ part' = [part EXCEPT ![w] = part[w] + 1]
          /\ left' = [left EXCEPT ![w] = ChunkOf(event[w], part[w] + 1)] /\ got' = [got EXCEPT ![w] = {}]
      BY <2>2 DEF StartChunk
    <3>2. part'[w] = part[w] + 1 /\ left'[w] = ChunkOf(event[w], part[w] + 1) /\ got'[w] = {} /\ flight'[w] = {}
      BY <1>1, <1>2, <1>3, <3>1 DEF WorkTypes
    <3>3. ChunkOf(e, n) = ChunkOf(event[w], part[w] + 1)
      BY <1>4, <3>2
    <3>4. QED
      BY <3>2, <3>3
  <2>3. QED
    BY <1>2, <2>1, <2>2
<1>7. event'[w] = e /\ part'[w] = n
  BY <1>2, <1>4
<1>8. MatchOf(w)'
  BY <1>2, <1>3, <1>5, <1>6, <1>7, MatchNext
<1>9. CASE UNCHANGED rows
  BY <1>1, <1>2, <1>8, <1>9, MatchAssemble
<1>10. CASE AddRows(w)
  <2>1. \A s : Listed(s)' = Listed(s)
    BY <1>2 DEF Listed
  <2>2. ASSUME NEW v \in Workers PROVE MatchOf(v)'
    <3>1. CASE v # w
      <4>1. Kept(v) /\ MatchOf(v)
        BY <1>1, <3>1 DEF MatchInv
      <4>2. QED
        BY <2>1, <4>1, OthersMatch
    <3>2. QED
      BY <1>8, <3>1
  <2>3. ASSUME NEW r \in Rows, rows'[r] > 0 PROVE Apt(r[1], <<r[2], r[3]>>)'
    <3>1. PICK s, p : s = r[1] /\ p = <<r[2], r[3]>>
      OBVIOUS
    <3>2. rows'[r] = IF event[w] = r[1] /\ <<r[2], r[3]>> \in buffer[w] THEN rows[r] + 1 ELSE rows[r]
      BY <1>3, <1>10, RowsAdded
    <3>3. rows[r] > 0 \/ (event[w] = s /\ p \in buffer[w])
      BY <2>3, <3>1, <3>2
    <3>4. rows[r] > 0 => Apt(s, p)
      BY <3>1 DEF MatchInv
    <3>5. event[w] = s /\ p \in buffer[w] => Apt(s, p)
      BY <1>1 DEF MatchOf
    <3>6. Apt(s, p)'
      BY <2>1, <3>3, <3>4, <3>5, AptKept
    <3>7. QED
      BY <3>1, <3>6
  <2>4. QED
    BY <2>2, <2>3 DEF MatchInv
<1>11. QED
  BY <1>2, <1>9, <1>10

\* Uploads, the passing of time and nothing at all.
LEMMA OtherMatch ==
  ASSUME BaseInv, MatchInv, missed = 0, Extract \/ (\E s \in Segments : Age(s)) \/ UNCHANGED vars
  PROVE  MatchInv'
<1>1. UNCHANGED <<work, rows>>
  BY DEF Extract, Age, vars
<1>2. \A s \in Named : Listed(s)' = Listed(s)
  <2>1. CASE Extract
    <3>1. \A s \in Segments : posted[s] = "stream" => Listed(s)' = Listed(s)
      BY <2>1, UploadStep DEF Extract, BaseInv
    <3>2. QED
      BY <3>1 DEF Named
  <2>2. CASE ~Extract
    <3>1. UNCHANGED stored
      BY <2>2 DEF Age, vars, uploadVars, jobs
    <3>2. QED
      BY <3>1 DEF Listed
  <2>3. QED
    BY <2>1, <2>2
<1>3. ASSUME NEW v \in Workers PROVE MatchOf(v)'
  <2>1. Kept(v) /\ MatchOf(v)
    BY <1>1 DEF Kept, work, MatchInv
  <2>2. QED
    BY <1>2, <2>1, OthersMatch
<1>4. ASSUME NEW r \in Rows, rows'[r] > 0 PROVE Apt(r[1], <<r[2], r[3]>>)'
  <2>1. PICK s : s = r[1]
    OBVIOUS
  <2>2. Apt(s, <<r[2], r[3]>>) /\ s \in Named
    BY <1>1, <1>4, <2>1 DEF MatchInv, BaseInv, StreamInv
  <2>3. Listed(s)' = Listed(s)
    BY <1>2, <2>2
  <2>4. Apt(s, <<r[2], r[3]>>)'
    BY <2>2, <2>3, AptKept
  <2>5. QED
    BY <2>1, <2>4
<1>5. QED
  BY <1>3, <1>4 DEF MatchInv

LEMMA InitMatch == Init => MatchInv
<1> SUFFICES ASSUME Init PROVE MatchInv
  OBVIOUS
<1>1. /\ rows = [r \in Rows |-> 0]
      /\ \A w \in Workers : minio[w] = Closed /\ pc[w] = "loop" /\ buffer[w] = {}
  BY DEF Init, Rows
<1>2. \A r \in Rows : ~(rows[r] > 0)
  BY <1>1
<1>3. \A w \in Workers : MatchOf(w)
  BY <1>1 DEF MatchOf
<1>4. QED
  BY <1>2, <1>3 DEF MatchInv

LEMMA NextMatch ==
  ASSUME BaseInv, MatchInv, [Next]_vars
  PROVE  MatchInv'
<1>1. CASE missed' # 0
  BY <1>1 DEF MatchInv
<1>2. CASE missed' = 0
  <2>1. missed = 0
    BY <1>2, Growing
  <2>2. ASSUME NEW w \in Workers, Work(w) \/ Crash(w) \/ Recover(w) PROVE MatchInv'
    BY <1>2, <2>1, <2>2, PlainMatch, TakeMatch, DownloadMatch, EncodeMatch, InsertMatch DEF Work
  <2>3. QED
    BY <2>1, <2>2, OtherMatch DEF Next
<1>3. QED
  BY <1>1, <1>2

LEMMA MatchGives == MatchInv => RowsMatch
<1> SUFFICES ASSUME MatchInv, missed = 0, NEW s \in Segments, NEW p \in Misfiled(s)
             PROVE  /\ p[1] < p[2]
                    /\ \E u \in Unreadable :
                         /\ u[1] = s /\ u[2] < p[2]
                         /\ \E n \in 0 .. LastChunk(s) : {p[1], p[2], u[2]} \subseteq ChunkOf(s, n)
  BY DEF RowsMatch
<1>1. PICK r : r = <<s, p[1], p[2]>>
  OBVIOUS
<1>2. /\ p \in Frames \X Frames /\ p[1] # p[2] /\ rows[r] > 0
      /\ r \in Rows /\ r[1] = s /\ <<r[2], r[3]>> = p
  BY <1>1 DEF Misfiled, Rows
<1>3. Apt(s, p)
  BY <1>2 DEF MatchInv
<1>4. QED
  BY <1>2, <1>3 DEF Apt

--------------------------------------------------------------------------------
(* What is lost, and what that costs.                                           *)

\* Numbers of a set have different places in it.
LEMMA RanksDiffer ==
  ASSUME NEW C, IsFiniteSet(C), C \subseteq Nat
  PROVE  \A a, b \in C : Rank(a, C) = Rank(b, C) => a = b
<1>1. ASSUME NEW a \in C PROVE Rank(a, C) \in Nat /\ \A b \in C : a < b => Rank(a, C) < Rank(b, C)
  <2>1. Rank(a, C) \in 1 .. Cardinality(C) /\ Cardinality(C) \in Nat /\ \A b \in C : a < b => Rank(a, C) < Rank(b, C)
    BY Ranks
  <2>2. QED
    BY <2>1
<1>2. \A a, b \in C : a \in Nat /\ b \in Nat
  OBVIOUS
<1>3. QED
  BY <1>1, <1>2

\* Each place in a set of numbers is some member's.
LEMMA RankedOnto ==
  ASSUME NEW C, IsFiniteSet(C), C \subseteq Nat, NEW k \in 1 .. Cardinality(C)
  PROVE  \E f \in C : Rank(f, C) = k
<1>1. PICK S : S = 1 .. Cardinality(C)
  OBVIOUS
<1>2. Cardinality(C) \in Nat
  BY FS_CardinalityType
<1>3. IsFiniteSet(S) /\ Cardinality(S) = Cardinality(C)
  BY <1>1, <1>2, UpToFinite
<1>4. PICK h : h = [f \in C |-> Rank(f, C)]
  OBVIOUS
<1>5. ASSUME NEW f \in C PROVE h[f] \in S
  <2>1. Rank(f, C) \in S
    BY <1>1, Ranks
  <2>2. QED
    BY <1>4, <2>1
<1>6. \A a, b \in C : h[a] = h[b] => a = b
  BY <1>4, RanksDiffer
<1>7. h \in Injection(C, S)
  BY <1>4, <1>5, <1>6 DEF Injection, IsInjective
<1>8. h \in Surjection(C, S)
  BY <1>3, <1>7, FS_Injection
<1>9. \E f \in C : h[f] = k
  BY <1>1, <1>8 DEF Surjection
<1>10. QED
  BY <1>4, <1>9

\* Those of a set without a partner of the same place in a part of it are no more than the
\* part leaves out.
LEMMA Unpartnered ==
  ASSUME NEW C, IsFiniteSet(C), C \subseteq Nat, NEW E, E \subseteq C,
         NEW U, U = {f \in C : \A g \in E : Rank(f, C) # Rank(g, E)}
  PROVE  /\ IsFiniteSet(U) /\ IsFiniteSet(E)
         /\ Cardinality(U) \in Nat /\ Cardinality(E) \in Nat /\ Cardinality(C) \in Nat
         /\ Cardinality(U) + Cardinality(E) <= Cardinality(C)
<1>1. U \subseteq C
  OBVIOUS
<1>2. /\ IsFiniteSet(U) /\ IsFiniteSet(E) /\ Cardinality(U) \in Nat /\ Cardinality(E) \in Nat
      /\ Cardinality(C) \in Nat /\ Cardinality(E) <= Cardinality(C)
  BY <1>1, NoMoreCounted
<1>3. ASSUME NEW g \in E PROVE \E f \in C : Rank(f, C) = Rank(g, E)
  <2>1. E \subseteq Nat
    OBVIOUS
  <2>2. Rank(g, E) \in 1 .. Cardinality(E)
    BY <1>2, <2>1, Ranks
  <2>3. PICK k : k = Rank(g, E)
    OBVIOUS
  <2>4. k \in 1 .. Cardinality(C)
    BY <1>2, <2>2, <2>3
  <2>5. \E f \in C : Rank(f, C) = k
    BY <2>4, RankedOnto
  <2>6. QED
    BY <2>3, <2>5
<1>4. PICK h : h = [g \in E |-> CHOOSE f \in C : Rank(f, C) = Rank(g, E)]
  OBVIOUS
<1>5. ASSUME NEW g \in E PROVE h[g] \in C /\ Rank(h[g], C) = Rank(g, E)
  BY <1>3, <1>4
<1>6. \A g \in E : h[g] \in C \ U
  BY <1>5
<1>7. \A a, b \in E : h[a] = h[b] => a = b
  <2>1. IsFiniteSet(E) /\ E \subseteq Nat
    BY <1>2
  <2>2. \A a, b \in E : Rank(a, E) = Rank(b, E) => a = b
    BY <2>1, RanksDiffer
  <2>3. QED
    BY <1>5, <2>2
<1>8. h \in Injection(E, C \ U)
  BY <1>4, <1>6, <1>7 DEF Injection, IsInjective
<1>9. IsFiniteSet(C \ U) /\ Cardinality(C \ U) = Cardinality(C) - Cardinality(C \cap U)
  BY FS_Difference
<1>10. C \cap U = U
  BY <1>1
<1>11. Cardinality(E) <= Cardinality(C \ U)
  BY <1>8, <1>9, FS_Injection
<1>12. Cardinality(C \ U) = Cardinality(C) - Cardinality(U)
  BY <1>9, <1>10, Zenon
<1>13. QED
  BY <1>2, <1>11, <1>12

\* Two sets together, when nothing is in both; and a part taken away.
LEMMA TogetherCounted ==
  ASSUME NEW S, NEW T, IsFiniteSet(S), IsFiniteSet(T)
  PROVE  /\ IsFiniteSet(S \cup T) /\ Cardinality(S) \in Nat /\ Cardinality(T) \in Nat /\ Cardinality(S \cup T) \in Nat
         /\ Cardinality(S \cup T) <= Cardinality(S) + Cardinality(T)
         /\ S \cap T = {} => Cardinality(S \cup T) = Cardinality(S) + Cardinality(T)
<1>1. IsFiniteSet(S \cup T) /\ Cardinality(S \cup T) = Cardinality(S) + Cardinality(T) - Cardinality(S \cap T)
  BY FS_Union
<1>2. IsFiniteSet(S \cap T)
  BY NoMoreCounted
<1>3. Cardinality(S) \in Nat /\ Cardinality(T) \in Nat /\ Cardinality(S \cap T) \in Nat /\ Cardinality(S \cup T) \in Nat
  BY <1>1, <1>2, FS_CardinalityType
<1>4. S \cap T = {} => Cardinality(S \cap T) = 0
  BY FS_EmptySet
<1>5. QED
  BY <1>1, <1>3, <1>4

\* The unreadable frames of an event, of which no set of its frames has more.
LEMMA BlanksFinite ==
  ASSUME NEW s, NEW S
  PROVE  /\ IsFiniteSet({u \in Unreadable : u[1] = s}) /\ Cardinality({u \in Unreadable : u[1] = s}) \in Nat
         /\ Cardinality(Blank(s, S)) <= Cardinality({u \in Unreadable : u[1] = s})
<1>1. PICK G, T : G = {u \in Unreadable : u[1] = s} /\ T = Blank(s, S)
  OBVIOUS
<1>2. G \subseteq Segments \X Frames
  BY <1>1, IndexingAssumption DEF IndexingAssumption
<1>3. IsFiniteSet(G)
  BY <1>2, FramesFinite, NoMoreCounted
<1>4. Cardinality(G) \in Nat
  BY <1>3, FS_CardinalityType
<1>5. PICK h : h = [f \in T |-> <<s, f>>]
  OBVIOUS
<1>6. \A f \in T : h[f] \in G
  BY <1>1, <1>5 DEF Blank
<1>7. \A a, b \in T : h[a] = h[b] => a = b
  BY <1>5
<1>8. h \in Injection(T, G)
  BY <1>5, <1>6, <1>7 DEF Injection, IsInjective
<1>9. Cardinality(T) <= Cardinality(G)
  BY <1>3, <1>8, FS_Injection
<1>10. QED
  BY <1>1, <1>3, <1>4, <1>9

LEMMA LossCounts ==
  ASSUME NEW s, NEW m, NEW B, NEW n, NEW p, NEW H
  PROVE  /\ IsFiniteSet(Unseen(s, m, B)) /\ Cardinality(Unseen(s, m, B)) \in Nat
         /\ IsFiniteSet(Unfetched(s, n, p, H)) /\ Cardinality(Unfetched(s, n, p, H)) \in Nat
         /\ IsFiniteSet(Before(s, m)) /\ Before(s, m) \subseteq Listed(s) /\ Listed(s) \subseteq Frames
         /\ IsFiniteSet(Blank(s, Before(s, m))) /\ Cardinality(Blank(s, Before(s, m))) \in Nat
         /\ IsFiniteSet(Missing(s)) /\ Cardinality(Missing(s)) \in Nat
<1>1. Listed(s) \subseteq Frames
  BY DEF Listed
<1>2. /\ Before(s, m) \subseteq Listed(s) /\ Unseen(s, m, B) \subseteq Frames /\ Before(s, m) \subseteq Frames
      /\ Blank(s, Before(s, m)) \subseteq Frames /\ Missing(s) \subseteq Frames
  BY <1>1 DEF Unseen, Before, Blank, Missing
<1>3. Unfetched(s, n, p, H) \subseteq Frames
  BY <1>1 DEF Unfetched, ChunkOf
<1>4. QED
  BY <1>1, <1>2, <1>3, FramesFinite, NoMoreCounted

\* What w is about after a step: U holds the frames unseen then.
LEMMA LossNext ==
  ASSUME NEW w, NEW e, NEW n, NEW p, NEW H, NEW B, NEW U, missed' \in Nat,
         event'[w] = e, part'[w] = n, pc'[w] = p, Held(w)' = H, buffer'[w] = B, Listed(e)' = Listed(e),
         faults' < Threshold /\ p \in Going =>
           /\ IsFiniteSet(U) /\ \A f \in Unseen(e, Upto(n, p), B) : f \in Indexed(e)' \/ f \in U
           /\ Cardinality(U) + Cardinality(Unfetched(e, n, p, H))
                <= missed' + Cardinality(Blank(e, Before(e, Upto(n, p)))),
         Indexed(e) \subseteq Indexed(e)'
  PROVE  LossOf(w)'
<1> SUFFICES ASSUME faults' < Threshold, p \in Going PROVE LossOf(w)'
  BY DEF LossOf
<1>1. /\ \A f : ChunkNo(e, f)' = ChunkNo(e, f)
      /\ \A k : ChunkOf(e, k)' = ChunkOf(e, k)
  BY ChunksKept
<1>2. PICK m : m = Upto(n, p)
  OBVIOUS
<1>3. Before(e, m)' = Before(e, m)
  BY <1>1 DEF Before
<1>4. Unseen(e, m, B)' \subseteq U
  BY <1>2, <1>3 DEF Unseen
<1>5. Unfetched(e, n, p, H)' = Unfetched(e, n, p, H)
  BY <1>1 DEF Unfetched
<1>6. Blank(e, Before(e, m))' = Blank(e, Before(e, m))
  BY <1>3 DEF Blank
<1>7. /\ Upto(part[w], pc[w])' = m /\ Listed(event[w])' = Listed(e)
  BY <1>2 DEF Upto, Listed
<1>8. Before(event[w], Upto(part[w], pc[w]))' = Before(e, m)
  <2>1. Before(event[w], Upto(part[w], pc[w]))' = Before(e, m)'
    BY <1>2, <1>7 DEF Before, ChunkNo, Rank, Upto, Listed
  <2>2. QED
    BY <1>3, <2>1
<1>9. Blank(event[w], Before(event[w], Upto(part[w], pc[w])))' = Blank(e, Before(e, m))
  BY <1>8 DEF Blank
<1>10. Unseen(event[w], Upto(part[w], pc[w]), buffer[w])' = Unseen(e, m, B)'
  <2>1. Indexed(event[w])' = Indexed(e)'
    BY DEF Indexed
  <2>2. QED
    BY <1>3, <1>8, <2>1 DEF Unseen
<1>11. Unfetched(event[w], part[w], pc[w], Held(w))' = Unfetched(e, n, p, H)
  <2>1. ChunkOf(event[w], part[w])' = ChunkOf(e, n)'
    BY <1>7 DEF ChunkOf, ChunkNo, Rank, Listed
  <2>2. QED
    BY <1>1, <2>1 DEF Unfetched
<1>12. PICK V : V = Unseen(e, m, B)'
  OBVIOUS
<1>13. Cardinality(V) <= Cardinality(U) /\ Cardinality(V) \in Nat /\ Cardinality(U) \in Nat
  BY <1>4, <1>12, NoMoreCounted
<1>14. Cardinality(Unfetched(e, n, p, H)) \in Nat /\ Cardinality(Blank(e, Before(e, m))) \in Nat
  BY LossCounts
<1>15. Cardinality(U) + Cardinality(Unfetched(e, n, p, H)) <= missed' + Cardinality(Blank(e, Before(e, m)))
  BY <1>2
<1>16. Cardinality(V) + Cardinality(Unfetched(e, n, p, H)) <= missed' + Cardinality(Blank(e, Before(e, m)))
  BY <1>13, <1>14, <1>15
<1>17. QED
  BY <1>9, <1>10, <1>11, <1>12, <1>16 DEF LossOf

\* What every step keeps of what the losses are counted from.
Lasting ==
  /\ missed \in Nat /\ missed' \in Nat /\ missed <= missed' /\ (faults' < Threshold => faults < Threshold)
  /\ \A s \in Named : Listed(s)' = Listed(s) /\ Indexed(s) \subseteq Indexed(s)'

LEMMA GrowingLasts == BaseInv /\ [Next]_vars => Lasting
<1> SUFFICES ASSUME BaseInv, [Next]_vars PROVE Lasting
  OBVIOUS
<1>1. /\ missed \in Nat /\ missed' \in Nat /\ missed <= missed' /\ faults \in Nat /\ faults' \in Nat /\ faults <= faults'
      /\ \A s \in Named : Listed(s)' = Listed(s) /\ Indexed(s) \subseteq Indexed(s)'
  BY Growing
<1>2. Threshold \in Nat
  BY BreakerAssumption DEF BreakerAssumption
<1>3. QED
  BY <1>1, <1>2 DEF Lasting

\* A worker that has the frames, the place and the pairs that it had.
LEMMA SameLoss ==
  ASSUME BaseInv, NEW v \in Workers, LossOf(v),
         pc'[v] = pc[v], event'[v] = event[v], part'[v] = part[v], Held(v)' = Held(v), buffer'[v] = buffer[v], Lasting
  PROVE  LossOf(v)'
<1>1. WorkerInv(v)
  BY DEF BaseInv
<1>2. CASE pc[v] \notin Going
  BY <1>2 DEF LossOf
<1>3. CASE pc[v] \in Going
  <2>1. PICK e, n, p, H, B : e = event[v] /\ n = part[v] /\ p = pc[v] /\ H = Held(v) /\ B = buffer[v]
    OBVIOUS
  <2>2. e \in Named
    BY <1>1, <1>3, <2>1 DEF WorkerInv, Going, AtWork
  <2>3. PICK m, U : m = Upto(n, p) /\ U = Unseen(e, m, B)
    OBVIOUS
  <2>4. /\ IsFiniteSet(U) /\ Cardinality(U) \in Nat /\ Cardinality(Unfetched(e, n, p, H)) \in Nat
        /\ Cardinality(Blank(e, Before(e, m))) \in Nat
    BY <2>3, LossCounts
  <2>5. faults < Threshold => Cardinality(U) + Cardinality(Unfetched(e, n, p, H))
                                <= missed + Cardinality(Blank(e, Before(e, m)))
    BY <1>3, <2>1, <2>3 DEF LossOf
  <2>6. faults' < Threshold => Cardinality(U) + Cardinality(Unfetched(e, n, p, H))
                                <= missed' + Cardinality(Blank(e, Before(e, m)))
    BY <2>4, <2>5 DEF Lasting
  <2>7. event'[v] = e /\ part'[v] = n /\ pc'[v] = p /\ Held(v)' = H /\ buffer'[v] = B
    BY <2>1
  <2>8. Listed(e)' = Listed(e) /\ Indexed(e) \subseteq Indexed(e)'
    BY <2>2 DEF Lasting
  <2>9. \A f \in Unseen(e, Upto(n, p), B) : f \in Indexed(e)' \/ f \in U
    BY <2>3
  <2>10. faults' < Threshold /\ p \in Going =>
           /\ IsFiniteSet(U) /\ \A f \in Unseen(e, Upto(n, p), B) : f \in Indexed(e)' \/ f \in U
           /\ Cardinality(U) + Cardinality(Unfetched(e, n, p, H))
                <= missed' + Cardinality(Blank(e, Before(e, Upto(n, p))))
    BY <2>3, <2>4, <2>6, <2>9
  <2>11. missed' \in Nat
    BY DEF Lasting
  <2>12. QED
    BY <2>7, <2>8, <2>10, <2>11, LossNext
<1>4. QED
  BY <1>2, <1>3

\* An event that was settled before.
LEMMA GoneKept ==
  ASSUME BaseInv, NEW s \in Segments, GoneOf(s), s \in acked' \ dead' => s \in acked \ dead,
         Lasting
  PROVE  GoneOf(s)'
<1> SUFFICES ASSUME faults' < Threshold, s \in acked' \ dead' PROVE GoneOf(s)'
  BY DEF GoneOf
<1>1. s \in acked \ dead /\ s \in Named
  BY DEF BaseInv, StreamInv
<1>2. PICK M, N, G : M = Missing(s) /\ N = Missing(s)' /\ G = {u \in Unreadable : u[1] = s}
  OBVIOUS
<1>3. N \subseteq M
  <2>1. Listed(s)' = Listed(s) /\ Indexed(s) \subseteq Indexed(s)'
    BY <1>1 DEF Lasting
  <2>2. QED
    BY <1>2, <2>1 DEF Missing
<1>4. IsFiniteSet(M)
  BY <1>2, LossCounts
<1>5. Cardinality(N) <= Cardinality(M) /\ Cardinality(N) \in Nat /\ Cardinality(M) \in Nat
  BY <1>3, <1>4, NoMoreCounted
<1>6. Cardinality(M) <= missed + Cardinality(G)
  BY <1>1, <1>2 DEF GoneOf, Lasting
<1>7. Cardinality(G) \in Nat
  BY <1>2, BlanksFinite
<1>8. Cardinality(N) <= missed' + Cardinality(G)
  BY <1>5, <1>6, <1>7 DEF Lasting
<1>9. QED
  BY <1>2, <1>8 DEF GoneOf

\* A step of w loses nothing but what it may.
LEMMA LossAssemble ==
  ASSUME BaseInv, LossInv, [Next]_vars, NEW w \in Workers, Work(w) \/ Crash(w) \/ Recover(w), LossOf(w)',
         \A s \in Segments : GoneOf(s)' \/ (s \in acked' \ dead' => s \in acked \ dead)
  PROVE  LossInv'
<1>1. Lasting
  BY GrowingLasts
<1>2. ASSUME NEW v \in Workers PROVE LossOf(v)'
  <2>1. CASE v = w
    BY <2>1
  <2>2. CASE v # w
    <3>1. Kept(v)
      BY <2>2, OthersKept
    <3>2. /\ LossOf(v) /\ Held(v)' = Held(v)
          /\ pc'[v] = pc[v] /\ event'[v] = event[v] /\ part'[v] = part[v] /\ buffer'[v] = buffer[v]
      BY <3>1 DEF Kept, Held, LossInv
    <3>3. QED
      BY <1>1, <3>2, SameLoss
  <2>3. QED
    BY <2>1, <2>2
<1>3. ASSUME NEW s \in Segments PROVE GoneOf(s)'
  <2>1. CASE GoneOf(s)'
    BY <2>1
  <2>2. CASE s \in acked' \ dead' => s \in acked \ dead
    <3>1. GoneOf(s)
      BY DEF LossInv
    <3>2. QED
      BY <1>1, <2>2, <3>1, GoneKept
  <2>3. QED
    BY <2>1, <2>2
<1>4. QED
  BY <1>2, <1>3 DEF LossInv

\* Steps after which w is not on its way through an event.
LEMMA AwayLoss ==
  ASSUME BaseInv, LossInv, [Next]_vars, NEW w \in Workers,
         Reclaim(w) \/ Read(w) \/ Fail(w) \/ Crash(w) \/ Recover(w)
  PROVE  LossInv'
<1>1. Work(w) \/ Crash(w) \/ Recover(w)
  BY DEF Work
<1>2. WorkTypes
  BY DEF BaseInv
<1>3. acked' \ dead' \subseteq acked \ dead
  <2>1. CASE Fail(w)
    BY <2>1, FailEnds DEF XAck
  <2>2. CASE Reclaim(w) \/ Read(w)
    BY <2>2 DEF Reclaim, Read, Deliver, stream
  <2>3. CASE Crash(w) \/ Recover(w)
    BY <2>3 DEF Crash, Recover, stream
  <2>4. QED
    BY <2>1, <2>2, <2>3
<1>4. LossOf(w)'
  <2>1. CASE Recover(w)
    <3>1. UNCHANGED <<pc, event, part, left, flight, got, buffer>>
      BY <2>1 DEF Recover
    <3>2. /\ LossOf(w) /\ Held(w)' = Held(w)
          /\ pc'[w] = pc[w] /\ event'[w] = event[w] /\ part'[w] = part[w] /\ buffer'[w] = buffer[w]
      BY <3>1 DEF Held, LossInv
    <3>3. Lasting
      BY GrowingLasts
    <3>4. QED
      BY <3>2, <3>3, SameLoss
  <2>2. CASE ~Recover(w)
    <3>1. \E p \in {"loop", "read", "next"} : Goto(w, p)
      <4>1. CASE Fail(w)
        BY <4>1, FailEnds
      <4>2. CASE Read(w)
        BY <4>2 DEF Read
      <4>3. CASE Reclaim(w) \/ Crash(w)
        BY <4>3 DEF Reclaim, Crash
      <4>4. QED
        BY <2>2, <4>1, <4>2, <4>3
    <3>2. pc'[w] \notin Going
      BY <1>2, <3>1 DEF WorkTypes, Goto, Going
    <3>3. QED
      BY <3>2 DEF LossOf
  <2>3. QED
    BY <2>1, <2>2
<1>5. QED
  BY <1>1, <1>3, <1>4, LossAssemble

LEMMA TakeLoss ==
  ASSUME BaseInv, LossInv, [Next]_vars, NEW w \in Workers, Take(w)
  PROVE  LossInv'
<1>1. Work(w) /\ WorkTypes /\ WorkerInv(w) /\ Lasting
  BY GrowingLasts DEF Work, BaseInv
<1>2. /\ UNCHANGED <<stored, rows, buffer, acked, dead>> /\ pc[w] = "next"
      /\ \/ \E p \in {"loop", "fail"} : pc' = [pc EXCEPT ![w] = p]
         \/ \E s \in todo[w] : /\ event' = [event EXCEPT ![w] = s] /\ StartChunk(w, s, 0)
                               /\ pc' = [pc EXCEPT ![w] = "fetch"]
  BY DEF Take, jobs, stream, Goto
<1>3. LossOf(w)'
  <2>1. CASE \E p \in {"loop", "fail"} : pc' = [pc EXCEPT ![w] = p]
    BY <1>1, <2>1 DEF WorkTypes, LossOf, Going
  <2>2. ASSUME NEW s \in todo[w], event' = [event EXCEPT ![w] = s], StartChunk(w, s, 0), pc' = [pc EXCEPT ![w] = "fetch"]
        PROVE  LossOf(w)'
    <3>1. /\ event'[w] = s /\ part'[w] = 0 /\ pc'[w] = "fetch" /\ buffer'[w] = {} /\ ChunkOf(s, 0) = left'[w]
      BY <1>1, <1>2, <2>2 DEF WorkTypes, StartChunk, WorkerInv, AtWork
    <3>2. PICK n, p, H, B, U : n = 0 /\ p = "fetch" /\ H = Held(w)' /\ B = {} /\ U = {}
      OBVIOUS
    <3>3. s \in Segments /\ Listed(s) # {}
      BY <1>1, ChunkParts DEF WorkerInv, Named
    <3>4. \A f \in Listed(s) : ~(ChunkNo(s, f) < 0)
      <4>1. \A f \in Listed(s) : ChunkNo(s, f) \in 0 .. LastChunk(s)
        BY <3>3, Chunks
      <4>2. QED
        BY <4>1
    <3>5. Before(s, Upto(n, p)) = {}
      BY <3>2, <3>4 DEF Before, Upto
    <3>6. Unseen(s, Upto(n, p), B) = {}
      BY <3>5 DEF Unseen
    <3>7. Unfetched(s, n, p, H) = {}
      BY <3>1, <3>2 DEF Unfetched, Held
    <3>8. /\ IsFiniteSet(U) /\ Cardinality(U) = 0 /\ Cardinality(Unfetched(s, n, p, H)) = 0
          /\ Cardinality(Blank(s, Before(s, Upto(n, p)))) \in Nat
      BY <3>2, <3>7, FS_EmptySet, LossCounts
    <3>9. missed' \in Nat /\ Listed(s)' = Listed(s) /\ Indexed(s) \subseteq Indexed(s)'
      BY <1>1, <1>2 DEF Lasting, Listed, Indexed
    <3>10. Cardinality(U) + Cardinality(Unfetched(s, n, p, H)) <= missed' + Cardinality(Blank(s, Before(s, Upto(n, p))))
      BY <3>8, <3>9
    <3>11. event'[w] = s /\ part'[w] = n /\ pc'[w] = p /\ Held(w)' = H /\ buffer'[w] = B
      BY <3>1, <3>2
    <3>12. faults' < Threshold /\ p \in Going =>
            /\ IsFiniteSet(U) /\ \A f \in Unseen(s, Upto(n, p), B) : f \in Indexed(s)' \/ f \in U
            /\ Cardinality(U) + Cardinality(Unfetched(s, n, p, H))
                 <= missed' + Cardinality(Blank(s, Before(s, Upto(n, p))))
      BY <3>6, <3>8, <3>10
    <3>13. QED
      BY <3>9, <3>11, <3>12, LossNext
  <2>3. QED
    BY <1>2, <2>1, <2>2
<1>4. QED
  BY <1>1, <1>2, <1>3, LossAssemble

\* A download is let through as long as no breaker had reason to open.
LEMMA LaunchLoss ==
  ASSUME BaseInv, LossInv, [Next]_vars, NEW w \in Workers, Launch(w)
  PROVE  LossInv'
<1>1. Work(w) /\ WorkTypes /\ WorkerInv(w) /\ Lasting
  BY GrowingLasts DEF Work, BaseInv
<1>2. UNCHANGED <<pc, event, part, got, buffer, acked, dead>>
  BY DEF Launch, stream
<1>3. LossOf(w)'
  <2>1. CASE ~(faults' < Threshold)
    BY <2>1 DEF LossOf
  <2>2. CASE faults' < Threshold
    <3>1. faults < Threshold /\ faults \in Nat
      BY <1>1, <2>2, Growing DEF Lasting
    <3>2. Sound(minio[w], faults)
      BY <1>1 DEF WorkerInv
    <3>3. Admits(minio[w])
      BY <3>1, <3>2, BreakerSteps
    <3>4. \E f \in left[w] : left' = [left EXCEPT ![w] = left[w] \ {f}] /\ flight' = [flight EXCEPT ![w] = flight[w] \cup {f}]
      BY <3>3 DEF Launch
    <3>5. left'[w] \cup flight'[w] = left[w] \cup flight[w]
      BY <1>1, <3>4 DEF WorkTypes
    <3>6. /\ LossOf(w) /\ Held(w)' = Held(w)
          /\ pc'[w] = pc[w] /\ event'[w] = event[w] /\ part'[w] = part[w] /\ buffer'[w] = buffer[w]
      BY <1>2, <3>5 DEF Held, LossInv
    <3>7. QED
      BY <1>1, <3>6, SameLoss
  <2>3. QED
    BY <2>1, <2>2
<1>4. QED
  BY <1>1, <1>2, <1>3, LossAssemble

LEMMA LandLoss ==
  ASSUME BaseInv, LossInv, [Next]_vars, NEW w \in Workers, Land(w)
  PROVE  LossInv'
<1>1. Work(w) /\ WorkTypes /\ WorkerInv(w) /\ Lasting /\ LossOf(w)
  BY GrowingLasts DEF Work, BaseInv, LossInv
<1>2. UNCHANGED <<pc, event, part, left, buffer, acked, dead, stored, rows>>
  BY DEF Land, stream, jobs
<1>3. PICK f \in flight[w] :
        /\ flight' = [flight EXCEPT ![w] = flight[w] \ {f}]
        /\ \/ got' = [got EXCEPT ![w] = got[w] \cup {f}]
           \/ missed' = missed + 1 /\ got' = got
  BY DEF Land
<1>4. LossOf(w)'
  <2>1. CASE got' = [got EXCEPT ![w] = got[w] \cup {f}]
    <3>1. left'[w] \cup flight'[w] \cup got'[w] = left[w] \cup flight[w] \cup got[w]
      BY <1>1, <1>2, <1>3, <2>1 DEF WorkTypes
    <3>2. /\ Held(w)' = Held(w)
          /\ pc'[w] = pc[w] /\ event'[w] = event[w] /\ part'[w] = part[w] /\ buffer'[w] = buffer[w]
      BY <1>2, <3>1 DEF Held
    <3>3. QED
      BY <1>1, <3>2, SameLoss
  <2>2. CASE missed' = missed + 1 /\ got' = got
    <3>1. PICK e, n, p, B, H, K : e = event[w] /\ n = part[w] /\ p = pc[w] /\ B = buffer[w] /\ H = Held(w) /\ K = Held(w)'
      OBVIOUS
    <3>2. PICK U, L, M, N : /\ U = Unseen(e, Upto(n, p), B) /\ L = Unfetched(e, n, p, H) /\ M = Unfetched(e, n, p, K)
                            /\ N = Cardinality(Blank(e, Before(e, Upto(n, p))))
      OBVIOUS
    <3>3. H \subseteq K \cup {f}
      BY <1>1, <1>2, <1>3, <2>2, <3>1 DEF WorkTypes, Held
    <3>4. M \subseteq L \cup {f}
      BY <3>2, <3>3 DEF Unfetched
    <3>5. IsFiniteSet(U) /\ Cardinality(U) \in Nat /\ IsFiniteSet(L) /\ N \in Nat
      BY <3>2, LossCounts
    <3>6. Cardinality(M) <= Cardinality(L) + 1 /\ Cardinality(M) \in Nat /\ Cardinality(L) \in Nat
      BY <3>4, <3>5, OneMoreCounted
    <3>7. faults < Threshold /\ p \in Going => Cardinality(U) + Cardinality(L) <= missed + N
      BY <1>1, <3>1, <3>2 DEF LossOf
    <3>8. faults' < Threshold /\ p \in Going => Cardinality(U) + Cardinality(M) <= missed' + N
      BY <1>1, <2>2, <3>5, <3>6, <3>7 DEF Lasting
    <3>9. missed' \in Nat /\ Listed(e)' = Listed(e) /\ Indexed(e) \subseteq Indexed(e)'
      BY <1>1, <1>2 DEF Lasting, Listed, Indexed
    <3>10. event'[w] = e /\ part'[w] = n /\ pc'[w] = p /\ Held(w)' = K /\ buffer'[w] = B
      BY <1>2, <3>1
    <3>11. faults' < Threshold /\ p \in Going =>
            /\ IsFiniteSet(U) /\ \A g \in Unseen(e, Upto(n, p), B) : g \in Indexed(e)' \/ g \in U
            /\ Cardinality(U) + Cardinality(Unfetched(e, n, p, K))
                 <= missed' + Cardinality(Blank(e, Before(e, Upto(n, p))))
      BY <3>2, <3>5, <3>8
    <3>12. QED
      BY <3>9, <3>10, <3>11, LossNext
  <2>3. QED
    BY <1>3, <2>1, <2>2
<1>5. QED
  BY <1>1, <1>2, <1>4, LossAssemble

\* What is acknowledged has been gone through to its end.
LEMMA AckLoss ==
  ASSUME BaseInv, LossInv, [Next]_vars, NEW w \in Workers, Ack(w)
  PROVE  LossInv'
<1>1. Work(w) /\ WorkTypes /\ WorkerInv(w) /\ Lasting /\ LossOf(w)
  BY GrowingLasts DEF Work, BaseInv, LossInv
<1>2. /\ UNCHANGED <<stored, rows, dead, missed>> /\ pc[w] = "ack"
      /\ \/ acked' = acked \cup {event[w]} /\ Goto(w, "next")
         \/ UNCHANGED acked /\ Goto(w, "fail")
  BY DEF Ack, XAck, jobs, history
<1>3. LossOf(w)'
  BY <1>1, <1>2 DEF WorkTypes, Goto, LossOf, Going
<1>4. ASSUME NEW s \in Segments, event[w] = s PROVE GoneOf(s)'
  <2> SUFFICES ASSUME faults' < Threshold PROVE GoneOf(s)'
    BY DEF GoneOf
  <2>1. PICK p, n, B, H : p = pc[w] /\ n = part[w] /\ B = buffer[w] /\ H = Held(w)
    OBVIOUS
  <2>2. PICK U, G : U = Unseen(s, Upto(n, p), B) /\ G = {u \in Unreadable : u[1] = s}
    OBVIOUS
  <2>3. s \in Named /\ B = {} /\ Upto(n, p) = LastChunk(s) + 1
    BY <1>1, <1>2, <1>4, <2>1 DEF WorkerInv, AtWork, Upto
  <2>4. \A f \in Listed(s) : ChunkNo(s, f) < LastChunk(s) + 1
    <3>1. Listed(s) # {}
      BY <2>3, ChunkParts
    <3>2. (\A f \in Listed(s) : ChunkNo(s, f) \in 0 .. LastChunk(s)) /\ LastChunk(s) \in Nat
      BY <3>1, Chunks, UploadAssumption DEF UploadAssumption
    <3>3. QED
      BY <3>2
  <2>5. Missing(s) \subseteq U
    BY <2>2, <2>3, <2>4 DEF Missing, Unseen, Before
  <2>6. IsFiniteSet(U) /\ Cardinality(Unfetched(s, n, p, H)) \in Nat
    BY <2>2, LossCounts
  <2>7. Cardinality(Missing(s)) <= Cardinality(U) /\ Cardinality(Missing(s)) \in Nat /\ Cardinality(U) \in Nat
    BY <2>5, <2>6, NoMoreCounted
  <2>8. /\ Cardinality(Blank(s, Before(s, Upto(n, p)))) <= Cardinality(G)
        /\ Cardinality(Blank(s, Before(s, Upto(n, p)))) \in Nat /\ Cardinality(G) \in Nat
    BY <2>2, LossCounts, BlanksFinite
  <2>9. Cardinality(U) + Cardinality(Unfetched(s, n, p, H)) <= missed + Cardinality(Blank(s, Before(s, Upto(n, p))))
    BY <1>1, <1>2, <1>4, <2>1, <2>2 DEF LossOf, Going, Lasting
  <2>10. Cardinality(Missing(s)) <= missed + Cardinality(G)
    BY <1>1, <2>6, <2>7, <2>8, <2>9 DEF Lasting
  <2>11. Missing(s)' = Missing(s)
    BY <1>2 DEF Missing, Listed, Indexed
  <2>12. QED
    BY <1>2, <2>2, <2>10, <2>11 DEF GoneOf
<1>5. \A s \in Segments : GoneOf(s)' \/ (s \in acked' \ dead' => s \in acked \ dead)
  BY <1>2, <1>4
<1>6. QED
  BY <1>1, <1>3, <1>5, LossAssemble

LEMMA InsertLoss ==
  ASSUME BaseInv, LossInv, [Next]_vars, NEW w \in Workers, Insert(w)
  PROVE  LossInv'
<1>1. Work(w) /\ WorkTypes /\ WorkerInv(w) /\ Lasting /\ LossOf(w)
  BY GrowingLasts DEF Work, BaseInv, LossInv
<1>2. /\ UNCHANGED <<stored, acked, dead, event, flight>> /\ pc[w] = "insert" /\ flight[w] = {} /\ event[w] \in Named
      /\ \/ Goto(w, "fail")
         \/ /\ AddRows(w) /\ buffer' = [buffer EXCEPT ![w] = {}]
            /\ \/ Goto(w, "ack") /\ UNCHANGED part
               \/ Goto(w, "fetch") /\ StartChunk(w, event[w], part[w] + 1)
  BY <1>1 DEF Insert, InsertOk, InsertFails, jobs, stream, WorkerInv, AtWork
<1>3. CASE Goto(w, "fail")
  <2>1. LossOf(w)'
    BY <1>1, <1>3 DEF WorkTypes, Goto, LossOf, Going
  <2>2. QED
    BY <1>1, <1>2, <2>1, LossAssemble
<1>4. CASE /\ AddRows(w) /\ buffer' = [buffer EXCEPT ![w] = {}]
           /\ \/ Goto(w, "ack") /\ UNCHANGED part
              \/ Goto(w, "fetch") /\ StartChunk(w, event[w], part[w] + 1)
  <2>1. PICK e, k, B, K : e = event[w] /\ k = part[w] /\ B = buffer[w] /\ K = Held(w)
    OBVIOUS
  <2>2. PICK n, p, H, C : n = part'[w] /\ p = pc'[w] /\ H = Held(w)' /\ C = {}
    OBVIOUS
  <2>3. k \in Nat /\ e \in Segments
    BY <1>1, <1>2, <2>1 DEF WorkTypes, Named
  <2>4. /\ event'[w] = e /\ buffer'[w] = C /\ Upto(n, p) = k + 1 /\ Unfetched(e, n, p, H) = {}
    <3>1. CASE Goto(w, "ack") /\ UNCHANGED part
      BY <1>1, <1>2, <1>4, <2>1, <2>2, <3>1 DEF WorkTypes, Goto, Upto, Unfetched
    <3>2. CASE Goto(w, "fetch") /\ StartChunk(w, event[w], part[w] + 1)
      <4>1. /\ part' = [part EXCEPT ![w] = part[w] + 1] /\ left' = [left EXCEPT ![w] = ChunkOf(event[w], part[w] + 1)]
        BY <3>2 DEF StartChunk
      <4>2. n = k + 1 /\ p = "fetch" /\ left'[w] = ChunkOf(e, n) /\ event'[w] = e /\ buffer'[w] = C
        BY <1>1, <1>2, <1>4, <2>1, <2>2, <3>2, <4>1 DEF WorkTypes, Goto
      <4>3. left'[w] \subseteq H
        BY <2>2 DEF Held
      <4>4. QED
        BY <4>2, <4>3 DEF Upto, Unfetched
    <3>3. QED
      BY <1>4, <3>1, <3>2
  <2>5. PICK U, N : U = Unseen(e, k + 1, B) /\ N = Cardinality(Blank(e, Before(e, k + 1)))
    OBVIOUS
  <2>6. IsFiniteSet(U) /\ Cardinality(U) \in Nat /\ N \in Nat
    BY <2>5, LossCounts
  <2>7. faults < Threshold => Cardinality(U) <= missed + N
    <3>1. Unfetched(e, k, "insert", K) = {} /\ Upto(k, "insert") = k + 1
      BY DEF Unfetched, Upto
    <3>2. faults < Threshold => Cardinality(U) + Cardinality(Unfetched(e, k, "insert", K)) <= missed + N
      BY <1>1, <1>2, <2>1, <2>5, <3>1 DEF LossOf, Going
    <3>3. Cardinality(Unfetched(e, k, "insert", K)) = 0
      BY <3>1, FS_EmptySet
    <3>4. QED
      BY <1>1, <2>6, <3>2, <3>3 DEF Lasting
  <2>8. ASSUME NEW f \in Unseen(e, k + 1, C) PROVE f \in Indexed(e)' \/ f \in U
    <3>1. f \in Frames
      BY LossCounts DEF Unseen
    <3>2. CASE \A g \in Frames : <<f, g>> \notin B
      BY <2>5, <3>2 DEF Unseen
    <3>3. ASSUME NEW g \in Frames, <<f, g>> \in B PROVE f \in Indexed(e)'
      <4>1. PICK r \in Rows : r = <<e, f, g>>
        BY <2>3, <3>1 DEF Rows
      <4>2. r[1] = e /\ <<r[2], r[3]>> = <<f, g>> /\ rows[r] \in Nat
        BY <4>1 DEF BaseInv, StreamInv
      <4>3. rows'[r] = rows[r] + 1
        BY <1>2, <1>4, <2>1, <3>3, <4>2, RowsAdded
      <4>4. rows'[r] > 0
        BY <4>2, <4>3
      <4>5. QED
        BY <3>1, <4>1, <4>4 DEF Indexed
    <3>4. QED
      BY <3>2, <3>3
  <2>9. missed' \in Nat /\ Listed(e)' = Listed(e) /\ Indexed(e) \subseteq Indexed(e)'
    BY <1>1, <1>2, <2>1 DEF Lasting
  <2>10. faults' < Threshold => Cardinality(U) + Cardinality(Unfetched(e, n, p, H)) <= missed' + N
    <3>1. Cardinality(Unfetched(e, n, p, H)) = 0
      BY <2>4, FS_EmptySet
    <3>2. QED
      BY <1>1, <2>6, <2>7, <3>1 DEF Lasting
  <2>11. faults' < Threshold /\ p \in Going =>
            /\ IsFiniteSet(U) /\ \A f \in Unseen(e, Upto(n, p), C) : f \in Indexed(e)' \/ f \in U
            /\ Cardinality(U) + Cardinality(Unfetched(e, n, p, H))
                 <= missed' + Cardinality(Blank(e, Before(e, Upto(n, p))))
    BY <2>4, <2>5, <2>6, <2>8, <2>10
  <2>12. event'[w] = e /\ part'[w] = n /\ pc'[w] = p /\ Held(w)' = H /\ buffer'[w] = C
    BY <2>2, <2>4
  <2>13. LossOf(w)'
    BY <2>9, <2>11, <2>12, LossNext
  <2>14. QED
    BY <1>1, <1>2, <2>13, LossAssemble
<1>5. QED
  BY <1>2, <1>3, <1>4

\* The frames of a chunk that zip leaves without a vector are no more than those not
\* fetched or not readable.
LEMMA Unzipped ==
  ASSUME BaseInv, NEW w \in Workers, pc[w] = "fetch", left[w] = {}, flight[w] = {},
         NEW e, NEW n, e = event[w], n = part[w], NEW C, C = ChunkOf(e, n), NEW E, E = Encoded(w),
         NEW X, X = {f \in C : \A g \in E : Rank(f, C) # Rank(g, E)}
  PROVE  /\ IsFiniteSet(X) /\ Cardinality(X) \in Nat /\ E \subseteq C
         /\ Cardinality(X) <= Cardinality(Unfetched(e, n, "fetch", Held(w))) + Cardinality(Blank(e, C))
<1>1. e \in Named /\ got[w] \subseteq C /\ Held(w) = got[w]
  BY DEF BaseInv, WorkerInv, AtWork, Held
<1>2. C \subseteq Frames /\ C \subseteq Nat
  BY <1>1, ChunkParts DEF Frames
<1>3. IsFiniteSet(C)
  BY <1>2, FramesFinite, NoMoreCounted
<1>4. E \subseteq C
  BY <1>1 DEF Encoded
<1>5. PICK L, K : L = Unfetched(e, n, "fetch", Held(w)) /\ K = Blank(e, C)
  OBVIOUS
<1>6. C \subseteq E \cup (L \cup K)
  BY <1>1, <1>5 DEF Unfetched, Blank, Encoded
<1>7. L \subseteq C /\ K \subseteq C
  BY <1>5 DEF Unfetched, Blank
<1>8. IsFiniteSet(L) /\ IsFiniteSet(K) /\ IsFiniteSet(E)
  BY <1>3, <1>4, <1>7, NoMoreCounted
<1>9. /\ IsFiniteSet(L \cup K) /\ Cardinality(L \cup K) \in Nat /\ Cardinality(L) \in Nat /\ Cardinality(K) \in Nat
      /\ Cardinality(L \cup K) <= Cardinality(L) + Cardinality(K)
  BY <1>8, TogetherCounted
<1>10. /\ IsFiniteSet(E \cup (L \cup K)) /\ Cardinality(E) \in Nat /\ Cardinality(E \cup (L \cup K)) \in Nat
       /\ Cardinality(E \cup (L \cup K)) <= Cardinality(E) + Cardinality(L \cup K)
  BY <1>8, <1>9, TogetherCounted
<1>11. Cardinality(C) <= Cardinality(E \cup (L \cup K)) /\ Cardinality(C) \in Nat
  BY <1>6, <1>10, NoMoreCounted
<1>12. IsFiniteSet(X) /\ Cardinality(X) \in Nat /\ Cardinality(X) + Cardinality(E) <= Cardinality(C)
  BY <1>2, <1>3, <1>4, Unpartnered
<1>13. Cardinality(X) <= Cardinality(L) + Cardinality(K)
  BY <1>9, <1>10, <1>11, <1>12
<1>14. QED
  BY <1>4, <1>5, <1>12, <1>13

LEMMA BlankChunks ==
  ASSUME NEW s \in Segments, Listed(s) # {}, NEW n \in Nat
  PROVE  /\ Before(s, n + 1) = Before(s, n) \cup ChunkOf(s, n)
         /\ Cardinality(Blank(s, Before(s, n + 1))) = Cardinality(Blank(s, Before(s, n))) + Cardinality(Blank(s, ChunkOf(s, n)))
         /\ Cardinality(Blank(s, Before(s, n))) \in Nat /\ Cardinality(Blank(s, ChunkOf(s, n))) \in Nat
<1>1. ASSUME NEW f \in Listed(s)
      PROVE  /\ ChunkNo(s, f) < n + 1 <=> ChunkNo(s, f) < n \/ ChunkNo(s, f) = n
             /\ ~(ChunkNo(s, f) < n /\ ChunkNo(s, f) = n)
  <2>1. \A g \in Listed(s) : ChunkNo(s, g) \in 0 .. LastChunk(s)
    BY Chunks
  <2>2. QED
    BY <2>1
<1>2. Before(s, n + 1) = Before(s, n) \cup ChunkOf(s, n) /\ Before(s, n) \cap ChunkOf(s, n) = {}
  BY <1>1 DEF Before, ChunkOf
<1>3. PICK S, T : S = Blank(s, Before(s, n)) /\ T = Blank(s, ChunkOf(s, n))
  OBVIOUS
<1>4. Blank(s, Before(s, n + 1)) = S \cup T /\ S \cap T = {}
  BY <1>2, <1>3 DEF Blank
<1>5. S \subseteq Frames /\ T \subseteq Frames
  BY <1>3 DEF Blank, Before, ChunkOf, Listed
<1>6. IsFiniteSet(S) /\ IsFiniteSet(T)
  BY <1>5, FramesFinite, NoMoreCounted
<1>7. Cardinality(S \cup T) = Cardinality(S) + Cardinality(T) /\ Cardinality(S) \in Nat /\ Cardinality(T) \in Nat
  BY <1>4, <1>6, TogetherCounted
<1>8. QED
  BY <1>2, <1>3, <1>4, <1>7

LEMMA EncodeLoss ==
  ASSUME BaseInv, LossInv, [Next]_vars, NEW w \in Workers, Encode(w)
  PROVE  LossInv'
<1>1. Work(w) /\ WorkTypes /\ WorkerInv(w) /\ Lasting /\ LossOf(w)
  BY GrowingLasts DEF Work, BaseInv, LossInv
<1>2. /\ pc[w] = "fetch" /\ left[w] = {} /\ flight[w] = {}
      /\ UNCHANGED stored /\ UNCHANGED rows /\ UNCHANGED <<event, acked, dead>>
      /\ \/ Goto(w, "fail")
         \/ \E B \in SUBSET Zipped(w) :
              /\ NotYetThere(event[w], Zipped(w)) \subseteq B
              /\ buffer' = [buffer EXCEPT ![w] = buffer[w] \cup B]
              /\ \/ Goto(w, "insert") /\ UNCHANGED part
                 \/ Goto(w, "ack") /\ UNCHANGED part
                 \/ StartChunk(w, event[w], part[w] + 1) /\ UNCHANGED pc
  BY EncodeMoves DEF jobs, stream
<1>3. CASE Goto(w, "fail")
  <2>1. LossOf(w)'
    BY <1>1, <1>3 DEF WorkTypes, Goto, LossOf, Going
  <2>2. QED
    BY <1>1, <1>2, <2>1, LossAssemble
<1>4. ASSUME NEW B \in SUBSET Zipped(w), NotYetThere(event[w], Zipped(w)) \subseteq B,
             buffer' = [buffer EXCEPT ![w] = buffer[w] \cup B],
             \/ Goto(w, "insert") /\ UNCHANGED part
             \/ Goto(w, "ack") /\ UNCHANGED part
             \/ StartChunk(w, event[w], part[w] + 1) /\ UNCHANGED pc
      PROVE  LossInv'
  <2>1. PICK e, k, D : e = event[w] /\ k = part[w] /\ D = buffer[w]
    OBVIOUS
  <2>2. PICK n, p, H, G : n = part'[w] /\ p = pc'[w] /\ H = Held(w)' /\ G = D \cup B
    OBVIOUS
  <2>3. k \in Nat /\ e \in Segments /\ Listed(e) # {}
    <3>1. e \in Named /\ k \in Nat
      BY <1>1, <1>2, <2>1 DEF WorkTypes, WorkerInv, AtWork
    <3>2. QED
      BY <3>1, ChunkParts DEF Named
  <2>4. /\ event'[w] = e /\ buffer'[w] = G /\ Upto(n, p) = k + 1 /\ Unfetched(e, n, p, H) = {}
    <3>1. event'[w] = e /\ buffer'[w] = G
      BY <1>1, <1>2, <1>4, <2>1, <2>2 DEF WorkTypes
    <3>2. CASE (Goto(w, "insert") \/ Goto(w, "ack")) /\ UNCHANGED part
      BY <1>1, <2>1, <2>2, <3>1, <3>2 DEF WorkTypes, Goto, Upto, Unfetched
    <3>3. CASE StartChunk(w, event[w], part[w] + 1) /\ UNCHANGED pc
      <4>1. /\ part' = [part EXCEPT ![w] = part[w] + 1] /\ left' = [left EXCEPT ![w] = ChunkOf(event[w], part[w] + 1)]
        BY <3>3 DEF StartChunk
      <4>2. n = k + 1 /\ p = "fetch" /\ left'[w] = ChunkOf(e, n)
        BY <1>1, <1>2, <2>1, <2>2, <3>3, <4>1 DEF WorkTypes
      <4>3. left'[w] \subseteq H
        BY <2>2 DEF Held
      <4>4. QED
        BY <3>1, <4>2, <4>3 DEF Upto, Unfetched
    <3>4. QED
      BY <1>4, <3>1, <3>2, <3>3
  <2>5. PICK C, E, U, L : /\ C = ChunkOf(e, k) /\ E = Encoded(w) /\ U = Unseen(e, k, D)
                          /\ L = Unfetched(e, k, "fetch", Held(w))
    OBVIOUS
  <2>6. PICK X : X = {f \in C : \A g \in E : Rank(f, C) # Rank(g, E)}
    OBVIOUS
  <2>7. /\ IsFiniteSet(X) /\ Cardinality(X) \in Nat /\ E \subseteq C
        /\ Cardinality(X) <= Cardinality(L) + Cardinality(Blank(e, C))
    BY <1>2, <2>1, <2>5, <2>6, Unzipped
  <2>8. IsFiniteSet(U) /\ Cardinality(U) \in Nat /\ Cardinality(L) \in Nat
    BY <2>5, LossCounts
  <2>9. faults < Threshold => Cardinality(U) + Cardinality(L) <= missed + Cardinality(Blank(e, Before(e, k)))
    <3>1. Upto(k, "fetch") = k
      BY DEF Upto
    <3>2. QED
      BY <1>1, <1>2, <2>1, <2>5, <3>1 DEF LossOf, Going
  <2>10. /\ IsFiniteSet(U \cup X) /\ Cardinality(U \cup X) \in Nat
         /\ Cardinality(U \cup X) <= Cardinality(U) + Cardinality(X)
    BY <2>7, <2>8, TogetherCounted
  <2>11. PICK N : N = Cardinality(Blank(e, Before(e, k + 1)))
    OBVIOUS
  <2>12. /\ Before(e, k + 1) = Before(e, k) \cup C
         /\ N = Cardinality(Blank(e, Before(e, k))) + Cardinality(Blank(e, C))
         /\ Cardinality(Blank(e, Before(e, k))) \in Nat /\ Cardinality(Blank(e, C)) \in Nat
    BY <2>3, <2>5, <2>11, BlankChunks
  <2>13. faults < Threshold => Cardinality(U \cup X) <= missed + N
    BY <1>1, <2>7, <2>8, <2>9, <2>10, <2>12 DEF Lasting
  <2>14. ASSUME NEW f \in Unseen(e, k + 1, G) PROVE f \in U \cup X
    <3>1. f \in Before(e, k) \cup C /\ f \notin Indexed(e) /\ \A g \in Frames : <<f, g>> \notin G
      BY <2>12 DEF Unseen
    <3>2. CASE f \in Before(e, k)
      <4>1. \A g \in Frames : <<f, g>> \notin D
        BY <2>2, <3>1
      <4>2. QED
        BY <2>5, <3>1, <3>2, <4>1 DEF Unseen
    <3>3. CASE f \in C
      <4>1. SUFFICES ASSUME NEW g \in E, Rank(f, C) = Rank(g, E) PROVE FALSE
        BY <2>6, <3>3
      <4>2. PICK q : q = <<f, g>>
        OBVIOUS
      <4>3. q \in Zipped(w)
        BY <2>1, <2>5, <3>3, <4>1, <4>2 DEF Zipped
      <4>4. q[1] \notin Indexed(event[w])
        BY <2>1, <3>1, <4>2
      <4>5. q \in B
        BY <1>4, <4>3, <4>4 DEF NotYetThere
      <4>6. g \in Frames
        BY <2>5, <2>7 DEF ChunkOf, Listed
      <4>7. QED
        BY <2>2, <3>1, <4>2, <4>5, <4>6
    <3>4. QED
      BY <3>1, <3>2, <3>3
  <2>15. missed' \in Nat /\ Listed(e)' = Listed(e) /\ Indexed(e) \subseteq Indexed(e)'
    BY <1>1, <1>2 DEF Lasting, Listed, Indexed
  <2>16. faults' < Threshold => Cardinality(U \cup X) + Cardinality(Unfetched(e, n, p, H)) <= missed' + N
    <3>1. Cardinality(Unfetched(e, n, p, H)) = 0
      BY <2>4, FS_EmptySet
    <3>2. N \in Nat
      BY <2>12
    <3>3. QED
      BY <1>1, <2>10, <2>13, <3>1, <3>2 DEF Lasting
  <2>17. PICK V : V = U \cup X
    OBVIOUS
  <2>18. faults' < Threshold /\ p \in Going =>
            /\ IsFiniteSet(V) /\ \A f \in Unseen(e, Upto(n, p), G) : f \in Indexed(e)' \/ f \in V
            /\ Cardinality(V) + Cardinality(Unfetched(e, n, p, H))
                 <= missed' + Cardinality(Blank(e, Before(e, Upto(n, p))))
    BY <2>4, <2>10, <2>11, <2>14, <2>16, <2>17
  <2>19. event'[w] = e /\ part'[w] = n /\ pc'[w] = p /\ Held(w)' = H /\ buffer'[w] = G
    BY <2>2, <2>4
  <2>20. LossOf(w)'
    BY <2>15, <2>18, <2>19, LossNext
  <2>21. QED
    BY <1>1, <1>2, <2>20, LossAssemble
<1>5. QED
  BY <1>2, <1>3, <1>4

\* Uploads, the passing of time and nothing at all.
LEMMA OtherLoss ==
  ASSUME BaseInv, LossInv, [Next]_vars, Extract \/ (\E s \in Segments : Age(s)) \/ UNCHANGED vars
  PROVE  LossInv'
<1>1. Lasting
  BY GrowingLasts
<1>2. UNCHANGED work /\ UNCHANGED <<acked, dead>>
  BY DEF Extract, Age, vars, stream
<1>3. ASSUME NEW v \in Workers PROVE LossOf(v)'
  <2>1. /\ LossOf(v) /\ Held(v)' = Held(v)
        /\ pc'[v] = pc[v] /\ event'[v] = event[v] /\ part'[v] = part[v] /\ buffer'[v] = buffer[v]
    BY <1>2 DEF work, Held, LossInv
  <2>2. QED
    BY <1>1, <2>1, SameLoss
<1>4. ASSUME NEW s \in Segments PROVE GoneOf(s)'
  <2>1. GoneOf(s)
    BY DEF LossInv
  <2>2. QED
    BY <1>1, <1>2, <2>1, GoneKept
<1>5. QED
  BY <1>3, <1>4 DEF LossInv

LEMMA InitLoss == Init => LossInv
<1> SUFFICES ASSUME Init PROVE LossInv
  OBVIOUS
<1>1. acked = {} /\ \A w \in Workers : pc[w] = "loop"
  BY DEF Init
<1>2. QED
  BY <1>1 DEF LossInv, LossOf, GoneOf, Going

LEMMA NextLoss ==
  ASSUME BaseInv, LossInv, [Next]_vars
  PROVE  LossInv'
<1>1. ASSUME NEW w \in Workers, Work(w) \/ Crash(w) \/ Recover(w) PROVE LossInv'
  BY <1>1, AwayLoss, TakeLoss, LaunchLoss, LandLoss, EncodeLoss, InsertLoss, AckLoss DEF Work
<1>2. QED
  BY <1>1, OtherLoss DEF Next

LEMMA LossGives == BaseInv /\ LossInv => LossPaidFor
<1> SUFFICES ASSUME BaseInv, LossInv, faults < Threshold, NEW s \in acked \ dead
             PROVE  Cardinality(Missing(s)) <= missed + Cardinality({u \in Unreadable : u[1] = s})
  BY DEF LossPaidFor
<1>1. s \in Segments
  BY DEF BaseInv, StreamInv, Named
<1>2. QED
  BY <1>1 DEF LossInv, GoneOf

--------------------------------------------------------------------------------
(* The theorems.                                                                *)

\* Everything that holds at every state, and is kept by every step.
IndInv == BaseInv /\ MatchInv /\ DeliveryInv /\ CopiesInv /\ LossInv

LEMMA Inductive == Spec => []IndInv
<1>1. Init => IndInv
  BY InitBaseInv, InitMatch, InitDelivery, InitCopies, InitLoss DEF IndInv
<1>2. IndInv /\ [Next]_vars => IndInv'
  <2> SUFFICES ASSUME IndInv, [Next]_vars PROVE IndInv'
    OBVIOUS
  <2>1. BaseInv /\ MatchInv /\ DeliveryInv /\ CopiesInv /\ LossInv
    BY DEF IndInv
  <2>2. BaseInv'
    BY <2>1, NextBaseInv
  <2>3. MatchInv' /\ LossInv'
    BY <2>1, NextMatch, NextLoss
  <2>4. DeliveryInv' /\ CopiesInv'
    BY <2>1, <2>2, NextDelivery, NextCopies
  <2>5. QED
    BY <2>2, <2>3, <2>4 DEF IndInv
<1>3. QED
  BY <1>1, <1>2, PTL DEF Spec

\* From the extractor's disk to Milvus, no frame goes missing but for failures that account
\* for it: an upload given up is on record or cost all its attempts, the loss of an
\* acknowledged event is that of failing downloads and unreadable images, and an event on
\* the dead letter stream had all its deliveries used up by crashes, faults and an open
\* breaker, with any number of embedders, events and frames.
THEOREM FramesAreAccountedFor == Spec => []FramesAccountedFor
<1>1. IndInv => FramesAccountedFor
  <2> SUFFICES ASSUME IndInv PROVE FramesAccountedFor
    OBVIOUS
  <2>1. BaseInv /\ DeliveryInv /\ LossInv
    BY DEF IndInv
  <2>2. TypeOK /\ UploadsOnRecord /\ DeadLetterPaidFor /\ LossPaidFor
    BY <2>1, BaseGives, DeliveryGives, LossGives
  <2>3. QED
    BY <2>2 DEF FramesAccountedFor
<1>2. QED
  BY <1>1, Inductive, PTL

\* What Milvus holds is right: a row carries the vector of its own frame unless a download
\* failed or an earlier image of its chunk could not be read, and it is there once unless a
\* fault let two embedders at the event or hid it from the check for duplicates.
THEOREM RowsStayRight == Spec => []RowsAreRight
<1>1. IndInv => RowsAreRight
  <2> SUFFICES ASSUME IndInv PROVE RowsAreRight
    OBVIOUS
  <2>1. BaseInv /\ MatchInv /\ CopiesInv
    BY DEF IndInv
  <2>2. QED
    BY <2>1, MatchGives, CopiesGive DEF RowsAreRight
<1>2. QED
  BY <1>1, Inductive, PTL
================================================================================
