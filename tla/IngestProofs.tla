------------------------------ MODULE IngestProofs ------------------------------
(***************************************************************************)
(* Theorems about how frames and detections come in: events of edge        *)
(* devices, for any number of workers and events and of crashes, failing   *)
(* calls and claims that run out; the job of a camera, for any number of   *)
(* pipelines; the detections of the vision service, for any plugins; and   *)
(* the plates it reads and the search that finds them, of any length.      *)
(***************************************************************************)
EXTENDS EdgeIngest, RtspJob, DetectionHandler, PlateSearch, FiniteSetTheorems, TLAPS

Labels == {"idle", "claim", "get", "wait", "insert", "publish", "mark", "release", "delete"}

\* The workers' part of the type.
WorkerType ==
  /\ pc \in [Workers -> Labels] /\ req \in [Workers -> Events \cup {None}]
  /\ owns \in [Workers -> BOOLEAN] /\ inBatch \in [Workers -> BOOLEAN]
  /\ \A w \in Workers : req[w] = None <=> pc[w] = "idle"

\* The stores' part of it, with the claims that Redis will forget.
StoreType ==
  /\ key \in [Events -> {"none", "in_progress", "result"}]
  /\ expiring = {e \in Events : key[e] = "in_progress"}
  /\ rows \in [Events -> Nat]
  /\ deadLetters \subseteq Malformed /\ announced \subseteq Events \ Malformed

\* And the devices', with the counters.
DeviceType ==
  /\ confirmed \subseteq Events /\ guessed \subseteq confirmed
  /\ crashes \in 0 .. MaxCrashes /\ faults \in 0 .. MaxFaults

\* A cached result stands for a row, and a worker that has written one still has it: this is
\* what an answer is given on.
Backed ==
  /\ \A e \in Events : key[e] = "result" => rows[e] > 0
  /\ \A w \in Workers : pc[w] \in {"publish", "mark"} => rows[req[w]] > 0 /\ req[w] \notin Malformed

IndInv == WorkerType /\ StoreType /\ DeviceType /\ Backed /\ ConfirmedIsStored

LEMMA InitIndInv == Init => IndInv
<1> SUFFICES ASSUME Init PROVE IndInv
  OBVIOUS
<1> USE IngestAssumption
<1>1. WorkerType
  BY DEF Init, WorkerType, Labels
<1>2. StoreType /\ DeviceType
  BY DEF Init, StoreType, DeviceType
<1>3. Backed /\ ConfirmedIsStored
  BY DEF Init, Backed, ConfirmedIsStored
<1>4. QED
  BY <1>1, <1>2, <1>3 DEF IndInv

\* A request in progress is about an event.
LEMMA AtWork ==
  ASSUME WorkerType, NEW w \in Workers, pc[w] # "idle"
  PROVE  req[w] \in Events
  BY DEF WorkerType

\* Whatever a worker is told to do next, and whatever it answers, the workers keep their type.
LEMMA Moves ==
  ASSUME WorkerType, NEW w \in Workers,
         \/ Answer(w)
         \/ pc[w] # "idle" /\ \E l \in Labels \ {"idle"} : Goto(w, l)
  PROVE  WorkerType'
<1>1. CASE Answer(w)
  BY <1>1, IngestAssumption DEF WorkerType, Answer, Labels
<1>2. CASE pc[w] # "idle" /\ \E l \in Labels \ {"idle"} : Goto(w, l)
  BY <1>2 DEF WorkerType, Goto, Labels
<1>3. QED
  BY <1>1, <1>2

\* An answer that a row backs, and one that nothing backs: neither confirms for good what
\* is not stored.
LEMMA Answers ==
  ASSUME DeviceType, ConfirmedIsStored, UNCHANGED rows, NEW w \in Workers, req[w] \in Events,
         \/ AnswerSuccess(w) /\ rows[req[w]] > 0
         \/ AnswerUnbacked(w)
         \/ UNCHANGED devices
  PROVE  confirmed' \subseteq Events /\ guessed' \subseteq confirmed' /\ ConfirmedIsStored'
<1>1. CASE AnswerSuccess(w) /\ rows[req[w]] > 0
  BY <1>1 DEF DeviceType, ConfirmedIsStored, AnswerSuccess
<1>2. CASE AnswerUnbacked(w)
  BY <1>2 DEF DeviceType, ConfirmedIsStored, AnswerUnbacked
<1>3. CASE UNCHANGED devices
  BY <1>3 DEF DeviceType, ConfirmedIsStored, devices
<1>4. QED
  BY <1>1, <1>2, <1>3

\* Steps that write neither the key, nor rows, nor the dead letters and announcements: what
\* they tell a device is all that matters.
LEMMA Telling ==
  ASSUME IndInv, NEW w \in Workers, req[w] \in Events, WorkerType', DeviceType',
         UNCHANGED <<key, expiring, rows, deadLetters, announced>>, ConfirmedIsStored',
         \A v \in Workers : pc'[v] \in {"publish", "mark"} =>
                             pc[v] \in {"publish", "mark"} /\ req'[v] = req[v]
  PROVE  IndInv'
<1>1. StoreType'
  BY DEF IndInv, StoreType
<1>2. Backed'
  BY DEF IndInv, Backed
<1>3. QED
  BY <1>1, <1>2 DEF IndInv

LEMMA NextIndInv == IndInv /\ [Next]_vars => IndInv'
<1> SUFFICES ASSUME IndInv, [Next]_vars PROVE IndInv'
  OBVIOUS
<1> USE IngestAssumption
<1>inv. WorkerType /\ StoreType /\ DeviceType /\ Backed /\ ConfirmedIsStored
  BY DEF IndInv
<1>1. ASSUME NEW w \in Workers, NEW e \in Events, Submit(w, e) PROVE IndInv'
  <2>1. WorkerType'
    BY <1>1, <1>inv DEF Submit, WorkerType, Labels
  <2>2. StoreType' /\ DeviceType' /\ ConfirmedIsStored'
    BY <1>1, <1>inv DEF Submit, StoreType, DeviceType, ConfirmedIsStored, devices
  <2>3. Backed'
    BY <1>1, <1>inv DEF Submit, Backed, WorkerType
  <2>4. QED
    BY <2>1, <2>2, <2>3 DEF IndInv
<1>2. ASSUME NEW w \in Workers, Claim(w) PROVE IndInv'
  <2>1. req[w] \in Events
    BY <1>2, <1>inv, AtWork DEF Claim
  <2>2. WorkerType'
    BY <1>2, <1>inv, <2>1 DEF Claim, Goto, AnswerError, Answer, WorkerType, Labels
  <2>3. StoreType'
    BY <1>2, <1>inv, <2>1 DEF Claim, SetClaim, Vacant, StoreType
  <2>4. DeviceType' /\ ConfirmedIsStored'
    BY <1>2, <1>inv DEF Claim, Fault, AnswerError, DeviceType, ConfirmedIsStored, devices
  <2>5. Backed'
    BY <1>2, <1>inv, <2>1 DEF Claim, SetClaim, Vacant, Goto, AnswerError, Answer, Backed, WorkerType, StoreType
  <2>6. QED
    BY <2>2, <2>3, <2>4, <2>5 DEF IndInv
<1>3. ASSUME NEW w \in Workers, Get(w) \/ Wait(w) PROVE IndInv'
  <2>1. req[w] \in Events /\ (HasResult(req[w]) => rows[req[w]] > 0)
    BY <1>3, <1>inv, AtWork DEF Get, Wait, HasResult, Backed
  <2>2. WorkerType'
    BY <1>3, <1>inv, <2>1 DEF Get, Wait, Goto, AnswerError, AnswerInProgress, AnswerSuccess, AnswerUnbacked, Answer, WorkerType, Labels
  <2>3. (AnswerSuccess(w) /\ rows[req[w]] > 0) \/ AnswerUnbacked(w) \/ UNCHANGED devices
    BY <1>3, <2>1 DEF Get, Wait, AnswerInProgress, AnswerError
  <2>4. DeviceType' /\ ConfirmedIsStored'
    BY <1>3, <1>inv, <2>1, <2>3, Answers DEF Get, Wait, Fault, DeviceType
  <2>5. \A v \in Workers : pc'[v] \in {"publish", "mark"} => pc[v] \in {"publish", "mark"} /\ req'[v] = req[v]
    BY <1>3, <1>inv DEF Get, Wait, Goto, AnswerError, AnswerInProgress, AnswerSuccess, AnswerUnbacked, Answer, WorkerType
  <2>6. QED
    BY <1>3, <2>1, <2>2, <2>4, <2>5, Telling DEF Get, Wait
<1>4. ASSUME NEW w \in Workers, Insert(w) PROVE IndInv'
  <2>1. req[w] \in Events /\ UNCHANGED <<key, expiring, announced, devices, crashes>>
    BY <1>4, <1>inv, AtWork DEF Insert
  <2>2. WorkerType'
    BY <1>4, <1>inv DEF Insert, Goto, WorkerType, Labels
  <2>3. rows' \in [Events -> Nat] /\ \A e \in Events : rows'[e] >= rows[e]
    BY <1>4, <1>inv, <2>1 DEF Insert, StoreType
  <2>4. StoreType'
    BY <1>4, <1>inv, <2>1, <2>3 DEF Insert, Rejected, StoreType
  <2>5. DeviceType' /\ ConfirmedIsStored'
    BY <1>4, <1>inv, <2>1, <2>3 DEF Insert, Fault, DeviceType, ConfirmedIsStored, devices, StoreType
  <2>6. Backed'
    <3>1. \A e \in Events : key'[e] = "result" => rows'[e] > 0
      BY <1>inv, <2>1, <2>3 DEF Backed, StoreType
    <3>2. \A v \in Workers \ {w} : pc'[v] = pc[v] /\ req'[v] = req[v]
      BY <1>4, <1>inv DEF Insert, Goto, WorkerType
    <3>3. pc'[w] \in {"publish", "mark"} => rows'[req'[w]] > 0 /\ req'[w] \notin Malformed
      BY <1>4, <1>inv, <2>1 DEF Insert, Goto, Rejected, WorkerType, StoreType
    <3>4. ASSUME NEW v \in Workers \ {w}, pc'[v] \in {"publish", "mark"}
          PROVE  rows'[req'[v]] > 0 /\ req'[v] \notin Malformed
      <4>1. req[v] \in Events
        BY <1>inv, <3>2, <3>4, AtWork
      <4>2. QED
        BY <1>inv, <2>3, <3>2, <3>4, <4>1 DEF Backed, StoreType
    <3>5. QED
      BY <3>1, <3>3, <3>4 DEF Backed
  <2>7. QED
    BY <2>2, <2>4, <2>5, <2>6 DEF IndInv
<1>5. ASSUME NEW w \in Workers, Publish(w) PROVE IndInv'
  <2>1. req[w] \in Events /\ req[w] \notin Malformed
    BY <1>5, <1>inv, AtWork DEF Publish, Backed
  <2>2. WorkerType'
    BY <1>5, <1>inv DEF Publish, Goto, WorkerType, Labels
  <2>3. StoreType'
    BY <1>5, <1>inv, <2>1 DEF Publish, StoreType
  <2>4. DeviceType' /\ ConfirmedIsStored'
    BY <1>5, <1>inv DEF Publish, Fault, DeviceType, ConfirmedIsStored, devices
  <2>5. Backed'
    BY <1>5, <1>inv DEF Publish, Goto, Backed, WorkerType
  <2>6. QED
    BY <2>2, <2>3, <2>4, <2>5 DEF IndInv
<1>6. ASSUME NEW w \in Workers, Mark(w) PROVE IndInv'
  <2>1. req[w] \in Events /\ rows[req[w]] > 0 /\ UNCHANGED <<rows, deadLetters, announced, crashes>>
    BY <1>6, <1>inv, AtWork DEF Mark, Backed
  <2>2. WorkerType'
    BY <1>6, <1>inv, <2>1 DEF Mark, Goto, AnswerSuccess, Answer, WorkerType, Labels
  <2>3. StoreType'
    BY <1>6, <1>inv, <2>1 DEF Mark, StoreType
  <2>4. DeviceType' /\ ConfirmedIsStored'
    BY <1>6, <1>inv, <2>1, Answers DEF Mark, Fault, DeviceType
  <2>5. Backed'
    BY <1>6, <1>inv, <2>1 DEF Mark, Goto, AnswerSuccess, Answer, Backed, WorkerType, StoreType
  <2>6. QED
    BY <2>2, <2>3, <2>4, <2>5 DEF IndInv
<1>7. ASSUME NEW w \in Workers, Release(w) PROVE IndInv'
  <2>1. req[w] \in Events
    BY <1>7, <1>inv, AtWork DEF Release
  <2>2. WorkerType'
    BY <1>7, <1>inv, <2>1 DEF Release, Goto, AnswerError, Answer, WorkerType, Labels
  <2>3. DeviceType' /\ ConfirmedIsStored'
    BY <1>7, <1>inv DEF Release, Fault, AnswerError, DeviceType, ConfirmedIsStored, devices
  <2>4. \A v \in Workers : pc'[v] \in {"publish", "mark"} => pc[v] \in {"publish", "mark"} /\ req'[v] = req[v]
    BY <1>7, <1>inv DEF Release, Goto, AnswerError, Answer, WorkerType
  <2>5. QED
    BY <1>7, <2>1, <2>2, <2>3, <2>4, Telling DEF Release
<1>8. ASSUME NEW w \in Workers, Delete(w) PROVE IndInv'
  <2>1. req[w] \in Events
    BY <1>8, <1>inv, AtWork DEF Delete
  <2>2. WorkerType'
    BY <1>8, <1>inv, <2>1 DEF Delete, AnswerError, Answer, WorkerType, Labels
  <2>3. StoreType'
    BY <1>8, <1>inv, <2>1 DEF Delete, StoreType
  <2>4. DeviceType' /\ ConfirmedIsStored'
    BY <1>8, <1>inv DEF Delete, Fault, AnswerError, DeviceType, ConfirmedIsStored, devices
  <2>5. Backed'
    BY <1>8, <1>inv, <2>1 DEF Delete, AnswerError, Answer, Backed, WorkerType, StoreType
  <2>6. QED
    BY <2>2, <2>3, <2>4, <2>5 DEF IndInv
<1>9. ASSUME NEW w \in Workers, Crash(w) PROVE IndInv'
  <2>1. req[w] \in Events
    BY <1>9, <1>inv, AtWork DEF Crash
  <2>2. WorkerType'
    BY <1>9, <1>inv DEF Crash, Answer, WorkerType, Labels
  <2>3. DeviceType' /\ ConfirmedIsStored'
    BY <1>9, <1>inv DEF Crash, DeviceType, ConfirmedIsStored, devices
  <2>4. \A v \in Workers : pc'[v] \in {"publish", "mark"} => pc[v] \in {"publish", "mark"} /\ req'[v] = req[v]
    BY <1>9, <1>inv DEF Crash, Answer, WorkerType
  <2>5. QED
    BY <1>9, <2>1, <2>2, <2>3, <2>4, Telling DEF Crash
<1>10. ASSUME NEW e \in Events, Expire(e) \/ Overrun(e) PROVE IndInv'
  <2>1. WorkerType' /\ ConfirmedIsStored'
    BY <1>10, <1>inv DEF Expire, Overrun, Lapse, WorkerType, ConfirmedIsStored, worker, devices
  <2>2. StoreType' /\ DeviceType'
    BY <1>10, <1>inv DEF Expire, Overrun, Lapse, Fault, StoreType, DeviceType, devices
  <2>3. Backed'
    BY <1>10, <1>inv DEF Expire, Overrun, Lapse, Backed, StoreType, worker
  <2>4. QED
    BY <2>1, <2>2, <2>3 DEF IndInv
<1>11. CASE UNCHANGED vars
  BY <1>11, <1>inv DEF vars, worker, devices, IndInv, WorkerType, StoreType, DeviceType, Backed, ConfirmedIsStored
<1>12. QED
  BY <1>1, <1>2, <1>3, <1>4, <1>5, <1>6, <1>7, <1>8, <1>9, <1>10, <1>11 DEF Next, Handle, Quiet

LEMMA Inductive == Spec => []IndInv
BY InitIndInv, NextIndInv, PTL DEF Spec

\* The state has its type: dead letters are events that normalization rejects, and only
\* events that were stored are announced (Normalizer and edge ingest service).
THEOREM TypeCorrect == Spec => []TypeOK
<1>1. IndInv => TypeOK
  BY DEF IndInv, WorkerType, StoreType, DeviceType, TypeOK, Labels
<1>2. QED
  BY <1>1, Inductive, PTL

\* An event whose device was told "success" on the strength of a result is stored, for any
\* number of requests for it, whichever of them crash, fail or outlast their claim.
THEOREM StoredWhenConfirmed == Spec => []ConfirmedIsStored
<1>1. IndInv => ConfirmedIsStored
  BY DEF IndInv
<1>2. QED
  BY <1>1, Inductive, PTL

--------------------------------------------------------------------------------
(* Rows beyond the first.                                                       *)

W == Cardinality(Workers)

\* What went wrong so far.
Bill == faults + crashes

\* Workers that will add a row for the event: that are about to insert, or will find no claim.
Going(e) == {w \in Workers : req[w] = e /\ (pc[w] = "insert" \/ (pc[w] = "get" /\ key[e] = "none"))}

\* Workers that will delete the event's key.
Leaving(e) == {w \in Workers : req[w] = e /\ pc[w] \in {"release", "delete"}}

\* Workers that are past the claim of the event.
Engaged(e) == {w \in Workers : req[w] = e /\ pc[w] \in {"get", "insert", "publish", "mark", "release", "delete"}}

\* One of the others can claim the event.
Room(e) == IF key[e] = "none" /\ Workers \ Engaged(e) # {} THEN 1 ELSE 0

\* A claim that will run out, as nobody is there to turn it into a result.
Orphan(e) == IF key[e] = "in_progress" /\ ~Claimed(e) THEN 1 ELSE 0

\* The rows of the event with those to come, and how often the key will be vacant again.
RowsToCome(e) == rows[e] + Cardinality(Going(e)) + Room(e)
Vacancies(e) == Cardinality(Leaving(e)) + Orphan(e)

OwnInv == \A w \in Workers : owns[w] => pc[w] \in {"insert", "publish", "mark", "release", "delete"}

\* Each time that the key is vacant again may cost a row of each worker, and goes back to a crash or a fault.
PaidInv ==
  /\ OwnInv
  /\ \A e \in Malformed : rows[e] = 0
  /\ \A e \in Events \ Malformed :
       RowsToCome(e) + W * Vacancies(e) <= 1 + W * Bill

\* What one worker does leaves the others alone.
OthersStay(w) == \A v \in Workers \ {w} : pc'[v] = pc[v] /\ req'[v] = req[v] /\ owns'[v] = owns[v]

LEMMA WorkersCounted ==
  ASSUME NEW S \in SUBSET Workers
  PROVE  IsFiniteSet(S) /\ Cardinality(S) \in Nat /\ Cardinality(S) <= W /\ W \in Nat
BY IngestAssumption, FS_Subset, FS_CardinalityType DEF W, IngestAssumption

LEMMA Smaller ==
  ASSUME NEW S \in SUBSET Workers, NEW T \in SUBSET S
  PROVE  Cardinality(S) \in Nat /\ Cardinality(T) \in Nat /\ Cardinality(T) <= Cardinality(S)
BY WorkersCounted, FS_Subset

LEMMA OneLess ==
  ASSUME NEW S \in SUBSET Workers, NEW w \in S, NEW T \in SUBSET (S \ {w})
  PROVE  Cardinality(S) \in Nat /\ Cardinality(T) \in Nat /\ Cardinality(T) + 1 <= Cardinality(S)
<1>1. IsFiniteSet(S) /\ Cardinality(S) \in Nat /\ IsFiniteSet(S \ {w}) /\ Cardinality(S \ {w}) = Cardinality(S) - 1
  BY WorkersCounted, FS_RemoveElement
<1>2. Cardinality(S \ {w}) \in Nat /\ Cardinality(T) \in Nat /\ Cardinality(T) <= Cardinality(S \ {w})
  BY Smaller
<1>3. QED
  BY <1>1, <1>2

LEMMA OneMore ==
  ASSUME NEW S \in SUBSET Workers, NEW w \in Workers, NEW T \in SUBSET (S \cup {w})
  PROVE  Cardinality(S) \in Nat /\ Cardinality(T) \in Nat /\ Cardinality(T) <= Cardinality(S) + 1
<1>1. CASE w \in S
  <2>1. T \subseteq S
    BY <1>1
  <2>2. QED
    BY <2>1, Smaller
<1>2. CASE w \notin S
  <2>1. T \ {w} \subseteq S /\ IsFiniteSet(T \ {w}) /\ IsFiniteSet(T) /\ T \in SUBSET Workers
    BY WorkersCounted
  <2>2. Cardinality(S) \in Nat /\ Cardinality(T \ {w}) \in Nat /\ Cardinality(T \ {w}) <= Cardinality(S) /\ Cardinality(T) \in Nat
    BY <2>1, Smaller, WorkersCounted
  <2>3. CASE w \in T
    <3>1. Cardinality(T \ {w}) = Cardinality(T) - 1
      BY <2>1, <2>3, FS_RemoveElement
    <3>2. QED
      BY <2>2, <3>1
  <2>4. CASE w \notin T
    <3>1. T \ {w} = T
      BY <2>4
    <3>2. QED
      BY <2>2, <3>1
  <2>5. QED
    BY <2>3, <2>4
<1>3. QED
  BY <1>1, <1>2

\* Those that will add a row and the one that can claim are different workers.
LEMMA AllOfThem ==
  ASSUME NEW G \in SUBSET Workers, NEW E \in SUBSET Workers, G \subseteq E
  PROVE  Cardinality(G) \in Nat /\ W \in Nat /\ Cardinality(G) <= W
         /\ (Workers \ E # {} => Cardinality(G) + 1 <= W)
<1>1. Cardinality(G) \in Nat /\ W \in Nat /\ Cardinality(G) <= W
  BY WorkersCounted
<1>2. ASSUME NEW w \in Workers \ E PROVE Cardinality(G) + 1 <= W
  <2>1. G \in SUBSET (Workers \ {w})
    BY <1>2
  <2>2. QED
    BY <2>1, OneLess DEF W
<1>3. QED
  BY <1>1, <1>2

\* The arithmetic of a step: it costs no row, and every vacancy is paid; or a row of each worker, and a vacancy less.
LEMMA Pays ==
  ASSUME NEW n \in Nat, NEW c \in Nat, NEW d \in Nat, NEW k \in Nat,
         NEW c1 \in Nat, NEW d1 \in Nat, NEW k1 \in Nat,
         c + n * d <= 1 + n * k,
         (c1 <= c /\ d1 + k <= d + k1) \/ (c1 <= c + n /\ d1 + 1 + k <= d + k1)
  PROVE  c1 + n * d1 <= 1 + n * k1
<1> DEFINE P(x) == n * x
<1>1. \A x, y \in Nat : P(x + y) = P(x) + P(y) /\ P(x) \in Nat
  OBVIOUS
<1>2. P(1) = n
  OBVIOUS
<1>3. \A x, y \in Nat : x <= y => P(x) <= P(y)
  <2> SUFFICES ASSUME NEW x \in Nat, NEW y \in Nat, x <= y PROVE P(x) <= P(y)
    OBVIOUS
  <2>1. y - x \in Nat /\ y = x + (y - x)
    OBVIOUS
  <2>2. P(y) = P(x) + P(y - x) /\ P(y - x) \in Nat /\ P(x) \in Nat
    BY <1>1, <2>1
  <2> HIDE DEF P
  <2>3. QED
    BY <2>2
<1>4. c + P(d) <= 1 + P(k)
  OBVIOUS
<1>5. P(c1) \in Nat /\ P(d) \in Nat /\ P(d1) \in Nat /\ P(k) \in Nat /\ P(k1) \in Nat
  OBVIOUS
<1> SUFFICES c1 + P(d1) <= 1 + P(k1)
  OBVIOUS
<1> HIDE DEF P
<1>6. CASE c1 <= c /\ d1 + k <= d + k1
  <2>1. P(d1 + k) <= P(d + k1)
    BY <1>3, <1>6
  <2>2. P(d1) + P(k) <= P(d) + P(k1)
    BY <1>1, <2>1
  <2>3. QED
    BY <1>4, <1>5, <1>6, <2>2
<1>7. CASE c1 <= c + n /\ d1 + 1 + k <= d + k1
  <2>1. P((d1 + 1) + k) <= P(d + k1)
    BY <1>3, <1>7
  <2>2. P(d1) + n + P(k) <= P(d) + P(k1)
    BY <1>1, <1>2, <2>1
  <2>3. QED
    BY <1>4, <1>5, <1>7, <2>2
<1>8. QED
  BY <1>6, <1>7

\* The counts are numbers, and those to come are as many as the workers at most.
LEMMA Counts ==
  ASSUME IndInv, NEW e \in Events
  PROVE  /\ W \in Nat /\ Bill \in Nat /\ rows[e] \in Nat /\ Cardinality(Going(e)) \in Nat
         /\ Room(e) \in {0, 1} /\ Orphan(e) \in {0, 1} /\ Cardinality(Leaving(e)) \in Nat
         /\ Cardinality(Going(e)) + Room(e) <= W
<1>1. Going(e) \subseteq Engaged(e) /\ Engaged(e) \subseteq Workers /\ Leaving(e) \subseteq Workers
  BY DEF Going, Engaged, Leaving
<1>2. W \in Nat /\ Cardinality(Going(e)) \in Nat /\ Cardinality(Leaving(e)) \in Nat
  BY <1>1, WorkersCounted
<1>3. Cardinality(Going(e)) + Room(e) <= W
  BY <1>1, <1>2, AllOfThem DEF Room
<1>4. Room(e) \in {0, 1} /\ Orphan(e) \in {0, 1}
  BY DEF Room, Orphan
<1>5. Bill \in Nat /\ rows[e] \in Nat
  BY IngestAssumption DEF Bill, IndInv, StoreType, DeviceType, IngestAssumption
<1>6. QED
  BY <1>2, <1>3, <1>4, <1>5

LEMMA CountsNext ==
  ASSUME IndInv', NEW e \in Events
  PROVE  /\ Bill' \in Nat /\ rows'[e] \in Nat /\ Cardinality(Going(e)') \in Nat
         /\ Room(e)' \in {0, 1} /\ Orphan(e)' \in {0, 1} /\ Cardinality(Leaving(e)') \in Nat
         /\ Cardinality(Going(e)') + Room(e)' <= W
<1>1. Going(e)' \subseteq Engaged(e)' /\ Engaged(e)' \subseteq Workers /\ Leaving(e)' \subseteq Workers
  BY DEF Going, Engaged, Leaving
<1>2. W \in Nat /\ Cardinality(Going(e)') \in Nat /\ Cardinality(Leaving(e)') \in Nat
  BY <1>1, WorkersCounted
<1>3. Cardinality(Going(e)') + Room(e)' <= W
  BY <1>1, <1>2, AllOfThem DEF Room
<1>4. Room(e)' \in {0, 1} /\ Orphan(e)' \in {0, 1}
  BY DEF Room, Orphan
<1>5. Bill' \in Nat /\ rows'[e] \in Nat
  <2>1. rows'[e] \in Nat
    BY DEF IndInv, StoreType
  <2>2. crashes' \in 0 .. MaxCrashes /\ faults' \in 0 .. MaxFaults
    BY DEF IndInv, DeviceType
  <2>3. {crashes', faults'} \subseteq Nat
    BY <2>2, IngestAssumption DEF IngestAssumption
  <2>4. QED
    BY <2>1, <2>3 DEF Bill
<1>6. QED
  BY <1>2, <1>3, <1>4, <1>5

\* A step that costs an event nothing, or a vacancy that is paid.
Costs(e) ==
  \/ rows'[e] + Cardinality(Going(e)') + Room(e)' <= rows[e] + Cardinality(Going(e)) + Room(e)
     /\ Cardinality(Leaving(e)') + Orphan(e)' + Bill <= Cardinality(Leaving(e)) + Orphan(e) + Bill'
  \/ rows'[e] <= rows[e]
     /\ Cardinality(Leaving(e)') + Orphan(e)' + 1 + Bill <= Cardinality(Leaving(e)) + Orphan(e) + Bill'

LEMMA PaidStep ==
  ASSUME IndInv, IndInv', PaidInv, OwnInv', \A e \in Malformed : rows'[e] = 0,
         \A e \in Events \ Malformed : Costs(e)
  PROVE  PaidInv'
<1>1. ASSUME NEW e \in Events \ Malformed
      PROVE  RowsToCome(e)' + W * Vacancies(e)' <= 1 + W * Bill'
  <2> DEFINE c == RowsToCome(e)
             c1 == RowsToCome(e)'
             d == Vacancies(e)
             d1 == Vacancies(e)'
  <2>1. W \in Nat /\ c \in Nat /\ c1 \in Nat /\ d \in Nat /\ d1 \in Nat /\ Bill \in Nat /\ Bill' \in Nat
        /\ c1 <= rows'[e] + W /\ rows[e] <= c /\ rows[e] \in Nat /\ rows'[e] \in Nat
    BY Counts, CountsNext DEF RowsToCome, Vacancies
  <2>2. (c1 <= c /\ d1 + Bill <= d + Bill') \/ (rows'[e] <= rows[e] /\ d1 + 1 + Bill <= d + Bill')
    BY <1>1, Counts, CountsNext DEF Costs, RowsToCome, Vacancies
  <2>3. c + W * d <= 1 + W * Bill
    BY DEF PaidInv
  <2> HIDE DEF c, c1, d, d1
  <2>4. rows'[e] <= rows[e] => c1 <= c + W
    BY <2>1
  <2>5. (c1 <= c /\ d1 + Bill <= d + Bill') \/ (c1 <= c + W /\ d1 + 1 + Bill <= d + Bill')
    BY <2>2, <2>4
  <2>6. c1 + W * d1 <= 1 + W * Bill'
    BY <2>1, <2>3, <2>5, Pays
  <2>7. QED
    BY <2>6 DEF c1, d1
<1>2. QED
  BY <1>1 DEF PaidInv

\* Requests for other events, and workers that are not past the claim of this one, do not count.
LEMMA Elsewhere ==
  ASSUME IndInv, IndInv', OwnInv, OwnInv', NEW w \in Workers, OthersStay(w), NEW e \in Events,
         w \notin Engaged(e), w \notin Engaged(e)', key'[e] = key[e], rows'[e] = rows[e], Bill <= Bill'
  PROVE  Costs(e)
<1>1. Going(e)' = Going(e) /\ Leaving(e)' = Leaving(e) /\ Engaged(e)' = Engaged(e)
  BY DEF OthersStay, Going, Leaving, Engaged
<1>2. Claimed(e)' = Claimed(e)
  BY DEF OthersStay, Claimed, OwnInv, Engaged
<1>3. Room(e)' = Room(e) /\ Orphan(e)' = Orphan(e)
  BY <1>1, <1>2 DEF Room, Orphan
<1>4. QED
  BY <1>1, <1>3, Counts, CountsNext DEF Costs

\* A worker that stays past the claim, without changing what it may still do.
LEMMA GoesOn ==
  ASSUME IndInv, IndInv', NEW w \in Workers, OthersStay(w), NEW e \in Events,
         req[w] = e, req'[w] = e, owns'[w] = owns[w], key'[e] = key[e], rows'[e] >= rows[e], Bill <= Bill',
         w \in Engaged(e), w \in Engaged(e)',
         (w \in Going(e)' /\ rows'[e] = rows[e]) => w \in Going(e),
         rows'[e] <= rows[e] + 1, rows'[e] > rows[e] => w \in Going(e) /\ w \notin Going(e)',
         w \in Leaving(e)' => w \in Leaving(e) \/ Bill < Bill'
  PROVE  Costs(e)
<1>1. Engaged(e)' = Engaged(e) /\ Claimed(e)' = Claimed(e)
  BY DEF OthersStay, Engaged, Claimed
<1>2. Room(e)' = Room(e) /\ Orphan(e)' = Orphan(e)
  BY <1>1 DEF Room, Orphan
<1>3. \A v \in Workers \ {w} : (v \in Going(e)' <=> v \in Going(e)) /\ (v \in Leaving(e)' <=> v \in Leaving(e))
  BY DEF OthersStay, Going, Leaving
<1>0. Going(e) \in SUBSET Workers /\ Going(e)' \in SUBSET Workers
      /\ Leaving(e) \in SUBSET Workers /\ Leaving(e)' \in SUBSET Workers
  BY DEF Going, Leaving
<1>t. /\ {Bill, Bill', rows[e], rows'[e], Cardinality(Going(e)), Cardinality(Going(e)')} \subseteq Nat
      /\ {Cardinality(Leaving(e)), Cardinality(Leaving(e)'), Room(e), Orphan(e)} \subseteq Nat
  BY Counts, CountsNext
<1>4. rows'[e] + Cardinality(Going(e)') <= rows[e] + Cardinality(Going(e))
  <2>1. CASE rows'[e] = rows[e]
    <3>1. Going(e)' \subseteq Going(e)
      BY <1>0, <1>3, <2>1
    <3>2. QED
      BY <1>0, <1>t, <2>1, <3>1, Smaller
  <2>2. CASE rows'[e] > rows[e]
    <3>1. w \in Going(e) /\ Going(e)' \subseteq Going(e) \ {w}
      BY <1>0, <1>3, <2>2
    <3>2. Cardinality(Going(e)') + 1 <= Cardinality(Going(e))
      BY <1>0, <3>1, OneLess
    <3>3. QED
      BY <1>t, <3>2
  <2>3. QED
    BY <1>t, <2>1, <2>2
<1>5. Cardinality(Leaving(e)') + Bill <= Cardinality(Leaving(e)) + Bill'
  <2>1. CASE Leaving(e)' \subseteq Leaving(e)
    BY <1>0, <1>t, <2>1, Smaller
  <2>2. CASE Bill < Bill'
    <3>1. Leaving(e)' \subseteq Leaving(e) \cup {w}
      BY <1>0, <1>3
    <3>2. Cardinality(Leaving(e)') <= Cardinality(Leaving(e)) + 1
      BY <1>0, <3>1, OneMore
    <3>3. QED
      BY <1>t, <2>2, <3>2
  <2>3. QED
    BY <1>0, <1>3, <2>1, <2>2
<1>6. QED
  BY <1>2, <1>4, <1>5, <1>t DEF Costs

\* A request that ends: with the claim of its event unsettled it may leave an orphan, or a vacancy
\* that was counted as to come; a fault or a crash pays, or its own leaving of the key as it is.
LEMMA Ends ==
  ASSUME IndInv, IndInv', NEW w \in Workers, OthersStay(w), NEW e \in Events,
         w \notin Engaged(e)', rows'[e] = rows[e], Bill <= Bill',
         \/ key'[e] = key[e] /\ Bill < Bill'
         \/ key'[e] = key[e] /\ key[e] # "in_progress" /\ w \in Leaving(e)
         \/ key'[e] = "result"
         \/ key'[e] = "none" /\ w \in Leaving(e)
         \/ key'[e] = "in_progress" /\ Bill < Bill'
  PROVE  Costs(e)
<1>0. Going(e) \in SUBSET Workers /\ Going(e)' \in SUBSET Workers
      /\ Leaving(e) \in SUBSET Workers /\ Leaving(e)' \in SUBSET Workers
  BY DEF Going, Leaving
<1>t. /\ {Bill, Bill', rows[e], rows'[e], Cardinality(Going(e)), Cardinality(Going(e)')} \subseteq Nat
      /\ {Cardinality(Leaving(e)), Cardinality(Leaving(e)')} \subseteq Nat
      /\ {Room(e), Orphan(e), Room(e)', Orphan(e)'} \subseteq {0, 1}
  BY Counts, CountsNext
<1>1. w \notin Going(e)' /\ w \notin Leaving(e)'
  BY DEF Engaged, Going, Leaving
<1>2. Leaving(e)' \subseteq Leaving(e) \ {w}
  BY <1>1 DEF OthersStay, Leaving
<1>3. Cardinality(Leaving(e)') <= Cardinality(Leaving(e))
  BY <1>0, <1>2, Smaller
<1>4. w \in Leaving(e) => Cardinality(Leaving(e)') + 1 <= Cardinality(Leaving(e))
  BY <1>0, <1>2, OneLess
<1>5. key'[e] # "none" => Going(e)' \subseteq Going(e) /\ Room(e)' = 0
  BY <1>1 DEF OthersStay, Going, Room
<1>6. key'[e] # "none" => Cardinality(Going(e)') <= Cardinality(Going(e))
  BY <1>0, <1>5, Smaller
<1>7. key'[e] # "in_progress" => Orphan(e)' = 0
  BY DEF Orphan
<1>8. CASE key'[e] = "result"
  BY <1>3, <1>5, <1>6, <1>7, <1>8, <1>t DEF Costs
<1>9. CASE key'[e] = "in_progress" /\ Bill < Bill'
  BY <1>3, <1>5, <1>6, <1>9, <1>t DEF Costs
<1>10. CASE key'[e] = "none" /\ (w \in Leaving(e) \/ Bill < Bill')
  BY <1>3, <1>4, <1>7, <1>10, <1>t DEF Costs
<1>11. key'[e] \in {"none", "in_progress", "result"}
  BY DEF IndInv, StoreType
<1>12. QED
  BY <1>8, <1>9, <1>10, <1>11

LEMMA InitPaidInv == Init => PaidInv
<1> SUFFICES ASSUME Init PROVE PaidInv
  OBVIOUS
<1> USE IngestAssumption
<1>1. OwnInv /\ \A e \in Malformed : rows[e] = 0
  BY DEF Init, OwnInv
<1>2. ASSUME NEW e \in Events \ Malformed
      PROVE  RowsToCome(e) + W * Vacancies(e) <= 1 + W * Bill
  <2>1. Going(e) = {} /\ Leaving(e) = {} /\ rows[e] = 0 /\ key[e] = "none" /\ Bill = 0
    BY DEF Init, Going, Leaving, Bill
  <2>2. Cardinality(Going(e)) = 0 /\ Cardinality(Leaving(e)) = 0 /\ Orphan(e) = 0 /\ Room(e) \in {0, 1} /\ W \in Nat
    BY <2>1, FS_EmptySet, WorkersCounted DEF Orphan, Room
  <2>3. RowsToCome(e) <= 1 /\ Vacancies(e) = 0 /\ RowsToCome(e) \in Nat
    BY <2>1, <2>2 DEF RowsToCome, Vacancies
  <2>4. QED
    BY <2>1, <2>2, <2>3
<1>3. QED
  BY <1>1, <1>2 DEF PaidInv

\* The acting worker, and the counters.
LEMMA OneActs ==
  ASSUME WorkerType, NEW w \in Workers
  PROVE  /\ Answer(w) => OthersStay(w) /\ pc'[w] = "idle" /\ ~owns'[w]
         /\ \A l : Goto(w, l) => OthersStay(w) /\ pc'[w] = l /\ req'[w] = req[w] /\ owns'[w] = owns[w]
BY DEF WorkerType, Answer, Goto, OthersStay

LEMMA Billed ==
  ASSUME IndInv
  PROVE  /\ Fault /\ UNCHANGED crashes => Bill < Bill' /\ Bill <= Bill'
         /\ UNCHANGED <<faults, crashes>> => Bill' = Bill /\ Bill <= Bill'
         /\ UNCHANGED faults /\ crashes' = crashes + 1 => Bill < Bill' /\ Bill <= Bill'
<1>1. crashes \in Nat /\ faults \in Nat
  BY IngestAssumption DEF IndInv, DeviceType, IngestAssumption
<1>2. QED
  BY <1>1 DEF Bill, Fault

LEMMA NextPaidInv == IndInv /\ IndInv' /\ PaidInv /\ [Next]_vars => PaidInv'
<1> SUFFICES ASSUME IndInv, IndInv', PaidInv, [Next]_vars PROVE PaidInv'
  OBVIOUS
<1> USE IngestAssumption
<1>inv. WorkerType /\ StoreType /\ OwnInv
  BY DEF IndInv, PaidInv
<1>typ. /\ pc \in [Workers -> Labels] /\ req \in [Workers -> Events \cup {None}]
        /\ owns \in [Workers -> BOOLEAN] /\ key \in [Events -> {"none", "in_progress", "result"}]
        /\ rows \in [Events -> Nat]
  BY <1>inv DEF WorkerType, StoreType
<1>mal. \A e \in Malformed : e \in Events /\ rows[e] = 0
  BY DEF PaidInv
<1>1. ASSUME NEW w \in Workers, NEW e \in Events, Submit(w, e) PROVE PaidInv'
  <2>1. /\ OthersStay(w) /\ pc[w] = "idle" /\ pc'[w] = "claim" /\ owns' = owns
        /\ UNCHANGED <<key, rows>> /\ Bill <= Bill'
    BY <1>1, <1>typ, Billed DEF Submit, OthersStay
  <2>2. OwnInv'
    BY <1>inv, <2>1 DEF OwnInv, OthersStay
  <2>3. \A f \in Events : Costs(f)
    BY <1>inv, <2>1, <2>2, Elsewhere DEF Engaged
  <2>4. QED
    BY <1>mal, <2>1, <2>2, <2>3, PaidStep
<1>2. ASSUME NEW w \in Workers, Answer(w), UNCHANGED rows, Bill <= Bill', pc[w] # "idle",
             NEW e \in Events, e = req[w], \A f \in Events \ {e} : key'[f] = key[f], Costs(e)
      PROVE  PaidInv'
  <2>1. OthersStay(w) /\ pc'[w] = "idle" /\ ~owns'[w]
    BY <1>2, <1>inv, OneActs
  <2>2. OwnInv'
    BY <1>inv, <2>1 DEF OwnInv, OthersStay
  <2>3. ASSUME NEW f \in Events PROVE Costs(f)
    BY <1>2, <1>inv, <2>1, <2>2, Elsewhere DEF Engaged
  <2>4. QED
    BY <1>2, <1>mal, <2>2, <2>3, PaidStep
<1>3. ASSUME NEW w \in Workers, NEW l \in Labels, Goto(w, l), pc[w] # "idle", Bill <= Bill',
             owns[w] => l \in {"insert", "publish", "mark", "release", "delete"},
             NEW e \in Events, e = req[w], UNCHANGED key, \A f \in Events \ {e} : rows'[f] = rows[f],
             \A f \in Malformed : rows'[f] = 0,
             e \notin Malformed => Costs(e)
      PROVE  PaidInv'
  <2>1. OthersStay(w) /\ pc'[w] = l /\ req'[w] = req[w] /\ owns'[w] = owns[w]
    BY <1>3, <1>inv, OneActs
  <2>2. OwnInv'
    BY <1>3, <1>inv, <2>1 DEF OwnInv, OthersStay
  <2>3. ASSUME NEW f \in Events, f # e PROVE Costs(f)
    BY <1>3, <1>inv, <2>1, <2>2, <2>3, Elsewhere DEF Engaged
  <2>4. QED
    BY <1>3, <2>2, <2>3, PaidStep
\* An answer that a fault or a crash pays.
<1>4. ASSUME NEW w \in Workers, Answer(w), UNCHANGED <<key, rows>>, Bill < Bill', Bill <= Bill', pc[w] # "idle"
      PROVE  PaidInv'
  <2>1. PICK e \in Events : e = req[w]
    BY <1>4, <1>inv, AtWork
  <2>2. OthersStay(w) /\ w \notin Engaged(e)'
    BY <1>4, <1>inv, OneActs DEF Engaged
  <2>3. Costs(e)
    BY <1>4, <2>2, Ends
  <2>4. QED
    BY <1>2, <1>4, <2>1, <2>3
<1>5. ASSUME NEW w \in Workers, Claim(w) PROVE PaidInv'
  <2>e. PICK e \in Events : e = req[w]
    BY <1>5, <1>inv, AtWork DEF Claim
  <2>1. e \in Events /\ pc[w] = "claim" /\ UNCHANGED <<rows, crashes>> /\ w \notin Engaged(e) /\ ~owns[w]
    BY <2>e, <1>5, <1>inv, AtWork DEF Claim, Engaged, OwnInv
  <2>2. CASE Vacant(w) /\ SetClaim(e) /\ pc' = [pc EXCEPT ![w] = "insert"]
             /\ owns' = [owns EXCEPT ![w] = TRUE] /\ UNCHANGED <<req, faults>>
    <3>1. /\ OthersStay(w) /\ pc'[w] = "insert" /\ req'[w] = e /\ owns'[w] /\ Bill' = Bill /\ Bill <= Bill'
          /\ key[e] = "none" /\ key'[e] = "in_progress" /\ \A f \in Events \ {e} : key'[f] = key[f]
      BY <2>e, <2>1, <2>2, <1>typ, Billed DEF OthersStay, Vacant, SetClaim
    <3>2. OwnInv'
      BY <2>e, <1>inv, <3>1 DEF OwnInv, OthersStay
    <3>3. Costs(e)
      <4>1. Going(e) \in SUBSET Workers /\ Going(e)' \in SUBSET Workers /\ Going(e)' \subseteq Going(e) \cup {w}
        BY <2>e, <3>1 DEF Going, OthersStay
      <4>2. Leaving(e)' = Leaving(e)
        BY <2>e, <2>1, <3>1 DEF Leaving, OthersStay
      <4>3. Room(e) = 1 /\ Room(e)' = 0 /\ Orphan(e) = 0
        BY <2>e, <2>1, <3>1 DEF Room, Orphan
      <4>4. Orphan(e)' = 0
        BY <2>e, <3>1 DEF Orphan, Claimed
      <4>5. Cardinality(Going(e)') <= Cardinality(Going(e)) + 1
        BY <4>1, OneMore
      <4>6. QED
        BY <2>e, <2>1, <3>1, <4>2, <4>3, <4>4, <4>5, Counts, CountsNext DEF Costs
    <3>4. \A f \in Events \ {e} : Costs(f)
      BY <2>e, <1>inv, <2>1, <3>1, <3>2, Elsewhere DEF Engaged
    <3>5. QED
      BY <2>e, <1>mal, <2>1, <3>2, <3>3, <3>4, PaidStep
  <2>3. CASE ~Vacant(w) /\ Goto(w, "get") /\ UNCHANGED <<key, faults>>
    <3>1. OthersStay(w) /\ pc'[w] = "get" /\ req'[w] = e /\ owns'[w] = owns[w] /\ Bill' = Bill /\ Bill <= Bill' /\ key[e] # "none"
      BY <2>e, <1>inv, <2>1, <2>3, OneActs, Billed DEF Vacant
    <3>2. Going(e)' = Going(e) /\ Leaving(e)' = Leaving(e) /\ Room(e)' = Room(e)
      BY <2>e, <2>1, <2>3, <3>1 DEF Going, Leaving, Room, OthersStay
    <3>3. Orphan(e)' = Orphan(e)
      BY <2>e, <2>1, <2>3, <3>1 DEF Orphan, Claimed, OthersStay
    <3>4. Costs(e)
      BY <2>e, <2>1, <3>1, <3>2, <3>3, Counts, CountsNext DEF Costs
    <3>5. "get" \in Labels
      BY DEF Labels
    <3>6. QED
      BY <2>e, <1>3, <1>mal, <2>1, <2>3, <3>1, <3>4, <3>5
  <2>4. CASE Fault /\ AnswerError(w) /\ UNCHANGED <<key, expiring>>
    BY <2>e, <1>4, <2>1, <2>4, Billed DEF AnswerError
  <2>5. CASE Fault /\ AnswerError(w) /\ Vacant(w) /\ SetClaim(e)
    <3>1. Answer(w) /\ Bill < Bill' /\ Bill <= Bill'
      BY <2>e, <2>1, <2>5, Billed DEF AnswerError
    <3>2. key'[e] = "in_progress" /\ \A f \in Events \ {e} : key'[f] = key[f]
      BY <2>e, <2>1, <2>5, <1>typ DEF SetClaim
    <3>3. OthersStay(w) /\ w \notin Engaged(e)'
      BY <2>e, <1>inv, <3>1, OneActs DEF Engaged
    <3>4. Costs(e)
      BY <2>e, <2>1, <3>1, <3>2, <3>3, Ends
    <3>5. QED
      BY <2>e, <1>2, <2>1, <3>1, <3>2, <3>4
  <2>6. QED
    BY <2>e, <1>5, <2>2, <2>3, <2>4, <2>5 DEF Claim
<1>6. ASSUME NEW w \in Workers, Get(w) \/ Wait(w) PROVE PaidInv'
  <2>e. PICK e \in Events : e = req[w]
    BY <1>6, <1>inv, AtWork DEF Get, Wait
  <2>1. e \in Events /\ pc[w] \in {"get", "wait"} /\ UNCHANGED <<key, rows, crashes>> /\ ~owns[w]
    BY <2>e, <1>6, <1>inv, AtWork DEF Get, Wait, OwnInv
  <2>2. CASE pc[w] = "get" /\ key[e] = "none" /\ Goto(w, "insert") /\ UNCHANGED faults
    <3>1. OthersStay(w) /\ pc'[w] = "insert" /\ req'[w] = e /\ owns'[w] = owns[w] /\ Bill' = Bill /\ Bill <= Bill'
      BY <2>e, <1>inv, <2>1, <2>2, OneActs, Billed
    <3>2. w \in Engaged(e) /\ w \in Engaged(e)' /\ w \in Going(e) /\ w \notin Leaving(e)'
      BY <2>e, <2>2, <3>1 DEF Engaged, Going, Leaving
    <3>3. rows[e] \in Nat /\ rows'[e] = rows[e]
      BY <2>e, <1>typ, <2>1
    <3>4. Costs(e)
      BY <2>e, <2>1, <3>1, <3>2, <3>3, GoesOn
    <3>5. "insert" \in Labels
      BY DEF Labels
    <3>6. QED
      BY <2>e, <1>3, <1>mal, <2>1, <2>2, <3>1, <3>4, <3>5
  <2>3. CASE pc[w] = "get" /\ key[e] = "in_progress" /\ Goto(w, "wait") /\ UNCHANGED faults
    <3>1. OthersStay(w) /\ pc'[w] = "wait" /\ req'[w] = e /\ owns'[w] = owns[w] /\ Bill' = Bill /\ Bill <= Bill'
      BY <2>e, <1>inv, <2>1, <2>3, OneActs, Billed
    <3>2. Going(e)' = Going(e) /\ Leaving(e)' = Leaving(e) /\ Room(e)' = Room(e)
      BY <2>e, <2>1, <2>3, <3>1 DEF Going, Leaving, Room, OthersStay
    <3>3. Orphan(e)' = Orphan(e)
      BY <2>e, <2>1, <3>1 DEF Orphan, Claimed, OthersStay
    <3>4. Costs(e)
      BY <2>e, <2>1, <3>1, <3>2, <3>3, Counts, CountsNext DEF Costs
    <3>5. "wait" \in Labels
      BY DEF Labels
    <3>6. QED
      BY <2>e, <1>3, <1>mal, <2>1, <2>3, <3>1, <3>4, <3>5
  <2>4. CASE Fault /\ Answer(w)
    BY <2>e, <1>4, <2>1, <2>4, Billed
  <2>5. CASE Answer(w) /\ UNCHANGED faults /\ (pc[w] = "get" => key[e] = "result")
    <3>1. OthersStay(w) /\ ~owns'[w] /\ w \notin Engaged(e)' /\ pc'[w] = "idle" /\ Bill' = Bill /\ Bill <= Bill'
      BY <2>e, <1>inv, <2>1, <2>5, OneActs, Billed DEF Engaged
    <3>2. Costs(e)
      <4>1. CASE pc[w] = "get"
        BY <2>e, <2>1, <2>5, <3>1, <4>1, Ends
      <4>2. CASE pc[w] = "wait"
        <5>1. OwnInv'
          BY <1>inv, <3>1 DEF OwnInv, OthersStay
        <5>2. w \notin Engaged(e)
          BY <4>2 DEF Engaged
        <5>3. QED
          BY <1>inv, <2>1, <3>1, <5>1, <5>2, Elsewhere
      <4>3. QED
        BY <2>1, <4>1, <4>2
    <3>3. QED
      BY <1>2, <2>e, <2>1, <2>5, <3>1, <3>2
  <2>6. QED
    BY <2>e, <1>6, <2>1, <2>2, <2>3, <2>4, <2>5
       DEF Get, Wait, HasResult, AnswerSuccess, AnswerError, AnswerInProgress, AnswerUnbacked
<1>7. ASSUME NEW w \in Workers, Insert(w) PROVE PaidInv'
  <2>e. PICK e \in Events : e = req[w]
    BY <1>7, <1>inv, AtWork DEF Insert
  <2>1. /\ e \in Events /\ pc[w] = "insert" /\ UNCHANGED <<key, crashes>> /\ rows[e] \in Nat
        /\ w \in Engaged(e) /\ w \in Going(e) /\ w \notin Leaving(e)
    BY <2>e, <1>7, <1>inv, <1>typ, AtWork DEF Insert, Engaged, Going, Leaving
  <2>l. {"release", "publish"} \subseteq Labels
    BY DEF Labels
  <2>2. CASE Rejected(e) /\ Goto(w, "release") /\ UNCHANGED rows
    <3>1. Bill <= Bill'
      BY <2>e, <1>7, <2>1, Billed DEF Insert
    <3>2. QED
      BY <2>e, <1>3, <1>mal, <2>1, <2>2, <2>l, <3>1 DEF Rejected
  <2>3. CASE ~Rejected(e) /\ Goto(w, "publish") /\ rows' = [rows EXCEPT ![e] = @ + 1] /\ UNCHANGED faults
    <3>1. OthersStay(w) /\ pc'[w] = "publish" /\ req'[w] = e /\ owns'[w] = owns[w] /\ Bill' = Bill /\ Bill <= Bill'
      BY <2>e, <1>inv, <2>1, <2>3, OneActs, Billed
    <3>2. rows'[e] = rows[e] + 1 /\ (\A f \in Events \ {e} : rows'[f] = rows[f])
          /\ w \in Engaged(e)' /\ w \notin Going(e)' /\ w \notin Leaving(e)'
      BY <2>e, <1>typ, <2>1, <2>3, <3>1 DEF Engaged, Going, Leaving
    <3>3. rows'[e] >= rows[e] /\ rows'[e] <= rows[e] + 1
      BY <2>e, <2>1, <3>2
    <3>4. Costs(e)
      BY <2>e, <2>1, <3>1, <3>2, <3>3, GoesOn
    <3>5. \A f \in Malformed : rows'[f] = 0
      BY <2>e, <1>mal, <2>3, <3>2 DEF Rejected
    <3>6. QED
      BY <2>e, <1>3, <2>1, <2>3, <2>l, <3>1, <3>2, <3>4, <3>5
  <2>4. CASE ~Rejected(e) /\ Fault /\ Goto(w, "release") /\ rows' \in {rows, [rows EXCEPT ![e] = @ + 1]}
    <3>1. OthersStay(w) /\ pc'[w] = "release" /\ req'[w] = e /\ owns'[w] = owns[w] /\ Bill < Bill' /\ Bill <= Bill'
      BY <2>e, <1>inv, <2>1, <2>4, OneActs, Billed
    <3>2. rows'[e] \in {rows[e], rows[e] + 1} /\ (\A f \in Events \ {e} : rows'[f] = rows[f])
          /\ w \in Engaged(e)' /\ w \notin Going(e)'
      BY <2>e, <1>typ, <2>1, <2>4, <3>1 DEF Engaged, Going
    <3>3. rows'[e] >= rows[e] /\ rows'[e] <= rows[e] + 1
      BY <2>e, <2>1, <3>2
    <3>4. Costs(e)
      BY <2>e, <2>1, <3>1, <3>2, <3>3, GoesOn
    <3>5. \A f \in Malformed : rows'[f] = 0
      BY <2>e, <1>mal, <2>4, <3>2 DEF Rejected
    <3>6. QED
      BY <2>e, <1>3, <2>1, <2>4, <2>l, <3>1, <3>2, <3>4, <3>5
  <2>5. QED
    BY <2>e, <1>7, <2>2, <2>3, <2>4 DEF Insert
<1>8. ASSUME NEW w \in Workers, Publish(w) PROVE PaidInv'
  <2>1. PICK e \in Events : e = req[w]
    BY <1>8, <1>inv, AtWork DEF Publish
  <2>2. pc[w] = "publish" /\ Goto(w, "mark") /\ UNCHANGED <<key, rows>> /\ Bill <= Bill' /\ rows[e] \in Nat
    BY <1>8, <1>typ, Billed DEF Publish
  <2>3. OthersStay(w) /\ pc'[w] = "mark" /\ req'[w] = e /\ owns'[w] = owns[w]
    BY <1>inv, <2>1, <2>2, OneActs
  <2>4. w \in Engaged(e) /\ w \in Engaged(e)' /\ w \notin Going(e)' /\ w \notin Leaving(e)'
    BY <2>1, <2>2, <2>3 DEF Engaged, Going, Leaving
  <2>5. Costs(e)
    BY <2>1, <2>2, <2>3, <2>4, GoesOn
  <2>6. "mark" \in Labels
    BY DEF Labels
  <2>7. QED
    BY <1>3, <1>mal, <2>1, <2>2, <2>5, <2>6
<1>9. ASSUME NEW w \in Workers, Mark(w) PROVE PaidInv'
  <2>1. PICK e \in Events : e = req[w]
    BY <1>9, <1>inv, AtWork DEF Mark
  <2>2. pc[w] = "mark" /\ UNCHANGED <<rows, crashes>> /\ rows[e] \in Nat
    BY <1>9, <1>typ DEF Mark
  <2>3. CASE key' = [key EXCEPT ![e] = "result"] /\ Answer(w) /\ UNCHANGED faults
    <3>1. OthersStay(w) /\ w \notin Engaged(e)' /\ Bill <= Bill'
      BY <1>inv, <2>2, <2>3, OneActs, Billed DEF Engaged
    <3>2. key'[e] = "result" /\ \A f \in Events \ {e} : key'[f] = key[f]
      BY <1>typ, <2>3
    <3>3. Costs(e)
      BY <2>2, <3>1, <3>2, Ends
    <3>4. QED
      BY <1>2, <2>1, <2>2, <2>3, <3>1, <3>2, <3>3
  <2>4. CASE Fault /\ Answer(w) /\ UNCHANGED key
    BY <1>4, <2>2, <2>4, Billed
  <2>5. CASE Fault /\ Goto(w, "release") /\ UNCHANGED key
    <3>1. OthersStay(w) /\ pc'[w] = "release" /\ req'[w] = e /\ owns'[w] = owns[w] /\ Bill < Bill' /\ Bill <= Bill'
      BY <1>inv, <2>1, <2>2, <2>5, OneActs, Billed
    <3>2. w \in Engaged(e) /\ w \in Engaged(e)' /\ w \notin Going(e)'
      BY <2>1, <2>2, <3>1 DEF Engaged, Going
    <3>3. Costs(e)
      BY <2>1, <2>2, <2>5, <3>1, <3>2, GoesOn
    <3>4. "release" \in Labels
      BY DEF Labels
    <3>5. QED
      BY <1>3, <1>mal, <2>1, <2>2, <2>5, <3>1, <3>3, <3>4
  <2>6. QED
    BY <1>9, <2>1, <2>3, <2>4, <2>5 DEF Mark, AnswerSuccess
<1>10. ASSUME NEW w \in Workers, Release(w) PROVE PaidInv'
  <2>1. PICK e \in Events : e = req[w]
    BY <1>10, <1>inv, AtWork DEF Release
  <2>2. /\ pc[w] = "release" /\ UNCHANGED <<key, rows, crashes>> /\ rows[e] \in Nat
        /\ w \in Engaged(e) /\ w \in Leaving(e)
    BY <1>10, <1>typ, <2>1 DEF Release, Engaged, Leaving
  <2>3. CASE Goto(w, "delete") /\ UNCHANGED faults
    <3>1. OthersStay(w) /\ pc'[w] = "delete" /\ req'[w] = e /\ owns'[w] = owns[w] /\ Bill <= Bill'
      BY <1>inv, <2>1, <2>2, <2>3, OneActs, Billed
    <3>2. w \in Engaged(e)' /\ w \notin Going(e)'
      BY <3>1 DEF Engaged, Going
    <3>3. Costs(e)
      BY <2>1, <2>2, <3>1, <3>2, GoesOn
    <3>4. "delete" \in Labels
      BY DEF Labels
    <3>5. QED
      BY <1>3, <1>mal, <2>1, <2>2, <2>3, <3>1, <3>3, <3>4
  <2>4. CASE key[e] # "in_progress" /\ Answer(w) /\ UNCHANGED faults
    <3>1. OthersStay(w) /\ w \notin Engaged(e)' /\ Bill <= Bill'
      BY <1>inv, <2>2, <2>4, OneActs, Billed DEF Engaged
    <3>2. Costs(e)
      BY <2>2, <2>4, <3>1, Ends
    <3>3. QED
      BY <1>2, <2>1, <2>2, <2>4, <3>1, <3>2
  <2>5. CASE Fault /\ Answer(w)
    BY <1>4, <2>2, <2>5, Billed
  <2>6. QED
    BY <1>10, <2>1, <2>3, <2>4, <2>5 DEF Release, Releasable, AnswerError
<1>11. ASSUME NEW w \in Workers, Delete(w) PROVE PaidInv'
  <2>1. PICK e \in Events : e = req[w]
    BY <1>11, <1>inv, AtWork DEF Delete
  <2>2. pc[w] = "delete" /\ Answer(w) /\ UNCHANGED <<rows, crashes>> /\ w \in Leaving(e)
    BY <1>11, <2>1 DEF Delete, AnswerError, Leaving
  <2>3. CASE key' = [key EXCEPT ![e] = "none"] /\ UNCHANGED faults
    <3>1. OthersStay(w) /\ w \notin Engaged(e)' /\ Bill <= Bill'
      BY <1>inv, <2>2, <2>3, OneActs, Billed DEF Engaged
    <3>2. key'[e] = "none" /\ \A f \in Events \ {e} : key'[f] = key[f]
      BY <1>typ, <2>3
    <3>3. Costs(e)
      BY <2>2, <3>1, <3>2, Ends
    <3>4. QED
      BY <1>2, <2>1, <2>2, <3>1, <3>2, <3>3
  <2>4. CASE Fault /\ UNCHANGED key
    BY <1>4, <2>2, <2>4, Billed
  <2>5. QED
    BY <1>11, <2>1, <2>3, <2>4 DEF Delete
<1>12. ASSUME NEW w \in Workers, Crash(w) PROVE PaidInv'
  BY <1>4, <1>12, Billed DEF Crash
<1>13. ASSUME NEW e \in Events, Expire(e) \/ Overrun(e) PROVE PaidInv'
  <2>1. /\ key[e] = "in_progress" /\ key' = [key EXCEPT ![e] = "none"]
        /\ UNCHANGED <<rows, pc, req, owns, crashes>>
    BY <1>13, <1>inv DEF Expire, Overrun, Lapse, worker, StoreType
  <2>2. key'[e] = "none" /\ \A f \in Events \ {e} : key'[f] = key[f]
    BY <1>typ, <2>1
  <2>3. OwnInv' /\ Bill <= Bill'
    BY <1>13, <1>inv, <2>1, Billed DEF OwnInv, Expire, Overrun
  <2>4. \A f \in Events : Leaving(f)' = Leaving(f) /\ Engaged(f)' = Engaged(f) /\ Claimed(f)' = Claimed(f)
    BY <2>1 DEF Leaving, Engaged, Claimed
  <2>5. ASSUME NEW f \in Events, f # e PROVE Costs(f)
    <3>1. Going(f)' = Going(f) /\ Room(f)' = Room(f) /\ Orphan(f)' = Orphan(f)
      BY <2>1, <2>2, <2>4, <2>5 DEF Going, Room, Orphan
    <3>2. QED
      BY <2>1, <2>3, <2>4, <3>1, Counts, CountsNext DEF Costs
  <2>6. Costs(e)
    <3>1. Orphan(e)' = 0
      BY <2>2 DEF Orphan
    <3>2. Orphan(e) = 1 \/ Bill < Bill'
      BY <1>13, <2>1, Billed DEF Expire, Overrun, Orphan
    <3>3. QED
      BY <2>1, <2>3, <2>4, <3>1, <3>2, Counts, CountsNext DEF Costs
  <2>7. QED
    BY <1>mal, <2>1, <2>3, <2>5, <2>6, PaidStep
<1>14. CASE UNCHANGED vars
  BY <1>14 DEF vars, worker, devices, PaidInv, OwnInv, Bill, RowsToCome, Vacancies, Going, Leaving, Room, Orphan, Engaged, Claimed
<1>15. QED
  BY <1>1, <1>5, <1>6, <1>7, <1>8, <1>9, <1>10, <1>11, <1>12, <1>13, <1>14 DEF Next, Handle, Quiet

LEMMA PaidHolds == Spec => []PaidInv
<1>1. Init => PaidInv
  BY InitPaidInv
<1>2. IndInv /\ IndInv' /\ PaidInv /\ [Next]_vars => PaidInv'
  BY NextPaidInv
<1>3. QED
  BY <1>1, <1>2, Inductive, PTL DEF Spec

\* However many workers handle an event at once: it has a row, and at most one of each worker for every
\* crash, failing call and claim that ran out, since only these make the key vacant again
\* (the claim, its TTL and its release in the ingest service).
THEOREM RepeatsPaid == Spec => []RepeatsArePaidFor
<1>1. IndInv /\ PaidInv => RepeatsArePaidFor
  <2> SUFFICES ASSUME IndInv, PaidInv, NEW e \in Events PROVE rows[e] <= 1 + W * Bill
    BY DEF RepeatsArePaidFor, W, Bill
  <2>1. /\ W \in Nat /\ Bill \in Nat /\ rows[e] \in Nat /\ Cardinality(Going(e)) \in Nat
        /\ Room(e) \in Nat /\ Vacancies(e) \in Nat
    BY Counts DEF Vacancies
  <2>2. W * Bill \in Nat /\ W * Vacancies(e) \in Nat
    BY <2>1
  <2>3. CASE e \in Malformed
    BY <2>2, <2>3 DEF PaidInv
  <2>4. CASE e \notin Malformed
    <3>1. RowsToCome(e) + W * Vacancies(e) <= 1 + W * Bill
      BY <2>4 DEF PaidInv
    <3>2. QED
      BY <2>1, <2>2, <3>1 DEF RowsToCome
  <2>5. QED
    BY <2>3, <2>4
<1>2. QED
  BY <1>1, Inductive, PaidHolds, PTL

--------------------------------------------------------------------------------
(* A camera's job.                                                              *)

JobTypes ==
  /\ at \in {"start", "playing", "ended", "waiting", "over"} /\ stop \in BOOLEAN /\ healthy \in BOOLEAN
  /\ sample \in {"none", "new", "uploaded"} /\ delay \in FirstDelay .. LastDelay
  /\ {counter, next, failed, frames, brief, silent} \subseteq Nat /\ refusals \in 0 .. MaxRefusals

\* A frame is at hand only while a pipeline plays, and its number is still to come; the job
\* knows the number that the last pipeline left off at.
SampleInv ==
  /\ at # "playing" => sample = "none"
  /\ counter <= frames /\ (sample # "none" => counter < frames)
  /\ at \in {"start", "waiting"} => next = counter

\* The next number is above those of the announced frames.
NumberInv ==
  /\ numbered \in Seq(Nat) /\ Len(numbered) + silent = counter
  /\ \A i \in 1 .. Len(numbered) : numbered[i] < counter
  /\ \A i, j \in 1 .. Len(numbered) : i < j => numbered[i] < numbered[j]

\* The failures in a row are the short pipelines, and one more that stayed up.
StreakInv ==
  /\ failed <= brief + 1 /\ failed <= MaxFailures
  /\ at # "over" => failed < MaxFailures
  /\ at = "over" => stop \/ failed = MaxFailures

JobInv == JobTypes /\ SampleInv /\ NumberInv /\ StreakInv

LEMMA InitJobInv == RtspInit => JobInv
<1> SUFFICES ASSUME RtspInit PROVE JobInv
  OBVIOUS
<1>1. JobTypes
  <2>1. stop \in BOOLEAN /\ healthy \in BOOLEAN
    BY Zenon DEF RtspInit
  <2>2. /\ at = "start" /\ sample = "none" /\ delay = FirstDelay /\ refusals = 0
        /\ counter = 0 /\ next = 0 /\ failed = 0 /\ frames = 0 /\ brief = 0 /\ silent = 0
    BY Zenon DEF RtspInit
  <2>3. QED
    BY <2>1, <2>2, RtspAssumption DEF RtspAssumption, JobTypes
<1>2. SampleInv /\ StreakInv
  BY RtspAssumption DEF RtspAssumption, RtspInit, SampleInv, StreakInv
<1>3. NumberInv
  BY DEF RtspInit, NumberInv
<1>4. QED
  BY <1>1, <1>2, <1>3 DEF JobInv

\* Nothing is numbered.
LEMMA NoNumber ==
  ASSUME NumberInv, UNCHANGED <<numbered, silent>>, counter' = counter
  PROVE  NumberInv'
BY DEF NumberInv

LEMMA Backoff ==
  ASSUME NEW d \in FirstDelay .. LastDelay
  PROVE  Doubled(d) \in FirstDelay .. LastDelay
BY RtspAssumption DEF RtspAssumption, Doubled

LEMMA JobInvKept == JobInv /\ [RtspNext]_rtspVars => JobInv'
<1> SUFFICES ASSUME JobInv, [RtspNext]_rtspVars PROVE JobInv'
  OBVIOUS
<1>i. JobTypes /\ SampleInv /\ NumberInv /\ StreakInv
  BY DEF JobInv
<1>c. /\ MaxFailures \in Nat \ {0} /\ FirstDelay \in Nat \ {0} /\ LastDelay \in Nat \ {0} /\ FirstDelay <= LastDelay
      /\ MaxRefusals \in Nat
  BY RtspAssumption DEF RtspAssumption
<1>r. Refused => refusals' \in 0 .. MaxRefusals
  BY <1>i, <1>c DEF Refused, JobTypes
<1>1. CASE StopStream
  <2>1. stop' /\ at # "over" /\ UNCHANGED <<at, pipeline, job, numbered, frames, healths, refusals, rtspHistory>>
    BY <1>1, Zenon DEF StopStream
  <2>2. UNCHANGED <<at, counter, healthy, sample, next, failed, delay, numbered, frames, refusals, brief, silent>>
    BY <2>1 DEF pipeline, job, rtspHistory
  <2>3. JobTypes'
    BY <1>1, <1>i, <2>2 DEF JobTypes, StopStream
  <2>4. SampleInv' /\ NumberInv'
    BY <1>i, <2>2, NoNumber DEF SampleInv
  <2>5. StreakInv'
    BY <1>i, <2>1, <2>2 DEF StreakInv
  <2>6. QED
    BY <2>3, <2>4, <2>5 DEF JobInv
<1>2. CASE StartPipeline
  <2>1. UNCHANGED <<stop, failed, delay, numbered, frames, healths, refusals, brief, silent, next>> /\ at = "start"
    BY <1>2 DEF StartPipeline, rtspHistory
  <2>2. next = counter /\ sample = "none"
    BY <1>i, <2>1 DEF SampleInv
  <2>3. \/ stop /\ at' = "over" /\ UNCHANGED <<counter, healthy, sample>>
        \/ ~stop /\ at' \in {"playing", "ended"} /\ counter' = counter /\ healthy' = FALSE /\ sample' = "none"
    BY <1>2, <2>2 DEF StartPipeline, pipeline, CarriedOn
  <2>4. counter' = counter /\ sample' = "none" /\ at' \in {"playing", "ended", "over"}
    BY <2>2, <2>3
  <2>5. healthy' \in BOOLEAN
    BY <1>i, <2>3 DEF JobTypes
  <2>6. JobTypes'
    BY <1>i, <2>1, <2>4, <2>5 DEF JobTypes
  <2>7. SampleInv'
    BY <1>i, <2>1, <2>4 DEF SampleInv
  <2>8. NumberInv'
    BY <1>i, <2>1, <2>4, NoNumber
  <2>9. StreakInv'
    BY <1>i, <2>1, <2>3 DEF StreakInv
  <2>10. QED
    BY <2>6, <2>7, <2>8, <2>9 DEF JobInv
<1>3. CASE StayUp
  <2>1. UNCHANGED <<at, stop, counter, sample, next, failed, delay, numbered, frames, refusals, brief, silent>>
    BY <1>3 DEF StayUp, job, rtspHistory
  <2>2. healthy' \in BOOLEAN
    BY <1>3, Zenon DEF StayUp
  <2>3. JobTypes'
    BY <1>i, <2>1, <2>2 DEF JobTypes
  <2>4. QED
    BY <1>i, <2>1, <2>3, NoNumber DEF JobInv, SampleInv, StreakInv
<1>4. CASE Sample \/ UploadSample
  <2>1. UNCHANGED <<at, stop, counter, healthy, next, failed, delay, numbered, brief, silent>>
    BY <1>4 DEF Sample, UploadSample, job, rtspHistory
  <2>2. /\ at = "playing" /\ sample' \in {"none", "new", "uploaded"} /\ frames' \in Nat /\ refusals' \in 0 .. MaxRefusals
        /\ counter <= frames' /\ (sample' # "none" => counter < frames')
    <3>1. CASE Sample
      BY <1>i, <3>1 DEF Sample, JobTypes, SampleInv
    <3>2. CASE UploadSample
      BY <1>i, <1>r, <3>2 DEF UploadSample, JobTypes, SampleInv
    <3>3. QED
      BY <1>4, <3>1, <3>2
  <2>3. JobTypes'
    BY <1>i, <2>1, <2>2 DEF JobTypes
  <2>4. SampleInv'
    BY <1>i, <2>1, <2>2 DEF SampleInv
  <2>5. QED
    BY <1>i, <2>1, <2>3, <2>4, NoNumber DEF JobInv, StreakInv
<1>5. CASE AnnounceSample
  <2>1. /\ UNCHANGED <<at, stop, healthy, next, failed, delay, frames, brief>>
        /\ sample = "uploaded" /\ sample' = "none" /\ counter' = counter + 1
    BY <1>5 DEF AnnounceSample, job
  <2>2. \/ numbered' = Append(numbered, counter) /\ UNCHANGED <<refusals, silent>>
        \/ Refused /\ silent' = silent + 1 /\ UNCHANGED numbered
    BY <1>5 DEF AnnounceSample
  <2>3. counter \in Nat /\ silent \in Nat /\ refusals \in 0 .. MaxRefusals
    BY <1>i DEF JobTypes
  <2>4. silent' \in Nat /\ refusals' \in 0 .. MaxRefusals
    BY <1>r, <2>2, <2>3
  <2>5. JobTypes'
    BY <1>i, <2>1, <2>4 DEF JobTypes
  <2>6. SampleInv'
    <3>1. at = "playing" /\ counter + 1 <= frames
      BY <1>i, <2>1 DEF SampleInv, JobTypes
    <3>2. QED
      BY <2>1, <3>1 DEF SampleInv
  <2>7. NumberInv'
    <3>1. /\ numbered \in Seq(Nat) /\ Len(numbered) \in Nat /\ Len(numbered) + silent = counter
          /\ \A i \in 1 .. Len(numbered) : numbered[i] \in Nat /\ numbered[i] < counter
          /\ \A i, j \in 1 .. Len(numbered) : i < j => numbered[i] < numbered[j]
      BY <1>i DEF NumberInv
    <3>2. CASE numbered' = Append(numbered, counter) /\ UNCHANGED <<refusals, silent>>
      <4>1. /\ numbered' \in Seq(Nat) /\ Len(numbered') = Len(numbered) + 1
            /\ \A i \in 1 .. Len(numbered) : numbered'[i] = numbered[i]
            /\ numbered'[Len(numbered) + 1] = counter
        BY <2>3, <3>1, <3>2
      <4>2. Len(numbered') + silent' = counter'
        BY <2>1, <2>3, <3>1, <3>2, <4>1
      <4>3. \A i \in 1 .. Len(numbered') : i \in 1 .. Len(numbered) \/ i = Len(numbered) + 1
        BY <3>1, <4>1
      <4>4. \A i \in 1 .. Len(numbered') : numbered'[i] < counter'
        <5> SUFFICES ASSUME NEW i \in 1 .. Len(numbered') PROVE numbered'[i] < counter + 1
          BY <2>1
        <5>1. CASE i \in 1 .. Len(numbered)
          <6>1. numbered'[i] = numbered[i] /\ numbered[i] \in Nat /\ numbered[i] < counter
            BY <3>1, <4>1, <5>1
          <6>2. QED
            BY <2>3, <6>1
        <5>2. CASE i = Len(numbered) + 1
          BY <2>3, <4>1, <5>2
        <5>3. QED
          BY <4>3, <5>1, <5>2
      <4>5. ASSUME NEW i \in 1 .. Len(numbered'), NEW j \in 1 .. Len(numbered'), i < j PROVE numbered'[i] < numbered'[j]
        <5>1. i \in 1 .. Len(numbered)
          BY <3>1, <4>1, <4>5
        <5>2. j \in 1 .. Len(numbered) \/ j = Len(numbered) + 1
          BY <4>3
        <5>3. QED
          BY <3>1, <4>1, <4>5, <5>1, <5>2
      <4>6. QED
        BY <4>1, <4>2, <4>4, <4>5 DEF NumberInv
    <3>3. CASE Refused /\ silent' = silent + 1 /\ UNCHANGED numbered
      <4>1. Len(numbered') + silent' = counter'
        BY <2>1, <2>3, <3>1, <3>3
      <4>2. \A i \in 1 .. Len(numbered') : numbered'[i] < counter'
        BY <2>1, <2>3, <3>1, <3>3
      <4>3. QED
        BY <3>1, <3>3, <4>1, <4>2 DEF NumberInv
    <3>4. QED
      BY <2>2, <3>2, <3>3
  <2>8. StreakInv'
    BY <1>i, <2>1 DEF StreakInv
  <2>9. QED
    BY <2>5, <2>6, <2>7, <2>8 DEF JobInv
<1>6. CASE PipelineEnds \/ Waited
  <2>1. UNCHANGED <<stop, counter, healthy, sample, next, failed, delay, numbered, frames, refusals, brief, silent>>
    BY <1>6 DEF PipelineEnds, Waited, pipeline, job, rtspHistory
  <2>2. \/ at = "playing" /\ sample = "none" /\ at' = "ended"
        \/ at = "waiting" /\ at' = "start"
    BY <1>6 DEF PipelineEnds, Waited
  <2>3. JobTypes'
    BY <1>i, <2>1, <2>2 DEF JobTypes
  <2>4. SampleInv' /\ StreakInv'
    BY <1>i, <2>1, <2>2 DEF SampleInv, StreakInv
  <2>5. QED
    BY <1>i, <2>1, <2>3, <2>4, NoNumber DEF JobInv
<1>7. CASE Reassess
  <2>1. at = "ended" /\ next' = counter /\ UNCHANGED <<stop, counter, healthy, sample, numbered, frames, silent>>
    BY <1>7 DEF Reassess, pipeline
  <2>2. \/ stop /\ at' = "over" /\ UNCHANGED <<failed, delay, refusals, brief>>
        \/ /\ ~stop /\ failed' = Streak /\ brief' = IF healthy THEN 0 ELSE brief + 1
           /\ \/ Streak >= MaxFailures /\ at' = "over" /\ delay' = Delay /\ (UNCHANGED refusals \/ Refused)
              \/ ~(Streak >= MaxFailures) /\ at' = "waiting" /\ delay' = Doubled(Delay) /\ UNCHANGED refusals
    BY <1>7, Zenon DEF Reassess
  <2>3. /\ failed \in Nat /\ brief \in Nat /\ failed <= brief + 1 /\ failed < MaxFailures
        /\ delay \in FirstDelay .. LastDelay /\ refusals \in 0 .. MaxRefusals /\ sample = "none" /\ counter \in Nat
    BY <1>i, <2>1 DEF JobTypes, StreakInv, SampleInv
  <2>4. Streak \in Nat /\ Streak <= MaxFailures
    <3>1. Streak = 1 \/ Streak = failed + 1
      BY Zenon DEF Streak
    <3>2. QED
      BY <1>c, <2>3, <3>1
  <2>5. ASSUME brief' = IF healthy THEN 0 ELSE brief + 1 PROVE brief' \in Nat /\ Streak <= brief' + 1
    <3>1. (Streak = 1 /\ brief' = 0) \/ (Streak = failed + 1 /\ brief' = brief + 1)
      BY <2>5, Zenon DEF Streak
    <3>2. QED
      BY <2>3, <3>1
  <2>6. Delay \in FirstDelay .. LastDelay
    <3>1. Delay = FirstDelay \/ Delay = delay
      BY Zenon DEF Delay
    <3>2. QED
      BY <1>c, <2>3, <3>1
  <2>7. delay' \in FirstDelay .. LastDelay
    BY <2>2, <2>3, <2>6, Backoff
  <2>8. failed' \in Nat /\ brief' \in Nat /\ failed' <= brief' + 1 /\ failed' <= MaxFailures /\ refusals' \in 0 .. MaxRefusals
    <3>1. UNCHANGED refusals \/ Refused
      BY <2>2, Zenon
    <3>2. refusals' \in 0 .. MaxRefusals
      BY <1>r, <2>3, <3>1
    <3>3. \/ UNCHANGED <<failed, brief>>
          \/ failed' = Streak /\ brief' = IF healthy THEN 0 ELSE brief + 1
      BY <2>2, Zenon
    <3>4. CASE UNCHANGED <<failed, brief>>
      BY <1>c, <2>3, <3>2, <3>4
    <3>5. CASE failed' = Streak /\ brief' = IF healthy THEN 0 ELSE brief + 1
      <4>1. failed' = Streak /\ brief' \in Nat /\ Streak <= brief' + 1
        BY <2>5, <3>5
      <4>2. QED
        BY <2>4, <3>2, <4>1
    <3>6. QED
      BY <3>3, <3>4, <3>5
  <2>9. /\ at' \in {"over", "waiting"} /\ (at' # "over" => failed' < MaxFailures)
        /\ (at' = "over" => stop \/ failed' = MaxFailures)
    <3>1. \/ stop /\ at' = "over"
          \/ failed' = Streak /\ Streak >= MaxFailures /\ at' = "over"
          \/ failed' = Streak /\ ~(Streak >= MaxFailures) /\ at' = "waiting"
      BY <2>2, Zenon
    <3>2. QED
      BY <1>c, <2>4, <3>1
  <2>10. JobTypes'
    BY <1>i, <2>1, <2>3, <2>7, <2>8, <2>9 DEF JobTypes
  <2>11. SampleInv'
    BY <1>i, <2>1, <2>3, <2>9 DEF SampleInv
  <2>12. StreakInv'
    BY <2>1, <2>8, <2>9 DEF StreakInv
  <2>13. QED
    BY <1>i, <2>1, <2>10, <2>11, <2>12, NoNumber DEF JobInv
<1>8. CASE UNCHANGED rtspVars
  <2>1. UNCHANGED <<at, stop, counter, healthy, sample, next, failed, delay, numbered, frames, refusals, brief, silent>>
    BY <1>8 DEF rtspVars, pipeline, job, rtspHistory
  <2>2. QED
    BY <1>i, <2>1, NoNumber DEF JobInv, JobTypes, SampleInv, StreakInv
<1>9. QED
  BY <1>1, <1>2, <1>3, <1>4, <1>5, <1>6, <1>7, <1>8 DEF RtspNext

\* Over all the pipelines of a camera's job, in any number, frames are numbered in their order
\* and without gaps but for those that could not be announced, and a job that nobody stopped
\* is over only after the limit of short pipelines: run_rtsp_extraction_job.
THEOREM CameraIsFollowed == RtspSpec => []JobHolds
<1>1. JobInv => JobHolds
  <2> SUFFICES ASSUME JobInv PROVE JobHolds
    OBVIOUS
  <2>1. JobTypes /\ SampleInv /\ NumberInv /\ StreakInv
    BY DEF JobInv
  <2>2. MaxFailures \in Nat \ {0}
    BY RtspAssumption DEF RtspAssumption
  <2>3. RtspTypeOK
    <3>1. failed \in 0 .. MaxFailures
      BY <2>1, <2>2 DEF JobTypes, StreakInv
    <3>2. QED
      BY <2>1, <3>1 DEF JobTypes, SampleInv, RtspTypeOK
  <2>4. NumbersInOrder
    BY <2>1 DEF NumberInv, NumbersInOrder
  <2>5. GivesUpForCause
    <3> SUFFICES ASSUME at = "over", ~stop PROVE failed = MaxFailures /\ brief >= MaxFailures - 1
      BY DEF GivesUpForCause
    <3>1. failed = MaxFailures /\ failed <= brief + 1 /\ brief \in Nat
      BY <2>1 DEF StreakInv, JobTypes
    <3>2. QED
      BY <2>2, <3>1
  <2>6. QED
    BY <2>3, <2>4, <2>5 DEF JobHolds
<1>2. QED
  BY <1>1, InitJobInv, JobInvKept, PTL DEF RtspSpec

--------------------------------------------------------------------------------
(* The detections of an event, for any plugins, configurations, frames and      *)
(* workers, and any number of claims, failing calls and crashes.                *)

Detecting == {"object", "look", "write", "insert", "publish"}

Keys == [frame : 1 .. NFrames, class : {"person", "vehicle", "plate", "unknown"}, ordinal : Nat]

\* The type, beside HandlerTypeOK.
DetectionTypes ==
  /\ holder \in Consumers \cup {Nothing} /\ tries \in [Consumers -> 0 .. MaxRetries - 1]
  /\ phase \in [Consumers -> Phases] /\ frame \in [Consumers -> 1 .. NFrames + 1]
  /\ found \in [Consumers -> SUBSET Nat] /\ place \in [Consumers -> Nat]
  /\ local \in [Consumers -> BOOLEAN] /\ crop \in [Consumers -> BOOLEAN]
  /\ DOMAIN last = Consumers
  /\ plates \subseteq Keys \X Objects \X Consumers
  /\ settled \in BOOLEAN /\ dead \in BOOLEAN /\ missed \in BOOLEAN
  /\ dead => settled
  /\ claims \in 0 .. MaxClaims /\ errors \in 0 .. MaxErrors

\* The key is the one that any attempt without failures gives to the object.
KeyedTruly(k, o) ==
  \E f \in 1 .. NFrames : \E i \in Usual(f) :
    o = Sees[f][i] /\ k = KeyOf(f, o, Rank(Usual(f), i))

\* What holds of a published event, and of one that may be published: it is keyed truly and in
\* the stores, and a crop it names is there or charged.
Sound(e) ==
  /\ e.object \in Known /\ e.key.class = Class[e.object]
  /\ Class[e.object] \in {"person", "vehicle"} => <<e.key, e.object>> \in vectors
  /\ e.object \in Plated => ReadOf(e.key) # {}
  /\ e.crop /\ e.key \notin crops => e.key.frame \in blind
  /\ Steady => KeyedTruly(e.key, e.object)

\* A worker is at one of the detections of its frame, which are the usual ones unless
\* something failed, and knows what it has done of it.
AtHand(w) ==
  phase[w] \in Detecting =>
    /\ frame[w] \in 1 .. NFrames /\ found[w] \subseteq DOMAIN Sees[frame[w]] /\ place[w] \in found[w]
    /\ Steady => found[w] = Usual(frame[w])
    /\ local[w] \/ frame[w] \in blind
    /\ phase[w] \in {"look", "write"} => Object(w) \in Plated
    /\ phase[w] = "insert" =>
         /\ Class[Object(w)] \in {"person", "vehicle"}
         /\ Object(w) \in Plated => ReadOf(Key(w)) # {}
    /\ phase[w] \in {"look", "write", "insert"} /\ crop[w] => Key(w) \in crops \/ frame[w] \in blind
    /\ phase[w] = "publish" /\ Object(w) \in Known => last[w] = Event(w)

Published(o) == \E e \in events : e.object = o

\* A worker has published what comes before its detection, it or another one.
BehindIt(w) ==
  phase[w] \notin {"idle", "load"} /\ Steady =>
    \A f \in 1 .. NFrames : \A i \in Usual(f) :
      /\ Sees[f][i] \in Known
      /\ f < frame[w] \/ (f = frame[w] /\ phase[w] \in Detecting /\ i < place[w])
      => Published(Sees[f][i])

RowsSound == OneReadPerKey /\ (Steady => \A r \in plates : KeyedTruly(r[1], r[2]))

DetectionInv ==
  /\ DetectionTypes /\ RowsSound /\ SettledIsPublished
  /\ \A e \in events : Sound(e)
  /\ \A w \in Consumers : AtHand(w) /\ BehindIt(w) /\ (last[w] # Nothing => Sound(last[w]))

\* Nothing is taken out of the stores, of the published events or of the history.
Growing ==
  /\ vectors \subseteq vectors' /\ crops \subseteq crops' /\ events \subseteq events'
  /\ blind \subseteq blind' /\ (missed => missed') /\ config' = config
  /\ \A r \in plates : \E q \in plates' : q[1] = r[1]

\* All but one of the workers stand still.
Aside(w) ==
  \A v \in Consumers \ {w} :
    /\ phase'[v] = phase[v] /\ frame'[v] = frame[v] /\ found'[v] = found[v] /\ place'[v] = place[v]
    /\ local'[v] = local[v] /\ crop'[v] = crop[v] /\ last'[v] = last[v]

LEMMA UsualPlaces ==
  ASSUME NEW f \in 1 .. NFrames
  PROVE  /\ Usual(f) \subseteq DOMAIN Sees[f] /\ DOMAIN Sees[f] \subseteq Nat
         /\ IsFiniteSet(Usual(f))
<1>1. Sees[f] \in Seq(Objects)
  BY HandlerAssumption
<1>2. PICK n \in Nat : DOMAIN Sees[f] = 1 .. n
  BY <1>1
<1>3. Usual(f) \subseteq 1 .. n
  BY <1>2 DEF Usual, Found
<1>4. IsFiniteSet(1 .. n)
  BY FS_Interval
<1>5. IsFiniteSet(Usual(f))
  BY <1>3, <1>4, FS_Subset
<1> QED
  BY <1>2, <1>3, <1>5

\* No two of a set's members have the same position in it.
LEMMA RankTells ==
  ASSUME NEW S \in SUBSET Nat, IsFiniteSet(S), NEW i \in S, NEW j \in S, i < j
  PROVE  Rank(S, i) # Rank(S, j)
<1> DEFINE I == {k \in S : k <= i}  J == {k \in S : k <= j}
<1>1. I \in SUBSET J /\ j \in J /\ j \notin I
  <2>1. i \in Nat /\ j \in Nat /\ \A k \in S : k \in Nat
    OBVIOUS
  <2>2. \A k \in S : k <= i => k <= j
    BY <2>1
  <2>3. j <= j /\ ~(j <= i)
    BY <2>1
  <2> QED
    BY <2>2, <2>3
<1>2. IsFiniteSet(J)
  <2>1. J \in SUBSET S
    OBVIOUS
  <2> QED
    BY <2>1, FS_Subset
<1>3. Cardinality(J) = Cardinality(I) => J = I
  BY <1>1, <1>2, FS_Subset
<1> QED
  BY <1>1, <1>3 DEF Rank

\* In what an attempt without failures finds, keys and objects tell each other.
LEMMA KeysTell ==
  ASSUME NEW k, NEW l, NEW o, NEW p, KeyedTruly(k, o), KeyedTruly(l, p)
  PROVE  k = l <=> o = p
<1>f. PICK f \in 1 .. NFrames : \E i \in Usual(f) : o = Sees[f][i] /\ k = KeyOf(f, o, Rank(Usual(f), i))
  BY DEF KeyedTruly
<1>1. PICK i \in Usual(f) : o = Sees[f][i] /\ k = KeyOf(f, o, Rank(Usual(f), i))
  BY <1>f
<1>g. PICK g \in 1 .. NFrames : \E j \in Usual(g) : p = Sees[g][j] /\ l = KeyOf(g, p, Rank(Usual(g), j))
  BY DEF KeyedTruly
<1>2. PICK j \in Usual(g) : p = Sees[g][j] /\ l = KeyOf(g, p, Rank(Usual(g), j))
  BY <1>g
<1>3. i \in DOMAIN Sees[f] /\ j \in DOMAIN Sees[g] /\ i \in Nat /\ j \in Nat
  BY UsualPlaces
<1>4. CASE o = p
  <2>1. Sees[f][i] = Sees[g][j]
    BY <1>1, <1>2, <1>4
  <2>2. f = g /\ i = j
    BY <1>3, <2>1, HandlerAssumption
  <2> QED
    BY <1>1, <1>2, <1>4, <2>2
<1>5. CASE k = l
  <2>1. f = g /\ Rank(Usual(f), i) = Rank(Usual(g), j)
    BY <1>1, <1>2, <1>5 DEF KeyOf
  <2>2. ~(i < j) /\ ~(j < i)
    BY <1>3, <2>1, RankTells, UsualPlaces
  <2>3. i = j
    BY <1>3, <2>2
  <2> QED
    BY <1>1, <1>2, <2>1, <2>3
<1> QED
  BY <1>4, <1>5

LEMMA SameViews ==
  ASSUME Growing
  PROVE  /\ Steady' => Steady
         /\ \A f : Usual(f)' = Usual(f)
         /\ \A k, o : KeyedTruly(k, o)' <=> KeyedTruly(k, o)
         /\ \A k : ReadOf(k) # {} => ReadOf(k)' # {}
<1>1. Steady' => Steady
  BY DEF Growing, Steady
<1>2. Active' = Active
  BY DEF Growing, Active
<1>3. \A f : Usual(f)' = Usual(f)
  BY <1>2 DEF Usual, Found
<1>4. \A k, o : KeyedTruly(k, o)' <=> KeyedTruly(k, o)
  BY <1>3 DEF KeyedTruly
<1>5. ASSUME NEW k, ReadOf(k) # {} PROVE ReadOf(k)' # {}
  <2>1. PICK r \in plates : r[1] = k
    BY <1>5 DEF ReadOf
  <2>2. PICK q \in plates' : q[1] = r[1]
    BY <2>1 DEF Growing
  <2> QED
    BY <2>1, <2>2 DEF ReadOf
<1> QED
  BY <1>1, <1>3, <1>4, <1>5

\* What is sound stays sound.
LEMMA SoundStays ==
  ASSUME Growing, NEW e, Sound(e)
  PROVE  Sound(e)'
<1>1. /\ Steady' => KeyedTruly(e.key, e.object)'
      /\ e.object \in Plated => ReadOf(e.key)' # {}
  BY SameViews DEF Sound
<1>2. /\ e.object \in Known /\ e.key.class = Class[e.object]
      /\ Class[e.object] \in {"person", "vehicle"} => <<e.key, e.object>> \in vectors'
      /\ e.crop /\ e.key \notin crops' => e.key.frame \in blind'
  BY DEF Sound, Growing
<1> QED
  BY <1>1, <1>2 DEF Sound

\* Workers that stand still lose nothing.
LEMMA AsideKeeps ==
  ASSUME DetectionInv, Growing, NEW w \in Consumers, Aside(w), NEW v \in Consumers \ {w}
  PROVE  AtHand(v)' /\ BehindIt(v)' /\ (last'[v] # Nothing => Sound(last[v])')
<1>1. /\ phase'[v] = phase[v] /\ frame'[v] = frame[v] /\ found'[v] = found[v] /\ place'[v] = place[v]
      /\ local'[v] = local[v] /\ crop'[v] = crop[v] /\ last'[v] = last[v]
  BY DEF Aside
<1>2. AtHand(v) /\ BehindIt(v) /\ (last[v] # Nothing => Sound(last[v]))
  BY DEF DetectionInv
<1>3. Object(v)' = Object(v) /\ Key(v)' = Key(v) /\ Event(v)' = Event(v)
  BY <1>1 DEF Object, Key, Event
<1>4. AtHand(v)'
  <2> SUFFICES ASSUME phase'[v] \in Detecting PROVE AtHand(v)'
    BY DEF AtHand
  <2>1. phase[v] \in Detecting
    BY <1>1
  <2>2. /\ frame'[v] \in 1 .. NFrames /\ found'[v] \subseteq DOMAIN Sees[frame'[v]] /\ place'[v] \in found'[v]
        /\ local'[v] \/ frame'[v] \in blind'
    BY <1>1, <1>2, <2>1 DEF AtHand, Growing
  <2>3. Steady' => found'[v] = Usual(frame[v])'
    BY <1>1, <1>2, <2>1, SameViews DEF AtHand
  <2>4. /\ phase'[v] \in {"look", "write"} => Object(v)' \in Plated
        /\ phase'[v] = "insert" => Class[Object(v)'] \in {"person", "vehicle"}
        /\ phase'[v] = "publish" /\ Object(v)' \in Known => last'[v] = Event(v)'
    BY <1>1, <1>2, <1>3, <2>1 DEF AtHand
  <2>5. phase'[v] = "insert" /\ Object(v)' \in Plated => ReadOf(Key(v))' # {}
    <3>1. PICK k : k = Key(v)
      OBVIOUS
    <3>2. ReadOf(k) # {} => ReadOf(k)' # {}
      BY SameViews
    <3> QED
      BY <1>1, <1>2, <1>3, <2>1, <3>1, <3>2 DEF AtHand, ReadOf
  <2>6. phase'[v] \in {"look", "write", "insert"} /\ crop'[v] => Key(v)' \in crops' \/ frame'[v] \in blind'
    BY <1>1, <1>2, <1>3, <2>1 DEF AtHand, Growing
  <2> QED
    BY <2>2, <2>3, <2>4, <2>5, <2>6 DEF AtHand
<1>5. BehindIt(v)'
  <2>1. \A o : Published(o) => Published(o)'
    BY DEF Published, Growing
  <2> QED
    BY <1>1, <1>2, <2>1, SameViews DEF BehindIt
<1>6. ASSUME last'[v] # Nothing PROVE Sound(last[v])'
  <2>1. PICK e : e = last[v]
    OBVIOUS
  <2>2. Sound(e)'
    BY <1>1, <1>2, <1>6, <2>1, SoundStays
  <2> QED
    BY <1>1, <2>1, <2>2 DEF Sound
<1> QED
  BY <1>4, <1>5, <1>6

LEMMA RowsStay ==
  ASSUME RowsSound, Growing, plates' = plates
  PROVE  RowsSound'
BY SameViews DEF RowsSound, OneReadPerKey

LEMMA SettledStays ==
  ASSUME SettledIsPublished, Growing, settled' /\ ~dead' => settled /\ ~dead
  PROVE  SettledIsPublished'
<1> SUFFICES ASSUME settled', ~dead', Steady', NEW f \in 1 .. NFrames, NEW i \in Usual(f)', Sees[f][i] \in Known
             PROVE  \E e \in events' : e.object = Sees[f][i]
  BY DEF SettledIsPublished
<1>1. Steady /\ i \in Usual(f)
  BY SameViews
<1>2. PICK e \in events : e.object = Sees[f][i]
  BY <1>1 DEF SettledIsPublished
<1> QED
  BY <1>2 DEF Growing

\* What a step of one worker has to show.
LEMMA OneSteps ==
  ASSUME DetectionInv, Growing, DetectionTypes', RowsSound', SettledIsPublished',
         NEW w \in Consumers, Aside(w), AtHand(w)', BehindIt(w)',
         last'[w] # Nothing => Sound(last[w])',
         \A e \in events' : e \in events \/ Sound(e)'
  PROVE  DetectionInv'
<1>1. ASSUME NEW e \in events' PROVE Sound(e)'
  <2>1. CASE e \in events
    <3>1. Sound(e)
      BY <2>1 DEF DetectionInv
    <3> QED
      BY <3>1, SoundStays
  <2> QED
    BY <2>1
<1>2. ASSUME NEW v \in Consumers
      PROVE  AtHand(v)' /\ BehindIt(v)' /\ (last'[v] # Nothing => Sound(last[v])')
  <2>1. CASE v = w
    BY <2>1
  <2>2. CASE v # w
    BY <2>2, AsideKeeps
  <2> QED
    BY <2>1, <2>2
<1> QED
  BY <1>1, <1>2 DEF DetectionInv

\* A worker that lets go of the event has nothing at hand.
LEMMA Resting ==
  ASSUME DetectionTypes, NEW w \in Consumers, Rest(w)
  PROVE  /\ Aside(w) /\ AtHand(w)' /\ BehindIt(w)' /\ last'[w] = Nothing
         /\ phase' \in [Consumers -> Phases] /\ frame' \in [Consumers -> 1 .. NFrames + 1]
         /\ found' \in [Consumers -> SUBSET Nat] /\ place' \in [Consumers -> Nat]
         /\ local' \in [Consumers -> BOOLEAN] /\ crop' \in [Consumers -> BOOLEAN]
         /\ DOMAIN last' = Consumers
<1>1. Aside(w) /\ last'[w] = Nothing /\ phase'[w] = "idle" /\ DOMAIN last' = Consumers
  BY DEF DetectionTypes, Rest, Aside
<1>2. /\ phase' \in [Consumers -> Phases] /\ found' \in [Consumers -> SUBSET Nat] /\ place' \in [Consumers -> Nat]
      /\ local' \in [Consumers -> BOOLEAN] /\ crop' \in [Consumers -> BOOLEAN]
  BY DEF DetectionTypes, Rest, Phases
<1>3. frame' \in [Consumers -> 1 .. NFrames + 1]
  <2>1. 1 \in 1 .. NFrames + 1
    BY HandlerAssumption
  <2> QED
    BY <2>1 DEF DetectionTypes, Rest
<1>4. AtHand(w)' /\ BehindIt(w)'
  BY <1>1 DEF AtHand, BehindIt, Detecting
<1> QED
  BY <1>1, <1>2, <1>3, <1>4

\* An attempt that fails: whatever it has stored, it leaves nothing unsound.
LEMMA Raising ==
  ASSUME DetectionInv, Growing, NEW w \in Consumers, Raises(w), plates' = plates,
         errors' \in 0 .. MaxErrors, \A e \in events' : e \in events \/ Sound(e)'
  PROVE  DetectionInv'
<1> USE DEF DetectionInv
<1>1. Rest(w) /\ holder' = holder /\ claims' = claims /\ missed' = missed
  BY DEF Raises, handlerHistory
<1>2. tries' \in [Consumers -> 0 .. MaxRetries - 1]
  <2>1. tries[w] \in 0 .. MaxRetries - 1 /\ MaxRetries \in Nat \ {0}
    BY HandlerAssumption DEF DetectionTypes
  <2>2. (IF tries[w] + 1 < MaxRetries THEN tries[w] + 1 ELSE 0) \in 0 .. MaxRetries - 1
    BY <2>1
  <2>3. tries' = [tries EXCEPT ![w] = IF tries[w] + 1 < MaxRetries THEN tries[w] + 1 ELSE 0]
    BY DEF Raises, DetectionTypes
  <2> QED
    BY <2>2, <2>3 DEF DetectionTypes
<1>3. (settled' = settled /\ dead' = dead) \/ (settled' = TRUE /\ dead' = TRUE)
  BY DEF Raises
<1>4. DetectionTypes'
  <2>1. /\ settled' \in BOOLEAN /\ dead' \in BOOLEAN /\ (dead' => settled')
    <3>1. settled \in BOOLEAN /\ dead \in BOOLEAN /\ (dead => settled)
      BY DEF DetectionTypes
    <3>2. CASE settled' = settled /\ dead' = dead
      BY ONLY <3>1, <3>2, Zenon
    <3>3. CASE settled' = TRUE /\ dead' = TRUE
      BY ONLY <3>3, Zenon
    <3> QED
      BY ONLY <1>3, <3>2, <3>3
  <2>2. /\ missed' \in BOOLEAN /\ claims' \in 0 .. MaxClaims /\ holder' \in Consumers \cup {Nothing}
        /\ plates' \subseteq Keys \X Objects \X Consumers
    BY <1>1 DEF DetectionTypes
  <2>3. DetectionTypes
    OBVIOUS
  <2> QED
    BY <1>1, <1>2, <2>1, <2>2, <2>3, Resting DEF DetectionTypes
<1>5. RowsSound'
  BY RowsStay
<1>6. SettledIsPublished'
  BY <1>3, SettledStays
<1> QED
  BY <1>1, <1>4, <1>5, <1>6, Resting, OneSteps

\* Nothing but the worker changes, its tries, or who has the event.
LEMMA Standing ==
  ASSUME UNCHANGED <<config, stores, handlerHistory>>
  PROVE  Growing
BY DEF stores, handlerHistory, Growing

LEMMA Beginning ==
  ASSUME DetectionInv, NEW w \in Consumers, Begin(w), holder' \in Consumers \cup {Nothing},
         claims' \in 0 .. MaxClaims
  PROVE  DetectionInv'
<1> USE DEF DetectionInv
<1>1. Growing /\ plates' = plates /\ settled' = settled /\ dead' = dead /\ events' = events
  BY Standing DEF Begin, stores
<1>2. /\ phase' \in [Consumers -> Phases] /\ phase'[w] \in {"frame", "load"} /\ frame'[w] = 1
      /\ last'[w] = Nothing /\ DOMAIN last' = Consumers /\ Aside(w)
  BY DEF Begin, Phases, DetectionTypes, Aside
<1>3. frame' \in [Consumers -> 1 .. NFrames + 1]
  <2>1. 1 \in 1 .. NFrames + 1
    BY HandlerAssumption
  <2> QED
    BY <2>1 DEF DetectionTypes, Begin
<1>4. DetectionTypes'
  BY <1>1, <1>2, <1>3 DEF DetectionTypes, Begin, handlerHistory
<1>5. AtHand(w)' /\ BehindIt(w)'
  <2>1. AtHand(w)'
    BY <1>2 DEF AtHand, Detecting
  <2>2. BehindIt(w)'
    BY <1>2 DEF BehindIt, Detecting
  <2> QED
    BY <2>1, <2>2
<1>6. RowsSound' /\ SettledIsPublished'
  BY <1>1, RowsStay, SettledStays
<1> QED
  BY <1>1, <1>2, <1>4, <1>5, <1>6, OneSteps

LEMMA TakeKeeps ==
  ASSUME DetectionInv, NEW w \in Consumers, Take(w) \/ TakeOver(w)
  PROVE  DetectionInv'
<1>1. Begin(w) /\ holder' \in Consumers \cup {Nothing}
  BY DEF Take, TakeOver
<1>2. claims \in 0 .. MaxClaims /\ MaxClaims \in Nat
  BY HandlerAssumption DEF DetectionInv, DetectionTypes
<1>3. claims' = claims \/ (claims < MaxClaims /\ claims' = claims + 1)
  BY DEF Take, TakeOver
<1>4. claims' \in 0 .. MaxClaims
  BY <1>2, <1>3
<1> QED
  BY <1>1, <1>4, Beginning

\* An error leaves their number within its bound.
LEMMA ErrorsBounded ==
  ASSUME DetectionTypes, Error \/ errors' = errors
  PROVE  errors' \in 0 .. MaxErrors
<1>1. errors \in 0 .. MaxErrors /\ MaxErrors \in Nat
  BY HandlerAssumption DEF DetectionTypes
<1> QED
  BY <1>1 DEF Error

LEMMA EndKeeps ==
  ASSUME DetectionInv, NEW w \in Consumers, LoadFails(w) \/ Finish(w) \/ WorkerCrash(w)
  PROVE  DetectionInv'
<1> USE DEF DetectionInv
<1>1. CASE LoadFails(w)
  <2>1. Growing /\ plates' = plates /\ events' = events /\ errors' = errors /\ Raises(w)
    BY <1>1, Standing DEF LoadFails, Raises, stores, handlerHistory
  <2>2. errors' \in 0 .. MaxErrors
    BY <2>1, ErrorsBounded
  <2> QED
    BY <2>1, <2>2, Raising
<1>2. CASE Finish(w)
  <2>1. Growing /\ plates' = plates /\ events' = events /\ Rest(w) /\ settled' = TRUE
    BY <1>2, Standing DEF Finish, stores
  <2>2. tries' \in [Consumers -> 0 .. MaxRetries - 1]
    <3>1. 0 \in 0 .. MaxRetries - 1
      BY HandlerAssumption
    <3> QED
      BY <1>2, <3>1 DEF Finish, DetectionTypes
  <2>3. DetectionTypes'
    BY <1>2, <2>1, <2>2, Resting DEF Finish, DetectionTypes, handlerHistory
  <2>4. SettledIsPublished'
    <3> SUFFICES ASSUME Steady', NEW f \in 1 .. NFrames, NEW i \in Usual(f)', Sees[f][i] \in Known
                 PROVE  \E e \in events' : e.object = Sees[f][i]
      BY DEF SettledIsPublished
    <3>1. Steady /\ i \in Usual(f)
      BY <2>1, SameViews
    <3>2. f < frame[w]
      <4>1. frame[w] \in 1 .. NFrames + 1 /\ frame[w] > NFrames /\ NFrames \in Nat
        BY <1>2, HandlerAssumption DEF Finish, DetectionTypes
      <4> QED
        BY <4>1
    <3>3. Published(Sees[f][i])
      BY <1>2, <3>1, <3>2 DEF Finish, BehindIt
    <3> QED
      BY <2>1, <3>3 DEF Published
  <2> QED
    BY <2>1, <2>3, <2>4, RowsStay, Resting, OneSteps
<1>3. CASE WorkerCrash(w)
  <2>1. Growing /\ plates' = plates /\ events' = events /\ Rest(w) /\ settled' = settled /\ dead' = dead
    BY <1>3, Standing DEF WorkerCrash, stores
  <2>2. tries' \in [Consumers -> 0 .. MaxRetries - 1] /\ errors' \in 0 .. MaxErrors
    <3>1. 0 \in 0 .. MaxRetries - 1
      BY HandlerAssumption
    <3> QED
      BY <1>3, <3>1, ErrorsBounded DEF WorkerCrash, DetectionTypes
  <2>3. DetectionTypes'
    BY <1>3, <2>1, <2>2, Resting DEF WorkerCrash, DetectionTypes, handlerHistory
  <2> QED
    BY <2>1, <2>3, SettledStays, RowsStay, Resting, OneSteps
<1> QED
  BY <1>1, <1>2, <1>3

\* A worker that moves on to what is ahead of it, in a frame of which it has found all there is
\* unless something failed.
LEMMA OntoKeeps ==
  ASSUME DetectionInv, Growing, NEW w \in Consumers, NEW all, NEW ahead, Onto(w, all, ahead),
         frame[w] \in 1 .. NFrames, all \subseteq DOMAIN Sees[frame[w]], ahead \subseteq all,
         Steady' => all = Usual(frame[w]),
         local'[w] \/ frame[w] \in blind',
         Steady' => \A f \in 1 .. NFrames : \A i \in Usual(f) :
           /\ Sees[f][i] \in Known
           /\ f < frame[w] \/ (f = frame[w] /\ i \notin ahead)
           => Published(Sees[f][i])'
  PROVE  /\ AtHand(w)' /\ BehindIt(w)'
         /\ phase' \in [Consumers -> Phases] /\ frame' \in [Consumers -> 1 .. NFrames + 1]
         /\ found' \in [Consumers -> SUBSET Nat] /\ place' \in [Consumers -> Nat]
         /\ \A v \in Consumers \ {w} : /\ phase'[v] = phase[v] /\ frame'[v] = frame[v]
                                       /\ found'[v] = found[v] /\ place'[v] = place[v]
<1> USE DEF DetectionInv
<1>0. PICK g \in 1 .. NFrames : g = frame[w]
  OBVIOUS
<1>1. all \subseteq Nat /\ g \in Nat /\ NFrames \in Nat
  BY <1>0, UsualPlaces, HandlerAssumption
<1>2. /\ Steady' => Steady
      /\ \A f : Usual(f)' = Usual(f)
  BY SameViews
<1>3. CASE /\ ahead = {}
           /\ phase' = [phase EXCEPT ![w] = "frame"] /\ frame' = [frame EXCEPT ![w] = frame[w] + 1]
           /\ found' = [found EXCEPT ![w] = {}] /\ place' = [place EXCEPT ![w] = 0]
  <2>1. phase'[w] = "frame" /\ frame'[w] = g + 1
    BY <1>0, <1>3 DEF DetectionTypes
  <2>2. AtHand(w)'
    BY <2>1 DEF AtHand, Detecting
  <2>3. BehindIt(w)'
    <3> SUFFICES ASSUME Steady', NEW f \in 1 .. NFrames, NEW i \in Usual(f)', Sees[f][i] \in Known, f < g + 1
                 PROVE  Published(Sees[f][i])'
      BY <2>1 DEF BehindIt, Detecting
    <3>1. f < g \/ f = g
      BY <1>1
    <3> QED
      BY <1>0, <1>2, <1>3, <3>1
  <2>4. g + 1 \in 1 .. NFrames + 1
    BY <1>1
  <2>5. phase' \in [Consumers -> Phases] /\ found' \in [Consumers -> SUBSET Nat] /\ place' \in [Consumers -> Nat]
    BY <1>3 DEF DetectionTypes, Phases
  <2>6. frame' \in [Consumers -> 1 .. NFrames + 1]
    BY <1>0, <1>3, <2>4 DEF DetectionTypes
  <2> QED
    BY <1>3, <2>2, <2>3, <2>5, <2>6 DEF DetectionTypes
<1>4. CASE \E i \in ahead :
             /\ \A j \in ahead : i <= j
             /\ phase' = [phase EXCEPT ![w] = "object"] /\ place' = [place EXCEPT ![w] = i]
             /\ found' = [found EXCEPT ![w] = all] /\ UNCHANGED frame
  <2>1. PICK i \in ahead :
             /\ \A j \in ahead : i <= j
             /\ phase' = [phase EXCEPT ![w] = "object"] /\ place' = [place EXCEPT ![w] = i]
             /\ found' = [found EXCEPT ![w] = all] /\ UNCHANGED frame
    BY <1>4
  <2>2. phase'[w] = "object" /\ place'[w] = i /\ found'[w] = all /\ frame'[w] = g /\ i \in Nat
    BY <1>0, <1>1, <2>1 DEF DetectionTypes
  <2>3. Steady' => found'[w] = Usual(frame[w])'
    BY <1>0, <1>2, <2>2
  <2>4. AtHand(w)'
    BY <1>0, <2>2, <2>3 DEF AtHand
  <2>5. BehindIt(w)'
    <3> SUFFICES ASSUME Steady', NEW f \in 1 .. NFrames, NEW j \in Usual(f)', Sees[f][j] \in Known,
                        f < g \/ (f = g /\ j < i)
                 PROVE  Published(Sees[f][j])'
      BY <2>2 DEF BehindIt
    <3>1. f = g /\ j < i => j \notin ahead
      <4>1. j \in Nat
        BY <1>2, UsualPlaces
      <4> QED
        BY <2>1, <2>2, <4>1
    <3> QED
      BY <1>0, <1>2, <3>1
  <2>6. phase' \in [Consumers -> Phases] /\ found' \in [Consumers -> SUBSET Nat] /\ place' \in [Consumers -> Nat]
    BY <1>1, <2>1, <2>2 DEF DetectionTypes, Phases
  <2>7. frame' \in [Consumers -> 1 .. NFrames + 1]
    BY <2>1 DEF DetectionTypes
  <2> QED
    BY <2>1, <2>4, <2>5, <2>6, <2>7 DEF DetectionTypes
<1> QED
  BY <1>3, <1>4 DEF Onto

LEMMA DetectKeeps ==
  ASSUME DetectionInv, NEW w \in Consumers, Detect(w)
  PROVE  DetectionInv'
<1> USE DEF DetectionInv
<1>1. /\ phase[w] = "frame" /\ frame[w] <= NFrames
      /\ UNCHANGED <<config, holder, tries, crop, last, stores, settled, dead, claims>>
  BY DEF Detect
<1>2. PICK here \in BOOLEAN, failing \in SUBSET Active :
        LET all == Found(frame[w], Active \ failing, here) IN
        /\ here => MinioClient
        /\ IF failing # {} \/ (MinioClient /\ ~here) THEN Error ELSE UNCHANGED errors
        /\ local' = [local EXCEPT ![w] = here]
        /\ Onto(w, all, all)
        /\ blind' = IF here THEN blind ELSE blind \cup {frame[w]}
        /\ missed' = (missed \/ failing # {})
  BY DEF Detect
<1>3. PICK all : all = Found(frame[w], Active \ failing, here)
  OBVIOUS
<1>4. Growing /\ plates' = plates /\ events' = events
  BY <1>1, <1>2 DEF Growing, stores
<1>5. frame[w] \in 1 .. NFrames
  BY <1>1, HandlerAssumption DEF DetectionTypes
<1>6. all \subseteq DOMAIN Sees[frame[w]]
  BY <1>3 DEF Found
<1>7. Steady' => all = Usual(frame[w])
  <2> SUFFICES ASSUME Steady' PROVE all = Usual(frame[w])
    OBVIOUS
  <2>1. failing = {} /\ (blind' = {} \/ ~MinioClient)
    BY <1>2 DEF Steady
  <2>2. here = MinioClient
    BY <1>2, <2>1, HandlerAssumption
  <2>3. Active \ failing = Active
    BY <2>1
  <2> QED
    BY <1>3, <2>2, <2>3 DEF Usual
<1>8. local'[w] \/ frame[w] \in blind'
  BY <1>2 DEF DetectionTypes
<1>9. Steady' => \A f \in 1 .. NFrames : \A i \in Usual(f) :
        /\ Sees[f][i] \in Known
        /\ f < frame[w] \/ (f = frame[w] /\ i \notin all)
        => Published(Sees[f][i])'
  <2>1. Steady' => Steady
    BY <1>4, SameViews
  <2>2. \A o : Published(o) => Published(o)'
    BY <1>4 DEF Published
  <2> QED
    BY <1>1, <1>7, <2>1, <2>2 DEF BehindIt
<1>10. Onto(w, all, all)
  BY <1>2, <1>3
<1>11. /\ AtHand(w)' /\ BehindIt(w)'
       /\ phase' \in [Consumers -> Phases] /\ frame' \in [Consumers -> 1 .. NFrames + 1]
       /\ found' \in [Consumers -> SUBSET Nat] /\ place' \in [Consumers -> Nat]
       /\ \A v \in Consumers \ {w} : /\ phase'[v] = phase[v] /\ frame'[v] = frame[v]
                                     /\ found'[v] = found[v] /\ place'[v] = place[v]
  BY <1>4, <1>5, <1>6, <1>7, <1>8, <1>9, <1>10, OntoKeeps
<1>12. Aside(w)
  BY <1>1, <1>2, <1>11 DEF Aside, DetectionTypes
<1>13. errors' \in 0 .. MaxErrors
  BY <1>2, ErrorsBounded
<1>14. DetectionTypes'
  <2>1. missed' \in BOOLEAN /\ local' \in [Consumers -> BOOLEAN]
    BY <1>2 DEF DetectionTypes
  <2> QED
    BY <1>1, <1>4, <1>11, <1>13, <2>1 DEF DetectionTypes
<1>15. RowsSound' /\ SettledIsPublished'
  BY <1>1, <1>4, RowsStay, SettledStays
<1>16. last'[w] # Nothing => Sound(last[w])'
  <2>1. PICK e : e = last[w]
    OBVIOUS
  <2>2. Sound(e) => Sound(e)'
    BY <1>4, SoundStays
  <2> QED
    BY <1>1, <2>1, <2>2 DEF Sound
<1> QED
  BY <1>4, <1>11, <1>12, <1>14, <1>15, <1>16, OneSteps

LEMMA KeyAtHand ==
  ASSUME DetectionTypes, NEW w \in Consumers, AtHand(w), phase[w] \in Detecting
  PROVE  /\ Object(w) \in Objects /\ Key(w) \in Keys
         /\ Key(w).class = Class[Object(w)] /\ Key(w).frame = frame[w]
         /\ Steady => KeyedTruly(Key(w), Object(w))
<1>1. PICK f \in 1 .. NFrames : f = frame[w]
  BY DEF AtHand
<1>2. PICK i : i = place[w]
  OBVIOUS
<1>3. found[w] \subseteq DOMAIN Sees[f] /\ i \in found[w] /\ i \in DOMAIN Sees[f]
  BY <1>1, <1>2 DEF AtHand
<1>4. Object(w) = Sees[f][i] /\ Object(w) \in Objects
  <2>1. Sees[f] \in Seq(Objects)
    BY HandlerAssumption
  <2> QED
    BY <1>1, <1>2, <1>3, <2>1 DEF Object
<1>5. Rank(found[w], i) \in Nat
  <2>1. PICK n \in Nat : DOMAIN Sees[f] = 1 .. n
    BY HandlerAssumption
  <2>2. IsFiniteSet(1 .. n)
    BY FS_Interval
  <2>3. {j \in found[w] : j <= i} \in SUBSET (1 .. n)
    BY <1>3, <2>1
  <2>4. IsFiniteSet({j \in found[w] : j <= i})
    BY <2>2, <2>3, FS_Subset
  <2> QED
    BY <2>4, FS_CardinalityType DEF Rank
<1>6. Key(w) = KeyOf(f, Sees[f][i], Rank(found[w], i))
  BY <1>1, <1>2, <1>4 DEF Key
<1>7. Class[Object(w)] \in {"person", "vehicle", "plate", "unknown"}
  BY <1>4, HandlerAssumption
<1>8. Key(w) = [frame |-> f, class |-> Class[Object(w)], ordinal |-> Rank(found[w], i)]
  BY <1>4, <1>6 DEF KeyOf
<1>9. Key(w) \in Keys /\ Key(w).class = Class[Object(w)] /\ Key(w).frame = frame[w]
  BY <1>1, <1>5, <1>7, <1>8 DEF Keys
<1>10. ASSUME Steady PROVE KeyedTruly(Key(w), Object(w))
  <2>1. found[w] = Usual(f)
    BY <1>1, <1>10 DEF AtHand
  <2> QED
    BY <1>3, <1>4, <1>6, <2>1 DEF KeyedTruly
<1> QED
  BY <1>4, <1>9, <1>10

\* The event of a detection is sound once the detection is stored.
LEMMA EventSound ==
  ASSUME DetectionInv, Growing, NEW w \in Consumers, phase[w] \in Detecting, Object(w) \in Known,
         Class[Object(w)] \in {"person", "vehicle"} => <<Key(w), Object(w)>> \in vectors',
         Object(w) \in Plated => \E r \in plates' : r[1] = Key(w),
         crop[w] => Key(w) \in crops \/ frame[w] \in blind,
         NEW e, e = Event(w)
  PROVE  Sound(e)'
<1>1. DetectionTypes /\ AtHand(w)
  BY DEF DetectionInv
<1>2. e.key = Key(w) /\ e.object = Object(w) /\ e.crop = crop[w]
  BY DEF Event
<1>3. /\ Key(w).class = Class[Object(w)] /\ Key(w).frame = frame[w]
      /\ Steady => KeyedTruly(Key(w), Object(w))
  BY <1>1, KeyAtHand
<1>4. Steady' => KeyedTruly(e.key, e.object)'
  BY <1>2, <1>3, SameViews
<1>5. e.object \in Plated => ReadOf(e.key)' # {}
  BY <1>2 DEF ReadOf
<1>6. e.crop /\ e.key \notin crops' => e.key.frame \in blind'
  BY <1>2, <1>3 DEF Growing
<1> QED
  BY <1>2, <1>3, <1>4, <1>5, <1>6 DEF Sound

\* A worker that stays at its detection.
LEMMA StaysAt ==
  ASSUME DetectionInv, Growing, NEW w \in Consumers, phase[w] \in Detecting, phase'[w] \in Detecting,
         UNCHANGED <<frame, found, place, local>>
  PROVE  /\ frame'[w] \in 1 .. NFrames /\ found'[w] \subseteq DOMAIN Sees[frame'[w]] /\ place'[w] \in found'[w]
         /\ Steady' => found'[w] = Usual(frame[w])'
         /\ local'[w] \/ frame'[w] \in blind'
         /\ Object(w)' = Object(w) /\ Key(w)' = Key(w)
         /\ BehindIt(w)'
<1>1. AtHand(w) /\ BehindIt(w)
  BY DEF DetectionInv
<1>2. /\ frame'[w] \in 1 .. NFrames /\ found'[w] \subseteq DOMAIN Sees[frame'[w]] /\ place'[w] \in found'[w]
      /\ local'[w] \/ frame'[w] \in blind'
      /\ Object(w)' = Object(w) /\ Key(w)' = Key(w)
  BY <1>1 DEF AtHand, Growing, Object, Key
<1>3. Steady' => found'[w] = Usual(frame[w])'
  BY <1>1, SameViews DEF AtHand
<1>4. BehindIt(w)'
  <2>1. \A o : Published(o) => Published(o)'
    BY DEF Published, Growing
  <2>2. phase[w] \notin {"idle", "load"}
    BY DEF Detecting
  <2> QED
    BY <1>1, <2>1, <2>2, SameViews DEF BehindIt
<1> QED
  BY <1>2, <1>3, <1>4

\* What is left to show of a step at a detection that does not fail.
LEMMA StepAt ==
  ASSUME DetectionInv, Growing, NEW w \in Consumers, NEW p, phase[w] \in Detecting, p \in Detecting,
         phase' = [phase EXCEPT ![w] = p],
         UNCHANGED <<config, holder, tries, frame, found, place, local, events, settled, dead, claims,
                     handlerHistory>>,
         crop' \in [Consumers -> BOOLEAN], \A v \in Consumers \ {w} : crop'[v] = crop[v],
         DOMAIN last' = Consumers, \A v \in Consumers \ {w} : last'[v] = last[v],
         Error \/ errors' = errors,
         plates' \subseteq Keys \X Objects \X Consumers, RowsSound',
         last'[w] = last[w] \/ Sound(last[w])',
         p \in {"look", "write"} => Object(w) \in Plated,
         p = "insert" => /\ Class[Object(w)] \in {"person", "vehicle"}
                         /\ Object(w) \in Plated => \E r \in plates' : r[1] = Key(w),
         p \in {"look", "write", "insert"} /\ crop'[w] => Key(w) \in crops' \/ frame[w] \in blind,
         p = "publish" /\ Object(w) \in Known => last'[w] = [key |-> Key(w), object |-> Object(w), crop |-> crop'[w]]
  PROVE  DetectionInv'
<1> USE DEF DetectionInv
<1>1. phase'[w] = p
  BY DEF DetectionTypes
<1>2. /\ frame'[w] \in 1 .. NFrames /\ found'[w] \subseteq DOMAIN Sees[frame'[w]] /\ place'[w] \in found'[w]
      /\ Steady' => found'[w] = Usual(frame[w])'
      /\ local'[w] \/ frame'[w] \in blind'
      /\ Object(w)' = Object(w) /\ Key(w)' = Key(w)
      /\ BehindIt(w)'
  BY <1>1, StaysAt
<1>3. Event(w)' = [key |-> Key(w), object |-> Object(w), crop |-> crop'[w]]
  BY <1>2 DEF Event
<1>4. AtHand(w)'
  <2>1. phase'[w] = "insert" /\ Object(w)' \in Plated => ReadOf(Key(w))' # {}
    BY <1>1, <1>2 DEF ReadOf
  <2>2. /\ phase'[w] \in {"look", "write"} => Object(w)' \in Plated
        /\ phase'[w] = "insert" => Class[Object(w)'] \in {"person", "vehicle"}
        /\ phase'[w] \in {"look", "write", "insert"} /\ crop'[w] => Key(w)' \in crops' \/ frame'[w] \in blind'
        /\ phase'[w] = "publish" /\ Object(w)' \in Known => last'[w] = Event(w)'
    BY <1>1, <1>2, <1>3 DEF Growing
  <2> QED
    BY <1>2, <2>1, <2>2 DEF AtHand
<1>5. Aside(w)
  BY DEF Aside, DetectionTypes
<1>6. errors' \in 0 .. MaxErrors
  BY ErrorsBounded
<1>7. phase' \in [Consumers -> Phases]
  BY DEF DetectionTypes, Phases, Detecting
<1>8. DetectionTypes'
  BY <1>6, <1>7 DEF DetectionTypes, handlerHistory
<1>9. SettledIsPublished'
  BY SettledStays
<1>10. last'[w] # Nothing => Sound(last[w])'
  <2>1. PICK e : e = last[w]
    OBVIOUS
  <2>2. Sound(e) => Sound(e)'
    BY SoundStays
  <2> QED
    BY <2>1, <2>2 DEF Sound
<1> QED
  BY <1>2, <1>4, <1>5, <1>8, <1>9, <1>10, OneSteps

LEMMA CropKeeps ==
  ASSUME DetectionInv, NEW w \in Consumers, Crop(w)
  PROVE  DetectionInv'
<1> USE DEF DetectionInv
<1>1. /\ phase[w] \in Detecting /\ phase' = [phase EXCEPT ![w] = Route(Object(w))]
      /\ UNCHANGED <<config, holder, tries, frame, found, place, local, last, plates, vectors,
                     events, settled, dead, claims, handlerHistory>>
  BY DEF Crop, Detecting
<1>2. AtHand(w) /\ Object(w) \in Objects
  BY <1>1, KeyAtHand
<1>3. Class[Object(w)] \in {"person", "vehicle", "plate", "unknown"}
  BY <1>2, HandlerAssumption
<1>4. PICK p : p = Route(Object(w))
  OBVIOUS
<1>5. /\ p \in Detecting
      /\ p \in {"look", "write"} => Object(w) \in Plated
      /\ p = "insert" => Class[Object(w)] \in {"person", "vehicle"} /\ Object(w) \notin Plated
      /\ p = "publish" => Object(w) \notin Known
  BY <1>2, <1>3, <1>4, HandlerAssumption DEF Route, Detecting, Known
<1>6. PICK c \in BOOLEAN :
        /\ crop' = [crop EXCEPT ![w] = c] /\ crops \subseteq crops' /\ (Error \/ errors' = errors)
        /\ c /\ local[w] => Key(w) \in crops'
  BY DEF Crop
<1>7. Growing
  BY <1>1, <1>6 DEF Growing, handlerHistory
<1>8. RowsSound'
  BY <1>1, <1>7, RowsStay
<1>9. local[w] \/ frame[w] \in blind
  BY <1>1, <1>2 DEF AtHand
<1>10. crop' \in [Consumers -> BOOLEAN] /\ (\A v \in Consumers \ {w} : crop'[v] = crop[v]) /\ crop'[w] = c
  BY <1>6 DEF DetectionTypes
<1>11. plates' \subseteq Keys \X Objects \X Consumers /\ DOMAIN last' = Consumers
  BY <1>1 DEF DetectionTypes
<1>12. p \in {"look", "write", "insert"} /\ crop'[w] => Key(w) \in crops' \/ frame[w] \in blind
  BY <1>6, <1>9, <1>10
<1> QED
  BY <1>1, <1>4, <1>5, <1>6, <1>7, <1>8, <1>10, <1>11, <1>12, StepAt

\* What follows once the row of a plate is there.
LEMMA OnwardKeeps ==
  ASSUME DetectionInv, NEW w \in Consumers, phase[w] \in {"look", "write"}, Onward(w),
         UNCHANGED <<config, holder, tries, frame, found, place, local, crop, crops, vectors,
                     events, settled, dead, claims, handlerHistory>>,
         Error \/ errors' = errors, plates' \subseteq Keys \X Objects \X Consumers, RowsSound',
         \A r \in plates : \E q \in plates' : q[1] = r[1],
         \E r \in plates' : r[1] = Key(w)
  PROVE  DetectionInv'
<1> USE DEF DetectionInv
<1>1. phase[w] \in Detecting /\ AtHand(w)
  BY DEF Detecting
<1>2. Object(w) \in Plated /\ Object(w) \in Objects /\ Class[Object(w)] \in {"vehicle", "plate"}
  BY <1>1, KeyAtHand, HandlerAssumption DEF AtHand
<1>3. Growing
  BY DEF Growing, handlerHistory
<1>4. crop[w] => Key(w) \in crops \/ frame[w] \in blind
  BY <1>1 DEF AtHand
<1>5. crop' \in [Consumers -> BOOLEAN] /\ \A v \in Consumers \ {w} : crop'[v] = crop[v]
  BY DEF DetectionTypes
<1>6. CASE Class[Object(w)] = "vehicle"
  <2>1. phase' = [phase EXCEPT ![w] = "insert"] /\ last' = last
    BY <1>6 DEF Onward
  <2>2. DOMAIN last' = Consumers /\ \A v \in Consumers \ {w} : last'[v] = last[v]
    BY <2>1 DEF DetectionTypes
  <2>3. "insert" \in Detecting
    BY DEF Detecting
  <2> QED
    BY <1>1, <1>2, <1>3, <1>4, <1>5, <1>6, <2>1, <2>2, <2>3, StepAt
<1>7. CASE Class[Object(w)] = "plate"
  <2>1. phase' = [phase EXCEPT ![w] = "publish"] /\ last' = [last EXCEPT ![w] = Event(w)]
    BY <1>7 DEF Onward
  <2>2. PICK e : e = Event(w)
    OBVIOUS
  <2>3. /\ DOMAIN last' = Consumers /\ (\A v \in Consumers \ {w} : last'[v] = last[v])
        /\ last'[w] = e
    BY <2>1, <2>2 DEF DetectionTypes
  <2>4. Object(w) \in Known
    BY <1>2, <1>7 DEF Known
  <2>5. Sound(e)'
    BY <1>1, <1>3, <1>4, <1>7, <2>2, <2>4, EventSound
  <2>6. Sound(last[w])'
    BY <2>3, <2>5 DEF Sound
  <2>7. last'[w] = [key |-> Key(w), object |-> Object(w), crop |-> crop'[w]]
    BY <2>2, <2>3 DEF Event
  <2>8. "publish" \in Detecting
    BY DEF Detecting
  <2> QED
    BY <1>1, <1>3, <1>5, <2>1, <2>3, <2>6, <2>7, <2>8, StepAt
<1> QED
  BY <1>2, <1>6, <1>7

\* Rows of a key, and of a worker's detection.
LEMMA RowAtHand ==
  ASSUME DetectionInv, NEW w \in Consumers, phase[w] \in Detecting
  PROVE  /\ \A v \in Consumers : <<Key(w), Object(w), v>> \in Keys \X Objects \X Consumers
         /\ Steady => KeyedTruly(Key(w), Object(w))
BY KeyAtHand DEF DetectionInv

LEMMA LookUpKeeps ==
  ASSUME DetectionInv, NEW w \in Consumers, LookUpPlate(w)
  PROVE  DetectionInv'
<1> USE DEF DetectionInv
<1>1. /\ phase[w] = "look" /\ phase[w] \in Detecting
      /\ UNCHANGED <<config, holder, tries, frame, found, place, local, crop, crops, vectors,
                     events, settled, dead, claims, errors, handlerHistory>>
  BY DEF LookUpPlate, Detecting
<1>2. CASE ReadOf(Key(w)) # {}
  <2>1. /\ Onward(w)
        /\ \/ plates' = plates
           \/ plates' = {IF r[1] = Key(w) THEN <<r[1], Object(w), r[3]>> ELSE r : r \in plates}
    BY <1>2 DEF LookUpPlate
  <2>2. PICK r0 \in plates : r0[1] = Key(w)
    BY <1>2 DEF ReadOf
  <2>3. CASE plates' = plates
    <3>1. Growing
      BY <1>1, <2>3 DEF Growing, handlerHistory
    <3>2. RowsSound'
      BY <2>3, <3>1, RowsStay
    <3> QED
      BY <1>1, <2>1, <2>2, <2>3, <3>2, OnwardKeeps DEF DetectionTypes
  <2>4. CASE plates' = {IF r[1] = Key(w) THEN <<r[1], Object(w), r[3]>> ELSE r : r \in plates}
    <3> DEFINE New(r) == IF r[1] = Key(w) THEN <<r[1], Object(w), r[3]>> ELSE r
    <3>1. /\ \A r \in plates : New(r) \in plates'
          /\ \A q \in plates' : \E r \in plates : q = New(r)
      BY <2>4
    <3>2. \A r \in plates : r \in Keys \X Objects \X Consumers
      BY DEF DetectionTypes
    <3>3. Object(w) \in Objects
      BY <1>1, KeyAtHand
    <3>4. \A r \in plates : New(r)[1] = r[1] /\ New(r) \in Keys \X Objects \X Consumers
      BY <3>2, <3>3
    <3>5. plates' \subseteq Keys \X Objects \X Consumers
      BY <3>1, <3>4
    <3>6. \A r \in plates : \E q \in plates' : q[1] = r[1]
      BY <3>1, <3>4
    <3>7. Growing
      BY <1>1, <3>6 DEF Growing, handlerHistory
    <3>8. OneReadPerKey'
      BY <3>1, <3>4 DEF RowsSound, OneReadPerKey
    <3>9. ASSUME Steady', NEW q \in plates' PROVE KeyedTruly(q[1], q[2])'
      <4>1. PICK r \in plates : q = New(r)
        BY <3>1
      <4>2. Steady
        BY <3>7, <3>9, SameViews
      <4>3. KeyedTruly(r[1], r[2]) /\ KeyedTruly(Key(w), Object(w))
        BY <1>1, <4>2, RowAtHand DEF RowsSound
      <4>4. PICK k, o : k = q[1] /\ o = q[2]
        OBVIOUS
      <4>5. KeyedTruly(k, o)
        <5>1. CASE r[1] = Key(w)
          BY <4>1, <4>3, <4>4, <5>1
        <5>2. CASE r[1] # Key(w)
          BY <4>1, <4>3, <4>4, <5>2
        <5> QED
          BY <5>1, <5>2
      <4>6. KeyedTruly(k, o)'
        BY <3>7, <4>5, SameViews
      <4> QED
        BY <4>4, <4>6
    <3>10. RowsSound'
      BY <3>8, <3>9 DEF RowsSound
    <3>11. \E q \in plates' : q[1] = Key(w)
      BY <2>2, <3>6
    <3> QED
      BY <1>1, <2>1, <3>5, <3>6, <3>10, <3>11, OnwardKeeps
  <2> QED
    BY <2>1, <2>3, <2>4
<1>3. CASE ReadOf(Key(w)) = {}
  <2>1. phase' = [phase EXCEPT ![w] = "write"] /\ last' = last /\ plates' = plates
    BY <1>3 DEF LookUpPlate
  <2>2. Growing
    BY <1>1, <2>1 DEF Growing, handlerHistory
  <2>3. RowsSound'
    BY <2>1, <2>2, RowsStay
  <2>4. /\ Object(w) \in Plated
        /\ crop[w] => Key(w) \in crops \/ frame[w] \in blind
    BY <1>1 DEF AtHand
  <2>5. /\ crop' \in [Consumers -> BOOLEAN] /\ (\A v \in Consumers \ {w} : crop'[v] = crop[v])
        /\ DOMAIN last' = Consumers /\ (\A v \in Consumers \ {w} : last'[v] = last[v])
        /\ plates' \subseteq Keys \X Objects \X Consumers
    BY <1>1, <2>1 DEF DetectionTypes
  <2>6. "write" \in Detecting
    BY DEF Detecting
  <2> QED
    BY <1>1, <2>1, <2>2, <2>3, <2>4, <2>5, <2>6, StepAt
<1> QED
  BY <1>2, <1>3

LEMMA WriteKeeps ==
  ASSUME DetectionInv, NEW w \in Consumers, WritePlate(w)
  PROVE  DetectionInv'
<1> USE DEF DetectionInv
<1>1. /\ phase[w] = "write" /\ phase[w] \in Detecting
      /\ UNCHANGED <<crops, vectors, events>>
  BY DEF WritePlate, Detecting
<1>2. CASE /\ ~Taken(Key(w)) /\ plates' = plates \cup {<<Key(w), Object(w), w>>} /\ Onward(w)
           /\ UNCHANGED <<config, holder, tries, frame, found, place, local, crop, settled, dead,
                          claims, errors, handlerHistory>>
  <2>1. PICK q : q = <<Key(w), Object(w), w>>
    OBVIOUS
  <2>2. /\ plates' = plates \cup {q} /\ q[1] = Key(w) /\ q[2] = Object(w)
        /\ \A r \in plates : r[1] # q[1]
    BY <1>2, <2>1 DEF Taken, ReadOf
  <2>3. q \in Keys \X Objects \X Consumers /\ (Steady => KeyedTruly(q[1], q[2]))
    BY <1>1, <2>1, RowAtHand
  <2>4. plates' \subseteq Keys \X Objects \X Consumers
    BY <2>2, <2>3 DEF DetectionTypes
  <2>5. Growing
    BY <1>1, <1>2, <2>2 DEF Growing, handlerHistory
  <2>6. OneReadPerKey'
    BY <2>2 DEF RowsSound, OneReadPerKey
  <2>7. Steady' => \A r \in plates' : KeyedTruly(r[1], r[2])'
    BY <2>2, <2>3, <2>5, SameViews DEF RowsSound
  <2>8. RowsSound'
    BY <2>6, <2>7 DEF RowsSound
  <2> QED
    BY <1>1, <1>2, <2>2, <2>4, <2>8, OnwardKeeps
<1>3. CASE /\ IF Taken(Key(w)) THEN UNCHANGED errors ELSE Error
           /\ Raises(w) /\ UNCHANGED plates
  <2>1. Growing
    BY <1>1, <1>3 DEF Growing, Raises, handlerHistory
  <2>2. errors' \in 0 .. MaxErrors
    BY <1>3, ErrorsBounded
  <2> QED
    BY <1>1, <1>3, <2>1, <2>2, Raising
<1> QED
  BY <1>2, <1>3 DEF WritePlate

LEMMA InsertKeeps ==
  ASSUME DetectionInv, NEW w \in Consumers, InsertVector(w)
  PROVE  DetectionInv'
<1> USE DEF DetectionInv
<1>1. /\ phase[w] = "insert" /\ phase[w] \in Detecting
      /\ UNCHANGED <<crops, plates, events>>
  BY DEF InsertVector, Detecting
<1>2. CASE /\ vectors' = vectors \cup {<<Key(w), Object(w)>>} /\ phase' = [phase EXCEPT ![w] = "publish"]
           /\ last' = [last EXCEPT ![w] = Event(w)]
           /\ UNCHANGED <<config, holder, tries, frame, found, place, local, crop, settled, dead,
                          claims, errors, handlerHistory>>
  <2>1. Growing
    BY <1>1, <1>2 DEF Growing, handlerHistory
  <2>2. RowsSound'
    BY <1>1, <2>1, RowsStay
  <2>3. /\ Class[Object(w)] \in {"person", "vehicle"} /\ Object(w) \in Objects
        /\ Object(w) \in Plated => \E r \in plates' : r[1] = Key(w)
        /\ crop[w] => Key(w) \in crops \/ frame[w] \in blind
    BY <1>1, KeyAtHand DEF AtHand, ReadOf
  <2>4. PICK e : e = Event(w)
    OBVIOUS
  <2>5. Object(w) \in Known
    BY <2>3 DEF Known
  <2>6. Sound(e)'
    BY <1>1, <1>2, <2>1, <2>3, <2>4, <2>5, EventSound
  <2>7. /\ DOMAIN last' = Consumers /\ (\A v \in Consumers \ {w} : last'[v] = last[v])
        /\ last'[w] = e
        /\ crop' \in [Consumers -> BOOLEAN] /\ (\A v \in Consumers \ {w} : crop'[v] = crop[v])
        /\ plates' \subseteq Keys \X Objects \X Consumers
    BY <1>1, <1>2, <2>4 DEF DetectionTypes
  <2>8. Sound(last[w])'
    BY <2>6, <2>7 DEF Sound
  <2>9. last'[w] = [key |-> Key(w), object |-> Object(w), crop |-> crop'[w]]
    BY <1>2, <2>4, <2>7 DEF Event
  <2>10. "publish" \in Detecting
    BY DEF Detecting
  <2> QED
    BY <1>1, <1>2, <2>1, <2>2, <2>7, <2>8, <2>9, <2>10, StepAt
<1>3. CASE /\ Error /\ Raises(w)
           /\ vectors' = vectors \cup {<<Key(w), Object(w)>>} \/ UNCHANGED vectors
  <2>1. Growing
    BY <1>1, <1>3 DEF Growing, Raises, handlerHistory
  <2>2. errors' \in 0 .. MaxErrors
    BY <1>3, ErrorsBounded
  <2> QED
    BY <1>1, <1>3, <2>1, <2>2, Raising
<1> QED
  BY <1>2, <1>3 DEF InsertVector

LEMMA PublishKeeps ==
  ASSUME DetectionInv, NEW w \in Consumers, PublishDetection(w)
  PROVE  DetectionInv'
<1> USE DEF DetectionInv
<1>1. phase[w] = "publish" /\ phase[w] \in Detecting /\ UNCHANGED <<crops, plates, vectors>>
  BY DEF PublishDetection, Detecting
<1>2. PICK e : e = last[w]
  OBVIOUS
<1>3. CASE /\ last[w] # Nothing /\ events' = events \cup {last[w]} /\ NextDetection(w)
           /\ UNCHANGED <<config, holder, tries, local, last, settled, dead, claims, errors,
                          handlerHistory>>
  <2>1. Growing /\ events' = events \cup {e}
    BY <1>1, <1>2, <1>3 DEF Growing, handlerHistory
  <2>2. Sound(e)'
    BY <1>2, <1>3, <2>1, SoundStays
  <2>3. PICK f \in 1 .. NFrames : f = frame[w]
    BY <1>1 DEF AtHand
  <2>4. PICK i \in found[w] : i = place[w]
    BY <1>1 DEF AtHand
  <2>5. PICK all : all = found[w]
    OBVIOUS
  <2>6. PICK ahead : ahead = {j \in found[w] : j > i}
    OBVIOUS
  <2>7. Onto(w, all, ahead) /\ crop' = [crop EXCEPT ![w] = FALSE]
    BY <1>3, <2>4, <2>5, <2>6 DEF NextDetection
  <2>8. all \subseteq DOMAIN Sees[f] /\ ahead \subseteq all /\ (Steady => all = Usual(f))
    BY <1>1, <2>3, <2>5, <2>6 DEF AtHand
  <2>9. Steady' => Steady
    BY <2>1, SameViews
  <2>10. ASSUME Steady, NEW g \in 1 .. NFrames, NEW j \in Usual(g), Sees[g][j] \in Known,
                g < f \/ (g = f /\ j \notin ahead)
         PROVE  Published(Sees[g][j])'
    <3>1. CASE g < f
      <4>1. Published(Sees[g][j])
        BY <1>1, <2>3, <2>10, <3>1 DEF BehindIt
      <4> QED
        BY <2>1, <4>1 DEF Published
    <3>2. CASE g = f /\ j = i
      <4>1. Object(w) = Sees[g][j]
        BY <2>3, <2>4, <3>2 DEF Object
      <4>2. e.object = Sees[g][j]
        <5>1. Object(w) \in Known
          BY <2>10, <4>1
        <5>2. last[w] = Event(w)
          BY <1>1, <5>1 DEF AtHand
        <5>3. Event(w).object = Object(w)
          BY DEF Event
        <5> QED
          BY <1>2, <4>1, <5>2, <5>3
      <4> QED
        BY <2>1, <4>2 DEF Published
    <3>3. CASE g = f /\ j # i /\ j \notin ahead
      <4>1. j \in found[w] /\ j \in Nat /\ i \in Nat
        <5>1. found[w] = Usual(f)
          BY <2>5, <2>8, <2>10
        <5>2. Usual(f) \subseteq Nat
          BY UsualPlaces
        <5> QED
          BY <2>4, <2>10, <3>3, <5>1, <5>2
      <4>2. j < i
        BY <2>6, <3>3, <4>1
      <4>3. Published(Sees[g][j])
        BY <1>1, <2>3, <2>4, <2>10, <3>3, <4>2 DEF BehindIt
      <4> QED
        BY <2>1, <4>3 DEF Published
    <3> QED
      BY <2>10, <3>1, <3>2, <3>3
  <2>11. local'[w] \/ f \in blind'
    BY <1>1, <1>3, <2>1, <2>3 DEF AtHand, Growing
  <2>12. /\ AtHand(w)' /\ BehindIt(w)'
         /\ phase' \in [Consumers -> Phases] /\ frame' \in [Consumers -> 1 .. NFrames + 1]
         /\ found' \in [Consumers -> SUBSET Nat] /\ place' \in [Consumers -> Nat]
         /\ \A v \in Consumers \ {w} : /\ phase'[v] = phase[v] /\ frame'[v] = frame[v]
                                       /\ found'[v] = found[v] /\ place'[v] = place[v]
    <3>1. Steady' => all = Usual(frame[w])
      BY <2>3, <2>8, <2>9
    <3>2. Steady' => \A g \in 1 .. NFrames : \A j \in Usual(g) :
            /\ Sees[g][j] \in Known
            /\ g < frame[w] \/ (g = frame[w] /\ j \notin ahead)
            => Published(Sees[g][j])'
      BY <2>3, <2>9, <2>10
    <3>3. frame[w] \in 1 .. NFrames /\ all \subseteq DOMAIN Sees[frame[w]] /\ (local'[w] \/ frame[w] \in blind')
      BY <2>3, <2>8, <2>11
    <3> QED
      BY <2>1, <2>7, <2>8, <3>1, <3>2, <3>3, OntoKeeps
  <2>13. Aside(w)
    BY <1>3, <2>7, <2>12 DEF Aside, DetectionTypes
  <2>14. DetectionTypes'
    <3>1. crop' \in [Consumers -> BOOLEAN]
      BY <2>7 DEF DetectionTypes
    <3> QED
      BY <1>1, <1>3, <2>12, <3>1 DEF DetectionTypes, handlerHistory
  <2>15. RowsSound' /\ SettledIsPublished'
    BY <1>1, <1>3, <2>1, RowsStay, SettledStays
  <2>16. Sound(last[w])'
    BY <1>2, <1>3, <2>2 DEF Sound
  <2> QED
    BY <2>1, <2>2, <2>12, <2>13, <2>14, <2>15, <2>16, OneSteps
<1>4. CASE /\ last[w] # Nothing /\ Error /\ Raises(w)
           /\ events' = events \cup {last[w]} \/ UNCHANGED events
  <2>1. Growing
    BY <1>1, <1>4 DEF Growing, Raises, handlerHistory
  <2>2. Sound(e)'
    BY <1>2, <1>4, <2>1, SoundStays
  <2>3. \A d \in events' : d \in events \/ Sound(d)'
    BY <1>2, <1>4, <2>2
  <2>4. errors' \in 0 .. MaxErrors
    BY <1>4, ErrorsBounded
  <2> QED
    BY <1>1, <1>4, <2>1, <2>3, <2>4, Raising
<1>5. CASE last[w] = Nothing /\ Raises(w) /\ UNCHANGED <<events, errors>>
  <2>1. Growing
    BY <1>1, <1>5 DEF Growing, Raises, handlerHistory
  <2>2. errors' \in 0 .. MaxErrors
    BY <1>5, ErrorsBounded
  <2> QED
    BY <1>1, <1>5, <2>1, <2>2, Raising
<1> QED
  BY <1>3, <1>4, <1>5 DEF PublishDetection

LEMMA InitDetectionInv == HandlerInit => DetectionInv
<1> SUFFICES ASSUME HandlerInit PROVE DetectionInv
  OBVIOUS
<1> USE DEF HandlerInit
<1>1. 1 \in 1 .. NFrames + 1 /\ 0 \in 0 .. MaxRetries - 1 /\ 0 \in 0 .. MaxClaims /\ 0 \in 0 .. MaxErrors
  BY HandlerAssumption
<1>2. DetectionTypes
  BY <1>1 DEF DetectionTypes, Phases
<1>3. RowsSound /\ SettledIsPublished
  BY DEF RowsSound, OneReadPerKey, SettledIsPublished
<1>4. ASSUME NEW w \in Consumers PROVE AtHand(w) /\ BehindIt(w) /\ last[w] = Nothing
  BY DEF AtHand, BehindIt, Detecting
<1> QED
  BY <1>2, <1>3, <1>4 DEF DetectionInv

LEMMA DetectionInvKept == DetectionInv /\ [HandlerNext]_handlerVars => DetectionInv'
<1> SUFFICES ASSUME DetectionInv, [HandlerNext]_handlerVars PROVE DetectionInv'
  OBVIOUS
<1>1. CASE HandlerNext
  <2>1. PICK w \in Consumers : Take(w) \/ TakeOver(w) \/ Process(w) \/ WorkerCrash(w)
    BY <1>1 DEF HandlerNext
  <2>2. CASE Take(w) \/ TakeOver(w)
    BY <2>2, TakeKeeps
  <2>3. CASE LoadFails(w) \/ Finish(w) \/ WorkerCrash(w)
    BY <2>3, EndKeeps
  <2>4. CASE Detect(w)
    BY <2>4, DetectKeeps
  <2>5. CASE Crop(w)
    BY <2>5, CropKeeps
  <2>6. CASE LookUpPlate(w)
    BY <2>6, LookUpKeeps
  <2>7. CASE WritePlate(w)
    BY <2>7, WriteKeeps
  <2>8. CASE InsertVector(w)
    BY <2>8, InsertKeeps
  <2>9. CASE PublishDetection(w)
    BY <2>9, PublishKeeps
  <2> QED
    BY <2>1, <2>2, <2>3, <2>4, <2>5, <2>6, <2>7, <2>8, <2>9 DEF Process
<1>2. CASE UNCHANGED handlerVars
  <2> USE <1>2 DEF handlerVars, progress, stores, handlerHistory
  <2>1. Growing /\ plates' = plates /\ events' = events
    BY DEF Growing
  <2>2. DetectionTypes'
    BY DEF DetectionInv, DetectionTypes
  <2>3. RowsSound' /\ SettledIsPublished'
    BY <2>1, RowsStay, SettledStays DEF DetectionInv
  <2>4. \A e \in events' : Sound(e)'
    BY <2>1, SoundStays DEF DetectionInv
  <2>5. ASSUME NEW w \in Consumers PROVE AtHand(w)' /\ BehindIt(w)' /\ (last'[w] # Nothing => Sound(last[w])')
    <3>1. /\ phase'[w] = phase[w] /\ frame'[w] = frame[w] /\ found'[w] = found[w] /\ place'[w] = place[w]
          /\ local'[w] = local[w] /\ crop'[w] = crop[w] /\ last'[w] = last[w]
      OBVIOUS
    <3>2. AtHand(w)'
      BY DEF DetectionInv, AtHand, Object, Key, Event, Steady, Usual, Found, Active, ReadOf
    <3>3. BehindIt(w)'
      BY DEF DetectionInv, BehindIt, Published, Steady, Usual, Found, Active
    <3>4. PICK e : e = last[w]
      OBVIOUS
    <3>5. Sound(e) => Sound(e)'
      BY <2>1, SoundStays
    <3> QED
      BY <3>2, <3>3, <3>4, <3>5 DEF DetectionInv, Sound
  <2> QED
    BY <2>2, <2>3, <2>4, <2>5 DEF DetectionInv
<1> QED
  BY <1>1, <1>2

LEMMA DetectionInvHolds == HandlerSpec => []DetectionInv
BY InitDetectionInv, DetectionInvKept, PTL DEF HandlerSpec

\* Whatever is done again, by whichever worker, a detection has one plate row, and, unless a
\* download or a plugin failed, the key it has in all stores and that no other detection has.
THEOREM KeysStay == HandlerSpec => []DetectionsIdentified
<1>1. DetectionInv => DetectionsIdentified
  <2> SUFFICES ASSUME DetectionInv PROVE DetectionsIdentified
    OBVIOUS
  <2> USE DEF DetectionInv
  <2>1. HandlerTypeOK
    <3>1. \A w \in Consumers : phase[w] \notin {"idle", "load", "frame"} => phase[w] \in Detecting
      BY DEF DetectionTypes, Phases, Detecting
    <3>2. \A w \in Consumers : phase[w] \notin {"idle", "load", "frame"} => place[w] \in found[w]
      BY <3>1 DEF AtHand
    <3>3. \A w \in Consumers : phase[w] \in {"look", "write"} => Object(w) \in Plated
      BY DEF AtHand, Detecting
    <3>4. \A e \in events : e.object \in Known /\ e.key.class = Class[e.object]
      BY DEF Sound
    <3> QED
      BY <3>2, <3>3, <3>4 DEF HandlerTypeOK, DetectionTypes
  <2>2. KeysIdentify
    <3> SUFFICES ASSUME Steady PROVE KeysIdentify
      BY DEF KeysIdentify
    <3>1. ASSUME NEW e \in events, NEW d \in events PROVE (e.key = d.key) <=> (e.object = d.object)
      <4>1. KeyedTruly(e.key, e.object) /\ KeyedTruly(d.key, d.object)
        BY DEF Sound
      <4> QED
        BY <4>1, KeysTell
    <3>2. ASSUME NEW r \in plates, NEW e \in events, r[1] = e.key PROVE r[2] = e.object
      <4>1. KeyedTruly(e.key, e.object) /\ KeyedTruly(r[1], r[2])
        BY DEF Sound, RowsSound
      <4> QED
        BY <3>2, <4>1, KeysTell
    <3> QED
      BY <3>1, <3>2 DEF KeysIdentify
  <2> QED
    BY <2>1, <2>2 DEF DetectionsIdentified, RowsSound
<1> QED
  BY <1>1, DetectionInvHolds, PTL

\* What is published is in the stores by then, and an event acknowledged as processed has all
\* its detections published, but for failures that account for the difference.
THEOREM DetectionsAreKept == HandlerSpec => []DetectionsAccountedFor
<1>1. DetectionInv => DetectionsAccountedFor
  BY DEF DetectionInv, DetectionsAccountedFor, PublishedIsStored, CropsPaidFor, Sound
<1> QED
  BY <1>1, DetectionInvHolds, PTL


--------------------------------------------------------------------------------
(* Decoding a plate.                                                            *)

\* The decoder remembers the last token, and the text so far is that of the tokens so far.
DecodeInv ==
  /\ steps \in Seq(Int) /\ text \in Seq(Int)
  /\ IF Len(steps) = 0 THEN previous = -1 ELSE previous = steps[Len(steps)]
  /\ TextIsRuns

LEMMA OriginsFinite ==
  ASSUME NEW s \in Seq(Int)
  PROVE  /\ Origins(s) \subseteq 1 .. Len(s) /\ IsFiniteSet(Origins(s))
         /\ \A S \in SUBSET Origins(s) :
              /\ IsFiniteSet(S) /\ Cardinality(S) \in Nat
              /\ Cardinality(S) <= Cardinality(Origins(s))
<1>1. Origins(s) \subseteq 1 .. Len(s) /\ IsFiniteSet(1 .. Len(s))
  <2>1. DOMAIN s = 1 .. Len(s) /\ 1 \in Int /\ Len(s) \in Int
    OBVIOUS
  <2>2. Origins(s) \subseteq DOMAIN s
    BY DEF Origins, RunStarts
  <2>3. IsFiniteSet(1 .. Len(s))
    BY <2>1, FS_Interval
  <2>4. QED
    BY <2>1, <2>2, <2>3
<1>2. IsFiniteSet(Origins(s))
  BY <1>1, FS_Subset
<1>3. QED
  BY <1>1, <1>2, FS_Subset, FS_CardinalityType

\* A token begins a run of its own if it is not the one before.
LEMMA OriginsGrow ==
  ASSUME NEW s \in Seq(Int), NEW t \in Int
  PROVE  LET n == Len(s) + 1 IN
         Origins(Append(s, t)) =
           Origins(s) \cup {i \in {n} : Lettered(t) /\ (n = 1 \/ t # s[n - 1])}
<1> DEFINE n == Len(s) + 1
           u == Append(s, t)
<1>1. /\ u \in Seq(Int) /\ DOMAIN u = (DOMAIN s) \cup {n} /\ u[n] = t /\ n \notin DOMAIN s
      /\ \A i \in DOMAIN s : u[i] = s[i] /\ i \in Nat /\ (i # 1 => i - 1 \in DOMAIN s)
      /\ n # 1 => n - 1 \in DOMAIN s
  OBVIOUS
<1>2. \A i \in DOMAIN s : i \in Origins(u) <=> i \in Origins(s)
  <2> SUFFICES ASSUME NEW i \in DOMAIN s PROVE i \in Origins(u) <=> i \in Origins(s)
    OBVIOUS
  <2>1. u[i] = s[i] /\ i \in DOMAIN u /\ (i # 1 => u[i - 1] = s[i - 1])
    BY <1>1
  <2> HIDE DEF n, u
  <2>2. QED
    BY <2>1 DEF Origins, RunStarts
<1>3. n \in Origins(u) <=> Lettered(t) /\ (n = 1 \/ t # s[n - 1])
  <2>1. u[n] = t /\ n \in DOMAIN u /\ (n # 1 => u[n - 1] = s[n - 1])
    BY <1>1
  <2> HIDE DEF n, u
  <2>2. QED
    BY <2>1 DEF Origins, RunStarts
<1>4. Origins(u) \subseteq DOMAIN u /\ Origins(s) \subseteq DOMAIN s
  BY DEF Origins, RunStarts
<1> HIDE DEF n, u
<1>5. Origins(u) = Origins(s) \cup {i \in {n} : Lettered(t) /\ (n = 1 \/ t # s[n - 1])}
  BY <1>1, <1>2, <1>3, <1>4
<1>6. QED
  BY <1>5 DEF n, u

LEMMA TokenDecodes == ASSUME DecodeInv, NEW t \in Tokens, Token(t) PROVE DecodeInv'
<1>0. t \in Int /\ t \in Nat
  BY DecodeAssumption DEF Tokens
<1>1. PICK s : s = steps
  OBVIOUS
<1>2. PICK x : x = text
  OBVIOUS
<1>3. PICK u : u = Append(s, t)
  OBVIOUS
<1>4. PICK n : n = Len(s) + 1
  OBVIOUS
<1>5. PICK fresh \in BOOLEAN : fresh = (Lettered(t) /\ (n = 1 \/ t # s[n - 1]))
  OBVIOUS
<1>6. /\ s \in Seq(Int) /\ x \in Seq(Int) /\ Len(s) \in Nat /\ n \in Nat /\ n > 0
      /\ steps' = u /\ previous' = t
      /\ u \in Seq(Int) /\ Len(u) = n /\ u[n] = t /\ \A i \in 1 .. Len(s) : u[i] = s[i]
  BY <1>0, <1>1, <1>2, <1>3, <1>4 DEF Token, DecodeInv
<1>7. text' = IF fresh THEN Append(x, t - 1) ELSE x
  <2>1. IF n = 1 THEN previous = -1 ELSE previous = s[n - 1]
    BY <1>1, <1>4, <1>6 DEF DecodeInv
  <2>2. (t # previous /\ t # 0 /\ Lettered(t)) = fresh
    BY <1>0, <1>5, <2>1 DEF Lettered
  <2>3. QED
    BY <1>2, <2>2 DEF Token
<1>8. Origins(u) = IF fresh THEN Origins(s) \cup {n} ELSE Origins(s)
  <2>1. Origins(u) = Origins(s) \cup {i \in {n} : Lettered(t) /\ (n = 1 \/ t # s[n - 1])}
    BY <1>0, <1>3, <1>4, <1>6, OriginsGrow
  <2>2. {i \in {n} : Lettered(t) /\ (n = 1 \/ t # s[n - 1])} = IF fresh THEN {n} ELSE {}
    BY <1>5
  <2>3. QED
    BY <2>1, <2>2
<1>9. /\ Len(x) = Cardinality(Origins(s))
      /\ \A i \in Origins(s) : x[Cardinality({j \in Origins(s) : j <= i})] = s[i] - 1
  BY <1>1, <1>2 DEF DecodeInv, TextIsRuns
<1>10. /\ Origins(s) \subseteq 1 .. Len(s) /\ IsFiniteSet(Origins(s))
       /\ \A S \in SUBSET Origins(s) : /\ IsFiniteSet(S) /\ Cardinality(S) \in Nat
                                       /\ Cardinality(S) <= Cardinality(Origins(s))
  BY <1>6, OriginsFinite
<1>11. \A i \in Origins(s) :
         /\ {j \in Origins(u) : j <= i} = {j \in Origins(s) : j <= i}
         /\ Cardinality({j \in Origins(s) : j <= i}) \in 1 .. Len(x)
         /\ u[i] = s[i]
  <2> SUFFICES ASSUME NEW i \in Origins(s)
               PROVE  /\ {j \in Origins(u) : j <= i} = {j \in Origins(s) : j <= i}
                      /\ Cardinality({j \in Origins(s) : j <= i}) \in 1 .. Len(x)
                      /\ u[i] = s[i]
    OBVIOUS
  <2>1. i \in Nat /\ i < n /\ u[i] = s[i]
    BY <1>4, <1>6, <1>10
  <2>2. {j \in Origins(u) : j <= i} = {j \in Origins(s) : j <= i}
    BY <1>6, <1>8, <2>1
  <2>3. PICK S : S = {j \in Origins(s) : j <= i}
    OBVIOUS
  <2>4. i \in S /\ S \in SUBSET Origins(s)
    BY <2>1, <2>3
  <2>5. IsFiniteSet(S) /\ Cardinality(S) \in Nat /\ Cardinality(S) <= Len(x)
    BY <1>9, <1>10, <2>4
  <2>6. Cardinality(S) # 0
    BY <2>4, <2>5, FS_EmptySet
  <2>7. QED
    BY <1>6, <2>1, <2>2, <2>3, <2>5, <2>6
<1>12. CASE ~fresh
  <2>1. text' = x /\ Origins(u) = Origins(s)
    BY <1>7, <1>8, <1>12
  <2>2. \A i \in Origins(u) : x[Cardinality({j \in Origins(u) : j <= i})] = u[i] - 1
    BY <1>9, <1>11, <2>1
  <2>3. Len(x) = Cardinality(Origins(u))
    BY <1>9, <2>1
  <2>4. TextIsRuns'
    BY <1>6, <2>1, <2>2, <2>3 DEF TextIsRuns
  <2>5. QED
    BY <1>6, <2>1, <2>4 DEF DecodeInv
<1>13. CASE fresh
  <2>1. n \notin Origins(s)
    BY <1>4, <1>6, <1>10
  <2>2. Cardinality(Origins(u)) = Len(x) + 1
    BY <1>8, <1>9, <1>10, <1>13, <2>1, FS_AddElement
  <2>3. {j \in Origins(u) : j <= n} = Origins(u)
    BY <1>4, <1>6, <1>8, <1>10, <1>13
  <2>4. PICK y : y = Append(x, t - 1)
    OBVIOUS
  <2>5. /\ text' = y /\ y \in Seq(Int) /\ Len(y) = Len(x) + 1 /\ y[Len(x) + 1] = t - 1
        /\ \A k \in 1 .. Len(x) : y[k] = x[k]
    BY <1>0, <1>6, <1>7, <1>13, <2>4
  <2>6. \A i \in Origins(u) : y[Cardinality({j \in Origins(u) : j <= i})] = u[i] - 1
    <3> SUFFICES ASSUME NEW i \in Origins(u)
                 PROVE  y[Cardinality({j \in Origins(u) : j <= i})] = u[i] - 1
      OBVIOUS
    <3>1. CASE i = n
      BY <1>6, <2>2, <2>3, <2>5, <3>1
    <3>2. CASE i \in Origins(s)
      BY <1>9, <1>11, <2>5, <3>2
    <3>3. QED
      BY <1>8, <1>13, <3>1, <3>2
  <2>7. QED
    <3>1. TextIsRuns'
      BY <1>6, <2>2, <2>5, <2>6 DEF TextIsRuns
    <3>2. QED
      BY <1>6, <2>5, <3>1 DEF DecodeInv
<1>14. QED
  BY <1>12, <1>13

LEMMA InitDecodeInv == DecodeInit => DecodeInv
<1>1. Origins(<<>>) = {} /\ Len(<<>>) = 0 /\ <<>> \in Seq(Int)
  BY DEF Origins, RunStarts
<1>2. QED
  BY <1>1, FS_EmptySet DEF DecodeInit, DecodeInv, TextIsRuns

LEMMA DecodeInvKept == DecodeInv /\ [DecodeNext]_decodeVars => DecodeInv'
<1>1. CASE DecodeInv /\ UNCHANGED decodeVars
  BY <1>1 DEF DecodeInv, TextIsRuns, decodeVars
<1>2. QED
  BY <1>1, TokenDecodes DEF DecodeNext

--------------------------------------------------------------------------------
(* Searching plates.                                                            *)

LEMMA TrigramsFinite ==
  ASSUME NEW p \in Plates
  PROVE  IsFiniteSet(Trigrams(p)) /\ Cardinality(Trigrams(p)) \in Nat \ {0}
<1>1. PICK n \in Nat : n \in 1 .. MaxLength /\ p \in [1 .. n -> Characters]
  BY SearchAssumption DEF Plates
<1>2. PICK padded : padded = <<Blank, Blank>> \o p \o <<Blank>>
  OBVIOUS
<1>3. padded \in Seq(Characters \cup {Blank}) /\ Len(padded) = n + 3
  <2>1. /\ p \in Seq(Characters \cup {Blank}) /\ Len(p) = n
        /\ <<Blank, Blank>> \in Seq(Characters \cup {Blank}) /\ <<Blank>> \in Seq(Characters \cup {Blank})
    BY <1>1
  <2>2. QED
    BY <1>2, <2>1
<1>4. Len(padded) - 2 = n + 1
  BY <1>3
<1>5. Trigrams(p) = {SubSeq(padded, i, i + 2) : i \in 1 .. n + 1}
  BY <1>2, <1>4 DEF Trigrams
<1>6. IsFiniteSet(1 .. n + 1) /\ 1 \in 1 .. n + 1
  BY FS_Interval
<1>7. IsFiniteSet({SubSeq(padded, i, i + 2) : i \in 1 .. n + 1})
  <2> DEFINE f == [i \in 1 .. n + 1 |-> SubSeq(padded, i, i + 2)]
             T == {SubSeq(padded, i, i + 2) : i \in 1 .. n + 1}
  <2>1. f \in [1 .. n + 1 -> T] /\ \A t \in T : \E i \in 1 .. n + 1 : f[i] = t
    OBVIOUS
  <2> HIDE DEF f, T
  <2>2. f \in Surjection(1 .. n + 1, T)
    BY <2>1 DEF Surjection
  <2>3. IsFiniteSet(T)
    BY <1>6, <2>2, FS_Surjection
  <2>4. QED
    BY <2>3 DEF T
<1>8. Trigrams(p) # {} /\ IsFiniteSet(Trigrams(p))
  BY <1>5, <1>6, <1>7
<1>9. QED
  BY <1>8, FS_EmptySet, FS_CardinalityType

LEMMA Divides ==
  ASSUME NEW n \in Nat \ {0}, NEW a \in Nat, NEW b \in Nat \ {0}, a <= b
  PROVE  (n * a) \div b \in 0 .. n /\ ((n * a) \div b = n <=> a = b)
<1>1. (n * a) \div b \in Nat
  OBVIOUS
<1>2. (n * a) \div b <= n
  OBVIOUS
<1>3. (n * a) \div b >= n => a >= b
  OBVIOUS
<1>4. (n * b) \div b = n
  OBVIOUS
<1>5. QED
  BY <1>1, <1>2, <1>3, <1>4

\* The share of trigrams is full for plates made of the same ones, and for no others.
LEMMA SharedFull ==
  ASSUME NEW p \in Plates, NEW q \in Plates
  PROVE  Shared(p, q) \in 0 .. Scale /\ (Shared(p, q) = Scale <=> Trigrams(p) = Trigrams(q))
<1>1. PICK P : P = Trigrams(p)
  OBVIOUS
<1>2. PICK Q : Q = Trigrams(q)
  OBVIOUS
<1>3. IsFiniteSet(P) /\ Cardinality(P) \in Nat \ {0} /\ IsFiniteSet(Q)
  BY <1>1, <1>2, TrigramsFinite
<1>4. IsFiniteSet(P \cup Q) /\ P \in SUBSET (P \cup Q) /\ P \cap Q \in SUBSET (P \cup Q)
  BY <1>3, FS_Union
<1>5. /\ Cardinality(P) <= Cardinality(P \cup Q) /\ Cardinality(P \cup Q) \in Nat
      /\ IsFiniteSet(P \cap Q) /\ Cardinality(P \cap Q) <= Cardinality(P \cup Q)
      /\ Cardinality(P \cap Q) = Cardinality(P \cup Q) => P \cap Q = P \cup Q
  BY <1>4, FS_Subset, FS_CardinalityType
<1>6. Cardinality(P \cap Q) \in Nat /\ Cardinality(P \cup Q) \in Nat \ {0}
  BY <1>3, <1>5, FS_CardinalityType
<1>7. P = Q <=> Cardinality(P \cap Q) = Cardinality(P \cup Q)
  BY <1>5
<1>8. Shared(p, q) = (Scale * Cardinality(P \cap Q)) \div Cardinality(P \cup Q)
  BY <1>1, <1>2 DEF Shared
<1>9. QED
  <2>1. Scale \in Nat \ {0}
    BY SearchAssumption
  <2>2. /\ (Scale * Cardinality(P \cap Q)) \div Cardinality(P \cup Q) \in 0 .. Scale
        /\ (Scale * Cardinality(P \cap Q)) \div Cardinality(P \cup Q) = Scale
             <=> Cardinality(P \cap Q) = Cardinality(P \cup Q)
    BY <1>5, <1>6, <2>1, Divides
  <2>3. QED
    BY <1>1, <1>2, <1>7, <1>8, <2>2

LEMMA RaisedBelow == Raised \in 0 .. Scale /\ Raised < Scale
<1>1. Scale \in Nat /\ Scale > 0
  BY SearchAssumption
<1>2. QED
  BY <1>1 DEF Raised

LEMMA SimilarityFull ==
  ASSUME NEW p \in Plates, NEW q \in Plates
  PROVE  /\ Similarity(p, q) \in 0 .. Scale
         /\ Similarity(p, q) = Scale <=> Trigrams(p) = Trigrams(q)
         /\ Canonical(p) = Canonical(q) => Similarity(p, q) >= Raised
<1>1. Scale \in Nat
  BY SearchAssumption
<1>2. QED
  BY <1>1, SharedFull, RaisedBelow DEF Similarity

\* A row that is not among the best has PageSize better ones before it: the page.
LEMMA BestAreBefore ==
  ASSUME NEW n \in Nat, NEW S \in SUBSET (1 .. n), NEW score \in [1 .. n -> Int],
         NEW j \in S, j \notin Best(score, S)
  PROVE  /\ \A i \in Best(score, S) : Before(score, i, j)
         /\ Cardinality(Best(score, S)) = PageSize
<1> DEFINE Ahead(i) == {k \in S : Before(score, k, i)}
<1>1. /\ \A i \in S : i \in Nat /\ score[i] \in Int
      /\ IsFiniteSet(S) /\ Cardinality(S) \in Nat
  <2>1. IsFiniteSet(1 .. n)
    BY FS_Interval
  <2>2. IsFiniteSet(S)
    BY <2>1, FS_Subset
  <2>3. \A i \in S : i \in Nat /\ score[i] \in Int
    OBVIOUS
  <2>4. QED
    BY <2>2, <2>3, FS_CardinalityType
<1>2. \A i \in S : /\ IsFiniteSet(Ahead(i)) /\ Cardinality(Ahead(i)) \in Nat
                   /\ Ahead(i) \in SUBSET S /\ i \notin Ahead(i)
  <2> SUFFICES ASSUME NEW i \in S
               PROVE  /\ IsFiniteSet(Ahead(i)) /\ Cardinality(Ahead(i)) \in Nat
                      /\ Ahead(i) \in SUBSET S /\ i \notin Ahead(i)
    OBVIOUS
  <2>1. Ahead(i) \in SUBSET S /\ i \notin Ahead(i)
    BY <1>1 DEF Before
  <2>2. QED
    BY <1>1, <2>1, FS_Subset, FS_CardinalityType
<1>3. \A i, k \in S : i # k => Before(score, i, k) \/ Before(score, k, i)
  BY <1>1 DEF Before
<1>4. \A i, k, l \in S : Before(score, i, k) /\ Before(score, k, l) => Before(score, i, l)
  BY <1>1 DEF Before
<1>5. \A i, k \in S : Before(score, i, k) => Cardinality(Ahead(i)) < Cardinality(Ahead(k))
  <2> SUFFICES ASSUME NEW i \in S, NEW k \in S, Before(score, i, k)
               PROVE  Cardinality(Ahead(i)) < Cardinality(Ahead(k))
    OBVIOUS
  <2>1. Ahead(i) \in SUBSET Ahead(k) /\ i \in Ahead(k) /\ i \notin Ahead(i)
    BY <1>2, <1>4
  <2>2. Cardinality(Ahead(i)) <= Cardinality(Ahead(k)) /\ Cardinality(Ahead(i)) # Cardinality(Ahead(k))
    <3> HIDE DEF Ahead
    <3>1. QED
      BY <1>2, <2>1, FS_Subset
  <2>3. QED
    <3>1. Cardinality(Ahead(i)) \in Nat /\ Cardinality(Ahead(k)) \in Nat
      BY <1>2
    <3> HIDE DEF Ahead
    <3>2. QED
      BY <2>2, <3>1
<1>6. Best(score, S) = {i \in S : Cardinality(Ahead(i)) < PageSize}
  BY DEF Best
<1> HIDE DEF Ahead
<1>7. PageSize \in Nat /\ PageSize > 0 /\ Cardinality(Ahead(j)) >= PageSize
  <2>1. PageSize \in Nat /\ PageSize > 0
    BY SearchAssumption
  <2>2. ~(Cardinality(Ahead(j)) < PageSize) /\ Cardinality(Ahead(j)) \in Nat
    BY <1>2, <1>6
  <2>3. QED
    BY <2>1, <2>2
<1>8. ASSUME NEW i \in Best(score, S) PROVE Before(score, i, j)
  <2>1. i \in S /\ Cardinality(Ahead(i)) < PageSize
    BY <1>6, <1>8
  <2>2. i # j /\ ~Before(score, j, i)
    BY <1>2, <1>5, <1>7, <2>1
  <2>3. QED
    BY <1>3, <2>1, <2>2
<1> DEFINE m == Cardinality(S)
           rank == [i \in S |-> Cardinality(Ahead(i))]
<1>9. \A i \in S : Cardinality(Ahead(i)) \in 0 .. m - 1
  <2> SUFFICES ASSUME NEW i \in S PROVE Cardinality(Ahead(i)) \in 0 .. m - 1
    OBVIOUS
  <2>1. Cardinality(Ahead(i)) <= Cardinality(S) /\ Cardinality(Ahead(i)) # Cardinality(S)
    BY <1>1, <1>2, FS_Subset
  <2>2. QED
    BY <1>1, <1>2, <2>1
<1>10. rank \in Injection(S, 0 .. m - 1)
  <2>1. \A i, k \in S : Cardinality(Ahead(i)) = Cardinality(Ahead(k)) => i = k
    BY <1>2, <1>3, <1>5
  <2>2. rank \in [S -> 0 .. m - 1]
    BY <1>9
  <2>3. \A i, k \in S : rank[i] = rank[k] => i = k
    BY <2>1
  <2> HIDE DEF rank
  <2>4. QED
    BY <2>2, <2>3 DEF Injection, IsInjective
<1>11. IsFiniteSet(0 .. m - 1) /\ Cardinality(0 .. m - 1) = m
  <2>1. m \in Nat
    BY <1>1
  <2> HIDE DEF m
  <2>2. 0 \in Int /\ m - 1 \in Int
    BY <2>1
  <2>3. IsFiniteSet(0 .. m - 1) /\ Cardinality(0 .. m - 1) = IF 0 > m - 1 THEN 0 ELSE (m - 1) - 0 + 1
    BY <2>2, FS_Interval
  <2>4. QED
    BY <2>1, <2>3
<1>12. rank \in Surjection(S, 0 .. m - 1)
  <2> HIDE DEF rank
  <2>1. QED
    BY <1>10, <1>11, FS_Injection
<1>13. \A r \in 0 .. m - 1 : \E i \in S : Cardinality(Ahead(i)) = r
  <2>1. \A r \in 0 .. m - 1 : \E i \in S : rank[i] = r
    <3> HIDE DEF rank
    <3>1. QED
      BY <1>12 DEF Surjection
  <2>2. QED
    BY <2>1
<1> DEFINE B == Best(score, S)
           spot == [i \in B |-> Cardinality(Ahead(i))]
<1>14. /\ B \subseteq S /\ PageSize - 1 \in 0 .. m - 1
       /\ \A i \in S : i \in B <=> Cardinality(Ahead(i)) \in 0 .. PageSize - 1
  <2>1. PageSize - 1 \in 0 .. m - 1
    BY <1>1, <1>7, <1>9
  <2>2. QED
    BY <1>2, <1>6, <1>7, <2>1
<1> HIDE DEF m, rank, B
<1>15. spot \in Bijection(B, 0 .. PageSize - 1)
  <2>1. spot \in [B -> 0 .. PageSize - 1]
    BY <1>14
  <2>2. \A i, k \in B : spot[i] = spot[k] => i = k
    BY <1>2, <1>3, <1>5, <1>14
  <2>3. \A r \in 0 .. PageSize - 1 : \E i \in B : spot[i] = r
    <3> SUFFICES ASSUME NEW r \in 0 .. PageSize - 1 PROVE \E i \in B : Cardinality(Ahead(i)) = r
      OBVIOUS
    <3>1. r \in 0 .. m - 1
      BY <1>1, <1>7, <1>14 DEF m
    <3>2. QED
      BY <1>13, <1>14, <3>1
  <2> HIDE DEF spot
  <2>4. QED
    BY <2>1, <2>2, <2>3 DEF Bijection, Injection, Surjection, IsInjective
<1>16. IsFiniteSet(B) /\ ExistsBijection(B, 0 .. PageSize - 1)
  BY <1>1, <1>14, <1>15, FS_Subset DEF ExistsBijection
<1>17. Cardinality(0 .. PageSize - 1) = PageSize
  <2>1. Cardinality(0 .. PageSize - 1) = IF 0 > PageSize - 1 THEN 0 ELSE (PageSize - 1) - 0 + 1
    BY <1>7, FS_Interval
  <2>2. QED
    BY <1>7, <2>1
<1>18. Cardinality(B) = PageSize
  BY <1>16, <1>17, FS_Bijection
<1>19. QED
  BY <1>8, <1>18 DEF B

\* Every row of a page that lacks a row over the threshold scores as much, and the page is full.
LEMMA PageIsBest ==
  ASSUME SearchTypeOK, NEW score \in [DOMAIN reads -> Int], NEW j \in DOMAIN reads,
         score[j] >= Threshold, j \notin PageBy(score)
  PROVE  /\ \A i \in PageBy(score) : i \in DOMAIN reads /\ score[i] >= score[j]
         /\ Cardinality(PageBy(score)) = PageSize
<1>1. PICK n \in Nat : n = Len(reads) /\ DOMAIN reads = 1 .. n
  BY DEF SearchTypeOK
<1>2. PICK S : S = {i \in DOMAIN reads : score[i] >= Threshold}
  OBVIOUS
<1>3. /\ S \in SUBSET (1 .. n) /\ score \in [1 .. n -> Int] /\ j \in S /\ j \notin Best(score, S)
      /\ PageBy(score) = Best(score, S)
  BY <1>1, <1>2 DEF PageBy
<1>4. /\ \A i \in Best(score, S) : Before(score, i, j)
      /\ Cardinality(Best(score, S)) = PageSize
  BY <1>3, BestAreBefore
<1>5. ASSUME NEW i \in Best(score, S) PROVE i \in DOMAIN reads /\ score[i] >= score[j]
  <2>1. i \in DOMAIN reads /\ score[i] \in Int /\ score[j] \in Int
    BY <1>1, <1>3, <1>5 DEF Best
  <2>2. score[i] > score[j] \/ score[i] = score[j]
    BY <1>4, <1>5 DEF Before
  <2>3. QED
    BY <2>1, <2>2
<1>6. QED
  BY <1>3, <1>4, <1>5

\* A page is the best by the database's scores or by those of the service.
LEMMA PageIsScored ==
  ASSUME SearchTypeOK, NEW q \in Plates
  PROVE  \E score \in [DOMAIN reads -> Int] :
           /\ FuzzyPage(q) = PageBy(score)
           /\ \/ native /\ \A i \in DOMAIN reads : score[i] = Shared(q, reads[i])
              \/ \A i \in DOMAIN reads : score[i] = Similarity(q, reads[i])
<1>1. \A i \in DOMAIN reads : reads[i] \in Plates
  BY DEF SearchTypeOK
<1>2. \A i \in DOMAIN reads : Shared(q, reads[i]) \in 0 .. Scale /\ Similarity(q, reads[i]) \in 0 .. Scale
  BY <1>1, SharedFull, SimilarityFull
<1>3. \A x : x \in 0 .. Scale => x \in Int
  OBVIOUS
<1>4. PICK f : f = [i \in DOMAIN reads |-> Shared(q, reads[i])]
  OBVIOUS
<1>5. PICK g : g = [i \in DOMAIN reads |-> Similarity(q, reads[i])]
  OBVIOUS
<1>6. f \in [DOMAIN reads -> Int] /\ g \in [DOMAIN reads -> Int]
  BY <1>2, <1>3, <1>4, <1>5
<1>7. /\ \A i \in DOMAIN reads : f[i] = Shared(q, reads[i])
      /\ \A i \in DOMAIN reads : g[i] = Similarity(q, reads[i])
  BY <1>4, <1>5
<1>8. FuzzyPage(q) = IF native /\ PageBy(f) # {} THEN PageBy(f) ELSE PageBy(g)
  BY <1>4, <1>5 DEF FuzzyPage
<1>9. CASE native /\ PageBy(f) # {}
  <2>1. FuzzyPage(q) = PageBy(f)
    BY <1>8, <1>9
  <2>2. QED
    BY <1>6, <1>7, <1>9, <2>1
<1>10. CASE ~(native /\ PageBy(f) # {})
  <2>1. FuzzyPage(q) = PageBy(g)
    BY <1>8, <1>10
  <2>2. QED
    BY <1>6, <1>7, <2>1
<1>11. QED
  BY <1>9, <1>10

LEMMA ExactFirst ==
  ASSUME SearchTypeOK, NEW q \in Plates, NEW i \in FuzzyPage(q), NEW j \in DOMAIN reads \ FuzzyPage(q),
         reads[j] = q
  PROVE  Trigrams(reads[i]) = Trigrams(q)
<1>1. PICK score \in [DOMAIN reads -> Int] :
        /\ FuzzyPage(q) = PageBy(score)
        /\ \/ native /\ \A k \in DOMAIN reads : score[k] = Shared(q, reads[k])
           \/ \A k \in DOMAIN reads : score[k] = Similarity(q, reads[k])
  BY PageIsScored
<1>2. PICK P \in Plates : P = reads[j]
  BY DEF SearchTypeOK
<1>3. Scale \in Nat /\ Threshold <= Scale /\ Threshold \in Nat
  BY SearchAssumption
<1>4. score[j] = Scale
  <2>1. Shared(q, P) = Scale /\ Similarity(q, P) = Scale
    BY <1>2, SharedFull, SimilarityFull
  <2>2. QED
    BY <1>1, <1>2, <2>1
<1>5. i \in DOMAIN reads /\ score[i] >= Scale
  BY <1>1, <1>3, <1>4, PageIsBest
<1>6. PICK R \in Plates : R = reads[i]
  BY <1>5 DEF SearchTypeOK
<1>7. score[i] = Shared(q, R) \/ score[i] = Similarity(q, R)
  BY <1>1, <1>5, <1>6
<1>8. /\ Shared(q, R) \in 0 .. Scale /\ (Shared(q, R) = Scale => Trigrams(q) = Trigrams(R))
      /\ Similarity(q, R) \in 0 .. Scale /\ (Similarity(q, R) = Scale => Trigrams(q) = Trigrams(R))
  BY SharedFull, SimilarityFull
<1>9. score[i] = Scale
  BY <1>3, <1>5, <1>7, <1>8
<1>10. QED
  BY <1>6, <1>7, <1>8, <1>9

LEMMA ConfusedFound ==
  ASSUME SearchTypeOK, ~native, Threshold <= Raised, NEW q \in Plates,
         NEW j \in DOMAIN reads \ FuzzyPage(q), Canonical(reads[j]) = Canonical(q)
  PROVE  Cardinality({i \in FuzzyPage(q) : Similarity(q, reads[i]) >= Raised}) = PageSize
<1>1. PICK score \in [DOMAIN reads -> Int] :
        /\ FuzzyPage(q) = PageBy(score)
        /\ \A k \in DOMAIN reads : score[k] = Similarity(q, reads[k])
  BY PageIsScored
<1>2. PICK P \in Plates : P = reads[j]
  BY DEF SearchTypeOK
<1>3. Threshold \in Nat /\ Raised \in Nat
  BY SearchAssumption, RaisedBelow
<1>4. score[j] >= Raised /\ score[j] \in Int
  <2>1. Similarity(q, P) >= Raised
    BY <1>2, SimilarityFull
  <2>2. QED
    BY <1>1, <1>2, <2>1
<1>5. score[j] >= Threshold
  BY <1>3, <1>4
<1>6. /\ \A i \in PageBy(score) : i \in DOMAIN reads /\ score[i] >= score[j]
      /\ Cardinality(PageBy(score)) = PageSize
  BY <1>1, <1>5, PageIsBest
<1>7. ASSUME NEW i \in FuzzyPage(q) PROVE Similarity(q, reads[i]) >= Raised
  <2>1. i \in DOMAIN reads /\ score[i] >= score[j]
    BY <1>1, <1>6, <1>7
  <2>2. score[i] \in Int /\ score[i] = Similarity(q, reads[i])
    BY <1>1, <2>1
  <2>3. QED
    BY <1>3, <1>4, <2>1, <2>2
<1>8. {i \in FuzzyPage(q) : Similarity(q, reads[i]) >= Raised} = FuzzyPage(q)
  BY <1>7
<1>9. QED
  BY <1>1, <1>6, <1>8

LEMMA SearchTypeKept == SearchTypeOK /\ [SearchNext]_searchVars => SearchTypeOK'
<1>1. SUFFICES ASSUME SearchTypeOK, [SearchNext]_searchVars PROVE SearchTypeOK'
  OBVIOUS
<1>2. CASE UNCHANGED searchVars
  BY <1>1, <1>2 DEF SearchTypeOK, searchVars
<1>3. ASSUME NEW p \in Plates, Read(p) PROVE SearchTypeOK'
  BY <1>1, <1>3, SearchAssumption DEF SearchTypeOK, Read
<1>4. ASSUME NEW q \in Plates, SearchFuzzy(q) PROVE SearchTypeOK'
  <2>1. \A score : PageBy(score) \subseteq DOMAIN reads
    BY DEF PageBy, Best
  <2>2. FuzzyPage(q) \subseteq DOMAIN reads
    BY <2>1 DEF FuzzyPage
  <2>3. QED
    BY <1>1, <1>4, <2>2 DEF SearchTypeOK, SearchFuzzy
<1>5. ASSUME NEW q \in Plates, SearchExact(q) PROVE SearchTypeOK'
  BY <1>1, <1>5 DEF SearchTypeOK, SearchExact, ExactPage
<1>6. QED
  BY <1>1, <1>2, <1>3, <1>4, <1>5 DEF SearchNext

\* Whatever tokens the network sees, the text is the letters of their runs (the CTC decoder of
\* dsai_lpr); and whatever plates are stored, a fuzzy search leaves out the plate that was
\* asked for only for rows as good, and one that OCR confuses with it only for a full page of
\* rows that score as much (search_fuzzy, dsai_trigram_similarity).
THEOREM PlatesFound == DecodeSpec /\ SearchSpec => PlatesAreFound
<1>1. DecodeInit => DecodeInv
  BY InitDecodeInv
<1>2. DecodeInv /\ [DecodeNext]_decodeVars => DecodeInv'
  BY DecodeInvKept
<1>3. DecodeInv => TextIsRuns
  BY DEF DecodeInv
<1>4. SearchInit => SearchTypeOK
  BY SearchAssumption DEF SearchInit, SearchTypeOK
<1>5. SearchTypeOK /\ [SearchNext]_searchVars => SearchTypeOK'
  BY SearchTypeKept
<1>6. SearchTypeOK /\ [SearchNext]_searchVars =>
        [\A q \in Plates : SearchFuzzy(q) =>
           \A i \in page', j \in DOMAIN reads \ page' :
             reads[j] = q => reads[i] = q \/ Trigrams(reads[i]) = Trigrams(q)]_searchVars
  BY ExactFirst DEF SearchFuzzy
<1>7. SearchTypeOK /\ [SearchNext]_searchVars =>
        [~native /\ Threshold <= Raised => \A q \in Plates : SearchFuzzy(q) =>
           \A j \in DOMAIN reads \ page' : Canonical(reads[j]) = Canonical(q) =>
             Cardinality({i \in page' : Similarity(q, reads[i]) >= Raised}) = PageSize]_searchVars
  BY ConfusedFound DEF SearchFuzzy
<1>8. QED
  BY <1>1, <1>2, <1>3, <1>4, <1>5, <1>6, <1>7, PTL
     DEF DecodeSpec, SearchSpec, PlatesAreFound, ExactComesFirst, ConfusedIsFound
================================================================================
