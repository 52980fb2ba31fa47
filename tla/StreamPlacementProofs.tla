-------------------------- MODULE StreamPlacementProofs --------------------------
(***************************************************************************)
(* Theorems about StreamPlacement, for any number of extractors, cameras   *)
(* and routers, any limits, crashes and faults.                            *)
(***************************************************************************)
EXTENDS StreamPlacement, FiniteSetTheorems, TLAPS

Opened == 1 .. Len(cameraOf)

JobTypes ==
  [pc : {"idle", "dispatch", "assign", "stop"}, camera : Cameras \cup {None},
   target : Extractors \cup {None}, stream : Nat, left : SUBSET Extractors, found : BOOLEAN]

LoopTypes ==
  [pc : {"idle", "lookup", "dispatch", "delete", "record"}, left : SUBSET Nat,
   old : Nat, target : Extractors \cup {None}, new : Nat]

\* The part of the state the theorems are about has its type.
PlacementType ==
  /\ cameraOf \in Seq(Cameras) /\ Len(cameraOf) <= MaxStreams
  /\ active \in [Extractors -> SUBSET Opened]
  /\ alive \subseteq Extractors
  /\ assigned \in [Streams -> Extractors \cup {None}]
  /\ job \in [Routers -> JobTypes] /\ loop \in LoopTypes

\* The stream runs on the extractor, or nowhere.
OnlyOn(s, e) == \A f \in Extractors : s \in active[f] => f = e

\* No stream runs on two extractors.
Solo == \A e \in Extractors : \A s \in active[e] : OnlyOn(s, e)

\* What a router is about to record is true, or harmless because the stream is over.
JobInv ==
  \A q \in Routers :
    /\ job[q].pc = "dispatch" => job[q].target \in Extractors /\ job[q].camera \in Cameras
    /\ job[q].pc = "assign" => /\ job[q].target \in Extractors /\ job[q].stream \in Opened
                               /\ OnlyOn(job[q].stream, job[q].target)

\* So is what the reconciliation loop is about to record.
LoopInv ==
  /\ loop.left \subseteq Opened
  /\ loop.pc = "dispatch" => loop.target \in Extractors /\ loop.old \in Opened
  /\ loop.pc \in {"delete", "record"} =>
       /\ loop.target \in Extractors /\ loop.new \in Opened /\ loop.old \in Opened
       /\ OnlyOn(loop.new, loop.target)

\* What is recorded is true as well.
BooksInv ==
  \A s \in Streams : assigned[s] # None => s \in Opened /\ OnlyOn(s, assigned[s])

IndInv == PlacementType /\ Solo /\ JobInv /\ LoopInv /\ BooksInv /\ CapacityRespected

LEMMA ActiveFinite ==
  ASSUME PlacementType, NEW e \in Extractors
  PROVE  IsFiniteSet(active[e]) /\ Cardinality(active[e]) \in Nat
<1>1. Len(cameraOf) \in Nat
  BY DEF PlacementType
<1>2. IsFiniteSet(Opened)
  BY <1>1, FS_Interval DEF Opened
<1>3. active[e] \subseteq Opened
  BY DEF PlacementType
<1>4. QED
  BY <1>2, <1>3, FS_Subset, FS_CardinalityType

LEMMA InitIndInv == Init => IndInv
<1> SUFFICES ASSUME Init PROVE IndInv
  OBVIOUS
<1> USE PlacementAssumption
<1>1. PlacementType
  BY DEF Init, PlacementType, JobTypes, LoopTypes, Idle, Request, Waiting, Scan, Opened
<1>2. Solo /\ JobInv /\ LoopInv /\ BooksInv
  BY DEF Init, Solo, OnlyOn, JobInv, LoopInv, BooksInv, Idle, Request, Waiting, Scan
<1>3. CapacityRespected
  BY FS_EmptySet DEF Init, CapacityRespected
<1>4. QED
  BY <1>1, <1>2, <1>3 DEF IndInv

\* Steps of the extractors: streams end, and nothing is opened or recorded.
LEMMA Shrinking ==
  ASSUME IndInv, UNCHANGED <<cameraOf, assigned, job, loop>>, alive' \subseteq Extractors,
         active' \in [Extractors -> SUBSET Opened],
         \A e \in Extractors : active'[e] \subseteq active[e]
  PROVE  IndInv'
<1>1. PlacementType'
  BY DEF IndInv, PlacementType, Opened
<1>2. \A s, e : OnlyOn(s, e) => OnlyOn(s, e)'
  BY DEF OnlyOn
<1>3. Solo' /\ JobInv' /\ LoopInv' /\ BooksInv'
  BY <1>2 DEF IndInv, Solo, JobInv, LoopInv, BooksInv, Opened
<1>4. ASSUME NEW e \in Extractors PROVE Cardinality(active'[e]) <= HardLimit
  <2>1. Cardinality(active'[e]) <= Cardinality(active[e])
    BY ActiveFinite, FS_Subset DEF IndInv
  <2>2. Cardinality(active[e]) <= HardLimit
    BY DEF IndInv, CapacityRespected
  <2>3. Cardinality(active[e]) \in Nat /\ Cardinality(active'[e]) \in Nat
    BY ActiveFinite, FS_Subset, FS_CardinalityType DEF IndInv
  <2>4. QED
    BY <2>1, <2>2, <2>3, PlacementAssumption
<1>5. CapacityRespected'
  BY <1>4 DEF CapacityRespected
<1>6. QED
  BY <1>1, <1>3, <1>5 DEF IndInv

\* A stream is opened: under a fresh number, on one extractor, within its limit.
LEMMA Opening ==
  ASSUME IndInv, NEW e \in Extractors, NEW c \in Cameras, Open(e, c),
         NEW n, n = Len(cameraOf) + 1
  PROVE  /\ Len(cameraOf') = n
         /\ Opened \subseteq Opened' /\ n \in Opened'
         /\ cameraOf' \in Seq(Cameras) /\ Len(cameraOf') <= MaxStreams
         /\ active' \in [Extractors -> SUBSET Opened']
         /\ Solo' /\ CapacityRespected'
         /\ \A s \in Opened : \A f : OnlyOn(s, f) => OnlyOn(s, f)'
         /\ OnlyOn(n, e)'
<1>1. cameraOf \in Seq(Cameras) /\ Len(cameraOf) \in Nat
  BY DEF IndInv, PlacementType
<1>2. Len(cameraOf') = n /\ cameraOf' \in Seq(Cameras)
  BY <1>1 DEF Open
<1>3. Len(cameraOf') <= MaxStreams
  BY <1>2 DEF Open, Streams
<1>4. Opened \subseteq Opened' /\ n \in Opened' /\ n \notin Opened
  BY <1>1, <1>2 DEF Opened
<1>5. active' = [active EXCEPT ![e] = @ \cup {n}]
  BY DEF Open
<1>6. active \in [Extractors -> SUBSET Opened]
  BY DEF IndInv, PlacementType
<1>7. active' \in [Extractors -> SUBSET Opened']
  BY <1>4, <1>5, <1>6
<1>8. \A s \in Opened : \A f : OnlyOn(s, f) => OnlyOn(s, f)'
  BY <1>4, <1>5, <1>6 DEF OnlyOn
<1>9. OnlyOn(n, e)'
  BY <1>4, <1>5, <1>6 DEF OnlyOn
<1>10. Solo'
  <2> SUFFICES ASSUME NEW f \in Extractors, NEW s \in active'[f] PROVE OnlyOn(s, f)'
    BY DEF Solo
  <2>1. CASE s = n
    <3>1. f = e
      BY <1>4, <1>5, <1>6, <2>1
    <3>2. QED
      BY <1>9, <2>1, <3>1
  <2>2. CASE s # n
    <3>1. s \in active[f] /\ s \in Opened
      BY <1>5, <1>6, <2>2
    <3>2. OnlyOn(s, f)
      BY <3>1 DEF IndInv, Solo
    <3>3. QED
      BY <1>8, <3>1, <3>2
  <2>3. QED
    BY <2>1, <2>2
<1>11. CapacityRespected'
  <2> SUFFICES ASSUME NEW f \in Extractors PROVE Cardinality(active'[f]) <= HardLimit
    BY DEF CapacityRespected
  <2>1. CASE f = e
    <3>1. IsFiniteSet(active[e]) /\ Cardinality(active[e]) \in Nat
      BY ActiveFinite DEF IndInv
    <3>2. active'[e] = active[e] \cup {n} /\ n \notin active[e]
      BY <1>4, <1>5, <1>6
    <3>3. Cardinality(active'[e]) = Cardinality(active[e]) + 1
      BY <3>1, <3>2, FS_AddElement
    <3>4. Cardinality(active[e]) < EffectiveLimit(e)
      BY DEF Open, HasRoom
    <3>5. EffectiveLimit(e) \in Int /\ EffectiveLimit(e) <= HardLimit
      BY PlacementAssumption DEF EffectiveLimit
    <3>6. QED
      BY <2>1, <3>1, <3>3, <3>4, <3>5, PlacementAssumption
  <2>2. CASE f # e
    BY <1>5, <1>6, <2>2 DEF IndInv, CapacityRespected
  <2>3. QED
    BY <2>1, <2>2
<1>12. QED
  BY <1>2, <1>3, <1>4, <1>7, <1>8, <1>9, <1>10, <1>11

\* What no step of a router or of the loop does to the extractors: they only gain
\* streams, and what was known of the streams opened before stays known.
Grows ==
  /\ cameraOf' \in Seq(Cameras) /\ Len(cameraOf') <= MaxStreams /\ Opened \subseteq Opened'
  /\ active' \in [Extractors -> SUBSET Opened']
  /\ Solo' /\ CapacityRespected'
  /\ \A s \in Opened : \A f : OnlyOn(s, f) => OnlyOn(s, f)'

LEMMA TableGrows ==
  ASSUME IndInv, UNCHANGED table \/ \E e \in Extractors, c \in Cameras : Open(e, c)
  PROVE  Grows
<1>1. CASE UNCHANGED table
  <2>1. Solo' /\ CapacityRespected' /\ Opened' = Opened /\ \A s, f : OnlyOn(s, f) => OnlyOn(s, f)'
    BY <1>1 DEF IndInv, Solo, OnlyOn, CapacityRespected, Opened, table
  <2>2. QED
    BY <1>1, <2>1 DEF Grows, IndInv, PlacementType, table
<1>2. CASE \E e \in Extractors, c \in Cameras : Open(e, c)
  <2>1. PICK e \in Extractors, c \in Cameras : Open(e, c)
    BY <1>2
  <2>2. PICK n : n = Len(cameraOf) + 1
    OBVIOUS
  <2>3. QED
    BY <2>1, <2>2, Opening DEF Grows
<1>3. QED
  BY <1>1, <1>2

\* A router's request, and what has to be true of it, changes; the others' do not.
LEMMA JobSet ==
  ASSUME IndInv, Grows, NEW q \in Routers, NEW r \in JobTypes, job' = [job EXCEPT ![q] = r],
         r.pc = "dispatch" => r.target \in Extractors /\ r.camera \in Cameras,
         r.pc = "assign" => /\ r.target \in Extractors /\ r.stream \in Opened'
                            /\ \A f \in Extractors : r.stream \in active'[f] => f = r.target
  PROVE  job' \in [Routers -> JobTypes] /\ JobInv'
<1>1. job \in [Routers -> JobTypes]
  BY DEF IndInv, PlacementType
<1>2. job' \in [Routers -> JobTypes]
  BY <1>1
<1>3. ASSUME NEW p \in Routers
      PROVE  /\ job'[p].pc = "dispatch" =>
                  job'[p].target \in Extractors /\ job'[p].camera \in Cameras
             /\ job'[p].pc = "assign" => /\ job'[p].target \in Extractors
                                         /\ job'[p].stream \in Opened'
                                         /\ OnlyOn(job[p].stream, job[p].target)'
  <2>1. CASE p = q
    BY <1>1, <2>1 DEF OnlyOn
  <2>2. CASE p # q
    <3>1. job'[p] = job[p]
      BY <1>1, <2>2
    <3>2. job[p].pc = "assign" => OnlyOn(job[p].stream, job[p].target) /\ job[p].stream \in Opened
      BY DEF IndInv, JobInv
    <3>3. job[p].pc = "assign" =>
            \A f \in Extractors : job[p].stream \in active'[f] => f = job[p].target
      BY <3>2 DEF Grows, OnlyOn
    <3>4. QED
      BY <3>1, <3>2, <3>3 DEF IndInv, JobInv, OnlyOn, Grows
  <2>3. QED
    BY <2>1, <2>2
<1>4. QED
  BY <1>2, <1>3 DEF JobInv

\* What a step leaves alone stays true while the tables grow.
LEMMA Kept ==
  ASSUME IndInv, Grows
  PROVE  /\ job' = job => job' \in [Routers -> JobTypes] /\ JobInv'
         /\ loop' = loop => loop' \in LoopTypes /\ LoopInv'
         /\ assigned' = assigned =>
              assigned' \in [Streams -> Extractors \cup {None}] /\ BooksInv'
<1>1. ASSUME NEW s \in Opened, NEW f, OnlyOn(s, f)
      PROVE  s \in Opened' /\ \A g \in Extractors : s \in active'[g] => g = f
  BY <1>1 DEF Grows, OnlyOn
<1>2. ASSUME job' = job PROVE job' \in [Routers -> JobTypes] /\ JobInv'
  <2>1. ASSUME NEW q \in Routers, job[q].pc = "assign"
        PROVE  /\ job[q].target \in Extractors /\ job[q].stream \in Opened'
               /\ \A g \in Extractors : job[q].stream \in active'[g] => g = job[q].target
    <3>1. /\ job[q].target \in Extractors /\ job[q].stream \in Opened
          /\ OnlyOn(job[q].stream, job[q].target)
      BY <2>1 DEF IndInv, JobInv
    <3>2. QED
      BY <1>1, <3>1
  <2>2. \A q \in Routers :
          job[q].pc = "dispatch" => job[q].target \in Extractors /\ job[q].camera \in Cameras
    BY DEF IndInv, JobInv
  <2>3. QED
    BY <1>2, <2>1, <2>2 DEF IndInv, PlacementType, JobInv, OnlyOn
<1>3. ASSUME loop' = loop PROVE loop' \in LoopTypes /\ LoopInv'
  BY <1>1, <1>3 DEF IndInv, PlacementType, LoopInv, OnlyOn, Grows
<1>4. ASSUME assigned' = assigned
      PROVE  assigned' \in [Streams -> Extractors \cup {None}] /\ BooksInv'
  BY <1>1, <1>4 DEF IndInv, PlacementType, BooksInv, OnlyOn
<1>5. QED
  BY <1>2, <1>3, <1>4

\* A true assignment is recorded.
LEMMA Recording ==
  ASSUME IndInv, Grows, NEW s \in Opened, NEW e \in Extractors, OnlyOn(s, e),
         assigned' = [assigned EXCEPT ![s] = e]
  PROVE  assigned' \in [Streams -> Extractors \cup {None}] /\ BooksInv'
<1>1. assigned \in [Streams -> Extractors \cup {None}] /\ s \in Streams
  <2>1. Len(cameraOf) \in Nat /\ Len(cameraOf) <= MaxStreams
    BY DEF IndInv, PlacementType
  <2>2. QED
    BY <2>1, PlacementAssumption DEF IndInv, PlacementType, Opened, Streams
<1>2. ASSUME NEW t \in Streams, assigned'[t] # None
      PROVE  t \in Opened' /\ \A g \in Extractors : t \in active'[g] => g = assigned'[t]
  <2>1. t \in Opened /\ OnlyOn(t, assigned'[t])
    BY <1>1, <1>2 DEF IndInv, BooksInv
  <2>2. PICK f : f = assigned'[t]
    OBVIOUS
  <2>3. OnlyOn(t, f)'
    BY <2>1, <2>2 DEF Grows
  <2>4. QED
    BY <2>1, <2>2, <2>3 DEF Grows, OnlyOn
<1>3. QED
  BY <1>1, <1>2 DEF BooksInv, OnlyOn

\* An assignment is removed.
LEMMA Forgetting ==
  ASSUME IndInv, Grows, NEW s, assigned' = [assigned EXCEPT ![s] = None]
  PROVE  assigned' \in [Streams -> Extractors \cup {None}] /\ BooksInv'
<1>1. assigned \in [Streams -> Extractors \cup {None}]
  BY DEF IndInv, PlacementType
<1>2. ASSUME NEW t \in Streams, assigned'[t] # None
      PROVE  t \in Opened' /\ \A g \in Extractors : t \in active'[g] => g = assigned'[t]
  <2>1. PICK f : f = assigned[t]
    OBVIOUS
  <2>2. f = assigned'[t] /\ t \in Opened /\ OnlyOn(t, f)
    BY <1>1, <1>2, <2>1 DEF IndInv, BooksInv
  <2>3. OnlyOn(t, f)'
    BY <2>2 DEF Grows
  <2>4. QED
    BY <2>2, <2>3 DEF Grows, OnlyOn
<1>3. QED
  BY <1>1, <1>2 DEF BooksInv, OnlyOn

\* The parts together.
LEMMA Together ==
  ASSUME Grows, alive' \subseteq Extractors,
         job' \in [Routers -> JobTypes] /\ JobInv', loop' \in LoopTypes /\ LoopInv',
         assigned' \in [Streams -> Extractors \cup {None}] /\ BooksInv'
  PROVE  IndInv'
BY DEF Grows, IndInv, PlacementType

\* The steps of the routers.
LEMMA Routing ==
  ASSUME IndInv, NEW q \in Routers,
         Route(q) \/ \E c \in Cameras : StartRequest(q, c) \/ StopRequest(q, c)
  PROVE  IndInv'
<1>1. /\ job \in [Routers -> JobTypes] /\ job[q] \in JobTypes
      /\ Best \subseteq Extractors /\ alive \subseteq Extractors
  BY DEF IndInv, PlacementType, Best
<1>0. Idle \in JobTypes /\ Idle.pc = "idle"
  BY DEF JobTypes, Idle, Request
<1>2. ASSUME NEW c \in Cameras, StartRequest(q, c) PROVE IndInv'
  <2>1. Grows
    BY <1>2, TableGrows DEF StartRequest
  <2>2. PICK e \in Extractors :
          job' = [job EXCEPT ![q] = Request("dispatch", c, e, {})]
    BY <1>1, <1>2 DEF StartRequest
  <2> DEFINE r == [pc |-> "dispatch", camera |-> c, target |-> e, stream |-> 0,
                   left |-> {}, found |-> FALSE]
  <2>3. r \in JobTypes /\ job' = [job EXCEPT ![q] = r]
    BY <2>2 DEF JobTypes, Request
  <2>4. job' \in [Routers -> JobTypes] /\ JobInv'
    <3>1. r.pc = "dispatch" /\ r.target \in Extractors /\ r.camera \in Cameras
      OBVIOUS
    <3> HIDE DEF r
    <3>2. QED
      BY <2>1, <2>3, <3>1, JobSet
  <2>5. QED
    BY <1>1, <1>2, <2>1, <2>4, Kept, Together DEF StartRequest, registry
<1>3. ASSUME NEW c \in Cameras, StopRequest(q, c) PROVE IndInv'
  <2>1. Grows
    BY <1>3, TableGrows DEF StopRequest
  <2> DEFINE r == [pc |-> "stop", camera |-> c, target |-> None, stream |-> 0,
                   left |-> Extractors, found |-> FALSE]
  <2>2. Request("stop", c, None, Extractors) = r
    BY DEF Request
  <2>5. r \in JobTypes
    <3>1. Extractors \in SUBSET Extractors
      OBVIOUS
    <3>2. QED
      BY <3>1 DEF JobTypes
  <2>3. job' \in [Routers -> JobTypes] /\ JobInv'
    <3>1. r.pc = "stop" /\ job' = [job EXCEPT ![q] = r]
      BY <1>3, <2>2 DEF StopRequest
    <3> HIDE DEF r
    <3>2. QED
      BY <2>1, <2>5, <3>1, JobSet
  <2>4. QED
    BY <1>1, <1>3, <2>1, <2>3, Kept, Together DEF StopRequest, registry
<1>4. ASSUME Dispatch(q) PROVE IndInv'
  <2>1. job[q].target \in Extractors /\ job[q].camera \in Cameras
    BY <1>4 DEF Dispatch, IndInv, JobInv
  <2>2. Grows
    BY <1>4, <2>1, TableGrows DEF Dispatch, Refused
  <2>3. ASSUME job' = [job EXCEPT ![q] = Idle] PROVE job' \in [Routers -> JobTypes] /\ JobInv'
    BY <1>0, <2>2, <2>3, JobSet
  <2>4. ASSUME Open(job[q].target, job[q].camera),
               job' = [job EXCEPT ![q].pc = "assign", ![q].stream = Len(cameraOf')]
        PROVE  job' \in [Routers -> JobTypes] /\ JobInv'
    <3>1. PICK n, e, c : n = Len(cameraOf) + 1 /\ e = job[q].target /\ c = job[q].camera
      OBVIOUS
    <3>2. n = Len(cameraOf') /\ n \in Opened' /\ n \in Nat /\ OnlyOn(n, e)'
      BY <2>1, <2>4, <3>1, Opening DEF IndInv, PlacementType
    <3>3. PICK r : r = [job[q] EXCEPT !.pc = "assign", !.stream = n]
      OBVIOUS
    <3>4. /\ r \in JobTypes /\ r.pc = "assign" /\ r.target = e /\ r.stream = n
          /\ job' = [job EXCEPT ![q] = r]
      BY <1>1, <2>4, <3>1, <3>2, <3>3 DEF JobTypes
    <3>5. r.target \in Extractors /\ r.stream \in Opened'
          /\ \A f \in Extractors : r.stream \in active'[f] => f = r.target
      BY <2>1, <3>1, <3>2, <3>4 DEF OnlyOn
    <3>6. QED
      BY <2>2, <3>4, <3>5, JobSet
  <2>5. job' \in [Routers -> JobTypes] /\ JobInv'
    BY <1>4, <2>3, <2>4 DEF Dispatch
  <2>6. QED
    BY <1>1, <1>4, <2>2, <2>5, Kept, Together DEF Dispatch, registry
<1>5. ASSUME Assign(q) PROVE IndInv'
  <2>1. Grows
    BY <1>5, TableGrows DEF Assign
  <2>2. job' \in [Routers -> JobTypes] /\ JobInv'
    BY <1>0, <1>5, <2>1, JobSet DEF Assign
  <2>3. /\ job[q].target \in Extractors /\ job[q].stream \in Opened
        /\ OnlyOn(job[q].stream, job[q].target)
    BY <1>5 DEF Assign, IndInv, JobInv
  <2>4. ASSUME assigned' = [assigned EXCEPT ![job[q].stream] = job[q].target]
        PROVE  assigned' \in [Streams -> Extractors \cup {None}] /\ BooksInv'
    BY <2>1, <2>3, <2>4, Recording
  <2>5. assigned' \in [Streams -> Extractors \cup {None}] /\ BooksInv'
    BY <1>5, <2>1, <2>4, Kept DEF Assign
  <2>6. QED
    BY <1>1, <1>5, <2>1, <2>2, <2>5, Kept, Together DEF Assign
<1>6. ASSUME NEW e \in Extractors, StopAt(q, e) PROVE IndInv'
  <2>1. Grows
    BY <1>6, TableGrows DEF StopAt
  <2>2. PICK r : job' = [job EXCEPT ![q] = r] /\ r \in JobTypes /\ r.pc = "stop"
    <3>1. CASE job' = [job EXCEPT ![q].left = @ \ {e}, ![q].found = TRUE]
      <4>1. [job[q] EXCEPT !.left = @ \ {e}, !.found = TRUE] \in JobTypes
        BY <1>1 DEF JobTypes
      <4>2. [job[q] EXCEPT !.left = @ \ {e}, !.found = TRUE].pc = "stop"
        BY <1>1, <1>6 DEF JobTypes, StopAt
      <4>3. job' = [job EXCEPT ![q] = [job[q] EXCEPT !.left = @ \ {e}, !.found = TRUE]]
        BY <1>1, <3>1
      <4>4. QED
        BY <4>1, <4>2, <4>3
    <3>2. CASE job' = [job EXCEPT ![q].left = @ \ {e}]
      <4>1. [job[q] EXCEPT !.left = @ \ {e}] \in JobTypes
        BY <1>1 DEF JobTypes
      <4>2. [job[q] EXCEPT !.left = @ \ {e}].pc = "stop"
        BY <1>1, <1>6 DEF JobTypes, StopAt
      <4>3. job' = [job EXCEPT ![q] = [job[q] EXCEPT !.left = @ \ {e}]]
        BY <1>1, <3>2
      <4>4. QED
        BY <4>1, <4>2, <4>3
    <3>3. QED
      BY <1>6, <3>1, <3>2 DEF StopAt
  <2>3. job' \in [Routers -> JobTypes] /\ JobInv'
    BY <2>1, <2>2, JobSet
  <2>4. QED
    BY <1>1, <1>6, <2>1, <2>3, Kept, Together DEF StopAt, registry
<1>7. ASSUME StopAnswer(q) PROVE IndInv'
  <2>1. Grows
    BY <1>7, TableGrows DEF StopAnswer
  <2>2. job' \in [Routers -> JobTypes] /\ JobInv'
    BY <1>0, <1>7, <2>1, JobSet DEF StopAnswer
  <2>3. QED
    BY <1>1, <1>7, <2>1, <2>2, Kept, Together DEF StopAnswer, registry
<1>8. QED
  BY <1>2, <1>3, <1>4, <1>5, <1>6, <1>7 DEF Route

\* The loop takes some streams, or drops them.
LEMMA Scanning ==
  ASSUME IndInv, Grows, NEW left, left \subseteq Opened, loop' = Scan(left)
  PROVE  loop' \in LoopTypes /\ LoopInv'
<1>1. left \subseteq Nat /\ left \subseteq Opened'
  BY DEF Grows, Opened
<1>2. QED
  BY <1>1 DEF LoopTypes, LoopInv, Scan

\* The steps of the reconciliation loop, and its crash.
LEMMA Reconciling ==
  ASSUME IndInv, Reconcile \/ RegistryCrash
  PROVE  IndInv'
<1>1. /\ loop \in LoopTypes /\ loop.left \subseteq Opened
      /\ Best \subseteq Extractors /\ alive \subseteq Extractors
  BY DEF IndInv, PlacementType, LoopInv, Best
<1>2. ASSUME NEW done, Grows, Advance(done) PROVE loop' \in LoopTypes /\ LoopInv'
  BY <1>1, <1>2, Scanning DEF Advance
<1>3. ASSUME Tick PROVE IndInv'
  <2>1. Grows
    BY <1>3, TableGrows DEF Tick
  <2>2. PICK B : B \subseteq {s \in Streams : Orphan(s)} /\ loop' = Scan(B)
    BY <1>3 DEF Tick, FailoverBatch
  <2>3. B \subseteq Opened
    BY <2>2 DEF Orphan, IndInv, BooksInv
  <2>4. QED
    BY <1>1, <1>3, <2>1, <2>2, <2>3, Scanning, Kept, Together DEF Tick, registry
<1>4. ASSUME NEW s \in Streams, FailoverLookup(s) PROVE IndInv'
  <2>1. Grows
    BY <1>4, TableGrows DEF FailoverLookup
  <2>2. ASSUME NEW e \in Best,
               loop' = [loop EXCEPT !.pc = "dispatch", !.old = s, !.target = e]
        PROVE  loop' \in LoopTypes /\ LoopInv'
    <3>1. s \in Opened /\ s \in Nat /\ e \in Extractors
      <4>1. s \in Nat
        BY PlacementAssumption DEF Streams
      <4>2. QED
        BY <1>1, <1>4, <2>2, <4>1 DEF FailoverLookup
    <3>2. /\ loop' \in LoopTypes /\ loop'.pc = "dispatch" /\ loop'.left = loop.left
          /\ loop'.target = e /\ loop'.old = s
      BY <1>1, <2>2, <3>1 DEF LoopTypes
    <3>3. QED
      BY <1>1, <2>1, <3>1, <3>2 DEF LoopInv, Grows, OnlyOn
  <2>3. loop' \in LoopTypes /\ LoopInv'
    BY <1>2, <1>4, <2>1, <2>2 DEF FailoverLookup
  <2>4. assigned' = assigned
    BY <1>4 DEF FailoverLookup
  <2>5. QED
    BY <1>1, <1>4, <2>1, <2>3, <2>4, Kept, Together DEF FailoverLookup
<1>5. ASSUME FailoverDispatch PROVE IndInv'
  <2>1. loop.target \in Extractors /\ loop.old \in Opened /\ cameraOf[loop.old] \in Cameras
    BY <1>5 DEF FailoverDispatch, IndInv, LoopInv, PlacementType, Opened
  <2>2. Grows
    BY <1>5, <2>1, TableGrows DEF FailoverDispatch
  <2>3. ASSUME Open(loop.target, cameraOf[loop.old]),
               loop' = [loop EXCEPT !.pc = "delete", !.new = Len(cameraOf')]
        PROVE  loop' \in LoopTypes /\ LoopInv'
    <3>1. PICK n, e, c : n = Len(cameraOf) + 1 /\ e = loop.target /\ c = cameraOf[loop.old]
      OBVIOUS
    <3>2. n = Len(cameraOf') /\ n \in Opened' /\ n \in Nat /\ OnlyOn(n, e)'
      BY <2>1, <2>3, <3>1, Opening DEF IndInv, PlacementType
    <3>3. /\ loop' \in LoopTypes /\ loop'.pc = "delete" /\ loop'.target = e
          /\ loop'.new = n /\ loop'.old = loop.old /\ loop'.left = loop.left
      BY <1>1, <2>3, <3>1, <3>2 DEF LoopTypes
    <3>4. loop'.left \subseteq Opened' /\ loop.old \in Opened'
      BY <1>1, <2>1, <2>2, <3>3 DEF Grows
    <3>5. \A g \in Extractors : loop'.new \in active'[g] => g = loop'.target
      BY <3>2, <3>3 DEF OnlyOn
    <3>6. QED
      BY <2>1, <3>1, <3>2, <3>3, <3>4, <3>5 DEF LoopInv, OnlyOn
  <2>4. loop' \in LoopTypes /\ LoopInv'
    BY <1>2, <1>5, <2>2, <2>3 DEF FailoverDispatch
  <2>5. QED
    BY <1>1, <1>5, <2>2, <2>4, Kept, Together DEF FailoverDispatch, registry
<1>6. ASSUME FailoverDelete PROVE IndInv'
  <2>1. Grows
    BY <1>6, TableGrows DEF FailoverDelete
  <2>2. /\ loop.target \in Extractors /\ loop.new \in Opened /\ loop.old \in Opened
        /\ OnlyOn(loop.new, loop.target)
    BY <1>6 DEF FailoverDelete, IndInv, LoopInv
  <2>3. ASSUME loop' = [loop EXCEPT !.pc = "record"] PROVE loop' \in LoopTypes /\ LoopInv'
    <3>1. /\ loop' \in LoopTypes /\ loop'.pc = "record" /\ loop'.target = loop.target
          /\ loop'.new = loop.new /\ loop'.old = loop.old /\ loop'.left = loop.left
      BY <1>1, <2>3 DEF LoopTypes
    <3>2. \A g \in Extractors : loop.new \in active'[g] => g = loop.target
      BY <2>1, <2>2 DEF Grows, OnlyOn
    <3>3. loop'.left \subseteq Opened' /\ loop.old \in Opened' /\ loop.new \in Opened'
      BY <1>1, <2>1, <2>2, <3>1 DEF Grows
    <3>4. QED
      BY <2>2, <3>1, <3>2, <3>3 DEF LoopInv, OnlyOn
  <2>4. loop' \in LoopTypes /\ LoopInv'
    BY <1>2, <1>6, <2>1, <2>3 DEF FailoverDelete
  <2>5. assigned' \in [Streams -> Extractors \cup {None}] /\ BooksInv'
    <3>1. CASE assigned' = assigned
      BY <2>1, <3>1, Kept
    <3>2. CASE assigned' = [assigned EXCEPT ![loop.old] = None]
      BY <2>1, <3>2, Forgetting
    <3>3. QED
      BY <1>6, <3>1, <3>2 DEF FailoverDelete, DropOld
  <2>6. QED
    BY <1>1, <1>6, <2>1, <2>4, <2>5, Kept, Together DEF FailoverDelete
<1>7. ASSUME FailoverRecord PROVE IndInv'
  <2>1. Grows
    BY <1>7, TableGrows DEF FailoverRecord
  <2>2. /\ loop.target \in Extractors /\ loop.new \in Opened
        /\ OnlyOn(loop.new, loop.target)
    BY <1>7 DEF FailoverRecord, IndInv, LoopInv
  <2>3. assigned' \in [Streams -> Extractors \cup {None}] /\ BooksInv'
    <3>1. CASE assigned' = assigned
      BY <2>1, <3>1, Kept
    <3>2. CASE assigned' = [assigned EXCEPT ![loop.new] = loop.target]
      BY <2>1, <2>2, <3>2, Recording
    <3>3. QED
      BY <1>7, <3>1, <3>2 DEF FailoverRecord, RecordNew
  <2>4. loop' \in LoopTypes /\ LoopInv'
    BY <1>2, <1>7, <2>1 DEF FailoverRecord
  <2>5. QED
    BY <1>1, <1>7, <2>1, <2>3, <2>4, Kept, Together DEF FailoverRecord
<1>8. ASSUME RegistryCrash PROVE IndInv'
  <2>1. Grows
    BY <1>8, TableGrows DEF RegistryCrash
  <2>2. loop' \in LoopTypes /\ LoopInv'
    BY <1>8, <2>1, Scanning DEF RegistryCrash, Waiting
  <2>3. QED
    BY <1>1, <1>8, <2>1, <2>2, Kept, Together DEF RegistryCrash, registry
<1>9. QED
  BY <1>3, <1>4, <1>5, <1>6, <1>7, <1>8 DEF Reconcile

\* The steps of the extractors, and theirs only, end streams.
LEMMA Extracting ==
  ASSUME IndInv, NEW e \in Extractors, Extractor(e)
  PROVE  IndInv'
<1>1. active \in [Extractors -> SUBSET Opened] /\ alive \subseteq Extractors
  BY DEF IndInv, PlacementType
<1>2. UNCHANGED <<cameraOf, assigned, job, loop>>
  BY DEF Extractor, Heartbeat, LeaseExpires, Throttle, Drain, ExtractorCrash,
         ExtractorRestart, StreamEnds, table, registry
<1>3. alive' \subseteq Extractors
  BY <1>1 DEF Extractor, Heartbeat, LeaseExpires, Throttle, Drain, ExtractorCrash,
              ExtractorRestart, StreamEnds, registry
<1>4. \/ active' = active
      \/ \E s \in Streams : active' = [active EXCEPT ![e] = @ \ {s}]
      \/ active' = [active EXCEPT ![e] = {}]
  BY DEF Extractor, Heartbeat, LeaseExpires, Throttle, Drain, ExtractorCrash,
         ExtractorRestart, StreamEnds, table
<1>5. /\ active' \in [Extractors -> SUBSET Opened]
      /\ \A f \in Extractors : active'[f] \subseteq active[f]
  BY <1>1, <1>4
<1>6. QED
  BY <1>2, <1>3, <1>5, Shrinking

\* The invariant holds throughout, under any interleaving and any faults.
THEOREM Invariance == Spec => []IndInv
<1>1. IndInv /\ [Next]_vars => IndInv'
  <2> SUFFICES ASSUME IndInv, [Next]_vars PROVE IndInv'
    OBVIOUS
  <2>1. CASE Next
    BY <2>1, Routing, Extracting, Reconciling DEF Next
  <2>2. CASE UNCHANGED vars
    <3>1. UNCHANGED <<cameraOf, assigned, job, loop, active, alive>>
      BY <2>2 DEF vars, table, registry
    <3>2. QED
      BY <3>1, Shrinking DEF IndInv, PlacementType
  <2>3. QED
    BY <2>1, <2>2
<1>2. QED
  BY InitIndInv, <1>1, PTL DEF Spec

\* However stale the registry's numbers are, no extractor ever runs more streams than
\* its hard limit: the admission is decided under its own lock.
THEOREM CapacityHolds == Spec => []CapacityRespected
<1>1. IndInv => CapacityRespected
  BY DEF IndInv
<1>2. QED
  BY <1>1, Invariance, PTL

\* The registry never has a running stream down for an extractor it does not run on,
\* whatever answers were lost and however many copies of a camera run.
THEOREM TrackedTruly == Spec => []TrackedWhereItRuns
<1>1. IndInv => TrackedWhereItRuns
  <2> SUFFICES ASSUME IndInv, NEW s \in Running, assigned[s] # None
               PROVE  s \in active[assigned[s]]
    BY DEF TrackedWhereItRuns
  <2>1. PICK e \in Extractors : s \in active[e]
    BY DEF Running
  <2>2. s \in Opened /\ Opened \subseteq Streams
    <3>1. Len(cameraOf) \in Nat /\ Len(cameraOf) <= MaxStreams
      BY DEF IndInv, PlacementType
    <3>2. QED
      BY <2>1, <3>1, PlacementAssumption DEF IndInv, PlacementType, Opened, Streams
  <2>3. OnlyOn(s, assigned[s])
    BY <2>2 DEF IndInv, BooksInv
  <2>4. QED
    BY <2>1, <2>3 DEF OnlyOn
<1>2. QED
  BY <1>1, Invariance, PTL

--------------------------------------------------------------------------------
(* The camera's entry.                                                          *)

\* The entries of the cameras, as far as LatestStoppable needs their type.
EntryInv == byCamera \in [Extractors -> [Cameras -> Nat]] /\ LatestStoppable

\* Streams that end take their entries with them, and no other's.
LEMMA EntryGoes ==
  ASSUME IndInv, EntryInv, NEW e \in Extractors, Extractor(e)
  PROVE  EntryInv'
<1> USE PlacementAssumption
<1>1. /\ active \in [Extractors -> SUBSET Opened] /\ byCamera \in [Extractors -> [Cameras -> Nat]]
      /\ \A s \in Opened : cameraOf[s] \in Cameras
  BY DEF IndInv, PlacementType, EntryInv, Opened
<1>2. cameraOf' = cameraOf
  BY DEF Extractor, Heartbeat, LeaseExpires, Throttle, Drain, ExtractorCrash,
         ExtractorRestart, StreamEnds, table
<1>3. CASE UNCHANGED table
  BY <1>3 DEF EntryInv, LatestStoppable, table
<1>4. ASSUME NEW s \in Streams, StreamEnds(e, s) PROVE EntryInv'
  <2>1. /\ s \in Opened /\ cameraOf[s] \in Cameras
        /\ active' = [active EXCEPT ![e] = @ \ {s}]
        /\ byCamera' = [byCamera EXCEPT ![e][cameraOf[s]] = IF @ = s THEN 0 ELSE @]
    BY <1>1, <1>4 DEF StreamEnds, ForgetCamera
  <2>2. byCamera' \in [Extractors -> [Cameras -> Nat]]
    BY <1>1, <2>1
  <2>3. ASSUME NEW f \in Extractors, NEW t \in active'[f],
               \A u \in t + 1 .. Len(cameraOf) : cameraOf[u] # cameraOf[t]
        PROVE  byCamera'[f][cameraOf[t]] = t
    <3>1. t \in active[f] /\ t \in Opened /\ byCamera[f][cameraOf[t]] = t /\ (f = e => t # s)
      BY <1>1, <2>1, <2>3 DEF EntryInv, LatestStoppable
    <3>2. QED
      BY <1>1, <2>1, <3>1
  <2>4. QED
    BY <1>2, <2>2, <2>3 DEF EntryInv, LatestStoppable
<1>5. CASE ExtractorCrash(e)
  <2>1. /\ active' = [active EXCEPT ![e] = {}]
        /\ byCamera' = [byCamera EXCEPT ![e] = [c \in Cameras |-> 0]]
    BY <1>5 DEF ExtractorCrash
  <2>2. /\ byCamera' \in [Extractors -> [Cameras -> Nat]] /\ active'[e] = {}
        /\ \A f \in Extractors \ {e} : active'[f] = active[f] /\ byCamera'[f] = byCamera[f]
    BY <1>1, <2>1
  <2>3. QED
    BY <1>2, <2>2 DEF EntryInv, LatestStoppable
<1>6. QED
  BY <1>3, <1>4, <1>5 DEF Extractor, Heartbeat, LeaseExpires, Throttle, Drain, ExtractorRestart

\* A new stream takes its camera's entry over; the older ones of the camera are not its last any more.
LEMMA EntryTaken ==
  ASSUME IndInv, EntryInv, UNCHANGED table \/ \E e \in Extractors, c \in Cameras : Open(e, c)
  PROVE  EntryInv'
<1>1. /\ active \in [Extractors -> SUBSET Opened] /\ byCamera \in [Extractors -> [Cameras -> Nat]]
      /\ cameraOf \in Seq(Cameras) /\ Len(cameraOf) \in Nat
      /\ \A s \in Opened : cameraOf[s] \in Cameras
  BY DEF IndInv, PlacementType, EntryInv, Opened
<1>2. CASE UNCHANGED table
  BY <1>2 DEF EntryInv, LatestStoppable, table
<1>3. ASSUME NEW e \in Extractors, NEW c \in Cameras, Open(e, c) PROVE EntryInv'
  <2> DEFINE n == Len(cameraOf) + 1
  <2>1. /\ cameraOf' = Append(cameraOf, c) /\ active' = [active EXCEPT ![e] = @ \cup {n}]
        /\ byCamera' = [byCamera EXCEPT ![e][c] = n]
    BY <1>3 DEF Open
  <2>2. /\ n \in Nat /\ Len(cameraOf') = n /\ cameraOf'[n] = c
        /\ \A s \in Opened : s # n /\ s \in 1 .. n /\ cameraOf'[s] = cameraOf[s]
    BY <1>1, <2>1 DEF Opened
  <2> HIDE DEF n
  <2>3. byCamera' \in [Extractors -> [Cameras -> Nat]]
    BY <1>1, <2>1, <2>2
  <2>4. ASSUME NEW f \in Extractors, NEW t \in active'[f],
               \A u \in t + 1 .. Len(cameraOf') : cameraOf'[u] # cameraOf'[t]
        PROVE  byCamera'[f][cameraOf'[t]] = t
    <3>1. CASE t = n
      <4>1. f = e
        BY <1>1, <2>1, <2>2, <3>1
      <4>2. QED
        BY <1>1, <2>1, <2>2, <3>1, <4>1
    <3>2. CASE t # n
      <4>1. t \in active[f] /\ t \in Opened
        BY <1>1, <2>1, <3>2
      <4>2. cameraOf[t] # c
        BY <1>1, <2>2, <2>4, <4>1, n \in t + 1 .. Len(cameraOf') DEF Opened
      <4>3. \A u \in t + 1 .. Len(cameraOf) : u \in Opened /\ u \in t + 1 .. Len(cameraOf')
        BY <1>1, <2>2, <4>1 DEF Opened, n
      <4>4. byCamera[f][cameraOf[t]] = t
        BY <2>2, <2>4, <4>1, <4>3 DEF EntryInv, LatestStoppable
      <4>5. QED
        BY <1>1, <2>1, <2>2, <4>1, <4>2, <4>4
    <3>3. QED
      BY <3>1, <3>2
  <2>5. QED
    BY <2>3, <2>4 DEF EntryInv, LatestStoppable
<1>4. QED
  BY <1>2, <1>3

\* Whichever older streams of its camera end, the stream a camera was last given can be stopped
\* through the camera wherever it runs (the tables of the extractor's main.py).
THEOREM StoppedByCamera == Spec => []LatestStoppable
<1>1. Init => EntryInv
  BY DEF Init, EntryInv, LatestStoppable
<1>2. IndInv /\ EntryInv /\ [Next]_vars => EntryInv'
  <2> SUFFICES ASSUME IndInv, EntryInv, [Next]_vars PROVE EntryInv'
    OBVIOUS
  <2>1. ASSUME NEW e \in Extractors, Extractor(e) PROVE EntryInv'
    BY <2>1, EntryGoes
  <2>2. CASE UNCHANGED table
    BY <2>2, EntryTaken
  <2>3. ASSUME NEW q \in Routers, Dispatch(q) PROVE EntryInv'
    <3>1. job[q].target \in Extractors /\ job[q].camera \in Cameras
      BY <2>3 DEF Dispatch, IndInv, JobInv
    <3>2. QED
      BY <2>3, <3>1, EntryTaken DEF Dispatch, Refused
  <2>4. CASE FailoverDispatch
    <3>1. loop.target \in Extractors /\ cameraOf[loop.old] \in Cameras
      BY <2>4 DEF FailoverDispatch, IndInv, LoopInv, PlacementType, Opened
    <3>2. QED
      BY <2>4, <3>1, EntryTaken DEF FailoverDispatch
  <2>5. CASE UNCHANGED vars
    BY <2>2, <2>5 DEF vars
  <2>6. ASSUME NEW q \in Routers,
               Assign(q) \/ (\E e \in Extractors : StopAt(q, e)) \/ StopAnswer(q)
                 \/ (\E c \in Cameras : StartRequest(q, c) \/ StopRequest(q, c))
        PROVE  EntryInv'
    BY <2>2, <2>6 DEF Assign, StopAt, StopAnswer, StartRequest, StopRequest
  <2>7. CASE \/ Tick \/ (\E s \in Streams : FailoverLookup(s))
             \/ FailoverDelete \/ FailoverRecord \/ RegistryCrash
    BY <2>2, <2>7 DEF Tick, FailoverLookup, FailoverDelete, FailoverRecord, RegistryCrash
  <2>8. QED
    BY <2>1, <2>3, <2>4, <2>5, <2>6, <2>7 DEF Next, Route, Reconcile
<1>3. EntryInv => LatestStoppable
  BY DEF EntryInv
<1>4. QED
  BY <1>1, <1>2, <1>3, Invariance, PTL DEF Spec

--------------------------------------------------------------------------------
(* Stray streams.                                                               *)

\* An extractor that runs streams is up.
UpInv == \A e \in Extractors : active[e] # {} => e \in up

\* A stream a router is about to record is its own, of its camera, and known to nobody else.
RouteInv ==
  \A q \in Routers :
    /\ job[q].pc # "assign" => job[q].stream = 0
    /\ job[q].pc = "assign" =>
         /\ job[q].stream \in Opened /\ job[q].camera = cameraOf[job[q].stream]
         /\ assigned[job[q].stream] = None
         /\ job[q].stream \notin loop.left \cup {loop.old, loop.new}
         /\ \A r \in Routers \ {q} : job[r].stream # job[q].stream

\* The streams the loop has left are assigned and not pending, but for the one that it has just
\* taken out of its assignment; the new stream is of the camera of the old one.
LeftInv ==
  /\ loop.left \cap pending = {}
  /\ \A s \in loop.left : assigned[s] # None \/ (loop.pc = "record" /\ s = loop.old)
  /\ loop.pc \in {"idle", "lookup"} => loop.old = 0
  /\ loop.pc \in {"idle", "lookup", "dispatch"} => loop.new = 0
  /\ loop.pc \in {"dispatch", "delete", "record"} => loop.old \in loop.left
  /\ loop.pc \in {"delete", "record"} =>
       /\ loop.new \notin loop.left /\ assigned[loop.new] = None
       /\ cameraOf[loop.new] = cameraOf[loop.old]

PathInv == UpInv /\ RouteInv /\ LeftInv

\* What the other invariants say of streams, in one place.
LEMMA Ranges ==
  ASSUME IndInv
  PROVE  /\ Len(cameraOf) \in Nat /\ Opened \subseteq Streams /\ Streams \subseteq Nat
         /\ 0 \notin Opened /\ Len(cameraOf) + 1 \notin Opened /\ IsFiniteSet(Opened)
         /\ \A s \in Opened : cameraOf[s] \in Cameras
         /\ Running \subseteq Opened
         /\ job \in [Routers -> JobTypes] /\ loop \in LoopTypes
         /\ active \in [Extractors -> SUBSET Opened]
         /\ assigned \in [Streams -> Extractors \cup {None}]
<1>1. /\ cameraOf \in Seq(Cameras) /\ Len(cameraOf) \in Nat /\ Len(cameraOf) <= MaxStreams
      /\ active \in [Extractors -> SUBSET Opened]
      /\ job \in [Routers -> JobTypes] /\ loop \in LoopTypes
      /\ assigned \in [Streams -> Extractors \cup {None}]
  BY DEF IndInv, PlacementType
<1>2. /\ Opened \subseteq Streams /\ Streams \subseteq Nat /\ 0 \notin Opened
      /\ Len(cameraOf) + 1 \notin Opened /\ IsFiniteSet(Opened)
  <2>1. IsFiniteSet(Opened)
    BY <1>1, FS_Interval DEF Opened
  <2>2. QED
    BY <1>1, <2>1, PlacementAssumption DEF Opened, Streams
<1>3. \A s \in Opened : cameraOf[s] \in Cameras
  BY <1>1 DEF Opened
<1>4. Running \subseteq Opened
  BY <1>1 DEF Running
<1>5. QED
  BY <1>1, <1>2, <1>3, <1>4

\* A call that opens a stream, as the other parts of the state see it.
LEMMA Opens ==
  ASSUME IndInv, NEW e \in Extractors, NEW c \in Cameras, Open(e, c)
  PROVE  /\ Len(cameraOf') = Len(cameraOf) + 1 /\ cameraOf'[Len(cameraOf) + 1] = c
         /\ \A s \in Opened : cameraOf'[s] = cameraOf[s]
         /\ Opened' = Opened \cup {Len(cameraOf) + 1}
         /\ Running' = Running \cup {Len(cameraOf) + 1}
         /\ Len(cameraOf) + 1 \in Streams /\ assigned[Len(cameraOf) + 1] = None
         /\ e \in up
<1>1. /\ cameraOf \in Seq(Cameras) /\ Len(cameraOf) \in Nat
      /\ active \in [Extractors -> SUBSET Opened]
  BY DEF IndInv, PlacementType
<1> DEFINE n == Len(cameraOf) + 1
<1>2. /\ n \in Streams /\ e \in up /\ cameraOf' = Append(cameraOf, c)
      /\ active' = [active EXCEPT ![e] = @ \cup {n}]
  BY DEF Open
<1>3. /\ Len(cameraOf') = n /\ cameraOf'[n] = c
      /\ \A s \in Opened : cameraOf'[s] = cameraOf[s]
      /\ Opened' = Opened \cup {n} /\ n \notin Opened
  BY <1>1, <1>2 DEF Opened
<1> HIDE DEF n
<1>4. active'[e] = active[e] \cup {n} /\ \A f \in Extractors \ {e} : active'[f] = active[f]
  BY <1>1, <1>2
<1>5. ASSUME NEW s PROVE s \in Running' <=> s \in Running \cup {n}
  <2>1. s \in Running' <=> \E f \in Extractors : s \in active'[f]
    BY DEF Running
  <2>2. s \in Running <=> \E f \in Extractors : s \in active[f]
    BY DEF Running
  <2>3. QED
    BY <1>4, <2>1, <2>2
<1>6. Running' = Running \cup {n}
  BY <1>5
<1>7. assigned[n] = None
  BY <1>2, <1>3 DEF IndInv, BooksInv
<1>8. QED
  BY <1>2, <1>3, <1>6, <1>7 DEF n

\* Steps that leave the streams on the books where they are.
LEMMA PathKept ==
  ASSUME PathInv, UNCHANGED <<cameraOf, assigned, pending, job, loop>>, UpInv'
  PROVE  PathInv'
BY DEF PathInv, RouteInv, LeftInv, Opened

LEMMA PathExtracting ==
  ASSUME IndInv, PathInv, NEW e \in Extractors, Extractor(e)
  PROVE  PathInv'
<1>1. active \in [Extractors -> SUBSET Opened]
  BY DEF IndInv, PlacementType
<1>2. UNCHANGED <<cameraOf, assigned, pending, job, loop>>
  BY DEF Extractor, Heartbeat, LeaseExpires, Throttle, Drain, ExtractorCrash,
         ExtractorRestart, StreamEnds, table, registry
<1>3. UpInv'
  <2>1. CASE Heartbeat(e) \/ LeaseExpires(e) \/ Throttle(e) \/ Drain(e)
    BY <2>1 DEF PathInv, UpInv, Heartbeat, LeaseExpires, Throttle, Drain, node, table
  <2>2. CASE ExtractorCrash(e)
    BY <1>1, <2>2 DEF PathInv, UpInv, ExtractorCrash
  <2>3. CASE ExtractorRestart(e)
    BY <2>3 DEF PathInv, UpInv, ExtractorRestart, table
  <2>4. ASSUME NEW s \in Streams, StreamEnds(e, s) PROVE UpInv'
    BY <1>1, <2>4 DEF PathInv, UpInv, StreamEnds, node
  <2>5. QED
    BY <2>1, <2>2, <2>3, <2>4 DEF Extractor
<1>4. QED
  BY <1>2, <1>3, PathKept

\* A new stream runs on an extractor that is up.
LEMMA UpOpens ==
  ASSUME IndInv, UpInv, up' = up,
         UNCHANGED table \/ \E e \in Extractors, c \in Cameras : Open(e, c)
  PROVE  UpInv'
<1>1. active \in [Extractors -> SUBSET Opened]
  BY DEF IndInv, PlacementType
<1>2. QED
  BY <1>1 DEF UpInv, Open, table

\* One router changes its request to one without a stream.
LEMMA RouteIdle ==
  ASSUME IndInv, RouteInv, NEW q \in Routers, job'[q].pc # "assign", job'[q].stream = 0,
         \A p \in Routers \ {q} : job'[p] = job[p],
         UNCHANGED <<cameraOf, loop>>,
         \A p \in Routers \ {q} : job[p].pc = "assign" => assigned'[job[p].stream] = None
  PROVE  RouteInv'
<1>1. 0 \notin Opened /\ Opened' = Opened
  BY Ranges DEF Opened
<1>2. ASSUME NEW p \in Routers, p # q
      PROVE  /\ job'[p].pc # "assign" => job'[p].stream = 0
             /\ job'[p].pc = "assign" =>
                  /\ job'[p].stream \in Opened' /\ job'[p].camera = cameraOf'[job'[p].stream]
                  /\ assigned'[job'[p].stream] = None
                  /\ job'[p].stream \notin loop'.left \cup {loop'.old, loop'.new}
                  /\ \A r \in Routers \ {p} : job'[r].stream # job'[p].stream
  <2>1. job'[p] = job[p]
    BY <1>2
  <2>2. CASE job[p].pc # "assign"
    BY <2>1, <2>2, <1>2 DEF RouteInv
  <2>3. CASE job[p].pc = "assign"
    <3>1. /\ job[p].stream \in Opened /\ job[p].camera = cameraOf[job[p].stream]
          /\ job[p].stream \notin loop.left \cup {loop.old, loop.new}
          /\ \A r \in Routers \ {p} : job[r].stream # job[p].stream
      BY <2>3 DEF RouteInv
    <3>2. assigned'[job[p].stream] = None
      BY <1>2, <2>3
    <3>3. \A r \in Routers \ {p} : job'[r].stream # job[p].stream
      BY <1>1, <3>1
    <3>4. QED
      BY <1>1, <2>1, <2>3, <3>1, <3>2, <3>3
  <2>4. QED
    BY <2>2, <2>3
<1>3. QED
  BY <1>2 DEF RouteInv

LEMMA PathRouting ==
  ASSUME IndInv, PathInv, NEW q \in Routers,
         Route(q) \/ \E c \in Cameras : StartRequest(q, c) \/ StopRequest(q, c)
  PROVE  PathInv'
<1>1. /\ job \in [Routers -> JobTypes] /\ loop \in LoopTypes
      /\ UpInv /\ RouteInv /\ LeftInv
      /\ Idle.pc = "idle" /\ Idle.stream = 0
  BY Ranges DEF PathInv, Idle, Request
<1>2. CASE \/ \E c \in Cameras : StartRequest(q, c) \/ StopRequest(q, c)
           \/ (\E e \in Extractors : StopAt(q, e)) \/ StopAnswer(q)
  <2>1. UNCHANGED <<up, table, assigned, pending, loop>>
    BY <1>2 DEF StartRequest, StopRequest, StopAt, StopAnswer, node, registry
  <2>2. UpInv' /\ LeftInv'
    BY <1>1, <2>1 DEF UpInv, LeftInv, table
  <2>3. /\ job'[q].pc # "assign" /\ job'[q].stream = 0
        /\ \A p \in Routers \ {q} : job'[p] = job[p]
    <3> DEFINE Goal == /\ job'[q].pc # "assign" /\ job'[q].stream = 0
                       /\ \A p \in Routers \ {q} : job'[p] = job[p]
    <3>1. ASSUME NEW c \in Cameras, StartRequest(q, c) \/ StopRequest(q, c) PROVE Goal
      BY <1>1, <3>1 DEF StartRequest, StopRequest, Request
    <3>2. ASSUME NEW e \in Extractors, StopAt(q, e) PROVE Goal
      <4>1. job[q].pc = "stop" /\ job[q].stream = 0
        BY <1>1, <3>2 DEF StopAt, RouteInv
      <4>2. \/ job' = [job EXCEPT ![q].left = @ \ {e}, ![q].found = TRUE]
            \/ job' = [job EXCEPT ![q].left = @ \ {e}]
        BY <3>2 DEF StopAt
      <4>3. CASE job' = [job EXCEPT ![q].left = @ \ {e}, ![q].found = TRUE]
        BY <1>1, <4>1, <4>3 DEF JobTypes
      <4>4. CASE job' = [job EXCEPT ![q].left = @ \ {e}]
        BY <1>1, <4>1, <4>4 DEF JobTypes
      <4>5. QED
        BY <4>2, <4>3, <4>4
    <3>3. ASSUME StopAnswer(q) PROVE Goal
      BY <1>1, <3>3 DEF StopAnswer
    <3>4. QED
      BY <1>2, <3>1, <3>2, <3>3
  <2>4. \A p \in Routers \ {q} : job[p].pc = "assign" => assigned'[job[p].stream] = None
    BY <1>1, <2>1 DEF RouteInv
  <2>5. RouteInv'
    BY <1>1, <2>1, <2>3, <2>4, RouteIdle DEF table
  <2>6. QED
    BY <2>2, <2>5 DEF PathInv
<1>3. CASE Dispatch(q)
  <2>1. job[q].target \in Extractors /\ job[q].camera \in Cameras
    BY <1>3 DEF Dispatch, IndInv, JobInv
  <2>2. UNCHANGED <<up, assigned, pending, loop>>
    BY <1>3 DEF Dispatch, node, registry
  <2>3. UpInv'
    BY <1>1, <1>3, <2>1, <2>2, UpOpens DEF Dispatch, Refused
  <2>4. ASSUME UNCHANGED table \/ Open(job[q].target, job[q].camera)
        PROVE  /\ LeftInv' /\ \A s \in Opened : cameraOf'[s] = cameraOf[s] /\ s \in Opened'
    <3>1. \A s \in Opened : cameraOf'[s] = cameraOf[s] /\ s \in Opened'
      BY <2>1, <2>4, Opens DEF table, Opened
    <3>2. loop.pc \in {"delete", "record"} => loop.new \in Opened /\ loop.old \in Opened
      BY DEF IndInv, LoopInv
    <3>3. QED
      BY <1>1, <2>2, <3>1, <3>2 DEF LeftInv
  <2>5. CASE UNCHANGED table /\ job' = [job EXCEPT ![q] = Idle]
    <3>1. job'[q] = Idle /\ \A p \in Routers \ {q} : job'[p] = job[p]
      BY <1>1, <2>5
    <3>2. \A p \in Routers \ {q} : job[p].pc = "assign" => assigned'[job[p].stream] = None
      BY <1>1, <2>2 DEF RouteInv
    <3>3. RouteInv'
      BY <1>1, <2>2, <2>5, <3>1, <3>2, RouteIdle DEF table
    <3>4. QED
      BY <2>3, <2>4, <2>5, <3>3 DEF PathInv
  <2>6. ASSUME Open(job[q].target, job[q].camera), NEW r,
               r = Idle \/ r = [job[q] EXCEPT !.pc = "assign", !.stream = Len(cameraOf')],
               job' = [job EXCEPT ![q] = r]
        PROVE  PathInv'
    <3> DEFINE n == Len(cameraOf) + 1
    <3>1. /\ Len(cameraOf') = n /\ cameraOf'[n] = job[q].camera
          /\ \A s \in Opened : cameraOf'[s] = cameraOf[s]
          /\ Opened' = Opened \cup {n} /\ n \notin Opened /\ 0 \notin Opened /\ n # 0
          /\ assigned[n] = None
      BY <2>1, <2>6, Opens, Ranges
    <3> HIDE DEF n
    <3>2. job'[q] = r /\ \A p \in Routers \ {q} : job'[p] = job[p]
      BY <1>1, <2>6
    <3>3. \/ r.pc # "assign" /\ r.stream = 0
          \/ r.pc = "assign" /\ r.stream = n /\ r.camera = job[q].camera
      BY <1>1, <2>6, <3>1 DEF JobTypes
    <3>4. n \notin loop.left \cup {loop.old, loop.new}
      <4>1. loop.left \subseteq Opened
        BY DEF IndInv, LoopInv
      <4>2. loop.old \in Opened \cup {0} /\ loop.new \in Opened \cup {0}
        BY <1>1 DEF LeftInv, IndInv, LoopInv, LoopTypes
      <4>3. QED
        BY <3>1, <4>1, <4>2
    <3>5. ASSUME NEW p \in Routers
          PROVE  /\ job[p].stream \in Opened \cup {0}
                 /\ job[p].pc = "assign" => job[p].stream \in Opened
      BY <1>1 DEF RouteInv
    <3>6. ASSUME NEW p \in Routers
          PROVE  /\ job'[p].pc # "assign" => job'[p].stream = 0
                 /\ job'[p].pc = "assign" =>
                      /\ job'[p].stream \in Opened' /\ job'[p].camera = cameraOf'[job'[p].stream]
                      /\ assigned'[job'[p].stream] = None
                      /\ job'[p].stream \notin loop'.left \cup {loop'.old, loop'.new}
                      /\ \A r2 \in Routers \ {p} : job'[r2].stream # job'[p].stream
      <4>1. CASE p = q
        <5>1. \A r2 \in Routers \ {q} : job'[r2].stream # n
          BY <3>1, <3>2, <3>5
        <5>2. QED
          BY <2>2, <3>1, <3>2, <3>3, <3>4, <4>1, <5>1
      <4>2. CASE p # q
        <5>1. job'[p] = job[p]
          BY <3>2, <4>2
        <5>2. CASE job[p].pc # "assign"
          BY <1>1, <5>1, <5>2 DEF RouteInv
        <5>3. CASE job[p].pc = "assign"
          <6>1. /\ job[p].stream \in Opened /\ job[p].camera = cameraOf[job[p].stream]
                /\ assigned[job[p].stream] = None
                /\ job[p].stream \notin loop.left \cup {loop.old, loop.new}
                /\ \A r2 \in Routers \ {p} : job[r2].stream # job[p].stream
            BY <1>1, <5>3 DEF RouteInv
          <6>2. \A r2 \in Routers \ {p} : job'[r2].stream # job[p].stream
            BY <3>1, <3>2, <3>3, <6>1
          <6>3. QED
            BY <2>2, <3>1, <5>1, <5>3, <6>1, <6>2
        <5>4. QED
          BY <5>2, <5>3
      <4>3. QED
        BY <4>1, <4>2
    <3>7. QED
      BY <2>3, <2>4, <2>6, <3>6 DEF PathInv, RouteInv
  <2>7. \/ UNCHANGED table /\ job' = [job EXCEPT ![q] = Idle]
        \/ /\ Open(job[q].target, job[q].camera)
           /\ \/ job' = [job EXCEPT ![q] = Idle]
              \/ job' = [job EXCEPT ![q].pc = "assign", ![q].stream = Len(cameraOf')]
    BY <1>3 DEF Dispatch, Refused
  <2>8. ASSUME job' = [job EXCEPT ![q].pc = "assign", ![q].stream = Len(cameraOf')]
        PROVE  job' = [job EXCEPT ![q] = [job[q] EXCEPT !.pc = "assign", !.stream = Len(cameraOf')]]
    BY <1>1, <2>8
  <2>9. QED
    BY <2>5, <2>6, <2>7, <2>8
<1>4. CASE Assign(q)
  <2>1. UNCHANGED <<up, table, pending, loop>> /\ job[q].pc = "assign"
    BY <1>4 DEF Assign, node
  <2>2. /\ job[q].stream \in Opened /\ job[q].target \in Extractors
        /\ job[q].stream \notin loop.left \cup {loop.old, loop.new}
        /\ \A r \in Routers \ {q} : job[r].stream # job[q].stream
    BY <1>1, <2>1 DEF RouteInv, IndInv, JobInv
  <2>3. \A s \in Opened : s # job[q].stream => assigned'[s] = assigned[s]
    BY <1>4, Ranges DEF Assign
  <2>4. job'[q] = Idle /\ \A p \in Routers \ {q} : job'[p] = job[p]
    BY <1>1, <1>4 DEF Assign
  <2>5. \A p \in Routers \ {q} : job[p].pc = "assign" => assigned'[job[p].stream] = None
    BY <1>1, <2>2, <2>3 DEF RouteInv
  <2>6. RouteInv'
    BY <1>1, <2>1, <2>4, <2>5, RouteIdle DEF table
  <2>9. /\ loop.left \subseteq Opened
        /\ loop.pc \in {"delete", "record"} => loop.new \in Opened
    BY DEF IndInv, LoopInv
  <2>7. UpInv' /\ LeftInv'
    BY <1>1, <2>1, <2>2, <2>3, <2>9 DEF UpInv, LeftInv, table
  <2>8. QED
    BY <2>6, <2>7 DEF PathInv
<1>5. QED
  BY <1>2, <1>3, <1>4 DEF Route

\* The loop's steps change no request of a router.
LEMMA RouteLoops ==
  ASSUME IndInv, RouteInv, job' = job,
         \A s \in Opened : cameraOf'[s] = cameraOf[s] /\ s \in Opened',
         \A q \in Routers : job[q].pc = "assign" =>
           /\ assigned'[job[q].stream] = None
           /\ job[q].stream \notin loop'.left \cup {loop'.old, loop'.new}
  PROVE  RouteInv'
BY DEF RouteInv

LEMMA PathReconciling ==
  ASSUME IndInv, PathInv, Reconcile \/ RegistryCrash
  PROVE  PathInv'
<1>1. /\ loop \in LoopTypes /\ loop.left \subseteq Opened
      /\ UpInv /\ RouteInv /\ LeftInv
      /\ loop.pc \in {"dispatch", "delete", "record"} => loop.old \in Opened
      /\ loop.pc \in {"delete", "record"} => loop.new \in Opened
      /\ assigned \in [Streams -> Extractors \cup {None}]
      /\ 0 \notin Opened
  BY Ranges DEF PathInv, IndInv, LoopInv
<1>2. ASSUME NEW q \in Routers, job[q].pc = "assign"
      PROVE  /\ job[q].stream \in Opened /\ job[q].stream # 0 /\ assigned[job[q].stream] = None
             /\ job[q].stream \notin loop.left \cup {loop.old, loop.new}
  BY <1>1, <1>2 DEF RouteInv
<1>3. ASSUME NEW left, left \subseteq Opened, loop' = Scan(left),
             UNCHANGED <<up, active, job>>,
             \A s \in Opened : cameraOf'[s] = cameraOf[s] /\ s \in Opened',
             left \cap pending' = {}, \A s \in left : assigned'[s] # None,
             \A q \in Routers : job[q].pc = "assign" =>
               job[q].stream \notin left /\ assigned'[job[q].stream] = None
      PROVE  PathInv'
  <2>1. loop'.left = left /\ loop'.old = 0 /\ loop'.new = 0 /\ loop'.pc \in {"idle", "lookup"}
    BY <1>3 DEF Scan
  <2>2. UpInv' /\ LeftInv'
    BY <1>1, <1>3, <2>1 DEF UpInv, LeftInv
  <2>3. RouteInv'
    BY <1>1, <1>2, <1>3, <2>1, RouteLoops
  <2>4. QED
    BY <2>2, <2>3 DEF PathInv
<1>4. CASE Tick
  <2>1. PICK B : B \subseteq {s \in Streams : Orphan(s)} /\ loop' = Scan(B)
    BY <1>4 DEF Tick, FailoverBatch
  <2>2. B \subseteq Opened /\ \A s \in B : assigned[s] # None /\ s \notin pending
    BY <2>1 DEF Orphan, IndInv, BooksInv
  <2>3. UNCHANGED <<up, active, job, cameraOf, pending, assigned>>
    BY <1>4 DEF Tick, node, table, registry
  <2>4. QED
    BY <1>2, <1>3, <2>1, <2>2, <2>3 DEF Opened
<1>5. CASE RegistryCrash
  <2>1. UNCHANGED <<up, active, job, cameraOf, pending, assigned>> /\ loop' = Scan({})
    BY <1>5 DEF RegistryCrash, node, table, registry, Waiting
  <2>2. QED
    BY <1>2, <1>3, <2>1 DEF Opened
<1>6. ASSUME NEW s \in Streams, FailoverLookup(s) PROVE PathInv'
  <2>1. /\ UNCHANGED <<up, active, job, cameraOf>> /\ loop.pc = "lookup" /\ s \in loop.left
        /\ assigned' = assigned
    BY <1>6 DEF FailoverLookup, node, table
  <2>2. CASE Advance({s}) /\ pending' = pending \cup {s}
    <3>1. /\ loop.left \ {s} \subseteq Opened /\ (loop.left \ {s}) \cap pending' = {}
          /\ \A t \in loop.left \ {s} : assigned[t] # None
      BY <1>1, <2>1, <2>2 DEF LeftInv
    <3>2. loop' = Scan(loop.left \ {s})
      BY <2>2 DEF Advance
    <3>3. QED
      BY <1>2, <1>3, <2>1, <3>1, <3>2 DEF Opened
  <2>3. ASSUME NEW e \in Best, loop' = [loop EXCEPT !.pc = "dispatch", !.old = s, !.target = e],
               pending' = pending
        PROVE  PathInv'
    <3>1. /\ loop'.pc = "dispatch" /\ loop'.old = s /\ loop'.left = loop.left
          /\ loop'.new = loop.new
      BY <1>1, <2>3 DEF LoopTypes
    <3>2. UpInv' /\ LeftInv'
      BY <1>1, <2>1, <2>3, <3>1 DEF UpInv, LeftInv
    <3>3. RouteInv'
      BY <1>1, <1>2, <2>1, <3>1, RouteLoops DEF Opened
    <3>4. QED
      BY <3>2, <3>3 DEF PathInv
  <2>4. QED
    BY <1>6, <2>2, <2>3 DEF FailoverLookup
<1>7. CASE FailoverDispatch
  <2>1. /\ UNCHANGED <<up, job, assigned, pending>> /\ loop.pc = "dispatch"
        /\ loop.target \in Extractors /\ cameraOf[loop.old] \in Cameras
    BY <1>1, <1>7, Ranges DEF FailoverDispatch, node, registry, IndInv, LoopInv
  <2>2. UpInv'
    BY <1>1, <1>7, <2>1, UpOpens DEF FailoverDispatch
  <2> DEFINE n == Len(cameraOf) + 1
  <2>3. ASSUME Open(loop.target, cameraOf[loop.old])
        PROVE  /\ Len(cameraOf') = n /\ cameraOf'[n] = cameraOf[loop.old]
               /\ \A s \in Opened : cameraOf'[s] = cameraOf[s] /\ s \in Opened'
               /\ n \in Opened' /\ n \notin Opened /\ assigned[n] = None
    BY <2>1, <2>3, Opens, Ranges
  <2> HIDE DEF n
  <2>4. UNCHANGED table \/ Open(loop.target, cameraOf[loop.old])
    BY <1>7 DEF FailoverDispatch
  <2>5. \A s \in Opened : cameraOf'[s] = cameraOf[s] /\ s \in Opened'
    BY <2>3, <2>4 DEF table, Opened
  <2>6. CASE Advance({loop.old})
    <3>1. loop' = Scan(loop.left \ {loop.old})
      BY <2>6 DEF Advance
    <3> DEFINE left == loop.left \ {loop.old}
    <3>2. /\ left \subseteq Opened /\ left \cap pending = {} /\ loop'.left = left
          /\ loop'.old = 0 /\ loop'.new = 0 /\ loop'.pc \in {"idle", "lookup"}
          /\ \A s \in left : assigned[s] # None
      BY <1>1, <2>1, <3>1 DEF LeftInv, Scan
    <3> HIDE DEF left
    <3>3. LeftInv'
      BY <2>1, <3>2 DEF LeftInv
    <3>4. left \subseteq loop.left
      BY DEF left
    <3>5. RouteInv'
      BY <1>1, <1>2, <2>1, <2>5, <3>2, <3>4, RouteLoops
    <3>6. QED
      BY <2>2, <3>3, <3>5 DEF PathInv
  <2>7. CASE Open(loop.target, cameraOf[loop.old])
               /\ loop' = [loop EXCEPT !.pc = "delete", !.new = Len(cameraOf')]
    <3>1. /\ loop'.pc = "delete" /\ loop'.old = loop.old /\ loop'.left = loop.left
          /\ loop'.new = n
      BY <1>1, <2>3, <2>7 DEF LoopTypes
    <3>2. LeftInv'
      BY <1>1, <2>1, <2>3, <2>7, <3>1 DEF LeftInv
    <3>3. RouteInv'
      BY <1>1, <1>2, <2>1, <2>3, <2>5, <2>7, <3>1, RouteLoops
    <3>4. QED
      BY <2>2, <3>2, <3>3 DEF PathInv
  <2>8. QED
    BY <1>7, <2>6, <2>7 DEF FailoverDispatch
<1>8. CASE FailoverDelete
  <2>1. UNCHANGED <<up, active, cameraOf, job, pending>> /\ loop.pc = "delete"
    BY <1>8 DEF FailoverDelete, node, table, DropOld
  <2>2. CASE Advance({loop.old}) /\ assigned' = assigned
    <3>1. /\ loop.left \ {loop.old} \subseteq Opened /\ (loop.left \ {loop.old}) \cap pending = {}
          /\ \A t \in loop.left \ {loop.old} : assigned[t] # None
      BY <1>1, <2>1 DEF LeftInv
    <3>2. loop' = Scan(loop.left \ {loop.old})
      BY <2>2 DEF Advance
    <3>3. QED
      BY <1>2, <1>3, <2>1, <2>2, <3>1, <3>2 DEF Opened
  <2>3. CASE DropOld /\ loop' = [loop EXCEPT !.pc = "record"]
    <3>1. /\ loop'.pc = "record" /\ loop'.old = loop.old /\ loop'.left = loop.left
          /\ loop'.new = loop.new
      BY <1>1, <2>3 DEF LoopTypes
    <3>2. assigned' = [assigned EXCEPT ![loop.old] = None]
      BY <2>3 DEF DropOld
    <3>3. UpInv'
      BY <1>1, <2>1 DEF UpInv
    <3>4. Opened \subseteq Streams /\ loop.new # loop.old
      BY <1>1, <2>1, Ranges DEF LeftInv
    <3>5. LeftInv'
      BY <1>1, <2>1, <3>1, <3>2, <3>4 DEF LeftInv
    <3>6. \A q \in Routers : job[q].pc = "assign" => assigned'[job[q].stream] = None
      BY <1>1, <1>2, <3>2, <3>4
    <3>7. RouteInv'
      BY <1>1, <1>2, <2>1, <3>1, <3>6, RouteLoops DEF Opened
    <3>8. QED
      BY <3>3, <3>5, <3>7 DEF PathInv
  <2>4. QED
    BY <1>8, <2>2, <2>3 DEF FailoverDelete
<1>9. CASE FailoverRecord
  <2>1. /\ UNCHANGED <<up, active, cameraOf, job, pending>> /\ loop.pc = "record"
        /\ loop' = Scan(loop.left \ {loop.old})
    BY <1>9 DEF FailoverRecord, node, table, Advance
  <2>2. /\ loop.target \in Extractors /\ None \notin Extractors /\ Opened \subseteq Streams
        /\ loop.new \in Opened
    BY <1>1, <2>1, Ranges, PlacementAssumption DEF IndInv, LoopInv
  <2>3. assigned' = assigned \/ assigned' = [assigned EXCEPT ![loop.new] = loop.target]
    BY <1>9 DEF FailoverRecord, RecordNew
  <2>4. \A s \in Streams : assigned'[s] = assigned[s] \/ s = loop.new
    BY <1>1, <2>2, <2>3
  <2>5. \A q \in Routers : job[q].pc = "assign" =>
          job[q].stream \notin loop.left \ {loop.old} /\ assigned'[job[q].stream] = None
    BY <1>2, <2>2, <2>4
  <2>6. /\ loop.left \ {loop.old} \subseteq Opened /\ (loop.left \ {loop.old}) \cap pending' = {}
        /\ \A t \in loop.left \ {loop.old} : assigned'[t] # None
    BY <1>1, <2>1, <2>2, <2>4 DEF LeftInv
  <2>7. QED
    BY <1>3, <2>1, <2>5, <2>6 DEF Opened
<1>10. QED
  BY <1>4, <1>5, <1>6, <1>7, <1>8, <1>9 DEF Reconcile

LEMMA Paths == Spec => []PathInv
<1>1. Init => PathInv
  <2> SUFFICES ASSUME Init PROVE PathInv
    OBVIOUS
  <2>1. UpInv /\ RouteInv /\ LeftInv
    BY DEF Init, UpInv, RouteInv, LeftInv, Idle, Request, Waiting, Scan
  <2>2. QED
    BY <2>1 DEF PathInv
<1>2. IndInv /\ PathInv /\ [Next]_vars => PathInv'
  <2> SUFFICES ASSUME IndInv, PathInv, [Next]_vars PROVE PathInv'
    OBVIOUS
  <2>1. CASE Next
    BY <2>1, PathRouting, PathExtracting, PathReconciling DEF Next
  <2>2. CASE UNCHANGED vars
    <3>1. UNCHANGED <<cameraOf, assigned, pending, job, loop>> /\ UpInv'
      BY <2>2 DEF vars, table, registry, node, PathInv, UpInv
    <3>2. QED
      BY <3>1, PathKept
  <2>3. QED
    BY <2>1, <2>2
<1>3. QED
  BY <1>1, <1>2, Invariance, PTL DEF Spec

LEMMA PickMax ==
  ASSUME NEW x \in Int
  PROVE  Max({0, x}) \in Int /\ Max({0, x}) >= 0 /\ (Max({0, x}) = 0 \/ Max({0, x}) = x)
<1>1. \E m \in {0, x} : \A y \in {0, x} : m >= y
  OBVIOUS
<1>2. Max({0, x}) \in {0, x} /\ \A y \in {0, x} : Max({0, x}) >= y
  BY <1>1 DEF Max
<1>3. QED
  BY <1>2

LEMMA RoomBounded ==
  ASSUME IndInv, NEW e \in Extractors
  PROVE  Room(e) \in 0 .. HardLimit
<1>1. EffectiveLimit(e) \in 0 .. HardLimit
  BY PlacementAssumption DEF EffectiveLimit
<1>2. Cardinality(active[e]) \in Nat
  BY ActiveFinite DEF IndInv
<1>3. PICK x \in Int : x = EffectiveLimit(e) - Cardinality(active[e]) /\ x <= HardLimit
  BY <1>1, <1>2, PlacementAssumption
<1>4. QED
  BY <1>3, PickMax, PlacementAssumption DEF Room

\* The extractors' part of the types, the registry's, and the rest of them.
NodeTypes ==
  /\ up \subseteq Extractors /\ draining \subseteq up /\ degraded \subseteq up
  /\ alive \subseteq Extractors /\ spare \in [Extractors -> 0 .. HardLimit]
  /\ crashes \in 0 .. MaxCrashes /\ faults \in 0 .. MaxFaults

TableTypes ==
  /\ byCamera \in [Extractors -> [Cameras -> 0 .. Len(cameraOf)]]
  /\ stopping \subseteq Running

BookTypes ==
  /\ pending \subseteq {s \in Streams : assigned[s] # None}
  /\ wanted \subseteq Cameras /\ starts \in [Cameras -> Nat]

LEMMA TypesTogether ==
  ASSUME IndInv, NodeTypes, TableTypes, BookTypes
  PROVE  TypeOK
<1>1. \A q \in Routers : job[q].pc \in {"idle", "dispatch", "assign", "stop"}
  BY DEF IndInv, PlacementType, JobTypes
<1>2. loop.pc \in {"idle", "lookup", "dispatch", "delete", "record"} /\ loop.left \subseteq Opened
  BY DEF IndInv, PlacementType, LoopTypes, LoopInv
<1>3. QED
  BY <1>1, <1>2 DEF TypeOK, IndInv, PlacementType, NodeTypes, TableTypes, BookTypes, Opened

\* A fault leaves the count within its bound.
LEMMA FaultCounts ==
  ASSUME NodeTypes, Fault \/ UNCHANGED faults
  PROVE  faults' \in 0 .. MaxFaults
BY PlacementAssumption DEF NodeTypes, Fault

LEMMA NodeKept ==
  ASSUME IndInv, NodeTypes, [Next]_vars
  PROVE  NodeTypes'
<1>1. faults' \in 0 .. MaxFaults /\ crashes' \in 0 .. MaxCrashes
  <2>1. Fault \/ UNCHANGED faults
    <3>1. ASSUME NEW e \in Extractors, Extractor(e) PROVE Fault \/ UNCHANGED faults
      BY <3>1 DEF Extractor, Heartbeat, LeaseExpires, Throttle, Drain, ExtractorCrash,
                  ExtractorRestart, StreamEnds
    <3>2. ASSUME NEW q \in Routers,
                 Route(q) \/ \E c \in Cameras : StartRequest(q, c) \/ StopRequest(q, c)
          PROVE  Fault \/ UNCHANGED faults
      BY <3>2 DEF Route, Dispatch, Assign, StopAt, StopAnswer, StartRequest, StopRequest
    <3>3. ASSUME Reconcile \/ RegistryCrash PROVE Fault \/ UNCHANGED faults
      BY <3>3 DEF Reconcile, Tick, FailoverLookup, FailoverDispatch, FailoverDelete,
                  FailoverRecord, RegistryCrash
    <3>4. ASSUME UNCHANGED vars PROVE UNCHANGED faults
      BY <3>4 DEF vars
    <3>5. QED
      BY <3>1, <3>2, <3>3, <3>4 DEF Next
  <2>2. Crashing \/ UNCHANGED crashes
    <3>1. ASSUME NEW e \in Extractors, Extractor(e) PROVE Crashing \/ UNCHANGED crashes
      BY <3>1 DEF Extractor, Heartbeat, LeaseExpires, Throttle, Drain, ExtractorCrash,
                  ExtractorRestart, StreamEnds
    <3>2. ASSUME NEW q \in Routers,
                 Route(q) \/ \E c \in Cameras : StartRequest(q, c) \/ StopRequest(q, c)
          PROVE  UNCHANGED crashes
      BY <3>2 DEF Route, Dispatch, Assign, StopAt, StopAnswer, StartRequest, StopRequest
    <3>3. ASSUME Reconcile \/ RegistryCrash PROVE UNCHANGED crashes
      BY <3>3 DEF Reconcile, Tick, FailoverLookup, FailoverDispatch, FailoverDelete,
                  FailoverRecord, RegistryCrash
    <3>4. ASSUME UNCHANGED vars PROVE UNCHANGED crashes
      BY <3>4 DEF vars
    <3>5. QED
      BY <3>1, <3>2, <3>3, <3>4 DEF Next
  <2>3. crashes' \in 0 .. MaxCrashes
    BY <2>2, PlacementAssumption DEF NodeTypes, Crashing
  <2>4. QED
    BY <2>1, <2>3, FaultCounts
<1>2. /\ up' \subseteq Extractors /\ draining' \subseteq up' /\ degraded' \subseteq up'
      /\ alive' \subseteq Extractors /\ spare' \in [Extractors -> 0 .. HardLimit]
  <2> DEFINE Goal == /\ up' \subseteq Extractors /\ draining' \subseteq up' /\ degraded' \subseteq up'
                     /\ alive' \subseteq Extractors /\ spare' \in [Extractors -> 0 .. HardLimit]
  <2>1. ASSUME NEW e \in Extractors, Extractor(e) PROVE Goal
    <3>1. CASE Heartbeat(e)
      BY <3>1, RoomBounded DEF NodeTypes, Heartbeat, node
    <3>2. CASE LeaseExpires(e)
      BY <3>2 DEF NodeTypes, LeaseExpires, node
    <3>3. CASE Throttle(e)
      BY <3>3 DEF NodeTypes, Throttle, registry
    <3>4. CASE Drain(e)
      BY <3>4 DEF NodeTypes, Drain, registry
    <3>5. CASE ExtractorCrash(e)
      BY <3>5 DEF NodeTypes, ExtractorCrash, registry
    <3>6. CASE ExtractorRestart(e)
      <4>1. HardLimit \in 0 .. HardLimit
        BY PlacementAssumption
      <4>2. QED
        BY <3>6, <4>1 DEF NodeTypes, ExtractorRestart
    <3>7. ASSUME NEW s \in Streams, StreamEnds(e, s) PROVE Goal
      BY <3>7 DEF NodeTypes, StreamEnds, node, registry
    <3>8. QED
      BY <2>1, <3>1, <3>2, <3>3, <3>4, <3>5, <3>6, <3>7 DEF Extractor
  <2>2. CASE UNCHANGED <<node, alive, spare>>
    BY <2>2 DEF NodeTypes, node
  <2>3. ASSUME NEW q \in Routers,
               Route(q) \/ \E c \in Cameras : StartRequest(q, c) \/ StopRequest(q, c)
        PROVE  UNCHANGED <<node, alive, spare>>
    BY <2>3 DEF Route, Dispatch, Assign, StopAt, StopAnswer, StartRequest, StopRequest, registry
  <2>4. ASSUME Reconcile \/ RegistryCrash PROVE UNCHANGED <<node, alive, spare>>
    BY <2>4 DEF Reconcile, Tick, FailoverLookup, FailoverDispatch, FailoverDelete,
                FailoverRecord, RegistryCrash, registry
  <2>5. ASSUME UNCHANGED vars PROVE UNCHANGED <<node, alive, spare>>
    BY <2>5 DEF vars, registry
  <2>6. QED
    BY <2>1, <2>2, <2>3, <2>4, <2>5 DEF Next
<1>3. QED
  BY <1>1, <1>2 DEF NodeTypes

\* What ends, ends with its flag; what is new is on an entry.
LEMMA TableKept ==
  ASSUME IndInv, PathInv, TableTypes, [Next]_vars
  PROVE  TableTypes'
<1>1. /\ Running \subseteq Opened /\ active \in [Extractors -> SUBSET Opened]
      /\ Len(cameraOf) \in Nat /\ \A s \in Opened : cameraOf[s] \in Cameras
      /\ byCamera \in [Extractors -> [Cameras -> 0 .. Len(cameraOf)]]
      /\ stopping \subseteq Running
  BY Ranges DEF TableTypes
<1>2. \A s : s \in Running <=> \E e \in Extractors : s \in active[e]
  BY DEF Running
<1>3. \A s : s \in Running' <=> \E e \in Extractors : s \in active'[e]
  BY DEF Running
<1>4. CASE UNCHANGED table /\ stopping' \subseteq Running
  BY <1>1, <1>4 DEF TableTypes, Running, table
<1>5. ASSUME NEW e \in Extractors, Extractor(e) PROVE TableTypes'
  <2>1. CASE Heartbeat(e) \/ LeaseExpires(e) \/ Throttle(e) \/ ExtractorRestart(e)
    BY <1>1, <1>4, <2>1 DEF Heartbeat, LeaseExpires, Throttle, ExtractorRestart
  <2>2. CASE Drain(e)
    BY <1>1, <1>2, <1>4, <2>2 DEF Drain
  <2>3. CASE ExtractorCrash(e)
    <3>1. /\ cameraOf' = cameraOf /\ active' = [active EXCEPT ![e] = {}]
          /\ byCamera' = [byCamera EXCEPT ![e] = [c \in Cameras |-> 0]]
          /\ stopping' = stopping \ active[e]
      BY <2>3 DEF ExtractorCrash
    <3>2. \A f \in Extractors \ {e} : active'[f] = active[f]
      BY <1>1, <3>1
    <3>3. stopping' \subseteq Running'
      BY <1>1, <1>2, <1>3, <3>1, <3>2
    <3>4. byCamera' \in [Extractors -> [Cameras -> 0 .. Len(cameraOf)]]
      BY <1>1, <3>1
    <3>5. QED
      BY <3>1, <3>3, <3>4 DEF TableTypes
  <2>4. ASSUME NEW s \in Streams, StreamEnds(e, s) PROVE TableTypes'
    <3>1. /\ cameraOf' = cameraOf /\ active' = [active EXCEPT ![e] = @ \ {s}]
          /\ byCamera' = [byCamera EXCEPT ![e][cameraOf[s]] = IF @ = s THEN 0 ELSE @]
          /\ stopping' = stopping \ {s}
      BY <2>4 DEF StreamEnds, ForgetCamera
    <3>2. \A f \in Extractors : active[f] \subseteq active'[f] \cup {s}
      BY <1>1, <3>1
    <3>3. stopping' \subseteq Running'
      BY <1>1, <1>2, <1>3, <3>1, <3>2
    <3>4. byCamera' \in [Extractors -> [Cameras -> 0 .. Len(cameraOf)]]
      <4>1. cameraOf[s] \in Cameras
        BY <1>1, <2>4 DEF StreamEnds
      <4>2. byCamera[e][cameraOf[s]] \in 0 .. Len(cameraOf) /\ 0 \in 0 .. Len(cameraOf)
        BY <1>1, <4>1
      <4>3. CASE byCamera' = byCamera
        BY <1>1, <4>3
      <4>4. CASE byCamera' = [byCamera EXCEPT ![e][cameraOf[s]] = 0]
        BY <1>1, <4>1, <4>2, <4>4
      <4>5. byCamera' = byCamera \/ byCamera' = [byCamera EXCEPT ![e][cameraOf[s]] = 0]
        BY <1>1, <3>1, <4>1
      <4>6. QED
        BY <4>3, <4>4, <4>5
    <3>5. QED
      BY <3>1, <3>3, <3>4 DEF TableTypes
  <2>5. QED
    BY <1>5, <2>1, <2>2, <2>3, <2>4 DEF Extractor
<1>6. ASSUME NEW e \in Extractors, NEW c \in Cameras, Open(e, c), stopping' = stopping
      PROVE  TableTypes'
  <2>1. PICK n : n = Len(cameraOf) + 1
    OBVIOUS
  <2>2. Len(cameraOf') = n /\ Running' = Running \cup {n}
    BY <1>6, <2>1, Opens
  <2>3. byCamera' = [byCamera EXCEPT ![e][c] = n]
    BY <1>6, <2>1 DEF Open
  <2>4. byCamera \in [Extractors -> [Cameras -> 0 .. n]] /\ n \in 0 .. n
    BY <1>1, <2>1
  <2>5. byCamera' \in [Extractors -> [Cameras -> 0 .. n]]
    BY <2>3, <2>4
  <2>6. QED
    BY <1>1, <1>6, <2>2, <2>5 DEF TableTypes
<1>7. ASSUME NEW q \in Routers,
             Route(q) \/ \E c \in Cameras : StartRequest(q, c) \/ StopRequest(q, c)
      PROVE  TableTypes'
  <2>1. CASE Dispatch(q)
    <3>1. job[q].target \in Extractors /\ job[q].camera \in Cameras
      BY <2>1 DEF Dispatch, IndInv, JobInv
    <3>2. stopping' = stopping /\ (UNCHANGED table \/ Open(job[q].target, job[q].camera))
      BY <2>1 DEF Dispatch, Refused
    <3>3. QED
      BY <1>1, <1>4, <1>6, <3>1, <3>2
  <2>2. ASSUME NEW e \in Extractors, StopAt(q, e) PROVE TableTypes'
    <3>1. UNCHANGED table /\ stopping' \subseteq Running
      BY <1>1, <1>2, <2>2 DEF StopAt
    <3>2. QED
      BY <1>4, <3>1
  <2>3. CASE \/ Assign(q) \/ StopAnswer(q)
            \/ \E c \in Cameras : StartRequest(q, c) \/ StopRequest(q, c)
    BY <1>1, <1>4, <2>3 DEF Assign, StopAnswer, StartRequest, StopRequest
  <2>4. QED
    BY <1>7, <2>1, <2>2, <2>3 DEF Route
<1>8. ASSUME Reconcile \/ RegistryCrash PROVE TableTypes'
  <2>1. CASE FailoverDispatch
    <3>1. loop.target \in Extractors /\ cameraOf[loop.old] \in Cameras
      BY <1>1, <2>1 DEF FailoverDispatch, IndInv, LoopInv
    <3>2. stopping' = stopping /\ (UNCHANGED table \/ Open(loop.target, cameraOf[loop.old]))
      BY <2>1 DEF FailoverDispatch
    <3>3. QED
      BY <1>1, <1>4, <1>6, <3>1, <3>2
  <2>2. CASE \/ Tick \/ (\E s \in Streams : FailoverLookup(s))
            \/ FailoverDelete \/ FailoverRecord \/ RegistryCrash
    BY <1>1, <1>4, <2>2 DEF Tick, FailoverLookup, FailoverDelete, FailoverRecord, RegistryCrash
  <2>3. QED
    BY <1>8, <2>1, <2>2 DEF Reconcile
<1>9. CASE UNCHANGED vars
  BY <1>1, <1>4, <1>9 DEF vars
<1>10. QED
  BY <1>5, <1>7, <1>8, <1>9 DEF Next

\* Only the loop sets streams pending, and those it has set so it leaves assigned.
LEMMA BooksKept ==
  ASSUME IndInv, PathInv, BookTypes, [Next]_vars
  PROVE  BookTypes'
<1>1. /\ assigned \in [Streams -> Extractors \cup {None}] /\ LeftInv /\ RouteInv
      /\ \A s \in Opened : cameraOf[s] \in Cameras
      /\ job \in [Routers -> JobTypes] /\ Opened \subseteq Streams
  BY Ranges DEF PathInv
<1>2. CASE UNCHANGED <<assigned, pending, wanted, starts>>
  BY <1>2 DEF BookTypes
<1>3. ASSUME NEW s, NEW e \in Extractors, assigned' = [assigned EXCEPT ![s] = e], pending' = pending
      PROVE  pending' \subseteq {t \in Streams : assigned'[t] # None}
  BY <1>1, <1>3, PlacementAssumption DEF BookTypes
<1>4. ASSUME NEW e \in Extractors, Extractor(e) PROVE BookTypes'
  BY <1>2, <1>4 DEF Extractor, Heartbeat, LeaseExpires, Throttle, Drain, ExtractorCrash,
                    ExtractorRestart, StreamEnds, registry
<1>5. ASSUME NEW q \in Routers,
             Route(q) \/ \E c \in Cameras : StartRequest(q, c) \/ StopRequest(q, c)
      PROVE  BookTypes'
  <2>1. ASSUME NEW c \in Cameras, StartRequest(q, c) PROVE BookTypes'
    BY <2>1 DEF BookTypes, StartRequest, registry
  <2>2. CASE Dispatch(q) \/ (\E e \in Extractors : StopAt(q, e))
             \/ \E c \in Cameras : StopRequest(q, c)
    BY <1>2, <2>2 DEF Dispatch, StopAt, StopRequest, registry
  <2>3. CASE StopAnswer(q)
    BY <2>3 DEF BookTypes, StopAnswer, registry
  <2>4. CASE Assign(q)
    <3>1. /\ job[q].target \in Extractors /\ job[q].camera \in Cameras
          /\ pending' = pending /\ starts' = starts /\ wanted' = wanted \cup {job[q].camera}
      BY <1>1, <2>4 DEF Assign, RouteInv, IndInv, JobInv
    <3>2. pending' \subseteq {t \in Streams : assigned'[t] # None}
      BY <1>3, <2>4, <3>1 DEF Assign, BookTypes
    <3>3. QED
      BY <3>1, <3>2 DEF BookTypes
  <2>5. QED
    BY <1>5, <2>1, <2>2, <2>3, <2>4 DEF Route
<1>6. ASSUME Reconcile \/ RegistryCrash PROVE BookTypes'
  <2>1. UNCHANGED <<wanted, starts>>
    BY <1>6 DEF Reconcile, Tick, FailoverLookup, FailoverDispatch, FailoverDelete,
                FailoverRecord, RegistryCrash
  <2>2. pending' \subseteq {t \in Streams : assigned'[t] # None}
    <3>1. CASE Tick \/ FailoverDispatch \/ RegistryCrash
      BY <3>1 DEF BookTypes, Tick, FailoverDispatch, RegistryCrash, registry
    <3>2. ASSUME NEW s \in Streams, FailoverLookup(s)
          PROVE  pending' \subseteq {t \in Streams : assigned'[t] # None}
      BY <1>1, <3>2 DEF BookTypes, FailoverLookup, LeftInv
    <3>3. CASE FailoverDelete
      <4>1. loop.old \notin pending
        BY <1>1, <3>3 DEF FailoverDelete, LeftInv
      <4>2. QED
        BY <1>1, <3>3, <4>1 DEF BookTypes, FailoverDelete, DropOld
    <3>4. CASE FailoverRecord
      <4>1. loop.target \in Extractors
        BY <3>4 DEF FailoverRecord, IndInv, LoopInv
      <4>2. QED
        BY <1>3, <3>4, <4>1 DEF BookTypes, FailoverRecord, RecordNew
    <3>5. QED
      BY <1>6, <3>1, <3>2, <3>3, <3>4 DEF Reconcile
  <2>3. QED
    BY <2>1, <2>2 DEF BookTypes
<1>7. CASE UNCHANGED vars
  BY <1>2, <1>7 DEF vars, registry
<1>8. QED
  BY <1>4, <1>5, <1>6, <1>7 DEF Next

\* Every variable of extractors, registry, loop and routers keeps its type; what waits for
\* capacity is assigned, and only running streams are told to stop.
THEOREM TypeCorrect == Spec => []TypeOK
<1>1. Init => NodeTypes /\ TableTypes /\ BookTypes
  <2> SUFFICES ASSUME Init PROVE NodeTypes /\ TableTypes /\ BookTypes
    OBVIOUS
  <2>1. NodeTypes /\ BookTypes
    BY PlacementAssumption DEF Init, NodeTypes, BookTypes
  <2>2. TableTypes
    BY DEF Init, TableTypes
  <2>3. QED
    BY <2>1, <2>2
<1>2. IndInv /\ PathInv /\ NodeTypes /\ TableTypes /\ BookTypes /\ [Next]_vars
        => NodeTypes' /\ TableTypes' /\ BookTypes'
  BY NodeKept, TableKept, BooksKept
<1>3. IndInv /\ NodeTypes /\ TableTypes /\ BookTypes => TypeOK
  BY TypesTogether
<1>4. QED
  BY <1>1, <1>2, <1>3, Invariance, Paths, PTL DEF Spec

\* Extractors that are up without a lease.
Doubtful == up \ alive

OnTheWay == {loop.new} \cup {job[q].stream : q \in Routers}

\* What a start of a camera has become: an assignment, a router's request, or the entry the
\* loop is about to write in place of one it removed.
Recorded(c) == {s \in Opened : assigned[s] # None /\ cameraOf[s] = c}
Requests(c) == {q \in Routers : job[q].pc \in {"dispatch", "assign"} /\ job[q].camera = c}
Moved(c) == {s \in {loop.new} : loop.pc = "record" /\ cameraOf[s] = c}

\* What may run beside them: streams that are on no book, or on a doubtful extractor, or to be
\* moved although they run; and the requests and moves to a doubtful extractor.
Stray(c) ==
  {s \in Running \ OnTheWay :
     cameraOf[s] = c /\ (assigned[s] \in Doubtful \cup {None} \/ s \in loop.left)}
Risky(c) == {q \in Requests(c) : job[q].target \in Doubtful}
Moving(c) ==
  {s \in {loop.old} :
     /\ loop.pc \in {"dispatch", "delete", "record"}
     /\ cameraOf[s] = c /\ loop.target \in Doubtful}

\* The three sets have n elements at most.
Fits(A, B, C, n) ==
  /\ IsFiniteSet(A) /\ IsFiniteSet(B) /\ IsFiniteSet(C)
  /\ Cardinality(A) + Cardinality(B) + Cardinality(C) <= n

\* No camera has more of the first kind than starts, and with every fault it gains at most as
\* many of the second kind as it has starts.
Budgets(c) ==
  /\ Fits(Recorded(c), Requests(c), Moved(c), starts[c])
  /\ Fits(Stray(c), Risky(c), Moving(c), starts[c] * faults)

LEMMA Sub ==
  ASSUME NEW A, NEW B, IsFiniteSet(A), B \subseteq A
  PROVE  /\ IsFiniteSet(B) /\ Cardinality(B) <= Cardinality(A)
         /\ Cardinality(B) \in Nat /\ Cardinality(A) \in Nat
BY FS_Subset, FS_CardinalityType

LEMMA Grow ==
  ASSUME NEW A, NEW B, NEW x, IsFiniteSet(A), B \subseteq A \cup {x}
  PROVE  /\ IsFiniteSet(B) /\ Cardinality(B) <= Cardinality(A) + 1
         /\ Cardinality(B) \in Nat /\ Cardinality(A) \in Nat
<1>1. /\ IsFiniteSet(A \cup {x}) /\ Cardinality(A) \in Nat
      /\ Cardinality(A \cup {x}) = Cardinality(A) \/ Cardinality(A \cup {x}) = Cardinality(A) + 1
  <2>1. /\ IsFiniteSet(A \cup {x})
        /\ Cardinality(A \cup {x}) = IF x \in A THEN Cardinality(A) ELSE Cardinality(A) + 1
    BY FS_AddElement
  <2>2. Cardinality(A) \in Nat
    BY FS_CardinalityType
  <2>3. QED
    BY <2>1, <2>2, Zenon
<1>2. QED
  BY <1>1, Sub

LEMMA Drop ==
  ASSUME NEW A, NEW B, NEW x \in A, IsFiniteSet(A), B \subseteq A \ {x}
  PROVE  /\ IsFiniteSet(B) /\ Cardinality(B) <= Cardinality(A) - 1
         /\ Cardinality(B) \in Nat /\ Cardinality(A) \in Nat
<1>1. IsFiniteSet(A \ {x}) /\ Cardinality(A) \in Nat /\ Cardinality(A \ {x}) = Cardinality(A) - 1
  <2>1. /\ IsFiniteSet(A \ {x})
        /\ Cardinality(A \ {x}) = IF x \in A THEN Cardinality(A) - 1 ELSE Cardinality(A)
    BY FS_RemoveElement
  <2>2. Cardinality(A) \in Nat
    BY FS_CardinalityType
  <2>3. QED
    BY <2>1, <2>2, Zenon
<1>2. QED
  BY <1>1, Sub

LEMMA Join ==
  ASSUME NEW A, NEW B, NEW D, IsFiniteSet(A), IsFiniteSet(B), D \subseteq A \cup B
  PROVE  /\ IsFiniteSet(D) /\ Cardinality(D) <= Cardinality(A) + Cardinality(B)
         /\ Cardinality(D) \in Nat /\ Cardinality(A) \in Nat /\ Cardinality(B) \in Nat
<1>1. /\ IsFiniteSet(A \cup B) /\ IsFiniteSet(A \cap B)
      /\ Cardinality(A \cup B) = Cardinality(A) + Cardinality(B) - Cardinality(A \cap B)
  BY FS_Union, FS_Subset
<1>2. Cardinality(A) \in Nat /\ Cardinality(B) \in Nat /\ Cardinality(A \cap B) \in Nat
  BY <1>1, FS_CardinalityType
<1>3. QED
  BY <1>1, <1>2, Sub

LEMMA FitsLess ==
  ASSUME NEW A, NEW B, NEW C, NEW n \in Nat, Fits(A, B, C, n),
         NEW A2, NEW B2, NEW C2, A2 \subseteq A, B2 \subseteq B, C2 \subseteq C,
         NEW m \in Nat, n <= m
  PROVE  Fits(A2, B2, C2, m)
<1>1. IsFiniteSet(A) /\ IsFiniteSet(B) /\ IsFiniteSet(C)
  BY DEF Fits
<1>2. /\ IsFiniteSet(A2) /\ Cardinality(A2) <= Cardinality(A)
      /\ Cardinality(A2) \in Nat /\ Cardinality(A) \in Nat
  BY <1>1, Sub
<1>3. /\ IsFiniteSet(B2) /\ Cardinality(B2) <= Cardinality(B)
      /\ Cardinality(B2) \in Nat /\ Cardinality(B) \in Nat
  BY <1>1, Sub
<1>4. /\ IsFiniteSet(C2) /\ Cardinality(C2) <= Cardinality(C)
      /\ Cardinality(C2) \in Nat /\ Cardinality(C) \in Nat
  BY <1>1, Sub
<1>5. QED
  BY <1>2, <1>3, <1>4 DEF Fits

\* One more in the first set.
LEMMA FitsOne ==
  ASSUME NEW A, NEW B, NEW C, NEW n \in Nat, Fits(A, B, C, n),
         NEW A2, NEW B2, NEW C2, \E x : A2 \subseteq A \cup {x}, B2 \subseteq B, C2 \subseteq C,
         NEW m \in Nat, n + 1 <= m
  PROVE  Fits(A2, B2, C2, m)
<1>0. PICK x : A2 \subseteq A \cup {x}
  OBVIOUS
<1>1. IsFiniteSet(A) /\ IsFiniteSet(B) /\ IsFiniteSet(C)
  BY DEF Fits
<1>2. /\ IsFiniteSet(A2) /\ Cardinality(A2) <= Cardinality(A) + 1
      /\ Cardinality(A2) \in Nat /\ Cardinality(A) \in Nat
  BY <1>0, <1>1, Grow
<1>3. /\ IsFiniteSet(B2) /\ Cardinality(B2) <= Cardinality(B)
      /\ Cardinality(B2) \in Nat /\ Cardinality(B) \in Nat
  BY <1>1, Sub
<1>4. /\ IsFiniteSet(C2) /\ Cardinality(C2) <= Cardinality(C)
      /\ Cardinality(C2) \in Nat /\ Cardinality(C) \in Nat
  BY <1>1, Sub
<1>5. QED
  BY <1>2, <1>3, <1>4 DEF Fits

\* One of the second set becomes one of the first.
LEMMA FitsTurned ==
  ASSUME NEW A, NEW B, NEW C, NEW n \in Nat, Fits(A, B, C, n),
         NEW A2, NEW B2, NEW C2, \E x : A2 \subseteq A \cup {x},
         \E y \in B : B2 \subseteq B \ {y}, C2 \subseteq C
  PROVE  Fits(A2, B2, C2, n)
<1>0. PICK x : A2 \subseteq A \cup {x}
  OBVIOUS
<1>6. PICK y \in B : B2 \subseteq B \ {y}
  OBVIOUS
<1>1. IsFiniteSet(A) /\ IsFiniteSet(B) /\ IsFiniteSet(C)
  BY DEF Fits
<1>2. /\ IsFiniteSet(A2) /\ Cardinality(A2) <= Cardinality(A) + 1
      /\ Cardinality(A2) \in Nat /\ Cardinality(A) \in Nat
  BY <1>0, <1>1, Grow
<1>3. /\ IsFiniteSet(B2) /\ Cardinality(B2) <= Cardinality(B) - 1
      /\ Cardinality(B2) \in Nat /\ Cardinality(B) \in Nat
  BY <1>1, <1>6, Drop
<1>4. /\ IsFiniteSet(C2) /\ Cardinality(C2) <= Cardinality(C)
      /\ Cardinality(C2) \in Nat /\ Cardinality(C) \in Nat
  BY <1>1, Sub
<1>5. QED
  BY <1>2, <1>3, <1>4 DEF Fits

\* The order of the sets does not matter.
LEMMA FitsSame ==
  ASSUME NEW A, NEW B, NEW C, NEW n
  PROVE  /\ Fits(A, B, C, n) <=> Fits(B, A, C, n)
         /\ Fits(A, B, C, n) <=> Fits(A, C, B, n)
<1>1. ASSUME IsFiniteSet(A), IsFiniteSet(B), IsFiniteSet(C)
      PROVE  /\ Cardinality(A) + Cardinality(B) + Cardinality(C)
                  = Cardinality(B) + Cardinality(A) + Cardinality(C)
             /\ Cardinality(A) + Cardinality(B) + Cardinality(C)
                  = Cardinality(A) + Cardinality(C) + Cardinality(B)
  BY <1>1, FS_CardinalityType
<1>2. QED
  BY <1>1 DEF Fits

LEMMA Products ==
  ASSUME NEW k \in Nat, NEW f \in Nat
  PROVE  /\ k * f \in Nat /\ k * (f + 1) = k * f + k /\ (k + 1) * f = k * f + f
         /\ k * (1 + f) = k + k * f
OBVIOUS

\* Nothing is added to what a camera has of either kind.
LEMMA Calm ==
  ASSUME NEW c, Budgets(c), starts[c] \in Nat, faults \in Nat, starts'[c] = starts[c],
         faults' = faults \/ faults' = faults + 1,
         Recorded(c)' \subseteq Recorded(c), Requests(c)' \subseteq Requests(c),
         Moved(c)' \subseteq Moved(c), Stray(c)' \subseteq Stray(c),
         Risky(c)' \subseteq Risky(c), Moving(c)' \subseteq Moving(c)
  PROVE  Budgets(c)'
<1>1. Fits(Recorded(c)', Requests(c)', Moved(c)', starts'[c])
  BY FitsLess DEF Budgets
<1>2. starts[c] * faults \in Nat /\ starts[c] * (faults + 1) = starts[c] * faults + starts[c]
  BY Products
<1>3. starts'[c] * faults' \in Nat /\ starts[c] * faults <= starts'[c] * faults'
  BY <1>2
<1>4. Fits(Stray(c)', Risky(c)', Moving(c)', starts'[c] * faults')
  BY <1>2, <1>3, FitsLess DEF Budgets
<1>5. QED
  BY <1>1, <1>4 DEF Budgets

\* A camera that was started has, after a fault, one stray stream more.
LEMMA Paid ==
  ASSUME NEW c, Budgets(c), starts[c] \in Nat, faults \in Nat, starts'[c] = starts[c],
         faults' = faults + 1, Recorded(c) \cup Requests(c) \cup Moved(c) # {},
         Recorded(c)' \subseteq Recorded(c), Requests(c)' \subseteq Requests(c),
         Moved(c)' \subseteq Moved(c), NEW x, Stray(c)' \subseteq Stray(c) \cup {x},
         Risky(c)' \subseteq Risky(c), Moving(c)' \subseteq Moving(c)
  PROVE  Budgets(c)'
<1>1. Fits(Recorded(c)', Requests(c)', Moved(c)', starts'[c])
  BY FitsLess DEF Budgets
<1>2. starts[c] * faults \in Nat /\ starts[c] * (faults + 1) = starts[c] * faults + starts[c]
  BY Products
<1>3. starts[c] >= 1
  <2>1. /\ IsFiniteSet(Recorded(c)) /\ IsFiniteSet(Requests(c)) /\ IsFiniteSet(Moved(c))
        /\ Cardinality(Recorded(c)) + Cardinality(Requests(c)) + Cardinality(Moved(c)) <= starts[c]
    BY DEF Budgets, Fits
  <2>2. /\ Cardinality(Recorded(c)) \in Nat /\ Cardinality(Requests(c)) \in Nat
        /\ Cardinality(Moved(c)) \in Nat
    BY <2>1, FS_CardinalityType
  <2>3. Recorded(c) # {} \/ Requests(c) # {} \/ Moved(c) # {}
    OBVIOUS
  <2>4. Cardinality(Recorded(c)) # 0 \/ Cardinality(Requests(c)) # 0 \/ Cardinality(Moved(c)) # 0
    BY <2>1, <2>3, FS_EmptySet
  <2>5. QED
    BY <2>1, <2>2, <2>4
<1>4. starts'[c] * faults' \in Nat /\ starts[c] * faults + 1 <= starts'[c] * faults'
  BY <1>2, <1>3
<1>5. PICK n, m : n = starts[c] * faults /\ m = starts'[c] * faults'
  OBVIOUS
<1>6. /\ n \in Nat /\ m \in Nat /\ n + 1 <= m /\ Fits(Stray(c), Risky(c), Moving(c), n)
      /\ \E y : Stray(c)' \subseteq Stray(c) \cup {y}
  BY <1>2, <1>4, <1>5 DEF Budgets
<1>7. Fits(Stray(c)', Risky(c)', Moving(c)', m)
  BY <1>6, FitsOne
<1>8. Fits(Stray(c)', Risky(c)', Moving(c)', starts'[c] * faults')
  BY <1>5, <1>7
<1>9. QED
  BY <1>1, <1>8 DEF Budgets

LEMMA BudgetExtracting ==
  ASSUME IndInv, PathInv, faults \in Nat, NEW c \in Cameras, starts[c] \in Nat, Budgets(c),
         NEW e \in Extractors, Extractor(e)
  PROVE  Budgets(c)'
<1>1. UNCHANGED <<cameraOf, assigned, job, loop, starts>>
  BY DEF Extractor, Heartbeat, LeaseExpires, Throttle, Drain, ExtractorCrash,
         ExtractorRestart, StreamEnds, table, registry
<1>2. /\ Recorded(c)' = Recorded(c) /\ Requests(c)' = Requests(c) /\ Moved(c)' = Moved(c)
      /\ OnTheWay' = OnTheWay
  BY <1>1 DEF Recorded, Requests, Moved, OnTheWay, Opened
<1>3. Running' \subseteq Running
  <2>1. active \in [Extractors -> SUBSET Opened]
    BY Ranges
  <2>2. \/ active' = active
        \/ \E s \in Streams : active' = [active EXCEPT ![e] = @ \ {s}]
        \/ active' = [active EXCEPT ![e] = {}]
    BY DEF Extractor, Heartbeat, LeaseExpires, Throttle, Drain, ExtractorCrash,
           ExtractorRestart, StreamEnds, table
  <2>3. \A f \in Extractors : active'[f] \subseteq active[f]
    BY <2>1, <2>2
  <2>4. QED
    BY <2>3 DEF Running
<1>4. CASE Doubtful' \subseteq Doubtful /\ (faults' = faults \/ faults' = faults + 1)
  <2>1. Stray(c)' \subseteq Stray(c) /\ Risky(c)' \subseteq Risky(c) /\ Moving(c)' \subseteq Moving(c)
    BY <1>1, <1>2, <1>3, <1>4 DEF Stray, Risky, Moving
  <2>2. QED
    BY <1>1, <1>2, <1>4, <2>1, Calm
<1>5. CASE e \in up /\ LeaseExpires(e)
  <2>1. Doubtful' = Doubtful \cup {e} /\ faults' = faults + 1
    BY <1>5 DEF LeaseExpires, Doubtful, Fault, node
  <2>2. /\ Stray(c)' \subseteq Stray(c) \cup Recorded(c)
        /\ Risky(c)' \subseteq Risky(c) \cup Requests(c)
        /\ Moving(c)' \subseteq {loop.old}
    <3>1. Running \subseteq Opened /\ None \notin Extractors
      BY Ranges, PlacementAssumption
    <3>2. QED
      BY <1>1, <1>2, <1>3, <2>1, <3>1 DEF Stray, Risky, Moving, Recorded
  <2>3. /\ IsFiniteSet(Recorded(c)) /\ IsFiniteSet(Requests(c)) /\ IsFiniteSet(Moved(c))
        /\ IsFiniteSet(Stray(c)) /\ IsFiniteSet(Risky(c)) /\ IsFiniteSet(Moving(c))
        /\ Cardinality(Recorded(c)) + Cardinality(Requests(c)) + Cardinality(Moved(c)) <= starts[c]
        /\ Cardinality(Stray(c)) + Cardinality(Risky(c)) + Cardinality(Moving(c))
             <= starts[c] * faults
    BY DEF Budgets, Fits
  <2>4. /\ Cardinality(Recorded(c)) \in Nat /\ Cardinality(Requests(c)) \in Nat
        /\ Cardinality(Moved(c)) \in Nat /\ Cardinality(Stray(c)) \in Nat
        /\ Cardinality(Risky(c)) \in Nat /\ Cardinality(Moving(c)) \in Nat
    BY <2>3, FS_CardinalityType
  <2>5. /\ IsFiniteSet(Risky(c)') /\ Cardinality(Risky(c)') \in Nat
        /\ Cardinality(Risky(c)') <= Cardinality(Risky(c)) + Cardinality(Requests(c))
    BY <2>2, <2>3, Join
  <2>6. /\ IsFiniteSet(Stray(c)') /\ Cardinality(Stray(c)') \in Nat
        /\ Cardinality(Stray(c)') <= Cardinality(Stray(c)) + Cardinality(Recorded(c))
    BY <2>2, <2>3, Join
  <2>7. /\ IsFiniteSet(Moving(c)') /\ Cardinality(Moving(c)') \in Nat /\ Cardinality(Moving(c)') <= 1
    <3>1. IsFiniteSet({loop.old}) /\ Cardinality({loop.old}) = 1
      BY FS_Singleton
    <3>2. QED
      BY <2>2, <3>1, Sub
  <2>8. Cardinality(Stray(c)') + Cardinality(Moving(c)')
          <= Cardinality(Stray(c)) + Cardinality(Moving(c)) + Cardinality(Recorded(c)) + Cardinality(Moved(c))
    <3>1. CASE Moving(c)' \subseteq Moving(c)
      <4>1. Cardinality(Moving(c)') <= Cardinality(Moving(c))
        BY <2>3, <3>1, Sub
      <4>2. QED
        BY <2>4, <2>6, <2>7, <4>1
    <3>2. CASE ~(Moving(c)' \subseteq Moving(c))
      <4>1. loop.pc \in {"dispatch", "delete", "record"} /\ cameraOf[loop.old] = c
        BY <1>1, <3>2 DEF Moving
      <4>2. CASE loop.pc = "record"
        <5>1. Moved(c) = {loop.new}
          BY <4>1, <4>2 DEF Moved, PathInv, LeftInv
        <5>2. Cardinality(Moved(c)) = 1
          BY <5>1, FS_Singleton
        <5>3. QED
          BY <2>4, <2>6, <2>7, <5>2
      <4>3. CASE loop.pc # "record"
        <5>1. loop.old \in loop.left /\ loop.old \in Opened /\ assigned[loop.old] # None
          BY <4>1, <4>3 DEF PathInv, LeftInv, IndInv, LoopInv
        <5>2. loop.old \in Recorded(c)
          BY <4>1, <5>1 DEF Recorded
        <5>3. loop.old \in Stray(c)' => loop.old \in Stray(c)
          BY <1>1, <1>2, <1>3, <5>1 DEF Stray
        <5>4. Stray(c)' \subseteq Stray(c) \cup (Recorded(c) \ {loop.old})
          BY <2>2, <5>3
        <5>5. /\ IsFiniteSet(Recorded(c) \ {loop.old})
              /\ Cardinality(Recorded(c) \ {loop.old}) <= Cardinality(Recorded(c)) - 1
              /\ Cardinality(Recorded(c) \ {loop.old}) \in Nat
          BY <2>3, <5>2, Drop
        <5>6. Cardinality(Stray(c)') <= Cardinality(Stray(c)) + Cardinality(Recorded(c) \ {loop.old})
          BY <2>3, <5>4, <5>5, Join
        <5>7. QED
          BY <2>4, <2>6, <2>7, <5>5, <5>6
      <4>4. QED
        BY <4>2, <4>3
    <3>3. QED
      BY <3>1, <3>2
  <2>9. /\ starts[c] * (faults + 1) = starts[c] * faults + starts[c]
        /\ starts[c] * faults \in Nat
    BY Products
  <2>10. Cardinality(Stray(c)') + Cardinality(Risky(c)') + Cardinality(Moving(c)')
           <= starts[c] * faults + starts[c]
    BY <2>3, <2>4, <2>5, <2>6, <2>7, <2>8, <2>9
  <2>11. Fits(Stray(c)', Risky(c)', Moving(c)', starts'[c] * faults')
    BY <1>1, <2>1, <2>5, <2>6, <2>7, <2>9, <2>10 DEF Fits
  <2>12. QED
    BY <1>1, <1>2, <2>11 DEF Budgets
<1>6. \/ Doubtful' \subseteq Doubtful /\ (faults' = faults \/ faults' = faults + 1)
      \/ e \in up /\ LeaseExpires(e)
  <2>1. CASE Heartbeat(e)
    BY <2>1 DEF Heartbeat, Doubtful, node
  <2>2. CASE LeaseExpires(e)
    BY <2>2 DEF LeaseExpires, Doubtful, node
  <2>3. CASE Throttle(e) \/ Drain(e)
    BY <2>3 DEF Throttle, Drain, Doubtful, registry
  <2>4. CASE ExtractorCrash(e)
    BY <2>4 DEF ExtractorCrash, Doubtful, registry
  <2>5. CASE ExtractorRestart(e)
    BY <2>5 DEF ExtractorRestart, Doubtful
  <2>6. CASE \E s \in Streams : StreamEnds(e, s)
    BY <2>6 DEF StreamEnds, Doubtful, node, registry, Fault
  <2>7. QED
    BY <2>1, <2>2, <2>3, <2>4, <2>5, <2>6 DEF Extractor
<1>7. QED
  BY <1>4, <1>5, <1>6
LEMMA BudgetRouting ==
  ASSUME IndInv, PathInv, starts \in [Cameras -> Nat], faults \in Nat, NEW c \in Cameras,
         Budgets(c), NEW q \in Routers,
         Route(q) \/ \E d \in Cameras : StartRequest(q, d) \/ StopRequest(q, d)
  PROVE  Budgets(c)'
<1>1. /\ starts[c] \in Nat /\ job \in [Routers -> JobTypes] /\ loop \in LoopTypes
      /\ Running \subseteq Opened /\ 0 \notin Opened /\ Opened \subseteq Streams
      /\ assigned \in [Streams -> Extractors \cup {None}] /\ None \notin Extractors
      /\ \A p \in Routers : job[p].pc # "assign" => job[p].stream = 0
      /\ loop.left \subseteq Opened
      /\ loop.pc \in {"dispatch", "delete", "record"} => loop.old \in Opened
      /\ loop.pc = "record" => loop.new \in Opened
  BY Ranges, PlacementAssumption DEF PathInv, RouteInv, IndInv, LoopInv
\* Requests that end or begin without a stream.
<1>2. ASSUME UNCHANGED <<cameraOf, active, assigned, loop, up, alive>>, starts'[c] = starts[c],
             faults' = faults \/ faults' = faults + 1,
             job[q].stream = 0, \A p \in Routers \ {q} : job'[p] = job[p],
             job'[q].pc \notin {"dispatch", "assign"}
      PROVE  Budgets(c)'
  <2>1. /\ Recorded(c)' = Recorded(c) /\ Moved(c)' = Moved(c) /\ Moving(c)' = Moving(c)
        /\ Running' = Running /\ Doubtful' = Doubtful
    BY <1>2 DEF Recorded, Moved, Moving, Running, Doubtful, Opened
  <2>2. Requests(c)' \subseteq Requests(c) /\ Risky(c)' \subseteq Risky(c)
    BY <1>2, <2>1 DEF Requests, Risky
  <2>3. \A s \in Opened : s \in OnTheWay => s \in OnTheWay'
    BY <1>1, <1>2 DEF OnTheWay
  <2>4. Stray(c)' \subseteq Stray(c)
    BY <1>1, <1>2, <2>1, <2>3 DEF Stray
  <2>5. QED
    BY <1>1, <1>2, <2>1, <2>2, <2>4, Calm
<1>3. ASSUME NEW d \in Cameras, StopRequest(q, d) PROVE Budgets(c)'
  <2>1. /\ job[q].stream = 0 /\ job'[q].pc = "stop" /\ \A p \in Routers \ {q} : job'[p] = job[p]
        /\ UNCHANGED <<cameraOf, active, assigned, loop, up, alive, starts, faults>>
    BY <1>1, <1>3 DEF StopRequest, Request, node, table, registry
  <2>2. QED
    BY <1>2, <2>1
<1>4. ASSUME NEW e \in Extractors, StopAt(q, e) PROVE Budgets(c)'
  <2>1. /\ job[q].stream = 0 /\ job[q].pc = "stop" /\ \A p \in Routers \ {q} : job'[p] = job[p]
        /\ UNCHANGED <<cameraOf, active, assigned, loop, up, alive, starts>>
        /\ faults' = faults \/ faults' = faults + 1
    BY <1>1, <1>4 DEF StopAt, node, table, registry, Fault
  <2>2. job'[q].pc = "stop"
    BY <1>1, <1>4, <2>1 DEF StopAt, JobTypes
  <2>3. QED
    BY <1>2, <2>1, <2>2
<1>5. CASE StopAnswer(q)
  <2>1. /\ job[q].stream = 0 /\ job'[q].pc = "idle" /\ \A p \in Routers \ {q} : job'[p] = job[p]
        /\ UNCHANGED <<cameraOf, active, assigned, loop, up, alive, starts, faults>>
    BY <1>1, <1>5 DEF StopAnswer, Idle, Request, node, table, registry
  <2>2. QED
    BY <1>2, <2>1
<1>6. ASSUME NEW d \in Cameras, StartRequest(q, d) PROVE Budgets(c)'
  <2>1. PICK e \in alive : job' = [job EXCEPT ![q] = Request("dispatch", d, e, {})]
    BY <1>6 DEF StartRequest, Best
  <2>2. /\ job[q].stream = 0 /\ \A p \in Routers \ {q} : job'[p] = job[p]
        /\ job'[q].stream = 0 /\ job'[q].camera = d /\ job'[q].target = e
        /\ UNCHANGED <<cameraOf, active, assigned, loop, up, alive, faults>>
        /\ starts' = [starts EXCEPT ![d] = @ + 1]
    BY <1>1, <1>6, <2>1 DEF StartRequest, Request, node, table, registry
  <2>3. /\ Recorded(c)' = Recorded(c) /\ Moved(c)' = Moved(c) /\ Moving(c)' = Moving(c)
        /\ Running' = Running /\ Doubtful' = Doubtful /\ OnTheWay' = OnTheWay
    BY <2>2 DEF Recorded, Moved, Moving, Running, Doubtful, OnTheWay, Opened
  <2>4. Stray(c)' \subseteq Stray(c) /\ Risky(c)' \subseteq Risky(c)
    BY <2>2, <2>3 DEF Stray, Risky, Requests, Doubtful
  <2>5. CASE c # d
    <3>1. Requests(c)' \subseteq Requests(c) /\ starts'[c] = starts[c]
      BY <2>2, <2>5 DEF Requests
    <3>2. QED
      BY <1>1, <2>2, <2>3, <2>4, <3>1, Calm
  <2>6. CASE c = d
    <3>1. Requests(c)' \subseteq Requests(c) \cup {q} /\ starts'[c] = starts[c] + 1
      BY <2>2, <2>6 DEF Requests
    <3>2. Fits(Requests(c), Recorded(c), Moved(c), starts[c])
      BY FitsSame DEF Budgets
    <3>3. Fits(Requests(c)', Recorded(c)', Moved(c)', starts'[c])
      <4>1. PICK k, l : k = starts[c] /\ l = starts'[c]
        OBVIOUS
      <4>2. /\ k \in Nat /\ l \in Nat /\ k + 1 <= l /\ Fits(Requests(c), Recorded(c), Moved(c), k)
            /\ \E x : Requests(c)' \subseteq Requests(c) \cup {x}
            /\ Recorded(c)' \subseteq Recorded(c) /\ Moved(c)' \subseteq Moved(c)
        BY <1>1, <2>3, <3>1, <3>2, <4>1
      <4>3. Fits(Requests(c)', Recorded(c)', Moved(c)', l)
        BY <4>2, FitsOne
      <4>4. QED
        BY <4>1, <4>3
    <3>4. Fits(Recorded(c)', Requests(c)', Moved(c)', starts'[c])
      BY <3>3, FitsSame
    <3>5. PICK n, m : n = starts[c] * faults /\ m = starts'[c] * faults'
      OBVIOUS
    <3>6. n \in Nat /\ m \in Nat /\ n <= m
      <4>1. starts[c] * faults \in Nat /\ (starts[c] + 1) * faults = starts[c] * faults + faults
        BY <1>1, Products
      <4>2. m = (starts[c] + 1) * faults
        BY <2>2, <3>1, <3>5
      <4>3. m = n + faults /\ n \in Nat
        BY <3>5, <4>1, <4>2
      <4>4. QED
        BY <4>3
    <3>7. Fits(Stray(c), Risky(c), Moving(c), n)
      BY <3>5 DEF Budgets
    <3>8. Fits(Stray(c)', Risky(c)', Moving(c)', m)
      BY <2>3, <2>4, <3>6, <3>7, FitsLess
    <3>9. QED
      BY <3>4, <3>5, <3>8 DEF Budgets
  <2>7. QED
    BY <2>5, <2>6
<1>7. CASE Dispatch(q)
  <2>1. /\ job[q].stream = 0 /\ job[q].pc = "dispatch"
        /\ UNCHANGED <<assigned, loop, up, alive, starts>>
        /\ job[q].target \in Extractors /\ job[q].camera \in Cameras
        /\ job[q].camera = c => q \in Requests(c)
    BY <1>1, <1>7 DEF Dispatch, node, registry, IndInv, JobInv, Requests
  <2>2. CASE /\ UNCHANGED table /\ job' = [job EXCEPT ![q] = Idle]
             /\ faults' = faults \/ faults' = faults + 1
    <3>1. job'[q].pc = "idle" /\ \A p \in Routers \ {q} : job'[p] = job[p]
      BY <1>1, <2>2 DEF Idle, Request
    <3>2. QED
      BY <1>2, <2>1, <2>2, <3>1 DEF table
  <2>3. CASE Open(job[q].target, job[q].camera)
    <3>1. PICK n : n = Len(cameraOf) + 1
      OBVIOUS
    <3>2. /\ Len(cameraOf') = n /\ cameraOf'[n] = job[q].camera
          /\ \A s \in Opened : cameraOf'[s] = cameraOf[s]
          /\ Opened' = Opened \cup {n} /\ Running' = Running \cup {n}
          /\ n \notin Opened /\ assigned[n] = None
      BY <2>1, <2>3, <3>1, Opens, Ranges
    <3>3. /\ Recorded(c)' \subseteq Recorded(c) /\ Moved(c)' \subseteq Moved(c)
          /\ Moving(c)' \subseteq Moving(c) /\ Doubtful' = Doubtful
      BY <1>1, <2>1, <3>2 DEF Recorded, Moved, Moving, Doubtful
    <3>4. /\ \A p \in Routers \ {q} : job'[p] = job[p]
          /\ \/ job'[q].pc = "assign" /\ job'[q].stream = n /\ job'[q].camera = job[q].camera
                  /\ job'[q].target = job[q].target /\ faults' = faults
             \/ job'[q] = Idle /\ faults' = faults + 1
      <4>1. CASE job' = [job EXCEPT ![q] = Idle] /\ Fault
        BY <1>1, <4>1 DEF Fault
      <4>2. CASE /\ job' = [job EXCEPT ![q].pc = "assign", ![q].stream = Len(cameraOf')]
                 /\ faults' = faults
        BY <1>1, <3>2, <4>2 DEF JobTypes
      <4>3. ~Refused(job[q].target)
        BY <2>3 DEF Open, Refused
      <4>4. QED
        BY <1>7, <4>1, <4>2, <4>3 DEF Dispatch
    <3>5. Requests(c)' \subseteq Requests(c) /\ Risky(c)' \subseteq Risky(c)
      BY <2>1, <3>3, <3>4 DEF Requests, Risky, Idle, Request
    <3>6. \A s \in Opened : s \in OnTheWay => s \in OnTheWay'
      BY <1>1, <2>1, <3>4 DEF OnTheWay
    <3>7. Stray(c)' \subseteq Stray(c) \cup {n}
      BY <1>1, <2>1, <3>2, <3>3, <3>6 DEF Stray
    <3>8. n \in Stray(c)' => job[q].camera = c /\ n \notin OnTheWay'
      BY <3>2 DEF Stray
    <3>9. job'[q].stream = n => n \in OnTheWay'
      BY DEF OnTheWay
    <3>10. CASE Stray(c)' \subseteq Stray(c)
      <4>1. faults' = faults \/ faults' = faults + 1
        BY <3>4
      <4>2. QED
        BY <1>1, <2>1, <3>3, <3>5, <3>10, <4>1, Calm
    <3>11. CASE ~(Stray(c)' \subseteq Stray(c))
      <4>1. n \in Stray(c)'
        BY <3>7, <3>11
      <4>2. faults' = faults + 1 /\ q \in Requests(c)
        BY <2>1, <3>4, <3>8, <3>9, <4>1
      <4>3. Recorded(c) \cup Requests(c) \cup Moved(c) # {}
        BY <4>2
      <4>4. QED
        BY <1>1, <2>1, <3>3, <3>5, <3>7, <4>2, <4>3, Paid
    <3>12. QED
      BY <3>10, <3>11
  <2>4. QED
    BY <1>7, <2>2, <2>3 DEF Dispatch, Refused, Fault
<1>8. CASE Assign(q)
  <2>1. PICK s, e : s = job[q].stream /\ e = job[q].target
    OBVIOUS
  <2>2. /\ job[q].pc = "assign" /\ s \in Opened /\ e \in Extractors
        /\ job[q].camera = cameraOf[s] /\ assigned[s] = None /\ s \notin loop.left \cup {loop.new}
        /\ UNCHANGED <<cameraOf, active, loop, up, alive, starts>>
        /\ cameraOf[s] = c => q \in Requests(c)
        /\ job'[q] = Idle /\ \A p \in Routers \ {q} : job'[p] = job[p]
    BY <1>1, <1>8, <2>1 DEF Assign, PathInv, RouteInv, IndInv, JobInv, node, table, Requests
  <2>3. /\ Moved(c)' = Moved(c) /\ Moving(c)' = Moving(c)
        /\ Running' = Running /\ Doubtful' = Doubtful /\ Opened' = Opened
    BY <2>2 DEF Moved, Moving, Running, Doubtful, Opened
  <2>4. /\ Requests(c)' \subseteq Requests(c) \ {q} /\ Risky(c)' \subseteq Risky(c) \ {q}
    BY <2>2, <2>3 DEF Requests, Risky, Idle, Request
  <2>5. \A t \in Opened : t # s /\ t \in OnTheWay => t \in OnTheWay'
    BY <1>1, <2>1, <2>2 DEF OnTheWay
  <2>6. CASE assigned' = assigned /\ faults' = faults + 1
    <3>1. Recorded(c)' = Recorded(c)
      BY <2>2, <2>6 DEF Recorded, Opened
    <3>2. Stray(c)' \subseteq Stray(c) \cup {s} /\ (cameraOf[s] # c => Stray(c)' \subseteq Stray(c))
      BY <1>1, <2>2, <2>3, <2>5, <2>6 DEF Stray
    <3>3. Requests(c)' \subseteq Requests(c) /\ Risky(c)' \subseteq Risky(c)
      BY <2>4
    <3>4. CASE cameraOf[s] # c
      BY <1>1, <2>2, <2>3, <2>6, <3>1, <3>2, <3>3, <3>4, Calm
    <3>5. CASE cameraOf[s] = c
      <4>1. Recorded(c) \cup Requests(c) \cup Moved(c) # {}
        BY <2>2, <3>5
      <4>2. QED
        BY <1>1, <2>2, <2>3, <2>6, <3>1, <3>2, <3>3, <4>1, Paid
    <3>6. QED
      BY <3>4, <3>5
  <2>7. CASE assigned' = [assigned EXCEPT ![s] = e] /\ faults' = faults
    <3>1. assigned'[s] = e /\ \A t \in Streams \ {s} : assigned'[t] = assigned[t]
      BY <1>1, <2>2, <2>7
    <3>2. /\ Recorded(c)' \subseteq Recorded(c) \cup {s}
          /\ cameraOf[s] # c => Recorded(c)' \subseteq Recorded(c)
      BY <1>1, <2>2, <2>3, <3>1 DEF Recorded
    <3>3. /\ Stray(c)' \subseteq Stray(c) \cup {s}
          /\ cameraOf[s] # c \/ e \notin Doubtful => Stray(c)' \subseteq Stray(c)
      BY <1>1, <2>2, <2>3, <2>5, <3>1 DEF Stray
    <3>4. CASE cameraOf[s] # c
      <4>1. Requests(c)' \subseteq Requests(c) /\ Risky(c)' \subseteq Risky(c)
        BY <2>4
      <4>2. QED
        BY <1>1, <2>2, <2>3, <2>7, <3>2, <3>3, <3>4, <4>1, Calm
    <3>5. CASE cameraOf[s] = c
      <4>1. Fits(Recorded(c)', Requests(c)', Moved(c)', starts'[c])
        <5>1. PICK k : k = starts[c]
          OBVIOUS
        <5>2. k \in Nat /\ k = starts'[c]
          BY <1>1, <2>2, <5>1
        <5>3. /\ Fits(Recorded(c), Requests(c), Moved(c), k)
              /\ \E x : Recorded(c)' \subseteq Recorded(c) \cup {x}
              /\ \E y \in Requests(c) : Requests(c)' \subseteq Requests(c) \ {y}
              /\ Moved(c)' \subseteq Moved(c)
          <6>1. /\ q \in Requests(c) /\ Recorded(c)' \subseteq Recorded(c) \cup {s}
                /\ Requests(c)' \subseteq Requests(c) \ {q} /\ Moved(c)' \subseteq Moved(c)
            BY <2>2, <2>3, <2>4, <3>2, <3>5
          <6>2. Fits(Recorded(c), Requests(c), Moved(c), k)
            BY <5>1 DEF Budgets
          <6>3. QED
            BY <6>1, <6>2
        <5>4. Fits(Recorded(c)', Requests(c)', Moved(c)', k)
          <6>1. k \in Nat
            BY <5>2
          <6>2. QED
            BY <5>3, <6>1, FitsTurned
        <5>5. QED
          BY <5>4, <5>2
      <4>2. PICK n : n = starts[c] * faults
        OBVIOUS
      <4>3. n \in Nat /\ n = starts'[c] * faults' /\ Fits(Stray(c), Risky(c), Moving(c), n)
        BY <1>1, <2>2, <2>7, <4>2, Products DEF Budgets
      <4>4. CASE e \in Doubtful
        <5>1. q \in Risky(c)
          BY <2>1, <2>2, <3>5, <4>4 DEF Risky
        <5>2. Fits(Stray(c)', Risky(c)', Moving(c)', n)
          <6>1. /\ \E x : Stray(c)' \subseteq Stray(c) \cup {x}
                /\ \E y \in Risky(c) : Risky(c)' \subseteq Risky(c) \ {y}
                /\ Moving(c)' \subseteq Moving(c)
            BY <2>3, <2>4, <3>3, <5>1
          <6>2. QED
            BY <4>3, <6>1, FitsTurned
        <5>3. QED
          BY <4>1, <4>3, <5>2 DEF Budgets
      <4>5. CASE e \notin Doubtful
        <5>1. Risky(c)' \subseteq Risky(c)
          BY <2>4
        <5>2. Fits(Stray(c)', Risky(c)', Moving(c)', n)
          BY <2>3, <3>3, <4>3, <4>5, <5>1, FitsLess
        <5>3. QED
          BY <4>1, <4>3, <5>2 DEF Budgets
      <4>6. QED
        BY <4>4, <4>5
    <3>6. QED
      BY <3>4, <3>5
  <2>8. QED
    BY <1>8, <2>1, <2>6, <2>7 DEF Assign, Fault
<1>9. QED
  BY <1>3, <1>4, <1>5, <1>6, <1>7, <1>8 DEF Route

LEMMA BudgetReconciling ==
  ASSUME IndInv, PathInv, starts \in [Cameras -> Nat], faults \in Nat, NEW c \in Cameras,
         Budgets(c), Reconcile \/ RegistryCrash
  PROVE  Budgets(c)'
<1>1. /\ starts[c] \in Nat /\ loop \in LoopTypes /\ job \in [Routers -> JobTypes]
      /\ Running \subseteq Opened /\ 0 \notin Opened /\ Opened \subseteq Streams
      /\ assigned \in [Streams -> Extractors \cup {None}] /\ None \notin Extractors
      /\ LeftInv /\ loop.left \subseteq Opened
      /\ loop.pc \in {"dispatch", "delete", "record"} => loop.old \in Opened
      /\ loop.pc \in {"delete", "record"} => loop.new \in Opened /\ loop.target \in Extractors
  BY Ranges, PlacementAssumption DEF PathInv, IndInv, LoopInv
<1>2. UNCHANGED <<job, up, alive, starts>>
  BY DEF Reconcile, Tick, FailoverLookup, FailoverDispatch, FailoverDelete, FailoverRecord,
         RegistryCrash, node, registry
<1>3. Doubtful' = Doubtful /\ starts'[c] = starts[c]
  BY <1>2 DEF Doubtful
<1>4. faults' = faults \/ faults' = faults + 1
  BY DEF Reconcile, Tick, FailoverLookup, FailoverDispatch, FailoverDelete, FailoverRecord,
         RegistryCrash, Fault
\* What the loop works on is a start of its camera.
<1>5. ASSUME loop.pc \in {"dispatch", "delete", "record"}, cameraOf[loop.old] = c
      PROVE  Recorded(c) \cup Requests(c) \cup Moved(c) # {}
  <2>1. CASE loop.pc = "record"
    <3>1. loop.new \in Moved(c)
      BY <1>1, <1>5, <2>1 DEF LeftInv, Moved
    <3>2. QED
      BY <3>1
  <2>2. CASE loop.pc # "record"
    <3>1. loop.old \in Recorded(c)
      BY <1>1, <1>5, <2>2 DEF LeftInv, Recorded
    <3>2. QED
      BY <3>1
  <2>3. QED
    BY <2>1, <2>2
\* The loop gives a stream up, or begins another tick; the new stream may be off the books then.
<1>6. ASSUME NEW left, loop' = Scan(left), UNCHANGED <<cameraOf, active>>, assigned' = assigned,
             \A s \in left \cap Running : s \in loop.left \/ assigned[s] \in Doubtful,
             loop.new # 0 => faults' = faults + 1
      PROVE  Budgets(c)'
  <2>1. /\ loop'.pc \in {"idle", "lookup"} /\ loop'.left = left /\ loop'.new = 0
        /\ Running' = Running /\ Opened' = Opened
    BY <1>6 DEF Scan, Running, Opened
  <2>2. /\ Recorded(c)' = Recorded(c) /\ Requests(c)' = Requests(c) /\ Moved(c)' = {}
        /\ Risky(c)' = Risky(c) /\ Moving(c)' = {}
    BY <1>2, <1>3, <1>6, <2>1 DEF Recorded, Requests, Moved, Risky, Moving
  <2>3. \A s \in Opened : s \in OnTheWay => s \in OnTheWay' \/ s = loop.new
    BY <1>2 DEF OnTheWay
  <2>4. ASSUME NEW s \in Stray(c)' PROVE s \in Stray(c) \/ (s = loop.new /\ cameraOf[s] = c)
    BY <1>1, <1>3, <1>6, <2>1, <2>3 DEF Stray
  <2>5. CASE Stray(c)' \subseteq Stray(c)
    BY <1>1, <1>3, <1>4, <2>2, <2>5, Calm
  <2>6. CASE ~(Stray(c)' \subseteq Stray(c))
    <3>1. loop.new \in Stray(c)' /\ cameraOf[loop.new] = c
      BY <2>4, <2>6
    <3>2. loop.new # 0
      BY <1>1, <2>1, <3>1 DEF Stray
    <3>3. loop.pc \in {"delete", "record"}
      BY <1>1, <3>2 DEF LeftInv, LoopTypes
    <3>4. Recorded(c) \cup Requests(c) \cup Moved(c) # {}
      BY <1>1, <1>5, <3>1, <3>3 DEF LeftInv
    <3>5. Stray(c)' \subseteq Stray(c) \cup {loop.new}
      BY <2>4
    <3>6. QED
      BY <1>1, <1>3, <1>6, <2>2, <3>2, <3>4, <3>5, Paid
  <2>7. QED
    BY <2>5, <2>6
<1>7. CASE Tick
  <2>1. PICK B : B \subseteq {s \in Streams : Orphan(s)} /\ loop' = Scan(B)
    BY <1>7 DEF Tick, FailoverBatch
  <2>2. UNCHANGED <<cameraOf, active>> /\ assigned' = assigned /\ loop.new = 0
    BY <1>1, <1>7 DEF Tick, table, registry, LeftInv
  <2>3. ASSUME NEW s \in B \cap Running PROVE assigned[s] \in Doubtful
    <3>1. PICK e \in Extractors : s \in active[e]
      BY DEF Running
    <3>2. s \in Opened /\ assigned[s] # None /\ assigned[s] \notin alive /\ s \in Streams
      BY <1>1, <2>1, <2>3 DEF Orphan
    <3>3. e = assigned[s]
      BY <3>1, <3>2 DEF IndInv, BooksInv, OnlyOn
    <3>4. e \in up
      BY <3>1 DEF PathInv, UpInv
    <3>5. QED
      BY <3>2, <3>3, <3>4 DEF Doubtful
  <2>4. QED
    BY <1>6, <2>1, <2>2, <2>3
<1>8. CASE RegistryCrash
  <2>1. /\ UNCHANGED <<cameraOf, active>> /\ assigned' = assigned /\ loop' = Scan({})
        /\ faults' = faults + 1
    BY <1>8 DEF RegistryCrash, table, registry, Waiting, Fault
  <2>2. QED
    BY <1>6, <2>1
<1>9. ASSUME NEW s \in Streams, FailoverLookup(s) PROVE Budgets(c)'
  <2>1. /\ UNCHANGED <<cameraOf, active>> /\ assigned' = assigned /\ loop.new = 0
        /\ loop.pc = "lookup"
    BY <1>1, <1>9 DEF FailoverLookup, table, LeftInv
  <2>2. CASE Advance({s})
    <3>1. loop' = Scan(loop.left \ {s})
      BY <2>2 DEF Advance
    <3>2. QED
      BY <1>6, <2>1, <3>1
  <2>3. ASSUME NEW e \in alive, loop' = [loop EXCEPT !.pc = "dispatch", !.old = s, !.target = e]
        PROVE  Budgets(c)'
    <3>1. /\ loop'.pc = "dispatch" /\ loop'.left = loop.left /\ loop'.new = loop.new
          /\ loop'.target = e /\ Running' = Running /\ Opened' = Opened
      BY <1>1, <2>1, <2>3 DEF LoopTypes, Running, Opened
    <3>2. /\ Recorded(c)' = Recorded(c) /\ Requests(c)' = Requests(c) /\ Moved(c)' = {}
          /\ Risky(c)' = Risky(c) /\ Moving(c)' = {} /\ OnTheWay' = OnTheWay
      BY <1>2, <1>3, <2>1, <3>1 DEF Recorded, Requests, Moved, Risky, Moving, OnTheWay, Doubtful
    <3>3. Stray(c)' = Stray(c)
      BY <1>3, <2>1, <3>1, <3>2 DEF Stray
    <3>4. QED
      BY <1>1, <1>3, <1>4, <3>2, <3>3, Calm
  <2>4. QED
    BY <1>9, <2>2, <2>3 DEF FailoverLookup, Best
<1>10. CASE FailoverDispatch
  <2>1. /\ assigned' = assigned /\ loop.new = 0 /\ loop.pc = "dispatch"
        /\ loop.target \in Extractors /\ cameraOf[loop.old] \in Cameras
    BY <1>1, <1>10, Ranges DEF FailoverDispatch, registry, LeftInv, IndInv, LoopInv
  <2>2. CASE UNCHANGED table /\ Advance({loop.old})
    <3>1. loop' = Scan(loop.left \ {loop.old}) /\ UNCHANGED <<cameraOf, active>>
      BY <2>2 DEF Advance, table
    <3>2. QED
      BY <1>6, <2>1, <3>1
  <2>3. CASE Open(loop.target, cameraOf[loop.old])
    <3>1. PICK n : n = Len(cameraOf) + 1
      OBVIOUS
    <3>2. /\ Len(cameraOf') = n /\ cameraOf'[n] = cameraOf[loop.old]
          /\ \A s \in Opened : cameraOf'[s] = cameraOf[s]
          /\ Opened' = Opened \cup {n} /\ Running' = Running \cup {n}
          /\ n \notin Opened /\ assigned[n] = None
      BY <2>1, <2>3, <3>1, Opens, Ranges
    <3>3. \/ /\ loop'.pc = "delete" /\ loop'.new = n /\ loop'.old = loop.old
             /\ loop'.left = loop.left /\ loop'.target = loop.target
          \/ /\ loop'.pc \in {"idle", "lookup"} /\ loop'.new = 0 /\ loop'.left \subseteq loop.left
             /\ faults' = faults + 1
      <4>1. CASE loop' = [loop EXCEPT !.pc = "delete", !.new = Len(cameraOf')]
        BY <1>1, <3>2, <4>1 DEF LoopTypes
      <4>2. CASE Fault /\ Advance({loop.old})
        BY <4>2 DEF Fault, Advance, Scan
      <4>3. ASSUME UNCHANGED table PROVE FALSE
        <5>1. cameraOf' = cameraOf /\ Len(cameraOf) \in Nat
          BY <4>3, Ranges DEF table
        <5>2. QED
          BY <3>1, <3>2, <5>1
      <4>4. QED
        BY <1>10, <4>1, <4>2, <4>3 DEF FailoverDispatch
    <3>4. /\ Recorded(c)' \subseteq Recorded(c) /\ Requests(c)' = Requests(c)
          /\ Moved(c)' \subseteq Moved(c) /\ Risky(c)' = Risky(c) /\ Moving(c)' \subseteq Moving(c)
      BY <1>1, <1>2, <1>3, <2>1, <3>2, <3>3 DEF Recorded, Requests, Moved, Risky, Moving
    <3>5. \A s \in Opened : s \in OnTheWay => s \in OnTheWay'
      BY <1>1, <1>2, <2>1 DEF OnTheWay
    <3>6. Stray(c)' \subseteq Stray(c) \cup {n}
      BY <1>1, <1>3, <2>1, <3>2, <3>3, <3>5 DEF Stray
    <3>7. n \in Stray(c)' => cameraOf[loop.old] = c /\ n \notin OnTheWay'
      BY <3>2 DEF Stray
    <3>8. loop'.new = n => n \in OnTheWay'
      BY DEF OnTheWay
    <3>9. CASE Stray(c)' \subseteq Stray(c)
      BY <1>1, <1>3, <1>4, <3>4, <3>9, Calm
    <3>10. CASE ~(Stray(c)' \subseteq Stray(c))
      <4>1. n \in Stray(c)'
        BY <3>6, <3>10
      <4>2. faults' = faults + 1 /\ Recorded(c) \cup Requests(c) \cup Moved(c) # {}
        BY <1>5, <2>1, <3>3, <3>7, <3>8, <4>1
      <4>3. QED
        BY <1>1, <1>3, <3>4, <3>6, <4>2, Paid
    <3>11. QED
      BY <3>9, <3>10
  <2>4. QED
    BY <1>10, <2>2, <2>3 DEF FailoverDispatch
<1>11. CASE FailoverDelete
  <2>1. UNCHANGED <<cameraOf, active>> /\ loop.pc = "delete"
    BY <1>11 DEF FailoverDelete, table
  <2>2. CASE Fault /\ Advance({loop.old}) /\ assigned' = assigned
    <3>1. loop' = Scan(loop.left \ {loop.old}) /\ faults' = faults + 1
      BY <2>2 DEF Advance, Fault
    <3>2. QED
      BY <1>6, <2>1, <2>2, <3>1
  <2>3. CASE DropOld /\ faults' = faults /\ loop' = [loop EXCEPT !.pc = "record"]
    <3>1. /\ loop'.pc = "record" /\ loop'.old = loop.old /\ loop'.left = loop.left
          /\ loop'.new = loop.new /\ loop'.target = loop.target
          /\ Running' = Running /\ Opened' = Opened /\ OnTheWay' = OnTheWay
      BY <1>1, <1>2, <2>1, <2>3 DEF LoopTypes, Running, Opened, OnTheWay
    <3>2. /\ loop.old \in Opened /\ loop.old \in loop.left /\ assigned[loop.old] # None
          /\ cameraOf[loop.new] = cameraOf[loop.old]
          /\ assigned'[loop.old] = None
          /\ \A s \in Streams \ {loop.old} : assigned'[s] = assigned[s]
      BY <1>1, <2>1, <2>3 DEF LeftInv, DropOld
    <3>3. /\ Requests(c)' = Requests(c) /\ Risky(c)' = Risky(c) /\ Moving(c)' \subseteq Moving(c)
          /\ Recorded(c)' \subseteq Recorded(c) \ {loop.old}
          /\ Moved(c)' \subseteq {loop.new}
          /\ cameraOf[loop.old] # c => Moved(c)' = {}
      BY <1>1, <1>2, <1>3, <2>1, <3>1, <3>2 DEF Recorded, Requests, Moved, Risky, Moving
    <3>4. Stray(c)' \subseteq Stray(c)
      BY <1>1, <1>3, <2>1, <3>1, <3>2 DEF Stray
    <3>5. CASE cameraOf[loop.old] # c
      BY <1>1, <1>3, <1>4, <3>3, <3>4, <3>5, Calm
    <3>6. CASE cameraOf[loop.old] = c
      <4>1. PICK k, n : k = starts[c] /\ n = starts[c] * faults
        OBVIOUS
      <4>2. k \in Nat /\ n \in Nat /\ k = starts'[c] /\ n = starts'[c] * faults'
        BY <1>1, <1>3, <2>3, <4>1, Products
      <4>3. loop.old \in Recorded(c)
        BY <3>2, <3>6 DEF Recorded
      <4>4. Fits(Moved(c), Recorded(c), Requests(c), k)
        BY <4>1, FitsSame DEF Budgets
      <4>5. /\ \E x : Moved(c)' \subseteq Moved(c) \cup {x}
            /\ \E y \in Recorded(c) : Recorded(c)' \subseteq Recorded(c) \ {y}
            /\ Requests(c)' \subseteq Requests(c)
        <5>1. /\ Moved(c)' \subseteq Moved(c) \cup {loop.new} /\ loop.old \in Recorded(c)
              /\ Recorded(c)' \subseteq Recorded(c) \ {loop.old} /\ Requests(c)' \subseteq Requests(c)
          BY <3>3, <4>3
        <5>2. QED
          BY <5>1
      <4>6. Fits(Moved(c)', Recorded(c)', Requests(c)', k)
        <5>1. k \in Nat
          BY <4>2
        <5>2. QED
          BY <4>4, <4>5, <5>1, FitsTurned
      <4>7. Fits(Recorded(c)', Requests(c)', Moved(c)', k)
        BY <4>6, FitsSame
      <4>8. Fits(Stray(c)', Risky(c)', Moving(c)', n)
        <5>1. Fits(Stray(c), Risky(c), Moving(c), n) /\ n \in Nat
          BY <4>1, <4>2 DEF Budgets
        <5>2. QED
          BY <3>3, <3>4, <5>1, FitsLess
      <4>9. QED
        BY <4>2, <4>7, <4>8 DEF Budgets
    <3>7. QED
      BY <3>5, <3>6
  <2>4. QED
    BY <1>11, <2>2, <2>3 DEF FailoverDelete
<1>12. CASE FailoverRecord
  <2>1. /\ UNCHANGED <<cameraOf, active>> /\ loop.pc = "record"
        /\ loop' = Scan(loop.left \ {loop.old})
    BY <1>12 DEF FailoverRecord, table, Advance
  <2>2. CASE Fault /\ assigned' = assigned
    <3>1. faults' = faults + 1
      BY <2>2 DEF Fault
    <3>2. QED
      BY <1>6, <2>1, <2>2, <3>1
  <2>3. CASE RecordNew /\ faults' = faults
    <3>1. PICK s, e : s = loop.new /\ e = loop.target
      OBVIOUS
    <3>2. /\ loop'.pc \in {"idle", "lookup"} /\ loop'.left = loop.left \ {loop.old}
          /\ Running' = Running /\ Opened' = Opened /\ s \in Opened /\ e \in Extractors
          /\ s \notin loop.left /\ cameraOf[s] = cameraOf[loop.old]
          /\ assigned'[s] = e /\ \A t \in Streams \ {s} : assigned'[t] = assigned[t]
      BY <1>1, <2>1, <2>3, <3>1 DEF Scan, Running, Opened, RecordNew, LeftInv
    <3>3. /\ Requests(c)' = Requests(c) /\ Risky(c)' = Risky(c)
          /\ Moving(c)' = {} /\ Moved(c)' = {}
          /\ Recorded(c)' \subseteq Recorded(c) \cup {s}
          /\ cameraOf[s] # c => Recorded(c)' \subseteq Recorded(c)
      BY <1>1, <1>2, <1>3, <2>1, <3>2 DEF Recorded, Requests, Moved, Risky, Moving
    <3>4. \A t \in Opened : t # s /\ t \in OnTheWay => t \in OnTheWay'
      BY <1>2, <3>1 DEF OnTheWay
    <3>5. /\ Stray(c)' \subseteq Stray(c) \cup {s}
          /\ cameraOf[s] # c \/ e \notin Doubtful => Stray(c)' \subseteq Stray(c)
      BY <1>1, <1>3, <2>1, <3>2, <3>4 DEF Stray
    <3>6. CASE cameraOf[s] # c
      BY <1>1, <1>3, <1>4, <3>3, <3>5, <3>6, Calm
    <3>7. CASE cameraOf[s] = c
      <4>1. PICK k, n : k = starts[c] /\ n = starts[c] * faults
        OBVIOUS
      <4>2. k \in Nat /\ n \in Nat /\ k = starts'[c] /\ n = starts'[c] * faults'
        BY <1>1, <1>3, <2>3, <4>1, Products
      <4>3. s \in Moved(c)
        BY <2>1, <3>1, <3>7 DEF Moved
      <4>4. Fits(Recorded(c), Moved(c), Requests(c), k)
        BY <4>1, FitsSame DEF Budgets
      <4>5. /\ \E x : Recorded(c)' \subseteq Recorded(c) \cup {x}
            /\ \E y \in Moved(c) : Moved(c)' \subseteq Moved(c) \ {y}
            /\ Requests(c)' \subseteq Requests(c)
        BY <3>3, <4>3
      <4>6. Fits(Recorded(c)', Moved(c)', Requests(c)', k)
        <5>1. k \in Nat
          BY <4>2
        <5>2. QED
          BY <4>4, <4>5, <5>1, FitsTurned
      <4>7. Fits(Recorded(c)', Requests(c)', Moved(c)', k)
        BY <4>6, FitsSame
      <4>8. Fits(Stray(c), Risky(c), Moving(c), n) /\ n \in Nat
        BY <4>1, <4>2 DEF Budgets
      <4>9. CASE e \in Doubtful
        <5>1. loop.old \in Moving(c)
          BY <2>1, <3>1, <3>2, <3>7, <4>9 DEF Moving
        <5>2. Fits(Stray(c), Moving(c), Risky(c), n)
          BY <4>8, FitsSame
        <5>3. /\ \E x : Stray(c)' \subseteq Stray(c) \cup {x}
              /\ \E y \in Moving(c) : Moving(c)' \subseteq Moving(c) \ {y}
              /\ Risky(c)' \subseteq Risky(c)
          BY <3>3, <3>5, <5>1
        <5>4. Fits(Stray(c)', Moving(c)', Risky(c)', n)
          BY <4>8, <5>2, <5>3, FitsTurned
        <5>5. Fits(Stray(c)', Risky(c)', Moving(c)', n)
          BY <5>4, FitsSame
        <5>6. QED
          BY <4>2, <4>7, <5>5 DEF Budgets
      <4>10. CASE e \notin Doubtful
        <5>1. /\ Stray(c)' \subseteq Stray(c) /\ Risky(c)' \subseteq Risky(c)
              /\ Moving(c)' \subseteq Moving(c)
          BY <3>3, <3>5, <4>10
        <5>2. Fits(Stray(c)', Risky(c)', Moving(c)', n)
          BY <4>8, <5>1, FitsLess
        <5>3. QED
          BY <4>2, <4>7, <5>2 DEF Budgets
      <4>11. QED
        BY <4>9, <4>10
    <3>8. QED
      BY <3>6, <3>7
  <2>4. QED
    BY <1>12, <2>2, <2>3 DEF FailoverRecord
<1>13. QED
  BY <1>7, <1>8, <1>9, <1>10, <1>11, <1>12 DEF Reconcile

BudgetInv == \A c \in Cameras : Budgets(c)

LEMMA Budgeted == Spec => []BudgetInv
<1>1. Init => BudgetInv
  <2> SUFFICES ASSUME Init, NEW c \in Cameras PROVE Budgets(c)
    BY DEF BudgetInv
  <2>1. /\ Recorded(c) = {} /\ Requests(c) = {} /\ Moved(c) = {}
        /\ Stray(c) = {} /\ Risky(c) = {} /\ Moving(c) = {}
    BY DEF Init, Recorded, Requests, Moved, Stray, Risky, Moving, Running, Idle, Request, Waiting,
           Scan, Opened
  <2>2. starts[c] = 0 /\ faults = 0
    BY DEF Init
  <2>3. QED
    BY <2>1, <2>2, FS_EmptySet DEF Budgets, Fits
<1>2. IndInv /\ PathInv /\ TypeOK /\ BudgetInv /\ [Next]_vars => BudgetInv'
  <2> SUFFICES ASSUME IndInv, PathInv, TypeOK, BudgetInv, [Next]_vars, NEW c \in Cameras
               PROVE  Budgets(c)'
    BY DEF BudgetInv
  <2>1. Budgets(c) /\ starts \in [Cameras -> Nat] /\ starts[c] \in Nat /\ faults \in Nat
    BY PlacementAssumption DEF BudgetInv, TypeOK
  <2>2. CASE Next
    BY <2>1, <2>2, BudgetRouting, BudgetExtracting, BudgetReconciling DEF Next
  <2>3. CASE UNCHANGED vars
    <3>1. UNCHANGED <<up, alive, active, cameraOf, assigned, loop, job, starts, faults>>
      BY <2>3 DEF vars, node, table, registry
    <3>2. QED
      BY <2>1, <3>1 DEF Budgets, Recorded, Requests, Moved, Stray, Risky, Moving, Running,
                        OnTheWay, Doubtful, Opened
  <2>4. QED
    BY <2>2, <2>3
<1>3. QED
  BY <1>1, <1>2, Invariance, Paths, TypeCorrect, PTL DEF Spec

LEMMA ImageSmall ==
  ASSUME NEW B, IsFiniteSet(B), NEW f
  PROVE  /\ IsFiniteSet({f[x] : x \in B}) /\ Cardinality({f[x] : x \in B}) <= Cardinality(B)
<1> DEFINE T == {f[x] : x \in B}
           g == [x \in B |-> f[x]]
<1>1. g \in Surjection(B, T)
  BY DEF Surjection
<1> HIDE DEF T, g
<1>2. IsFiniteSet(T) /\ Cardinality(T) <= Cardinality(B)
  BY <1>1, FS_Surjection
<1>3. QED
  BY <1>2 DEF T

\* The streams of a camera are its starts' and stray ones.
LEMMA CopiesCounted ==
  ASSUME IndInv, PathInv, NEW c \in Cameras, Budgets(c), starts[c] \in Nat, faults \in Nat
  PROVE  Cardinality({s \in Running : cameraOf[s] = c}) <= starts[c] * (1 + faults)
<1> DEFINE R == {s \in Running : cameraOf[s] = c}
           f == [q \in Requests(c) |-> job[q].stream]
           I == {f[q] : q \in Requests(c)}
<1>1. /\ IsFiniteSet(Recorded(c)) /\ IsFiniteSet(Requests(c)) /\ IsFiniteSet(Moved(c))
      /\ IsFiniteSet(Stray(c)) /\ IsFiniteSet(Risky(c)) /\ IsFiniteSet(Moving(c))
      /\ Cardinality(Recorded(c)) + Cardinality(Requests(c)) + Cardinality(Moved(c)) <= starts[c]
      /\ Cardinality(Stray(c)) + Cardinality(Risky(c)) + Cardinality(Moving(c))
           <= starts[c] * faults
  BY DEF Budgets, Fits
<1>2. /\ Cardinality(Recorded(c)) \in Nat /\ Cardinality(Requests(c)) \in Nat
      /\ Cardinality(Moved(c)) \in Nat /\ Cardinality(Stray(c)) \in Nat
      /\ Cardinality(Risky(c)) \in Nat /\ Cardinality(Moving(c)) \in Nat
  BY <1>1, FS_CardinalityType
<1>3. /\ IsFiniteSet(I) /\ Cardinality(I) <= Cardinality(Requests(c))
  BY <1>1, ImageSmall
<1>4. Cardinality(I) \in Nat
  BY <1>3, FS_CardinalityType
<1>5. starts[c] * (1 + faults) = starts[c] + starts[c] * faults /\ starts[c] * faults \in Nat
  BY Products
<1>6. /\ Running \subseteq Opened /\ 0 \notin Opened /\ LeftInv /\ RouteInv
      /\ loop.pc \in {"idle", "lookup", "dispatch", "delete", "record"}
      /\ loop.left \subseteq Opened
  BY Ranges DEF PathInv, IndInv, LoopInv, LoopTypes
<1>7. ASSUME NEW s \in R
      PROVE  s \in Recorded(c) \cup Stray(c) \cup I \/ (s = loop.new /\ s # 0 /\ cameraOf[s] = c)
  <2>1. s \in Running /\ s \in Opened /\ s # 0 /\ cameraOf[s] = c
    BY <1>6
  <2>2. CASE s \notin OnTheWay
    BY <2>1, <2>2 DEF Recorded, Stray
  <2>3. CASE s \in OnTheWay /\ s # loop.new
    <3>1. PICK q \in Routers : s = job[q].stream
      BY <2>3 DEF OnTheWay
    <3>2. q \in Requests(c)
      BY <1>6, <2>1, <3>1 DEF RouteInv, Requests
    <3>3. QED
      BY <3>1, <3>2
  <2>4. QED
    BY <2>1, <2>2, <2>3
<1> HIDE DEF R, I, f
<1>8. CASE R \subseteq Recorded(c) \cup Stray(c) \cup I
  <2>1. /\ IsFiniteSet(Recorded(c) \cup Stray(c))
        /\ Cardinality(Recorded(c) \cup Stray(c)) <= Cardinality(Recorded(c)) + Cardinality(Stray(c))
        /\ Cardinality(Recorded(c) \cup Stray(c)) \in Nat
    BY <1>1, Join
  <2>2. Cardinality(R) <= Cardinality(Recorded(c) \cup Stray(c)) + Cardinality(I) /\ Cardinality(R) \in Nat
    BY <1>3, <1>8, <2>1, Join
  <2>3. QED
    BY <1>1, <1>2, <1>3, <1>4, <1>5, <2>1, <2>2 DEF R
\* The new stream runs beside them; at "delete" it stands for the old one, which is stray if it runs.
<1>9. CASE loop.new # 0 /\ cameraOf[loop.new] = c
  <2>1. loop.pc \in {"delete", "record"} /\ cameraOf[loop.old] = c
    BY <1>6, <1>9 DEF LeftInv
  <2>2. CASE loop.pc = "record"
    <3>1. Moved(c) = {loop.new}
      BY <1>9, <2>2 DEF Moved
    <3>2. Cardinality(Moved(c)) = 1
      BY <3>1, FS_Singleton
    <3>3. /\ IsFiniteSet(Recorded(c) \cup Moved(c))
          /\ Cardinality(Recorded(c) \cup Moved(c)) <= Cardinality(Recorded(c)) + Cardinality(Moved(c))
          /\ Cardinality(Recorded(c) \cup Moved(c)) \in Nat
      BY <1>1, Join
    <3>4. /\ IsFiniteSet(Stray(c) \cup I) /\ Cardinality(Stray(c) \cup I) \in Nat
          /\ Cardinality(Stray(c) \cup I) <= Cardinality(Stray(c)) + Cardinality(I)
      BY <1>1, <1>3, Join
    <3>5. R \subseteq (Recorded(c) \cup Moved(c)) \cup (Stray(c) \cup I)
      BY <1>7, <3>1
    <3>6. /\ Cardinality(R) <= Cardinality(Recorded(c) \cup Moved(c)) + Cardinality(Stray(c) \cup I)
          /\ Cardinality(R) \in Nat
      BY <3>3, <3>4, <3>5, Join
    <3>7. QED
      BY <1>1, <1>2, <1>3, <1>4, <1>5, <3>3, <3>4, <3>6 DEF R
  <2>3. CASE loop.pc = "delete"
    <3>1. /\ loop.old \in loop.left /\ loop.old \in Opened /\ assigned[loop.old] # None
          /\ loop.old \notin OnTheWay
      <4>1. loop.old \in loop.left /\ loop.old \in Opened /\ loop.old # 0 /\ loop.new # loop.old
        BY <1>6, <2>3 DEF LeftInv
      <4>2. \A q \in Routers : job[q].stream # loop.old
        BY <1>6, <4>1 DEF RouteInv
      <4>3. QED
        BY <1>6, <2>3, <4>1, <4>2 DEF LeftInv, OnTheWay
    <3>2. loop.old \in Recorded(c) /\ (loop.old \in Running => loop.old \in Stray(c))
      BY <2>1, <3>1 DEF Recorded, Stray
    <3>3. loop.old \in R => loop.old \in Stray(c)
      BY <3>2 DEF R
    <3> DEFINE A == Recorded(c) \ {loop.old}
    <3>4. /\ IsFiniteSet(A) /\ Cardinality(A) <= Cardinality(Recorded(c)) - 1 /\ Cardinality(A) \in Nat
      BY <1>1, <3>2, Drop
    <3>5. R \subseteq (A \cup {loop.new}) \cup (Stray(c) \cup I)
      BY <1>7, <3>3
    <3> HIDE DEF A
    <3>6. /\ IsFiniteSet(A \cup {loop.new}) /\ Cardinality(A \cup {loop.new}) <= Cardinality(A) + 1
          /\ Cardinality(A \cup {loop.new}) \in Nat
      BY <3>4, Grow
    <3>7. /\ IsFiniteSet(Stray(c) \cup I) /\ Cardinality(Stray(c) \cup I) \in Nat
          /\ Cardinality(Stray(c) \cup I) <= Cardinality(Stray(c)) + Cardinality(I)
      BY <1>1, <1>3, Join
    <3>8. /\ Cardinality(R) <= Cardinality(A \cup {loop.new}) + Cardinality(Stray(c) \cup I)
          /\ Cardinality(R) \in Nat
      BY <3>5, <3>6, <3>7, Join
    <3>9. QED
      BY <1>1, <1>2, <1>3, <1>4, <1>5, <3>4, <3>6, <3>7, <3>8 DEF R
  <2>4. QED
    BY <2>1, <2>2, <2>3
<1>10. QED
  BY <1>7, <1>8, <1>9

\* A camera runs more often than it was started, or off the registry's books, only for a reason:
\* each lost call or answer, missed heartbeat or registry crash adds a copy per start at most,
\* whatever the routers, the failover loop and the extractors do at the same time.
THEOREM StraysCounted == Spec => []StraysPaidFor
<1>1. ASSUME IndInv, PathInv, TypeOK, BudgetInv PROVE StraysPaidFor
  <2>1. ASSUME NEW c \in Cameras PROVE Budgets(c) /\ starts[c] \in Nat /\ faults \in Nat
    BY <1>1, PlacementAssumption DEF BudgetInv, TypeOK
  <2>2. CopiesPaidFor
    BY <1>1, <2>1, CopiesCounted DEF CopiesPaidFor
  <2>3. UntrackedPaidFor
    <3>1. ASSUME NEW c \in Cameras
          PROVE  Cardinality({s \in Running \ OnTheWay : assigned[s] = None /\ cameraOf[s] = c})
                   <= starts[c] * faults
      <4>1. PICK U : U = {s \in Running \ OnTheWay : assigned[s] = None /\ cameraOf[s] = c}
        OBVIOUS
      <4>2. U \subseteq Stray(c)
        BY <4>1 DEF Stray
      <4>3. /\ IsFiniteSet(Stray(c)) /\ IsFiniteSet(Risky(c)) /\ IsFiniteSet(Moving(c))
            /\ Cardinality(Stray(c)) + Cardinality(Risky(c)) + Cardinality(Moving(c))
                 <= starts[c] * faults
        BY <2>1 DEF Budgets, Fits
      <4>4. Cardinality(Risky(c)) \in Nat /\ Cardinality(Moving(c)) \in Nat
        BY <4>3, FS_CardinalityType
      <4>5. /\ Cardinality(U) <= Cardinality(Stray(c))
            /\ Cardinality(U) \in Nat /\ Cardinality(Stray(c)) \in Nat
        BY <4>2, <4>3, Sub
      <4>6. starts[c] * faults \in Nat
        BY <2>1, Products
      <4>7. Cardinality(U) <= starts[c] * faults
        BY <4>3, <4>4, <4>5, <4>6
      <4>8. QED
        BY <4>1, <4>7
    <3>2. QED
      BY <3>1 DEF UntrackedPaidFor, OnTheWay
  <2>4. QED
    BY <1>1, <2>2, <2>3 DEF StraysPaidFor
<1>2. QED
  BY <1>1, Invariance, Paths, TypeCorrect, Budgeted, PTL

================================================================================
