---------------------------- MODULE FileJobsProofs -----------------------------
(***************************************************************************)
(* Theorems about FileJobs, for any number of extractors, slots, videos    *)
(* and segments, and any number of crashes and failing calls.  Whatever an *)
(* extractor may still get, a job while it can be claimed and one more     *)
(* when it comes back, counts as load from the start: JobsInv pays for it. *)
(* Then about StreamReplay, for any number of replays of any stream.       *)
(***************************************************************************)
EXTENDS FileJobs, StreamReplay, FiniteSetTheorems, TLAPS

\* The stages that count as load.
Loading == OnNode \cup {"claimed"}

\* The state has its type; a segment that is not claimed yet is new, and what is on an extractor's
\* node ends with it.
JobType ==
  /\ up \subseteq Extractors /\ silent \subseteq Extractors
  /\ status \in [Extractors -> {"available", "busy"}] /\ index \in Extractors
  /\ next \in [Videos -> 1 .. Segments + 1]
  /\ at \in [Jobs -> Extractors \cup {None}]
  /\ stage \in [Jobs -> {"new", "claimed"} \cup OnNode \cup Over]
  /\ \A j \in Jobs : (stage[j] = "new") = (at[j] = None)
  /\ leaked \in [Extractors -> 0 .. Threads]
  /\ crashes \in 0 .. MaxCrashes /\ faults \in 0 .. MaxFaults

PlaceInv ==
  /\ \A v \in Videos : \A i \in next[v] .. Segments : stage[<<v, i>>] = "new"
  /\ \A j \in Jobs : stage[j] \in OnNode => at[j] \in up

SlotInv == \A e \in Extractors : SlotsTaken(e) <= Threads

\* What an extractor may get on top of its load without another crash or fault: a job, as long as
\* it can be claimed, and the one that it can be claimed for once it is back.
Room(e) == (IF Claimable(e) THEN 1 ELSE 0) + (IF e \in up THEN 0 ELSE 1)

LoadInv == \A e \in Extractors : Load(e) + Room(e) <= 1 + crashes + faults

\* Extractors that are busy with nothing, or would be found so if they were: a crash or a fault each.
Wasted == {e \in Extractors : e \notin up \/ (status[e] = "busy" /\ Load(e) = 0)}

WasteInv == Cardinality(Wasted) <= crashes + faults

JobsInv == JobType /\ PlaceInv /\ SlotInv /\ LoadInv /\ WasteInv

--------------------------------------------------------------------------------
(* Sets of jobs.                                                                *)

LEMMA JobsFinite == IsFiniteSet(Jobs) /\ IsFiniteSet(Extractors)
<1>1. IsFiniteSet(1 .. Segments) /\ IsFiniteSet(0 .. N - 1)
  BY FileJobsAssumption, FS_Interval
<1>2. QED
  BY <1>1, FileJobsAssumption, FS_Product DEF Jobs, Extractors

LEMMA OnFinite ==
  ASSUME NEW e, NEW S
  PROVE  IsFiniteSet(On(e, S)) /\ Cardinality(On(e, S)) \in Nat
<1>1. On(e, S) \subseteq Jobs
  BY DEF On
<1>2. QED
  BY <1>1, JobsFinite, FS_Subset, FS_CardinalityType

\* A smaller set of jobs.
LEMMA OnShrinks ==
  ASSUME NEW e, NEW S, NEW T, T \subseteq On(e, S)
  PROVE  Cardinality(T) \in Nat /\ Cardinality(T) <= Cardinality(On(e, S))
BY OnFinite, FS_Subset, FS_CardinalityType

\* One job fewer, or one more.
LEMMA OnLoses ==
  ASSUME NEW e, NEW S, NEW j \in On(e, S), NEW T, T = On(e, S) \ {j}
  PROVE  Cardinality(T) \in Nat /\ Cardinality(T) = Cardinality(On(e, S)) - 1
BY OnFinite, FS_RemoveElement, FS_CardinalityType

LEMMA OnGains ==
  ASSUME NEW e, NEW S, NEW j, j \notin On(e, S), NEW T, T = On(e, S) \cup {j}
  PROVE  Cardinality(T) \in Nat /\ Cardinality(T) = Cardinality(On(e, S)) + 1
BY OnFinite, FS_AddElement, FS_CardinalityType

\* The load is none exactly when there is no job.
LEMMA LoadZero ==
  ASSUME NEW e
  PROVE  Load(e) \in Nat /\ (Load(e) = 0) = (On(e, Loading) = {})
<1>1. Load(e) = Cardinality(On(e, Loading)) /\ IsFiniteSet(On(e, Loading))
  BY OnFinite DEF Load, Loading
<1>2. QED
  BY <1>1, OnFinite, FS_EmptySet

\* At most one more extractor is wasted.
LEMMA WasteGrows ==
  ASSUME NEW A \in SUBSET Extractors, NEW B \in SUBSET Extractors, NEW e, B \subseteq A \cup {e}
  PROVE  /\ Cardinality(A) \in Nat /\ Cardinality(B) \in Nat
         /\ Cardinality(B) <= Cardinality(A) + 1
         /\ B \subseteq A => Cardinality(B) <= Cardinality(A)
<1>1. IsFiniteSet(A) /\ IsFiniteSet(B)
  BY JobsFinite, FS_Subset
<1>0. Cardinality(A) \in Nat
  BY <1>1, FS_CardinalityType
<1>2. IsFiniteSet(A \cup {e}) /\ Cardinality(A \cup {e}) <= Cardinality(A) + 1
  <2>1. CASE e \in A
    <3>1. A \cup {e} = A
      BY <2>1
    <3>2. QED
      BY <1>0, <1>1, <3>1
  <2>2. CASE e \notin A
    <3>1. IsFiniteSet(A \cup {e}) /\ Cardinality(A \cup {e}) = Cardinality(A) + 1
      BY <1>1, <2>2, FS_AddElement
    <3>2. QED
      BY <1>0, <3>1
  <2>3. QED
    BY <2>1, <2>2
<1>3. /\ Cardinality(A) \in Nat /\ Cardinality(B) \in Nat /\ Cardinality(A \cup {e}) \in Nat
      /\ Cardinality(B) <= Cardinality(A \cup {e}) /\ (B \subseteq A => Cardinality(B) <= Cardinality(A))
  BY <1>1, <1>2, FS_Subset, FS_CardinalityType
<1>4. QED
  BY <1>2, <1>3

--------------------------------------------------------------------------------
(* What a step does to loads.                                                   *)

\* Nothing, where no job moves.
LEMMA Unmoved ==
  ASSUME UNCHANGED <<at, stage>>
  PROVE  \A e, S : On(e, S)' = On(e, S) /\ Load(e)' = Load(e)
BY DEF On, Load

LEMMA MovedOn ==
  ASSUME JobType, NEW j \in Jobs, NEW s, Move(j, s), at' = at, NEW e, NEW S
  PROVE  /\ at[j] # e \/ (stage[j] \in S) = (s \in S) => On(e, S)' = On(e, S)
         /\ at[j] = e /\ stage[j] \in S /\ s \notin S => j \in On(e, S) /\ On(e, S)' = On(e, S) \ {j}
         /\ at[j] = e /\ stage[j] \notin S /\ s \in S => j \notin On(e, S) /\ On(e, S)' = On(e, S) \cup {j}
BY DEF JobType, Move, On

\* A job that moves within the load, or out of it.
LEMMA MovedLoad ==
  ASSUME JobType, NEW j \in Jobs, stage[j] \in Loading, NEW s, Move(j, s), at' = at, NEW e
  PROVE  /\ Load(e) \in Nat /\ Load(e)' \in Nat
         /\ at[j] # e \/ s \in Loading => Load(e)' = Load(e)
         /\ at[j] = e /\ s \notin Loading => Load(e)' = Load(e) - 1
         /\ at[j] = e => Load(e) > 0
         /\ at[j] = e /\ s \in Loading => Load(e)' > 0
<1>1. Load(e) = Cardinality(On(e, Loading)) /\ Load(e)' = Cardinality(On(e, Loading)')
  BY DEF Load, On, Loading
<1>2. Load(e) \in Nat /\ (at[j] = e => Load(e) > 0)
  BY LoadZero DEF On
<1>3. CASE at[j] # e \/ s \in Loading
  BY <1>1, <1>2, <1>3, MovedOn
<1>4. CASE at[j] = e /\ s \notin Loading
  <2>1. j \in On(e, Loading) /\ On(e, Loading)' = On(e, Loading) \ {j}
    BY <1>4, MovedOn
  <2>2. QED
    BY <1>1, <1>2, <1>4, <2>1, OnLoses
<1>5. QED
  BY <1>2, <1>3, <1>4

\* The same for slots.
LEMMA MovedSlots ==
  ASSUME JobType, NEW j \in Jobs, NEW s, Move(j, s), at' = at, NEW e \in Extractors
  PROVE  /\ Cardinality(On(e, InSlot)) \in Nat /\ Cardinality(On(e, InSlot)') \in Nat
         /\ at[j] # e \/ (stage[j] \in InSlot) = (s \in InSlot) =>
              Cardinality(On(e, InSlot)') = Cardinality(On(e, InSlot))
         /\ at[j] = e /\ stage[j] \in InSlot /\ s \notin InSlot =>
              Cardinality(On(e, InSlot)') = Cardinality(On(e, InSlot)) - 1
         /\ at[j] = e /\ stage[j] \notin InSlot /\ s \in InSlot =>
              Cardinality(On(e, InSlot)') = Cardinality(On(e, InSlot)) + 1
<1>1. Cardinality(On(e, InSlot)) \in Nat
  BY OnFinite
<1>2. CASE at[j] # e \/ (stage[j] \in InSlot) = (s \in InSlot)
  BY <1>1, <1>2, MovedOn
<1>3. CASE at[j] = e /\ stage[j] \in InSlot /\ s \notin InSlot
  <2>1. j \in On(e, InSlot) /\ On(e, InSlot)' = On(e, InSlot) \ {j}
    BY <1>3, MovedOn
  <2>2. QED
    BY <1>1, <1>3, <2>1, OnLoses
<1>4. CASE at[j] = e /\ stage[j] \notin InSlot /\ s \in InSlot
  <2>1. j \notin On(e, InSlot) /\ On(e, InSlot)' = On(e, InSlot) \cup {j}
    BY <1>4, MovedOn
  <2>2. QED
    BY <1>1, <1>4, <2>1, OnGains
<1>5. QED
  BY <1>2, <1>3, <1>4

\* No extractor is charged with more than the step pays for, and no more than one is wasted.
LEMMA LoadStep ==
  ASSUME LoadInv, \A e \in Extractors :
           /\ {Load(e) + Room(e), Load(e)' + Room(e)', crashes, crashes', faults, faults'} \subseteq Int
           /\ Load(e)' + Room(e)' + crashes + faults <= Load(e) + Room(e) + crashes' + faults'
  PROVE  LoadInv'
<1> SUFFICES ASSUME NEW e \in Extractors PROVE Load(e)' + Room(e)' <= 1 + crashes' + faults'
  BY DEF LoadInv
<1> DEFINE before == Load(e) + Room(e)
           after == Load(e)' + Room(e)'
<1>1. before <= 1 + crashes + faults
  BY DEF LoadInv
<1>2. {before, after, crashes, crashes', faults, faults'} \subseteq Int
      /\ after + crashes + faults <= before + crashes' + faults'
  OBVIOUS
<1> HIDE DEF before, after
<1>3. after <= 1 + crashes' + faults'
  BY <1>1, <1>2
<1>4. QED
  BY <1>3 DEF after

LEMMA WasteStep ==
  ASSUME WasteInv, JobType, JobType', NEW e, Wasted' \subseteq Wasted \cup {e},
         crashes' + faults' >= crashes + faults,
         crashes' + faults' > crashes + faults \/ Wasted' \subseteq Wasted
  PROVE  WasteInv'
<1>1. Wasted \subseteq Extractors /\ Wasted' \subseteq Extractors
  BY DEF Wasted
<1>2. /\ Cardinality(Wasted) \in Nat /\ Cardinality(Wasted)' \in Nat
      /\ Cardinality(Wasted)' <= Cardinality(Wasted) + 1
      /\ Wasted' \subseteq Wasted => Cardinality(Wasted)' <= Cardinality(Wasted)
  BY <1>1, WasteGrows
<1>3. {crashes, faults, crashes', faults'} \subseteq Int
  BY FileJobsAssumption DEF JobType
<1>4. QED
  BY <1>2, <1>3 DEF WasteInv

--------------------------------------------------------------------------------
(* The steps.                                                                   *)

LEMMA InitJobsInv == Init => JobsInv
<1> SUFFICES ASSUME Init PROVE JobsInv
  OBVIOUS
<1> USE FileJobsAssumption
<1>1. JobType
  BY DEF Init, JobType, Extractors, None, OnNode, InSlot, Over
<1>2. PlaceInv
  BY DEF Init, PlaceInv, OnNode, InSlot, Jobs
<1>3. \A e \in Extractors : On(e, InSlot) = {} /\ On(e, Loading) = {}
  BY DEF Init, On, None, Extractors
<1>4. \A e \in Extractors : SlotsTaken(e) = 0 /\ Load(e) = 0
  <2> SUFFICES ASSUME NEW e \in Extractors PROVE SlotsTaken(e) = 0 /\ Load(e) = 0
    OBVIOUS
  <2>1. Cardinality(On(e, InSlot)) = 0
    BY <1>3, OnFinite, FS_EmptySet
  <2>2. leaked[e] = 0
    BY DEF Init
  <2>3. QED
    BY <1>3, <2>1, <2>2, LoadZero DEF SlotsTaken
<1>5. SlotInv
  BY <1>4 DEF SlotInv
<1>6. LoadInv
  BY <1>4 DEF LoadInv, Room, Init
<1>7. Wasted = {}
  BY DEF Wasted, Init
<1>8. WasteInv
  BY <1>7, FS_EmptySet DEF WasteInv, Init
<1>9. QED
  BY <1>1, <1>2, <1>5, <1>6, <1>8 DEF JobsInv

\* A job goes on with its extractor, or is over.  It may report the extractor busy as long as it
\* goes on, and available once it is over; without a fault it does not leave it busy.
LEMMA JobStep ==
  ASSUME JobsInv, NEW j \in Jobs, stage[j] \in Loading, NEW s \in Loading \cup Over, Move(j, s),
         UNCHANGED <<at, up, next, index, crashes>>, UNCHANGED faults \/ Fault,
         \/ UNCHANGED <<status, silent>>
         \/ UpdateStatus(at[j], "busy") /\ (s \in Loading \/ Fault)
         \/ UpdateStatus(at[j], "available") /\ s \in Over,
         \/ UNCHANGED leaked /\ (s \in InSlot /\ stage[j] \notin InSlot => HasSlot(at[j]))
         \/ leaked' = [leaked EXCEPT ![at[j]] = @ + 1] /\ stage[j] \in InSlot /\ s \notin InSlot,
         s \in OnNode => at[j] \in up,
         s \in Over => Fault \/ status'[at[j]] = "available" \/ at[j] \notin up
  PROVE  JobsInv'
<1> USE FileJobsAssumption
<1>inv. JobType /\ PlaceInv /\ SlotInv /\ LoadInv /\ WasteInv
  BY DEF JobsInv
<1> DEFINE e == at[j]
<1>1. e \in Extractors /\ s # "new" /\ stage' = [stage EXCEPT ![j] = s]
  BY <1>inv DEF JobType, Loading, OnNode, InSlot, Over, Move
<1>2. faults' \in 0 .. MaxFaults /\ faults' >= faults /\ (Fault => faults' = faults + 1)
      /\ {crashes, crashes', faults, faults'} \subseteq Nat
  BY <1>inv DEF Fault, JobType
<1> HIDE DEF e
<1>3. /\ status' \in [Extractors -> {"available", "busy"}] /\ silent' \subseteq silent
      /\ \A f \in Extractors \ {e} : status'[f] = status[f] /\ (f \in silent' <=> f \in silent)
  BY <1>inv, <1>1 DEF JobType, UpdateStatus, e
<1>4. \A f \in Extractors :
        /\ SlotsTaken(f)' <= Threads
        /\ leaked'[f] \in Nat
  <2> SUFFICES ASSUME NEW f \in Extractors PROVE SlotsTaken(f)' <= Threads /\ leaked'[f] \in Nat
    OBVIOUS
  <2>1. /\ SlotsTaken(f) = Cardinality(On(f, InSlot)) + leaked[f] /\ SlotsTaken(f) <= Threads
        /\ SlotsTaken(f)' = Cardinality(On(f, InSlot)') + leaked'[f] /\ leaked[f] \in Nat
    BY <1>inv DEF SlotsTaken, SlotInv, JobType
  <2>2. CASE UNCHANGED leaked /\ (s \in InSlot /\ stage[j] \notin InSlot => HasSlot(e))
    BY <1>inv, <2>1, <2>2, MovedSlots DEF HasSlot, e
  <2>3. CASE leaked' = [leaked EXCEPT ![e] = @ + 1] /\ stage[j] \in InSlot /\ s \notin InSlot
    <3>1. leaked'[f] = IF f = e THEN leaked[f] + 1 ELSE leaked[f]
      BY <1>inv, <1>1, <2>3 DEF JobType
    <3>2. QED
      BY <1>inv, <2>1, <2>3, <3>1, MovedSlots DEF e
  <2>4. QED
    BY <2>2, <2>3 DEF e
<1>5. leaked' \in [Extractors -> 0 .. Threads]
  <2>1. leaked' \in [Extractors -> Int]
    BY <1>inv, <1>1 DEF JobType
  <2>2. \A f \in Extractors : Cardinality(On(f, InSlot)') \in Nat
    BY <1>inv, MovedSlots
  <2>3. \A f \in Extractors : leaked'[f] \in 0 .. Threads
    BY <1>4, <2>1, <2>2 DEF SlotsTaken
  <2>4. QED
    BY <2>1, <2>3
<1>6. JobType'
  <2>1. s \in {"claimed"} \cup OnNode \cup Over
    BY DEF Loading
  <2>2. stage' \in [Jobs -> {"new", "claimed"} \cup OnNode \cup Over]
    BY <1>inv, <1>1, <2>1 DEF JobType
  <2>3. stage[j] # "new" /\ \A k \in Jobs \ {j} : stage'[k] = stage[k]
    BY <1>inv, <1>1 DEF JobType, Loading, OnNode, InSlot
  <2>4. stage'[j] = s
    BY <1>inv, <1>1 DEF JobType
  <2>5. ASSUME NEW k \in Jobs PROVE (stage'[k] = "new") = (at'[k] = None)
    BY <1>inv, <1>1, <2>3, <2>4 DEF JobType
  <2>6. QED
    BY <1>inv, <1>2, <1>3, <1>5, <2>2, <2>5 DEF JobType
<1>7. PlaceInv'
  BY <1>inv, <1>1 DEF PlaceInv, JobType, Loading, OnNode, InSlot, e
<1>8. SlotInv'
  BY <1>4 DEF SlotInv
<1>9. \A f \in Extractors :
        /\ Load(f) \in Nat /\ Load(f)' \in Nat
        /\ f # e \/ s \in Loading => Load(f)' = Load(f)
        /\ f = e /\ s \notin Loading => Load(f)' = Load(f) - 1
        /\ f = e /\ s \in Loading => Load(f)' > 0
  BY <1>inv, MovedLoad DEF e
<1>10. \A f \in Extractors :
         /\ Room(f) \in Nat /\ Room(f)' \in Nat /\ Room(f)' <= Room(f) + 1
         /\ f # e => Room(f)' = Room(f)
         /\ s \in Loading => Room(f)' <= Room(f) \/ Fault
  <2>1. Loading \cap Over = {}
    BY DEF Loading, OnNode, InSlot, Over
  <2>2. QED
    BY <1>inv, <1>1, <1>3, <2>1 DEF Room, Claimable, UpdateStatus, JobType, e
<1>11. LoadInv'
  BY <1>inv, <1>2, <1>9, <1>10, LoadStep
<1>12. Wasted' \subseteq Wasted \cup {e} /\ (Fault \/ Wasted' \subseteq Wasted)
  BY <1>1, <1>3, <1>9 DEF Wasted, Over, e
<1>13. WasteInv'
  BY <1>inv, <1>2, <1>6, <1>12, WasteStep
<1>14. QED
  BY <1>6, <1>7, <1>8, <1>11, <1>13 DEF JobsInv

\* A claim takes the place that it found: the extractor cannot be claimed again at once.
LEMMA ClaimTakes ==
  ASSUME JobType, NEW e \in First, Claim(e), up' = up
  PROVE  /\ e \in Extractors /\ index' \in Extractors /\ silent' \subseteq Extractors
         /\ status' \in [Extractors -> {"available", "busy"}]
         /\ \A f \in Extractors \ {e} : status'[f] = status[f] /\ Room(f)' = Room(f)
         /\ Room(e)' = Room(e) - 1
<1> USE FileJobsAssumption
<1>1. e \in Extractors /\ Claimable(e)
  BY DEF First
<1>2. index' = (e + 1) % N /\ status' = [status EXCEPT ![e] = "busy"] /\ silent' = silent \ {e}
  BY DEF Claim, UpdateStatus
<1>3. index' \in Extractors
  BY <1>1, <1>2 DEF Extractors
<1>4. status' \in [Extractors -> {"available", "busy"}] /\ silent' \subseteq Extractors
      /\ status'[e] = "busy" /\ e \notin silent'
      /\ \A f \in Extractors \ {e} : status'[f] = status[f] /\ (f \in silent' <=> f \in silent)
  BY <1>1, <1>2 DEF JobType
<1>5. ~ Claimable(e)' /\ \A f \in Extractors \ {e} : Claimable(f)' = Claimable(f)
  BY <1>4 DEF Claimable
<1>6. QED
  BY <1>1, <1>3, <1>4, <1>5 DEF Room

\* The next segment of a video gets an extractor.
LEMMA ClaimGiven ==
  ASSUME JobsInv, NEW v \in Videos, next[v] <= Segments, NEW e \in First, Claim(e),
         at' = [at EXCEPT ![<<v, next[v]>>] = e], Move(<<v, next[v]>>, "claimed"),
         next' = [next EXCEPT ![v] = @ + 1], UNCHANGED <<up, leaked, crashes, faults>>
  PROVE  JobsInv'
<1> USE FileJobsAssumption
<1>inv. JobType /\ PlaceInv /\ SlotInv /\ LoadInv /\ WasteInv
  BY DEF JobsInv
<1> DEFINE j == <<v, next[v]>>
<1>1. next[v] \in 1 .. Segments /\ j \in Jobs /\ stage[j] = "new" /\ at[j] = None
  BY <1>inv DEF JobType, PlaceInv, Jobs
<1>2. /\ stage' = [stage EXCEPT ![j] = "claimed"] /\ stage'[j] = "claimed"
      /\ at' = [at EXCEPT ![j] = e] /\ at'[j] = e
      /\ \A k \in Jobs \ {j} : stage'[k] = stage[k] /\ at'[k] = at[k]
  BY <1>inv, <1>1 DEF JobType, Move
<1>3. /\ next' \in [Videos -> 1 .. Segments + 1] /\ next'[v] = next[v] + 1
      /\ \A w \in Videos \ {v} : next'[w] = next[w]
  BY <1>inv, <1>1 DEF JobType
<1>c. /\ e \in Extractors /\ index' \in Extractors /\ silent' \subseteq Extractors
      /\ status' \in [Extractors -> {"available", "busy"}]
      /\ \A f \in Extractors \ {e} : status'[f] = status[f] /\ Room(f)' = Room(f)
      /\ Room(e)' = Room(e) - 1
  BY <1>inv, ClaimTakes
<1>4. JobType'
  <2>1. at' \in [Jobs -> Extractors \cup {None}]
        /\ stage' \in [Jobs -> {"new", "claimed"} \cup OnNode \cup Over]
    BY <1>inv, <1>1, <1>2, <1>c DEF JobType
  <2>2. \A k \in Jobs : (stage'[k] = "new") = (at'[k] = None)
    <3>1. e # None
      BY <1>c DEF Extractors, None
    <3>2. QED
      BY <1>inv, <1>2, <3>1 DEF JobType
  <2>3. QED
    BY <1>inv, <1>3, <1>c, <2>1, <2>2 DEF JobType
<1>5. PlaceInv'
  <2>1. ASSUME NEW w \in Videos, NEW i \in next'[w] .. Segments PROVE stage'[<<w, i>>] = "new"
    <3>1. next'[w] \in Nat /\ next[w] \in Nat /\ next'[w] >= next[w] /\ next[w] >= 1
      BY <1>inv, <1>3 DEF JobType
    <3>2. i \in next[w] .. Segments /\ i \in 1 .. Segments
      BY <2>1, <3>1
    <3>3. <<w, i>> # j
      BY <1>1, <1>3, <2>1
    <3>4. <<w, i>> \in Jobs
      BY <3>2 DEF Jobs
    <3>5. QED
      BY <1>inv, <1>2, <3>2, <3>3, <3>4 DEF PlaceInv
  <2>2. ASSUME NEW k \in Jobs, stage'[k] \in OnNode PROVE at'[k] \in up'
    <3>1. k # j
      BY <1>2, <2>2 DEF OnNode, InSlot
    <3>2. QED
      BY <1>inv, <1>2, <2>2, <3>1 DEF PlaceInv
  <2>3. QED
    BY <2>1, <2>2 DEF PlaceInv
<1>6. SlotInv'
  <2> SUFFICES ASSUME NEW f \in Extractors PROVE SlotsTaken(f)' <= Threads
    BY DEF SlotInv
  <2>1. On(f, InSlot)' = On(f, InSlot)
    BY <1>1, <1>2 DEF On, InSlot
  <2>2. SlotsTaken(f)' = SlotsTaken(f)
    BY <2>1 DEF SlotsTaken
  <2>3. QED
    BY <1>inv, <2>2 DEF SlotInv
<1>7. /\ Load(e) \in Nat /\ Load(e)' = Load(e) + 1
      /\ \A f \in Extractors \ {e} : Load(f) \in Nat /\ Load(f)' = Load(f)
  <2>0. None \notin Extractors
    BY DEF None, Extractors
  <2>1. j \notin On(e, Loading) /\ On(e, Loading)' = On(e, Loading) \cup {j}
    BY <1>1, <1>2, <1>c, <2>0 DEF On, Loading
  <2>2. \A f \in Extractors \ {e} : On(f, Loading)' = On(f, Loading)
    BY <1>1, <1>2, <2>0 DEF On, Loading
  <2>3. \A f : Load(f) = Cardinality(On(f, Loading)) /\ Load(f)' = Cardinality(On(f, Loading)')
    BY DEF Load, On, Loading
  <2>4. Load(e) \in Nat /\ Load(e)' = Load(e) + 1
    BY <2>1, <2>3, OnGains, LoadZero
  <2>5. QED
    BY <2>2, <2>3, <2>4, LoadZero
<1>8. \A f \in Extractors : Room(f) \in Nat /\ Room(f)' \in Nat
  BY DEF Room
<1>9. LoadInv'
  <2>1. {crashes, faults} \subseteq Int
    BY <1>inv DEF JobType
  <2>2. ASSUME NEW f \in Extractors
        PROVE  {Load(f) + Room(f), Load(f)' + Room(f)'} \subseteq Int
               /\ Load(f)' + Room(f)' = Load(f) + Room(f)
    <3>1. CASE f = e
      BY <1>7, <1>8, <1>c, <3>1
    <3>2. CASE f # e
      BY <1>7, <1>8, <1>c, <3>2
    <3>3. QED
      BY <3>1, <3>2
  <2>3. QED
    BY <1>inv, <2>1, <2>2, LoadStep
<1>10. Wasted' \subseteq Wasted
  <2> SUFFICES ASSUME NEW f \in Extractors, f \in up', f \in Wasted' PROVE f \in Wasted
    BY DEF Wasted
  <2>1. f # e
    BY <1>7 DEF Wasted
  <2>2. QED
    BY <1>7, <1>c, <2>1 DEF Wasted
<1>11. WasteInv'
  <2>1. {crashes, faults} \subseteq Int
    BY <1>inv DEF JobType
  <2>2. QED
    BY <1>inv, <1>4, <1>10, <2>1, WasteStep
<1>12. QED
  BY <1>4, <1>5, <1>6, <1>9, <1>11 DEF JobsInv

\* Nothing happens to jobs, extractors and slots.
LEMMA JobsStay ==
  ASSUME JobsInv, UNCHANGED <<at, stage, leaked>>
  PROVE  /\ SlotInv'
         /\ \A e \in Extractors : Load(e) \in Nat /\ Load(e)' = Load(e)
         /\ \A e \in Extractors : Room(e) \in Nat /\ Room(e)' \in Nat
<1>1. \A e \in Extractors : On(e, InSlot)' = On(e, InSlot) /\ SlotsTaken(e)' = SlotsTaken(e)
  BY Unmoved DEF SlotsTaken
<1>2. SlotInv'
  BY <1>1 DEF SlotInv, JobsInv
<1>3. QED
  BY <1>2, Unmoved, LoadZero DEF Room

\* The rest of the video is given up; a claim that was made all the same is a fault.
LEMMA ClaimGivenUp ==
  ASSUME JobsInv, NEW v \in Videos, next[v] <= Segments, next' = [next EXCEPT ![v] = Segments + 1],
         \/ Fault /\ \E e \in First : Claim(e)
         \/ (UNCHANGED faults \/ Fault) /\ UNCHANGED <<status, silent, index>>,
         UNCHANGED <<at, stage, up, leaked, crashes>>
  PROVE  JobsInv'
<1> USE FileJobsAssumption
<1>inv. JobType /\ PlaceInv /\ SlotInv /\ LoadInv /\ WasteInv
  BY DEF JobsInv
<1>1. faults' \in 0 .. MaxFaults /\ faults' >= faults /\ (Fault => faults' > faults)
      /\ {crashes, crashes', faults, faults'} \subseteq Int /\ crashes' = crashes
  BY <1>inv DEF JobType, Fault
<1>2. next' \in [Videos -> 1 .. Segments + 1] /\ \A w \in Videos : next'[w] >= next[w]
  BY <1>inv DEF JobType
<1>3. PlaceInv'
  <2>1. ASSUME NEW w \in Videos, NEW i \in next'[w] .. Segments PROVE stage'[<<w, i>>] = "new"
    <3>1. {next[w], next'[w]} \subseteq Int /\ next'[w] >= next[w]
      BY <1>inv, <1>2 DEF JobType
    <3>2. i \in next[w] .. Segments
      BY <2>1, <3>1
    <3>3. QED
      BY <1>inv, <3>2 DEF PlaceInv
  <2>2. QED
    BY <1>inv, <2>1 DEF PlaceInv
<1>4. SlotInv' /\ \A f \in Extractors : Load(f) \in Nat /\ Load(f)' = Load(f)
               /\ Room(f) \in Nat /\ Room(f)' \in Nat
  BY JobsStay
<1>5. CASE Fault /\ \E e \in First : Claim(e)
  <2>1. PICK e \in First : Claim(e)
    BY <1>5
  <2>2. /\ e \in Extractors /\ index' \in Extractors /\ silent' \subseteq Extractors
        /\ status' \in [Extractors -> {"available", "busy"}]
        /\ \A f \in Extractors \ {e} : status'[f] = status[f] /\ Room(f)' = Room(f)
        /\ Room(e)' = Room(e) - 1
    BY <1>inv, <2>1, ClaimTakes
  <2>3. JobType'
    BY <1>inv, <1>1, <1>2, <2>2 DEF JobType
  <2>4. \A f \in Extractors : Room(f)' <= Room(f)
    BY <1>4, <2>2
  <2>5. LoadInv'
    BY <1>inv, <1>1, <1>4, <2>4, LoadStep
  <2>6. Wasted' \subseteq Wasted \cup {e}
    BY <1>4, <2>2 DEF Wasted
  <2>7. WasteInv'
    <3>1. crashes' + faults' > crashes + faults /\ crashes' + faults' >= crashes + faults
      BY <1>1, <1>5
    <3>2. QED
      BY <1>inv, <2>3, <2>6, <3>1, WasteStep
  <2>8. QED
    BY <1>3, <1>4, <2>3, <2>5, <2>7 DEF JobsInv
<1>6. CASE UNCHANGED <<status, silent, index>>
  <2>0. faults' \in 0 .. MaxFaults
    BY <1>1
  <2>1. JobType'
    BY <1>inv, <1>1, <1>2, <1>6 DEF JobType
  <2>2. \A f \in Extractors : Room(f)' = Room(f)
    BY <1>6 DEF Room, Claimable
  <2>3. LoadInv'
    BY <1>inv, <1>1, <1>4, <2>2, LoadStep
  <2>4. Wasted' = Wasted
    BY <1>4, <1>6 DEF Wasted
  <2>5. WasteInv'
    BY <1>inv, <1>1, <2>1, <2>4, WasteStep
  <2>6. QED
    BY <1>3, <1>4, <2>1, <2>3, <2>5 DEF JobsInv
<1>7. QED
  BY <1>5, <1>6

\* Heartbeats and their absence.  Once the extractor of a running process falls silent, or one that
\* a claim is on its way to, that is a fault; a dead one has no job.
LEMMA SilenceStep ==
  ASSUME JobsInv, NEW e \in Extractors, Heartbeat(e) \/ FallSilent(e)
  PROVE  JobsInv'
<1> USE FileJobsAssumption
<1>inv. JobType /\ PlaceInv /\ SlotInv /\ LoadInv /\ WasteInv
  BY DEF JobsInv
<1>0. UNCHANGED <<up, status, index, next, at, stage, leaked, crashes>> /\ silent' \subseteq Extractors
  BY <1>inv DEF Heartbeat, FallSilent, JobType
<1>1. faults' \in 0 .. MaxFaults /\ faults' >= faults /\ (Fault => faults' = faults + 1)
      /\ {crashes, crashes', faults, faults'} \subseteq Nat
  BY <1>inv, <1>0 DEF JobType, Fault, Heartbeat, FallSilent
<1>2. JobType'
  BY <1>inv, <1>0, <1>1 DEF JobType
<1>3. PlaceInv'
  BY <1>inv, <1>0 DEF PlaceInv
<1>4. SlotInv' /\ \A f \in Extractors : Load(f) \in Nat /\ Load(f)' = Load(f)
               /\ Room(f) \in Nat /\ Room(f)' \in Nat
  BY <1>0, JobsStay
<1>5. Wasted' = Wasted
  BY <1>0, <1>4 DEF Wasted
<1>6. WasteInv'
  BY <1>inv, <1>0, <1>1, <1>2, <1>5, WasteStep
<1>7. LoadInv'
  <2>1. CASE Heartbeat(e)
    <3>1. \A f \in Extractors : Room(f)' <= Room(f)
      BY <2>1 DEF Heartbeat, Room, Claimable
    <3>2. QED
      BY <1>inv, <1>0, <1>1, <1>4, <3>1, LoadStep
  <2>2. CASE FallSilent(e) /\ Fault
    <3>1. \A f \in Extractors : Room(f)' <= Room(f) + 1
      BY <2>2 DEF FallSilent, Room, Claimable
    <3>2. QED
      BY <1>inv, <1>0, <1>1, <1>4, <2>2, <3>1, LoadStep
  <2>3. CASE FallSilent(e) /\ e \notin up /\ On(e, {"claimed"}) = {}
    <3>1. On(e, Loading) = {}
      BY <1>inv, <2>3 DEF On, Loading, PlaceInv
    <3>2. Load(e) = 0 /\ Load(e)' = 0
      BY <1>4, <3>1, LoadZero
    <3>3. crashes + faults >= 1
      <4>1. Wasted \subseteq Extractors /\ e \in Wasted
        BY <2>3 DEF Wasted
      <4>2. IsFiniteSet(Wasted) /\ Cardinality(Wasted) \in Nat /\ Cardinality(Wasted) # 0
        BY <4>1, JobsFinite, FS_Subset, FS_CardinalityType, FS_EmptySet
      <4>3. QED
        BY <1>inv, <1>1, <4>2 DEF WasteInv
    <3>4. Room(e)' <= 2 /\ faults' >= faults /\ crashes' = crashes
      BY <1>0, <1>1 DEF Room
    <3>5. Load(e)' + Room(e)' <= 1 + crashes' + faults'
      BY <1>1, <1>4, <3>2, <3>3, <3>4
    <3>6. ASSUME NEW f \in Extractors, f # e PROVE Load(f)' + Room(f)' <= 1 + crashes' + faults'
      <4>1. Room(f)' = Room(f)
        BY <2>3, <3>6 DEF FallSilent, Room, Claimable
      <4>2. Load(f) + Room(f) <= 1 + crashes + faults
        BY <1>inv DEF LoadInv
      <4>3. QED
        BY <1>0, <1>1, <1>4, <4>1, <4>2
    <3>7. QED
      BY <3>5, <3>6 DEF LoadInv
  <2>4. QED
    BY <2>1, <2>2, <2>3 DEF FallSilent
<1>8. QED
  BY <1>2, <1>3, <1>4, <1>6, <1>7 DEF JobsInv

\* A crash takes the extractor's jobs and slots along, and leaves an extractor behind that can be
\* claimed once more when it comes back.
LEMMA CrashStep ==
  ASSUME JobsInv, NEW e \in Extractors, Crash(e)
  PROVE  JobsInv'
<1> USE FileJobsAssumption
<1>inv. JobType /\ PlaceInv /\ SlotInv /\ LoadInv /\ WasteInv
  BY DEF JobsInv
<1>1. crashes' = crashes + 1 /\ crashes' \in 0 .. MaxCrashes /\ {crashes, crashes', faults, faults'} \subseteq Nat
  BY <1>inv DEF JobType, Crash
<1>2. e \in up /\ up' = up \ {e} /\ UNCHANGED <<status, silent, index, next, at, faults>>
  BY DEF Crash
<1>3. /\ stage' \in [Jobs -> {"new", "claimed"} \cup OnNode \cup Over]
      /\ \A k \in Jobs : stage'[k] = stage[k] \/ (k \in On(e, OnNode) /\ stage'[k] = "lost")
      /\ \A k \in Jobs : at[k] = e => stage'[k] \notin OnNode
  BY <1>inv DEF JobType, Crash, On, Over, OnNode, InSlot
<1>4. leaked' \in [Extractors -> 0 .. Threads] /\ leaked'[e] = 0
      /\ \A f \in Extractors \ {e} : leaked'[f] = leaked[f]
  BY <1>inv DEF JobType, Crash
<1>5. JobType'
  <2>1. ASSUME NEW k \in Jobs PROVE (stage'[k] = "new") = (at'[k] = None)
    <3>1. stage[k] \in OnNode => stage[k] # "new"
      BY DEF OnNode, InSlot
    <3>2. QED
      BY <1>inv, <1>2, <1>3, <3>1 DEF JobType, On
  <2>2. QED
    BY <1>inv, <1>1, <1>2, <1>3, <1>4, <2>1 DEF JobType
<1>6. PlaceInv'
  <2>1. ASSUME NEW w \in Videos, NEW i \in next'[w] .. Segments PROVE stage'[<<w, i>>] = "new"
    <3>1. next[w] \in Nat /\ next[w] >= 1
      BY <1>inv DEF JobType
    <3>2. <<w, i>> \in Jobs /\ i \in next[w] .. Segments
      BY <1>2, <2>1, <3>1 DEF Jobs
    <3>3. stage[<<w, i>>] = "new"
      BY <1>inv, <3>2 DEF PlaceInv
    <3>4. QED
      BY <1>3, <3>2, <3>3 DEF On, OnNode, InSlot
  <2>2. ASSUME NEW k \in Jobs, stage'[k] \in OnNode PROVE at'[k] \in up'
    <3>1. stage'[k] = stage[k] /\ at[k] # e
      BY <1>3, <2>2 DEF OnNode, InSlot
    <3>2. QED
      BY <1>inv, <1>2, <2>2, <3>1 DEF PlaceInv
  <2>3. QED
    BY <2>1, <2>2 DEF PlaceInv
<1>7. \A f : On(f, InSlot)' \subseteq On(f, InSlot) /\ On(f, Loading)' \subseteq On(f, Loading)
  BY <1>2, <1>3 DEF On, Loading, OnNode, InSlot
<1>8. SlotInv'
  <2> SUFFICES ASSUME NEW f \in Extractors PROVE SlotsTaken(f)' <= Threads
    BY DEF SlotInv
  <2>1. Cardinality(On(f, InSlot)') \in Nat /\ Cardinality(On(f, InSlot)') <= Cardinality(On(f, InSlot))
        /\ Cardinality(On(f, InSlot)) \in Nat
    BY <1>7, OnShrinks, OnFinite
  <2>2. leaked'[f] <= leaked[f] /\ leaked[f] \in Nat /\ leaked'[f] \in Nat
    BY <1>inv, <1>4 DEF JobType
  <2>3. SlotsTaken(f) <= Threads
    BY <1>inv DEF SlotInv
  <2>4. QED
    BY <2>1, <2>2, <2>3 DEF SlotsTaken
<1>9. \A f \in Extractors :
        /\ Load(f) \in Nat /\ Load(f)' \in Nat /\ Load(f)' <= Load(f)
        /\ f # e => Load(f)' = Load(f)
  <2> SUFFICES ASSUME NEW f \in Extractors
               PROVE  Load(f) \in Nat /\ Load(f)' \in Nat /\ Load(f)' <= Load(f)
                      /\ (f # e => Load(f)' = Load(f))
    OBVIOUS
  <2>1. Load(f) = Cardinality(On(f, Loading)) /\ Load(f)' = Cardinality(On(f, Loading)')
    BY DEF Load, On, Loading
  <2>2. f # e => On(f, Loading)' = On(f, Loading)
    BY <1>2, <1>3 DEF On, Loading
  <2>3. QED
    BY <1>7, <2>1, <2>2, OnShrinks, OnFinite
<1>10. \A f \in Extractors : Room(f) \in Nat /\ Room(f)' \in Nat /\ Room(f)' <= Room(f) + 1
  BY <1>2 DEF Room, Claimable
<1>11. LoadInv'
  <2>1. ASSUME NEW f \in Extractors
        PROVE  /\ {Load(f) + Room(f), Load(f)' + Room(f)', crashes, crashes', faults, faults'} \subseteq Int
               /\ Load(f)' + Room(f)' + crashes + faults <= Load(f) + Room(f) + crashes' + faults'
    <3>1. Load(f) \in Nat /\ Load(f)' \in Nat /\ Load(f)' <= Load(f)
          /\ Room(f) \in Nat /\ Room(f)' \in Nat /\ Room(f)' <= Room(f) + 1
      BY <1>9, <1>10
    <3>2. QED
      BY <1>1, <1>2, <3>1
  <2>2. QED
    BY <1>inv, <2>1, LoadStep
<1>12. Wasted' \subseteq Wasted \cup {e}
  BY <1>2, <1>9 DEF Wasted
<1>13. WasteInv'
  BY <1>inv, <1>1, <1>2, <1>5, <1>12, WasteStep
<1>14. QED
  BY <1>5, <1>6, <1>8, <1>11, <1>13 DEF JobsInv

\* The process comes back, as available as it would have become.
LEMMA RestartStep ==
  ASSUME JobsInv, NEW e \in Extractors, Restart(e)
  PROVE  JobsInv'
<1> USE FileJobsAssumption
<1>inv. JobType /\ PlaceInv /\ SlotInv /\ LoadInv /\ WasteInv
  BY DEF JobsInv
<1>1. e \notin up /\ up' = up \cup {e} /\ UNCHANGED <<index, next, at, stage, leaked, crashes, faults>>
      /\ status' = [status EXCEPT ![e] = "available"] /\ silent' = silent \ {e}
  BY DEF Restart, UpdateStatus
<1>2. JobType'
  BY <1>inv, <1>1 DEF JobType
<1>3. PlaceInv'
  BY <1>inv, <1>1 DEF PlaceInv
<1>4. SlotInv' /\ \A f \in Extractors : Load(f) \in Nat /\ Load(f)' = Load(f)
               /\ Room(f) \in Nat /\ Room(f)' \in Nat
  BY <1>1, JobsStay
<1>5. status' \in [Extractors -> {"available", "busy"}] /\ status'[e] = "available"
      /\ \A f \in Extractors \ {e} : status'[f] = status[f] /\ (f \in silent' <=> f \in silent)
  BY <1>inv, <1>1 DEF JobType
<1>6. \A f \in Extractors : Room(f)' <= Room(f)
  BY <1>1, <1>5 DEF Room, Claimable
<1>7. {crashes, crashes', faults, faults'} \subseteq Int /\ crashes' = crashes /\ faults' = faults
  BY <1>inv, <1>1 DEF JobType
<1>8. LoadInv'
  BY <1>inv, <1>4, <1>6, <1>7, LoadStep
<1>9. Wasted' \subseteq Wasted
  BY <1>1, <1>4, <1>5 DEF Wasted
<1>10. WasteInv'
  <2>1. crashes' + faults' >= crashes + faults
    BY <1>7
  <2>2. QED
    BY <1>inv, <1>2, <1>9, <2>1, WasteStep
<1>11. QED
  BY <1>2, <1>3, <1>4, <1>8, <1>10 DEF JobsInv

\* What the jobs do is a step of the kind that JobStep allows.
LEMMA RunStep ==
  ASSUME JobsInv, NEW j \in Jobs, Send(j) \/ Run(j)
  PROVE  JobsInv'
<1> USE FileJobsAssumption
<1>1. JobType /\ PlaceInv
  BY DEF JobsInv
<1>0. /\ {"claimed", "queued", "starting", "running", "finishing"} \subseteq Loading /\ "queued" \notin InSlot
      /\ {"starting", "running", "finishing"} \subseteq InSlot /\ InSlot \subseteq OnNode
      /\ Over = {"ended", "lost"} /\ Over \cap InSlot = {} /\ Over \cap OnNode = {}
  BY DEF Loading, OnNode, InSlot, Over
<1>2. CASE Send(j)
  <2>1. CASE at[j] \in up /\ Move(j, "queued") /\ UNCHANGED faults
    BY <1>0, <1>2, <2>1, JobStep DEF Send
  <2>2. CASE at[j] \notin up /\ Move(j, "lost") /\ UNCHANGED faults
    BY <1>0, <1>2, <2>2, JobStep DEF Send
  <2>3. CASE at[j] \in up /\ Move(j, "lost") /\ Fault
    BY <1>0, <1>2, <2>3, JobStep DEF Send
  <2>4. QED
    BY <1>2, <2>1, <2>2, <2>3 DEF Send
<1>3. ASSUME stage[j] \in OnNode PROVE at[j] \in up /\ at[j] \in Extractors
  BY <1>1, <1>3 DEF PlaceInv, JobType
<1>4. CASE Acquire(j)
  BY <1>0, <1>3, <1>4, JobStep DEF Acquire, OnNode
<1>5. CASE MarkBusy(j)
  <2>1. CASE UpdateStatus(at[j], "busy") /\ Move(j, "running") /\ UNCHANGED <<leaked, faults>>
    BY <1>0, <1>3, <1>5, <2>1, JobStep DEF MarkBusy
  <2>2. CASE Leak(j, "busy")
    BY <1>0, <1>3, <1>5, <2>2, JobStep DEF MarkBusy, Leak
  <2>3. QED
    BY <1>5, <2>1, <2>2 DEF MarkBusy
<1>6. CASE Extract(j)
  BY <1>0, <1>3, <1>6, JobStep DEF Extract
<1>7. CASE Finish(j)
  <2>1. CASE Free(at[j]) /\ Move(j, "ended") /\ UNCHANGED <<leaked, faults>>
    <3>1. at[j] \in Extractors
      BY <1>0, <1>3, <1>7 DEF Finish
    <3>2. status'[at[j]] = "available"
      BY <1>1, <2>1, <3>1 DEF Free, UpdateStatus, JobType
    <3>3. QED
      BY <1>0, <1>7, <2>1, <3>2, JobStep DEF Finish, Free
  <2>2. CASE Leak(j, "available")
    BY <1>0, <1>3, <1>7, <2>2, JobStep DEF Finish, Leak
  <2>3. QED
    BY <1>7, <2>1, <2>2 DEF Finish
<1>8. QED
  BY <1>2, <1>4, <1>5, <1>6, <1>7 DEF Run

LEMMA StepJobsInv == JobsInv /\ [Next]_vars => JobsInv'
<1> SUFFICES ASSUME JobsInv, [Next]_vars PROVE JobsInv'
  OBVIOUS
<1>1. ASSUME NEW v \in Videos, Request(v) PROVE JobsInv'
  <2>1. CASE ClaimNext(v)
    BY <2>1, ClaimGiven, ClaimGivenUp DEF ClaimNext
  <2>2. ASSUME NEW j \in {v} \X (1 .. Segments), Send(j) PROVE JobsInv'
    BY <2>2, RunStep DEF Jobs
  <2>3. QED
    BY <1>1, <2>1, <2>2 DEF Request
<1>2. ASSUME NEW j \in Jobs, Run(j) PROVE JobsInv'
  BY <1>2, RunStep
<1>3. ASSUME NEW e \in Extractors, Heartbeat(e) \/ FallSilent(e) \/ Crash(e) \/ Restart(e)
      PROVE  JobsInv'
  BY <1>3, SilenceStep, CrashStep, RestartStep
<1>4. CASE UNCHANGED vars
  BY <1>4 DEF vars, JobsInv, JobType, PlaceInv, SlotInv, LoadInv, WasteInv, Wasted, Room, Claimable,
              SlotsTaken, Load, On
<1>5. QED
  BY <1>1, <1>2, <1>3, <1>4 DEF Next

--------------------------------------------------------------------------------
LEMMA JobsInvHolds == Spec => []JobsInv
BY InitJobsInv, StepJobsInv, PTL DEF Spec

LEMMA JobsInvImplies == JobsInv => AvailabilityIsTrue
<1> SUFFICES ASSUME JobsInv PROVE TypeOK /\ JobsPaidFor /\ BusyForCause
  BY DEF AvailabilityIsTrue
<1> USE FileJobsAssumption
<1>inv. JobType /\ SlotInv /\ LoadInv /\ WasteInv
  BY DEF JobsInv
<1>0. {crashes, faults} \subseteq Int
  BY <1>inv DEF JobType
<1>1. TypeOK
  BY <1>inv DEF TypeOK, JobType, SlotInv
<1>2. JobsPaidFor
  <2> SUFFICES ASSUME NEW e \in Extractors PROVE Load(e) <= 1 + crashes + faults
    BY DEF JobsPaidFor
  <2>1. Load(e) \in Nat /\ Room(e) \in Nat
    BY LoadZero DEF Room
  <2>2. QED
    BY <1>inv, <1>0, <2>1 DEF LoadInv
<1>3. BusyForCause
  <2> DEFINE idle == {e \in Extractors : status[e] = "busy" /\ Load(e) = 0}
  <2>1. idle \subseteq Wasted /\ Wasted \subseteq Extractors
    BY DEF Wasted
  <2>2. /\ Cardinality(idle) \in Nat /\ Cardinality(Wasted) \in Nat
        /\ Cardinality(idle) <= Cardinality(Wasted)
    BY <2>1, JobsFinite, FS_Subset, FS_CardinalityType
  <2>3. QED
    BY <1>inv, <1>0, <2>2 DEF WasteInv, BusyForCause
<1>4. QED
  BY <1>1, <1>2, <1>3

\* However many videos, extractors and slots there are: what the registry has down as available or
\* busy is true of the extractor's jobs, but for what crashes and lost calls leave behind.  The claim
\* script marks what it gives away, so that every second job, and every extractor that is busy with
\* nothing, goes back to a crash or a fault of its own (registry.py 26-45, 141-173; extractor.py 551-616).
THEOREM JobsCorrect == Spec => []AvailabilityIsTrue
BY JobsInvHolds, JobsInvImplies, PTL

--------------------------------------------------------------------------------
(* Replays: the copies of an event that there are and those that are still to be made.  A replay   *)
(* begins with at most as many as there are, so that both together at most double.                 *)

\* What the replays have left of an event.
LeftOf(f) == {q \in Apis \X DOMAIN log[Replayed] : q[2] \in replay[q[1]].left /\ log[Replayed][q[2]] = f}

ReplayType ==
  /\ named \in Streams
  /\ log \in [Streams -> Seq(Frames \cup Others)] /\ dropped \in [Streams -> Nat]
  /\ cursor \in Nat /\ missed \in Nat
  /\ replay \in [Apis -> [left : SUBSET Nat, busy : BOOLEAN]]
  /\ replays \in Nat /\ lost \in Nat
  /\ \A a \in Apis :
       /\ replay[a].left \subseteq {i \in DOMAIN log[Replayed] : log[Replayed][i] \in Frames}
       /\ ~replay[a].busy => replay[a].left = {}

\* What an event of the video may come to in the stream that is replayed.
Allowance == (1 + lost) * Cardinality(SUBSET (1 .. replays))

CopiesInv ==
  \A f \in Frames :
    /\ IsFiniteSet(LeftOf(f))
    /\ Cardinality(Entries(Replayed, f)) + Cardinality(LeftOf(f)) <= Allowance

\* Where no replay publishes it, an event has the entries of its extractor.
Unreplayed(s, f) == s # Replayed \/ f \in Others

OthersInv ==
  \A s \in Streams : \A f \in Frames \cup Others :
    Unreplayed(s, f) => Cardinality(Entries(s, f)) <= 1 + lost

MissedInv == Len(log[named]) <= MaxLen => dropped[named] = 0 /\ missed = 0

ReplayInv == ReplayType /\ CopiesInv /\ OthersInv /\ MissedInv

\* One number more, twice as many sets of numbers.
LEMMA SubsetsDouble ==
  ASSUME NEW n \in Nat
  PROVE  /\ Cardinality(SUBSET (1 .. n)) \in Nat
         /\ Cardinality(SUBSET (1 .. n + 1)) = Cardinality(SUBSET (1 .. n)) + Cardinality(SUBSET (1 .. n))
<1> DEFINE old == SUBSET (1 .. n)
           new == {T \in SUBSET (1 .. n + 1) : n + 1 \in T}
           f == [T \in old |-> T \cup {n + 1}]
<1>0. IsFiniteSet(1 .. n)
  BY FS_Interval
<1>1. IsFiniteSet(old) /\ Cardinality(old) \in Nat
  <2>1. IsFiniteSet(SUBSET (1 .. n))
    BY <1>0, FS_SUBSET
  <2>2. QED
    BY <2>1, FS_CardinalityType
<1>2. f \in Bijection(old, new)
  <2>1. f \in [old -> new]
    OBVIOUS
  <2>2. \A S, T \in old : f[S] = f[T] => S = T
    <3> SUFFICES ASSUME NEW S \in old, NEW T \in old, S \cup {n + 1} = T \cup {n + 1} PROVE S = T
      OBVIOUS
    <3>1. n + 1 \notin S /\ n + 1 \notin T
      OBVIOUS
    <3>2. QED
      BY <3>1
  <2>3. \A U \in new : \E T \in old : f[T] = U
    <3> SUFFICES ASSUME NEW U \in new PROVE \E T \in old : f[T] = U
      OBVIOUS
    <3>1. U \ {n + 1} \in old
      OBVIOUS
    <3>2. f[U \ {n + 1}] = U
      BY <3>1
    <3>3. QED
      BY <3>1, <3>2
  <2>4. QED
    BY <2>1, <2>2, <2>3 DEF Bijection, Injection, Surjection, IsInjective
<1>3. IsFiniteSet(new) /\ Cardinality(new) = Cardinality(old)
  BY <1>1, <1>2, FS_Bijection DEF ExistsBijection
<1>4. SUBSET (1 .. n + 1) = old \cup new /\ old \cap new = {}
  <2>1. \A T \in SUBSET (1 .. n + 1) : n + 1 \notin T => T \in old
    OBVIOUS
  <2>2. \A T \in old : T \in SUBSET (1 .. n + 1) /\ n + 1 \notin T
    OBVIOUS
  <2>3. QED
    BY <2>1, <2>2
<1>5. Cardinality(SUBSET (1 .. n + 1)) = Cardinality(old) + Cardinality(new) - Cardinality(old \cap new)
  BY <1>1, <1>3, <1>4, FS_Union
<1>6. Cardinality(old \cap new) = 0
  BY <1>4, FS_EmptySet
<1>7. QED
  BY <1>1, <1>3, <1>5, <1>6

\* A failing call adds to the allowance at least one entry.
LEMMA AllowanceGrows ==
  ASSUME NEW l \in Nat, NEW c \in Nat, c >= 1
  PROVE  /\ (1 + l) * c \in Nat /\ (1 + (l + 1)) * c = (1 + l) * c + c
         /\ (1 + l) * c >= 1 + l /\ (1 + l) * (c + c) = (1 + l) * c + (1 + l) * c
<1>1. l * c \in Nat /\ (1 + l) * c = c + l * c /\ (1 + (l + 1)) * c = c + c + l * c
  OBVIOUS
<1>2. l * c >= l
  <2>1. PICK d \in Nat : c = 1 + d
    <3>1. c - 1 \in Nat /\ c = 1 + (c - 1)
      OBVIOUS
    <3>2. QED
      BY <3>1
  <2>2. l * d \in Nat /\ l * (1 + d) = l + l * d
    OBVIOUS
  <2>3. QED
    BY <2>1, <2>2
<1>3. (1 + l) * (c + c) = (1 + l) * c + (1 + l) * c
  OBVIOUS
<1>4. QED
  BY <1>1, <1>2, <1>3

LEMMA SubsetsPositive ==
  ASSUME NEW n \in Nat
  PROVE  Cardinality(SUBSET (1 .. n)) \in Nat /\ Cardinality(SUBSET (1 .. n)) >= 1
<1>1. Cardinality(SUBSET (1 .. n)) \in Nat
  BY SubsetsDouble
<1>2. IsFiniteSet(SUBSET (1 .. n))
  <2>1. IsFiniteSet(1 .. n)
    BY FS_Interval
  <2>2. QED
    BY <2>1, FS_SUBSET
<1>3. {{}} \subseteq SUBSET (1 .. n)
  OBVIOUS
<1>4. Cardinality({{}}) = 1 /\ Cardinality({{}}) <= Cardinality(SUBSET (1 .. n))
  BY <1>2, <1>3, FS_Singleton, FS_Subset
<1>5. QED
  BY <1>1, <1>4

LEMMA EntriesFinite ==
  ASSUME ReplayType, NEW s \in Streams, NEW f
  PROVE  IsFiniteSet(Entries(s, f)) /\ Cardinality(Entries(s, f)) \in Nat
<1>1. Entries(s, f) \subseteq 1 .. Len(log[s]) /\ Len(log[s]) \in Nat
  BY DEF ReplayType, Entries
<1>2. IsFiniteSet(1 .. Len(log[s]))
  BY <1>1, FS_Interval
<1>3. IsFiniteSet(Entries(s, f))
  BY <1>1, <1>2, FS_Subset
<1>4. QED
  BY <1>3, FS_CardinalityType

LEMMA InitReplayInv == ReplayInit => ReplayInv
<1> SUFFICES ASSUME ReplayInit PROVE ReplayInv
  OBVIOUS
<1>0. Replayed \in Streams /\ named \in Streams /\ \A s \in Streams : log[s] = <<>> /\ dropped[s] = 0
  BY ReplayAssumption DEF ReplayInit, Streams
<1>1. ReplayType
  BY <1>0 DEF ReplayInit, ReplayType, Idle
<1>2. \A f : LeftOf(f) = {} /\ \A s \in Streams : Entries(s, f) = {}
  BY <1>0 DEF ReplayInit, Entries, LeftOf
<1>3. Allowance \in Nat
  BY <1>1, SubsetsPositive, AllowanceGrows DEF ReplayType, Allowance
<1>4. CopiesInv /\ OthersInv
  <2>1. /\ \A f : IsFiniteSet(LeftOf(f)) /\ Cardinality(LeftOf(f)) = 0
        /\ \A f : \A s \in Streams : Cardinality(Entries(s, f)) = 0
    BY <1>2, FS_EmptySet
  <2>2. Allowance >= 0 /\ lost = 0
    BY <1>3 DEF ReplayInit
  <2>3. QED
    BY <1>0, <2>1, <2>2 DEF CopiesInv, OthersInv
<1>5. MissedInv
  BY <1>0 DEF MissedInv, ReplayInit
<1>6. QED
  BY <1>1, <1>4, <1>5 DEF ReplayInv

\* An entry more: of its event, in its stream, and no other.
LEMMA Appended ==
  ASSUME ReplayInv, NEW s \in Streams, NEW f \in Frames \cup Others, Append1(s, f), named' = named
  PROVE  /\ log' \in [Streams -> Seq(Frames \cup Others)] /\ dropped' \in [Streams -> Nat]
         /\ cursor' \in Nat /\ missed' \in Nat
         /\ \A z \in Streams : DOMAIN log[z] \subseteq DOMAIN log'[z]
         /\ \A z \in Streams : \A i \in DOMAIN log[z] : log'[z][i] = log[z][i]
         /\ \A z \in Streams : \A g : z # s \/ g # f => Entries(z, g)' = Entries(z, g)
         /\ Entries(s, f)' = Entries(s, f) \cup {Len(log[s]) + 1}
         /\ Len(log[s]) + 1 \notin Entries(s, f)
         /\ MissedInv'
<1>1. /\ log \in [Streams -> Seq(Frames \cup Others)] /\ Len(log[s]) \in Nat
      /\ dropped \in [Streams -> Nat] /\ dropped[s] \in Nat /\ cursor \in Nat
      /\ missed \in Nat /\ MaxLen \in Nat /\ MissedInv /\ named \in Streams
  BY ReplayAssumption DEF ReplayInv, ReplayType
<1>2. log' = [log EXCEPT ![s] = Append(@, f)]
  BY DEF Append1
<1>3. /\ log' \in [Streams -> Seq(Frames \cup Others)]
      /\ \A z \in Streams : z # s => log'[z] = log[z]
      /\ log'[s] = Append(log[s], f)
  BY <1>1, <1>2
<1>4. /\ Len(log'[s]) = Len(log[s]) + 1 /\ log'[s][Len(log[s]) + 1] = f
      /\ \A i \in DOMAIN log[s] : log'[s][i] = log[s][i] /\ i \in DOMAIN log'[s]
      /\ DOMAIN log[s] = 1 .. Len(log[s]) /\ DOMAIN log'[s] = 1 .. Len(log[s]) + 1
  BY <1>1, <1>3
<1>5. PICK n \in {dropped[s]} \cup dropped[s] .. Len(log[s]) + 1 - MaxLen :
        /\ dropped' = [dropped EXCEPT ![s] = n]
        /\ IF s = named THEN Overtaken(n) ELSE UNCHANGED <<cursor, missed>>
  BY DEF Append1
<1>6. n \in Nat /\ n >= dropped[s]
  BY <1>1, <1>5
<1>7. dropped' \in [Streams -> Nat] /\ cursor' \in Nat /\ missed' \in Nat
  <2>1. dropped' \in [Streams -> Nat]
    BY <1>1, <1>5, <1>6
  <2>2. CASE s = named
    BY <1>1, <1>5, <1>6, <2>1, <2>2 DEF Overtaken
  <2>3. CASE s # named
    BY <1>1, <1>5, <2>1, <2>3
  <2>4. QED
    BY <2>2, <2>3
<1>8. \A z \in Streams : \A g : z # s \/ g # f => Entries(z, g)' = Entries(z, g)
  BY <1>3, <1>4 DEF Entries
<1>9. Entries(s, f)' = Entries(s, f) \cup {Len(log[s]) + 1} /\ Len(log[s]) + 1 \notin Entries(s, f)
  BY <1>1, <1>4 DEF Entries
<1>10. MissedInv'
  <2>1. CASE s # named
    BY <1>1, <1>3, <1>5, <2>1 DEF MissedInv
  <2>2. CASE s = named
    <3> SUFFICES ASSUME Len(log'[s]) <= MaxLen PROVE dropped'[s] = 0 /\ missed' = 0
      BY <2>2 DEF MissedInv
    <3>1. dropped[s] = 0 /\ missed = 0 /\ Len(log[s]) + 1 - MaxLen <= 0
      BY <1>1, <1>4, <2>2 DEF MissedInv
    <3>2. n = 0
      BY <1>1, <1>5, <3>1
    <3>3. QED
      BY <1>1, <1>5, <2>2, <3>1, <3>2 DEF Overtaken
  <2>3. QED
    BY <2>1, <2>2
<1>11. QED
  BY <1>3, <1>4, <1>7, <1>8, <1>9, <1>10

\* One entry more of the event, none more of any other.
LEMMA EntryCounted ==
  ASSUME ReplayInv, NEW s \in Streams, NEW f \in Frames \cup Others, Append1(s, f), named' = named
  PROVE  /\ Cardinality(Entries(s, f)') = Cardinality(Entries(s, f)) + 1
         /\ Cardinality(Entries(s, f)) \in Nat
<1>1. IsFiniteSet(Entries(s, f)) /\ Cardinality(Entries(s, f)) \in Nat
  BY EntriesFinite DEF ReplayInv
<1>2. Entries(s, f)' = Entries(s, f) \cup {Len(log[s]) + 1} /\ Len(log[s]) + 1 \notin Entries(s, f)
  BY Appended
<1>3. QED
  BY <1>1, <1>2, FS_AddElement

\* Where a call fails, the allowance grows by one at least; it never shrinks.
LEMMA AllowanceKept ==
  ASSUME ReplayType, ReplayType', replays' = replays, lost' \in {lost, lost + 1}
  PROVE  /\ Allowance \in Nat /\ Allowance' \in Nat /\ Allowance >= 1 + lost
         /\ Allowance' >= Allowance /\ (lost' = lost + 1 => Allowance' >= Allowance + 1)
<1> DEFINE c == Cardinality(SUBSET (1 .. replays))
<1>1. c \in Nat /\ c >= 1 /\ lost \in Nat
  BY SubsetsPositive DEF ReplayType
<1>2. Allowance = (1 + lost) * c /\ Allowance' = (1 + lost') * c
  BY DEF Allowance
<1> HIDE DEF c
<1>3. /\ (1 + lost) * c \in Nat /\ (1 + (lost + 1)) * c = (1 + lost) * c + c
      /\ (1 + lost) * c >= 1 + lost
  BY <1>1, AllowanceGrows
<1>4. CASE lost' = lost
  BY <1>1, <1>2, <1>3, <1>4
<1>5. CASE lost' = lost + 1
  BY <1>1, <1>2, <1>3, <1>5
<1>6. QED
  BY <1>4, <1>5

LEMMA ExtractedStep ==
  ASSUME ReplayInv, NEW f \in Frames \cup Others, Extracted(f)
  PROVE  ReplayInv'
<1>0. ReplayType /\ CopiesInv /\ OthersInv /\ named \in Streams /\ Replayed \in Streams
  BY DEF ReplayInv, ReplayType, Streams
<1> PICK s \in Streams : s = named
  BY <1>0
<1>1. Append1(s, f) /\ UNCHANGED <<named, replay, replays>>
  BY DEF Extracted
<1>2. \/ Entries(s, f) = {} /\ lost' = lost
      \/ lost' = lost + 1
  BY DEF Extracted
<1>a. /\ log' \in [Streams -> Seq(Frames \cup Others)] /\ dropped' \in [Streams -> Nat]
      /\ cursor' \in Nat /\ missed' \in Nat /\ MissedInv'
      /\ DOMAIN log[Replayed] \subseteq DOMAIN log'[Replayed]
      /\ \A i \in DOMAIN log[Replayed] : log'[Replayed][i] = log[Replayed][i]
  BY <1>0, <1>1, Appended
<1>3. ReplayType'
  <2>1. lost' \in Nat
    BY <1>0, <1>2 DEF ReplayType
  <2>2. QED
    BY <1>0, <1>1, <1>a, <2>1 DEF ReplayType
<1>4. \A g : LeftOf(g)' = LeftOf(g)
  BY <1>0, <1>1, <1>a DEF ReplayType, LeftOf
<1>5. \A z \in Streams : \A g : z # s \/ g # f => Entries(z, g)' = Entries(z, g)
  BY <1>0, <1>1, Appended
<1>6. /\ Cardinality(Entries(s, f)') = Cardinality(Entries(s, f)) + 1
      /\ Cardinality(Entries(s, f)) \in Nat
  BY <1>0, <1>1, EntryCounted
<1>7. /\ Allowance \in Nat /\ Allowance' \in Nat /\ Allowance >= 1 + lost
      /\ Allowance' >= Allowance /\ (lost' = lost + 1 => Allowance' >= Allowance + 1)
  BY <1>0, <1>1, <1>2, <1>3, AllowanceKept
<1>8. lost \in Nat /\ lost' \in Nat /\ lost' >= lost
  BY <1>0, <1>2, <1>3 DEF ReplayType
<1>9. CopiesInv'
  <2> SUFFICES ASSUME NEW g \in Frames
               PROVE  /\ IsFiniteSet(LeftOf(g)')
                      /\ Cardinality(Entries(Replayed, g)') + Cardinality(LeftOf(g)') <= Allowance'
    BY DEF CopiesInv
  <2>1. /\ IsFiniteSet(LeftOf(g)) /\ Cardinality(LeftOf(g)) \in Nat
        /\ Cardinality(Entries(Replayed, g)) \in Nat
        /\ Cardinality(Entries(Replayed, g)) + Cardinality(LeftOf(g)) <= Allowance
    BY <1>0, EntriesFinite, FS_CardinalityType DEF CopiesInv
  <2>2. CASE g = f /\ s = Replayed
    <3>1. CASE lost' = lost + 1
      BY <1>4, <1>6, <1>7, <2>1, <2>2, <3>1
    <3>2. CASE Entries(s, f) = {} /\ lost' = lost
      <4>1. LeftOf(g) = {}
        BY <2>2, <3>2 DEF LeftOf, Entries
      <4>2. Cardinality(LeftOf(g)) = 0 /\ Cardinality(Entries(Replayed, g)) = 0
        BY <2>2, <3>2, <4>1, FS_EmptySet
      <4>3. QED
        BY <1>4, <1>6, <1>7, <1>8, <2>1, <2>2, <4>2
    <3>3. QED
      BY <1>2, <3>1, <3>2
  <2>3. CASE ~(g = f /\ s = Replayed)
    <3>1. Entries(Replayed, g)' = Entries(Replayed, g)
      BY <1>0, <1>5, <2>3
    <3>2. QED
      BY <1>4, <1>7, <2>1, <3>1
  <2>4. QED
    BY <2>2, <2>3
<1>10. OthersInv'
  <2> SUFFICES ASSUME NEW z \in Streams, NEW g \in Frames \cup Others, Unreplayed(z, g)
               PROVE  Cardinality(Entries(z, g)') <= 1 + lost'
    BY DEF OthersInv, Unreplayed
  <2>1. Cardinality(Entries(z, g)) <= 1 + lost /\ Cardinality(Entries(z, g)) \in Nat
    BY <1>0, EntriesFinite DEF OthersInv
  <2>2. CASE z = s /\ g = f
    <3>1. CASE lost' = lost + 1
      BY <1>6, <1>8, <2>1, <2>2, <3>1
    <3>2. CASE Entries(s, f) = {} /\ lost' = lost
      <4>1. Cardinality(Entries(s, f)) = 0
        BY <3>2, FS_EmptySet
      <4>2. QED
        BY <1>6, <1>8, <2>2, <3>2, <4>1
    <3>3. QED
      BY <1>2, <3>1, <3>2
  <2>3. CASE z # s \/ g # f
    BY <1>5, <1>8, <2>1, <2>3
  <2>4. QED
    BY <2>2, <2>3
<1>11. QED
  BY <1>3, <1>9, <1>10, <1>a DEF ReplayInv

\* A replay begins: what it reads is what there is.
LEMMA BeginStep ==
  ASSUME ReplayInv, NEW a \in Apis, BeginReplay(a)
  PROVE  ReplayInv'
<1>0. ReplayType /\ CopiesInv /\ OthersInv /\ MissedInv /\ Replayed \in Streams
  BY DEF ReplayInv, Streams
<1>1. /\ ~replay[a].busy /\ replays' = replays + 1
      /\ replay' = [replay EXCEPT ![a] = [left |-> OfVideo, busy |-> TRUE]]
      /\ named' = named /\ log' = log /\ dropped' = dropped /\ cursor' = cursor /\ missed' = missed
      /\ lost' = lost
  BY DEF BeginReplay
<1>2. log[Replayed] \in Seq(Frames \cup Others) /\ dropped[Replayed] \in Nat /\ replays \in Nat
      /\ lost \in Nat
  BY <1>0 DEF ReplayType
<1>3. OfVideo \subseteq {i \in DOMAIN log[Replayed] : log[Replayed][i] \in Frames} /\ OfVideo \subseteq Nat
  BY <1>2 DEF OfVideo
<1>4. ReplayType'
  <2>1. replay' \in [Apis -> [left : SUBSET Nat, busy : BOOLEAN]]
    BY <1>0, <1>1, <1>3 DEF ReplayType
  <2>2. \A b \in Apis : replay'[b] = IF b = a THEN [left |-> OfVideo, busy |-> TRUE] ELSE replay[b]
    BY <1>0, <1>1 DEF ReplayType
  <2>3. \A b \in Apis :
          /\ replay'[b].left \subseteq {i \in DOMAIN log[Replayed] : log[Replayed][i] \in Frames}
          /\ ~replay'[b].busy => replay'[b].left = {}
    <3> SUFFICES ASSUME NEW b \in Apis
                 PROVE  /\ replay'[b].left \subseteq {i \in DOMAIN log[Replayed] : log[Replayed][i] \in Frames}
                        /\ ~replay'[b].busy => replay'[b].left = {}
      OBVIOUS
    <3>1. CASE b = a
      <4>1. replay'[b] = [left |-> OfVideo, busy |-> TRUE]
        BY <2>2, <3>1
      <4>2. replay'[b].left = OfVideo /\ replay'[b].busy = TRUE
        BY <4>1
      <4>3. QED
        BY <1>3, <4>2
    <3>2. CASE b # a
      BY <1>0, <2>2, <3>2 DEF ReplayType
    <3>3. QED
      BY <3>1, <3>2
  <2>4. QED
    BY <1>0, <1>1, <1>2, <2>1, <2>3 DEF ReplayType
<1>5. \A z, g : Entries(z, g)' = Entries(z, g)
  BY <1>1 DEF Entries
<1>6. CopiesInv'
  <2> SUFFICES ASSUME NEW g \in Frames
               PROVE  /\ IsFiniteSet(LeftOf(g)')
                      /\ Cardinality(Entries(Replayed, g)) + Cardinality(LeftOf(g)') <= Allowance'
    BY <1>5 DEF CopiesInv
  <2> DEFINE read == {a} \X Entries(Replayed, g)
             half == Cardinality(SUBSET (1 .. replays))
  <2>1. /\ IsFiniteSet(LeftOf(g)) /\ Cardinality(LeftOf(g)) \in Nat
        /\ Cardinality(Entries(Replayed, g)) + Cardinality(LeftOf(g)) <= Allowance
    BY <1>0, FS_CardinalityType DEF CopiesInv
  <2>2. IsFiniteSet(Entries(Replayed, g)) /\ Cardinality(Entries(Replayed, g)) \in Nat
    BY <1>0, EntriesFinite
  <2>3. IsFiniteSet(read) /\ Cardinality(read) = Cardinality(Entries(Replayed, g))
    <3>1. IsFiniteSet({a}) /\ Cardinality({a}) = 1
      BY FS_Singleton
    <3>2. IsFiniteSet(read) /\ Cardinality(read) = Cardinality({a}) * Cardinality(Entries(Replayed, g))
      BY <2>2, <3>1, FS_Product
    <3>3. QED
      BY <2>2, <3>1, <3>2
  <2>4. LeftOf(g)' \subseteq LeftOf(g) \cup read
    BY <1>0, <1>1, <1>3 DEF LeftOf, ReplayType, Entries
  <2>5. /\ IsFiniteSet(LeftOf(g) \cup read)
        /\ Cardinality(LeftOf(g) \cup read) <= Cardinality(LeftOf(g)) + Cardinality(read)
    <3>1. /\ IsFiniteSet(LeftOf(g) \cup read)
          /\ Cardinality(LeftOf(g) \cup read)
               = Cardinality(LeftOf(g)) + Cardinality(read) - Cardinality(LeftOf(g) \cap read)
      BY <2>1, <2>3, FS_Union
    <3>2. IsFiniteSet(LeftOf(g) \cap read)
      BY <2>1, FS_Intersection
    <3>3. Cardinality(LeftOf(g) \cap read) \in Nat
      BY <3>2, FS_CardinalityType
    <3>4. QED
      BY <2>1, <2>2, <2>3, <3>1, <3>3
  <2>6. /\ IsFiniteSet(LeftOf(g)') /\ Cardinality(LeftOf(g)') \in Nat
        /\ Cardinality(LeftOf(g)') <= Cardinality(LeftOf(g) \cup read)
        /\ Cardinality(LeftOf(g) \cup read) \in Nat
    BY <2>4, <2>5, FS_Subset, FS_CardinalityType
  <2>7. half \in Nat /\ half >= 1 /\ Cardinality(SUBSET (1 .. replays + 1)) = half + half
    BY <1>2, SubsetsDouble, SubsetsPositive
  <2>8. Allowance = (1 + lost) * half /\ Allowance' = (1 + lost) * (half + half)
    BY <1>1, <2>7 DEF Allowance
  <2> HIDE DEF half
  <2>9. Allowance \in Nat /\ Allowance' = Allowance + Allowance
    BY <1>2, <2>7, <2>8, AllowanceGrows
  <2>10. QED
    BY <2>1, <2>2, <2>3, <2>5, <2>6, <2>9
<1>7. OthersInv' /\ MissedInv'
  BY <1>0, <1>1, <1>5 DEF OthersInv, MissedInv, Unreplayed
<1>8. QED
  BY <1>4, <1>6, <1>7 DEF ReplayInv

LEMMA RepublishStep ==
  ASSUME ReplayInv, NEW a \in Apis, Republish(a)
  PROVE  ReplayInv'
<1>0. ReplayType /\ CopiesInv /\ OthersInv /\ MissedInv /\ Replayed \in Streams
  BY DEF ReplayInv, Streams
<1>1. PICK i \in replay[a].left :
        /\ \/ Append1(Replayed, log[Replayed][i]) /\ lost' = lost
           \/ UNCHANGED <<log, dropped, cursor, missed>> /\ lost' = lost + 1
        /\ replay' = [replay EXCEPT ![a].left = replay[a].left \ {i}]
  BY DEF Republish, Left
<1>2. replays' = replays /\ named' = named
  BY DEF Republish
<1>f. i \in DOMAIN log[Replayed] /\ log[Replayed][i] \in Frames
  BY <1>0 DEF ReplayType
<1> PICK f \in Frames : f = log[Replayed][i]
  BY <1>f
<1>3. i \in DOMAIN log[Replayed] /\ f = log[Replayed][i] /\ f \notin Others
  BY <1>f, ReplayAssumption
<1>4. /\ replay' \in [Apis -> [left : SUBSET Nat, busy : BOOLEAN]]
      /\ \A b \in Apis : /\ replay'[b].busy = replay[b].busy
                         /\ replay'[b].left = IF b = a THEN replay[a].left \ {i} ELSE replay[b].left
  BY <1>0, <1>1 DEF ReplayType
<1>5. \A g \in Frames : /\ IsFiniteSet(LeftOf(g)) /\ Cardinality(LeftOf(g)) \in Nat
                        /\ Cardinality(Entries(Replayed, g)) \in Nat
                        /\ Cardinality(Entries(Replayed, g)) + Cardinality(LeftOf(g)) <= Allowance
  BY <1>0, EntriesFinite, FS_CardinalityType DEF CopiesInv
<1>6. SUFFICES ASSUME log' \in [Streams -> Seq(Frames \cup Others)], dropped' \in [Streams -> Nat],
                      DOMAIN log[Replayed] \subseteq DOMAIN log'[Replayed],
                      \A k \in DOMAIN log[Replayed] : log'[Replayed][k] = log[Replayed][k],
                      cursor' \in Nat /\ missed' \in Nat, MissedInv',
                      \A z \in Streams : \A g : z # Replayed \/ g # f => Entries(z, g)' = Entries(z, g),
                      Cardinality(Entries(Replayed, f)') <= Cardinality(Entries(Replayed, f)) + 1,
                      Cardinality(Entries(Replayed, f)') \in Nat
               PROVE  ReplayInv'
  <2>1. CASE Append1(Replayed, log[Replayed][i])
    <3>0. Append1(Replayed, f)
      BY <1>3, <2>1
    <3>1. Cardinality(Entries(Replayed, f)') = Cardinality(Entries(Replayed, f)) + 1
      BY <1>0, <1>2, <3>0, EntryCounted
    <3>2. Cardinality(Entries(Replayed, f)') \in Nat
      BY <1>3, <1>5, <3>1
    <3>3. \A z \in Streams : \A g : z # Replayed \/ g # f => Entries(z, g)' = Entries(z, g)
      BY <1>0, <1>2, <3>0, Appended
    <3>4. QED
      BY <1>0, <1>2, <1>5, <1>6, <3>0, <3>1, <3>2, <3>3, Appended
  <2>2. CASE UNCHANGED <<log, dropped, cursor, missed>>
    <3>1. \A z, g : Entries(z, g)' = Entries(z, g)
      BY <2>2 DEF Entries
    <3>2. MissedInv'
      BY <1>0, <1>2, <2>2 DEF MissedInv
    <3>3. QED
      BY <1>0, <1>3, <1>5, <1>6, <2>2, <3>1, <3>2 DEF ReplayType
  <2>3. QED
    BY <1>1, <2>1, <2>2
<1>b. lost \in Nat /\ lost' \in {lost, lost + 1} /\ lost' \in Nat /\ lost' >= lost
  BY <1>0, <1>1 DEF ReplayType
<1>7. ReplayType'
  <2>1. \A b \in Apis :
          /\ replay'[b].left \subseteq {k \in DOMAIN log'[Replayed] : log'[Replayed][k] \in Frames}
          /\ ~replay'[b].busy => replay'[b].left = {}
    BY <1>0, <1>4, <1>6 DEF ReplayType
  <2>2. QED
    BY <1>0, <1>2, <1>4, <1>6, <1>b, <2>1 DEF ReplayType
<1>a. /\ Allowance \in Nat /\ Allowance' \in Nat /\ Allowance' >= Allowance
      /\ lost \in Nat /\ lost' \in Nat /\ lost' >= lost
  BY <1>0, <1>2, <1>7, <1>b, AllowanceKept
<1>8. \A g \in Frames : LeftOf(g)' = LeftOf(g) \ {<<a, i>>}
  BY <1>0, <1>3, <1>4, <1>6 DEF LeftOf, ReplayType
<1>9. <<a, i>> \in LeftOf(f)
  BY <1>3 DEF LeftOf
<1>10. CopiesInv'
  <2> SUFFICES ASSUME NEW g \in Frames
               PROVE  /\ IsFiniteSet(LeftOf(g)')
                      /\ Cardinality(Entries(Replayed, g)') + Cardinality(LeftOf(g)') <= Allowance'
    BY DEF CopiesInv
  <2>1. /\ IsFiniteSet(LeftOf(g)')
        /\ Cardinality(LeftOf(g)')
             = IF <<a, i>> \in LeftOf(g) THEN Cardinality(LeftOf(g)) - 1 ELSE Cardinality(LeftOf(g))
    BY <1>5, <1>8, FS_RemoveElement
  <2> DEFINE e == Cardinality(Entries(Replayed, g))
             l == Cardinality(LeftOf(g))
  <2>2. e \in Nat /\ l \in Nat /\ e + l <= Allowance
    BY <1>5
  <2>3. CASE g = f
    <3>1. Cardinality(LeftOf(g)') = l - 1
      BY <1>9, <2>1, <2>3
    <3>2. Cardinality(Entries(Replayed, g)') <= e + 1 /\ Cardinality(Entries(Replayed, g)') \in Nat
      BY <1>6, <2>3
    <3> HIDE DEF e, l
    <3>3. Cardinality(Entries(Replayed, g)') + Cardinality(LeftOf(g)') <= Allowance'
      BY <1>a, <2>2, <3>1, <3>2
    <3>4. QED
      BY <2>1, <3>3
  <2>4. CASE g # f
    <3>1. Cardinality(LeftOf(g)') <= l /\ Cardinality(LeftOf(g)') \in Int
      BY <2>1, <2>2
    <3>2. Cardinality(Entries(Replayed, g)') = e
      BY <1>0, <1>6, <2>4
    <3> HIDE DEF e, l
    <3>3. Cardinality(Entries(Replayed, g)') + Cardinality(LeftOf(g)') <= Allowance'
      BY <1>a, <2>2, <3>1, <3>2
    <3>4. QED
      BY <2>1, <3>3
  <2>5. QED
    BY <2>3, <2>4
<1>11. OthersInv'
  <2> SUFFICES ASSUME NEW z \in Streams, NEW g \in Frames \cup Others, Unreplayed(z, g)
               PROVE  Cardinality(Entries(z, g)') <= 1 + lost'
    BY DEF OthersInv, Unreplayed
  <2>1. Cardinality(Entries(z, g)) <= 1 + lost /\ Cardinality(Entries(z, g)) \in Nat
    BY <1>0, EntriesFinite DEF OthersInv
  <2>2. z # Replayed \/ g # f
    BY <1>3 DEF Unreplayed
  <2>3. Entries(z, g)' = Entries(z, g)
    BY <1>6, <2>2
  <2>4. QED
    BY <1>a, <2>1, <2>3
<1>12. QED
  BY <1>6, <1>7, <1>10, <1>11 DEF ReplayInv

LEMMA OtherReplaySteps ==
  ASSUME ReplayInv, (\E a \in Apis : EndReplay(a)) \/ Read \/ UNCHANGED replayVars
  PROVE  ReplayInv'
<1>0. ReplayType /\ CopiesInv /\ OthersInv /\ MissedInv
  BY DEF ReplayInv
<1>1. /\ named' = named /\ log' = log /\ dropped' = dropped /\ missed' = missed
      /\ replays' = replays /\ lost' = lost /\ cursor' \in Nat
  BY <1>0 DEF EndReplay, Read, replayVars, ReplayType
<1>2. /\ \A a \in Apis : replay'[a].left = replay[a].left
      /\ replay' \in [Apis -> [left : SUBSET Nat, busy : BOOLEAN]]
      /\ \A a \in Apis : ~replay'[a].busy => replay'[a].left = {}
  <2>1. CASE \E a \in Apis : EndReplay(a)
    <3>1. PICK a \in Apis : EndReplay(a)
      BY <2>1
    <3>2. \A b \in Apis : replay'[b] = IF b = a THEN Idle ELSE replay[b]
      BY <1>0, <3>1 DEF EndReplay, ReplayType
    <3>3. replay[a].left = {}
      BY <3>1 DEF EndReplay
    <3>4. replay' = [replay EXCEPT ![a] = Idle]
      BY <3>1 DEF EndReplay
    <3>5. QED
      BY <1>0, <3>2, <3>3, <3>4 DEF Idle, ReplayType
  <2>2. CASE replay' = replay
    BY <1>0, <2>2 DEF ReplayType
  <2>3. QED
    BY <2>1, <2>2 DEF Read, replayVars
<1>3. \A z, g : Entries(z, g)' = Entries(z, g)
  BY <1>1 DEF Entries
<1>4. \A g : LeftOf(g)' = LeftOf(g)
  BY <1>1, <1>2 DEF LeftOf
<1>5. ReplayType'
  BY <1>0, <1>1, <1>2 DEF ReplayType
<1>6. CopiesInv' /\ OthersInv' /\ MissedInv'
  BY <1>0, <1>1, <1>3, <1>4 DEF CopiesInv, OthersInv, MissedInv, Allowance, Unreplayed
<1>7. QED
  BY <1>5, <1>6 DEF ReplayInv

LEMMA StepReplayInv == ReplayInv /\ [ReplayNext]_replayVars => ReplayInv'
BY ExtractedStep, BeginStep, RepublishStep, OtherReplaySteps DEF ReplayNext

LEMMA ReplayInvImplies == ReplayInv => CopiesPaidFor
<1> SUFFICES ASSUME ReplayInv PROVE CopiesPaidFor
  OBVIOUS
<1>0. ReplayType /\ CopiesInv /\ OthersInv /\ MissedInv /\ Replayed \in Streams
  BY DEF ReplayInv, Streams
<1>a. replays \in Nat
  BY <1>0 DEF ReplayType
<1>1. IsFiniteSet(1 .. replays) /\ Cardinality(1 .. replays) = replays
  BY <1>a, FS_Interval
<1>2. Cardinality(SUBSET (1 .. replays)) = 2 ^ replays
  BY <1>1, FS_SUBSET
<1>3. Allowance = (1 + lost) * 2 ^ replays /\ Allowance \in Nat
  BY <1>0, <1>2, SubsetsPositive, AllowanceGrows DEF Allowance, ReplayType
<1>4. ASSUME NEW f \in Frames PROVE Cardinality(Entries(Replayed, f)) <= Allowance
  <2>1. /\ Cardinality(Entries(Replayed, f)) \in Nat /\ Cardinality(LeftOf(f)) \in Nat
        /\ Cardinality(Entries(Replayed, f)) + Cardinality(LeftOf(f)) <= Allowance
    BY <1>0, EntriesFinite, FS_CardinalityType DEF CopiesInv
  <2>2. QED
    BY <1>3, <2>1
<1>5. ASSUME NEW s \in Streams, NEW f \in Frames \cup Others
      PROVE  Cardinality(Entries(s, f))
               <= (1 + lost) * (IF s = Replayed /\ f \in Frames THEN 2 ^ replays ELSE 1)
  <2>1. CASE s = Replayed /\ f \in Frames
    BY <1>3, <1>4, <2>1
  <2>2. CASE ~(s = Replayed /\ f \in Frames)
    <3>1. Cardinality(Entries(s, f)) <= 1 + lost /\ lost \in Nat
      BY <1>0, <2>2 DEF OthersInv, Unreplayed, ReplayType
    <3>2. (1 + lost) * 1 = 1 + lost
      BY <3>1
    <3>3. QED
      BY <2>2, <3>1, <3>2
  <2>3. QED
    BY <2>1, <2>2
<1>6. QED
  BY <1>0, <1>5 DEF CopiesPaidFor, MissedInv

\* Whichever of the two streams FRAME_EVENTS_STREAM names, however many replays overlap, in however
\* many processes, and whichever calls fail: in the stream that replays read (Replay.py 36) an event
\* has at most twice as many entries for every replay begun, since a replay reads what earlier ones
\* appended but never its own entries (it works on the list XRANGE returned); events of other videos,
\* and all events of the other stream, have their extractor's entries only; a failing call pays for
\* one to begin with; and the embedder misses nothing until its stream is over its length (Replay.py
\* 48-69, Producer.py 50, extractor.py 340-358).  That a replay has anything before it is not said.
THEOREM CopiesBounded == ReplaySpec => []CopiesPaidFor
<1>1. ReplayInit => ReplayInv
  BY InitReplayInv
<1>2. ReplayInv /\ [ReplayNext]_replayVars => ReplayInv'
  BY StepReplayInv
<1>3. ReplayInv => CopiesPaidFor
  BY ReplayInvImplies
<1>4. QED
  BY <1>1, <1>2, <1>3, PTL DEF ReplaySpec

================================================================================
