----------------------------- MODULE TenancyProofs -----------------------------
(***************************************************************************)
(* Theorems about tenants, their data, users and credentials, for any      *)
(* callers, administrators, requests and clients and any bounds; and about *)
(* the eight sides of their administration together.                       *)
(***************************************************************************)
EXTENDS Tenancy, RecordsProofs

--------------------------------------------------------------------------------
(* A tenant's data and its deletion.                                            *)

Jobs == {<<>>} \cup ({"create", "index", "use"} \X Kinds \X {"search", "insert"})

DataTypes ==
  /\ collection \in [Kinds -> {"none", "bare", "ready"}] /\ job \in [Callers -> Jobs]
  /\ answer \in {"none", "hits", "empty", "unavailable"}
  /\ items \in [Places -> SUBSET (1 .. MaxItems)] /\ written \in 0 .. MaxItems
  /\ erasing \in {"idle", "list", "remove", "row"} /\ step \in 1 .. 3 /\ row \in BOOLEAN /\ faults \in Nat

\* Collections without an index that nobody is about to index.
Orphans == {k \in Kinds : collection[k] = "bare" /\ \A c \in Callers : ~At(c, "index") \/ Kind(c) # k}

OrphansInv == Cardinality(Orphans) <= faults

\* A collection that does not exist has no items.
NoneEmpty == \A k \in Kinds : collection[k] = "none" => items[k] = {}

Dealt(i) == Cleaned[i] \in skipped \/ Matched(Cleaned[i]) \subseteq late

\* The deletion has dealt with the places before its step.
ErasingInv ==
  /\ erasing = "idle" => step = 1
  /\ erasing # "idle" => row
  /\ erasing \in {"list", "remove"} => \A i \in 1 .. 3 : i < step => Dealt(i)
  /\ erasing = "remove" => Matched(Cleaned[step]) \subseteq late \cup listed
  /\ erasing = "row" => \A i \in 1 .. 3 : Dealt(i) /\ step = 3
  /\ ~row => \A i \in 1 .. 3 : Dealt(i)

TenantInv == DataTypes /\ OrphansInv /\ NoneEmpty /\ ErasingInv

LEMMA ThreeKinds ==
  ASSUME NEW S \in SUBSET Kinds
  PROVE  /\ IsFiniteSet(S) /\ Cardinality(S) \in Nat
         /\ \A T \in SUBSET S : Cardinality(T) <= Cardinality(S) /\ Cardinality(T) \in Nat
         /\ \A k \in Kinds : Cardinality(S \cup {k}) <= Cardinality(S) + 1 /\ Cardinality(S \cup {k}) \in Nat
<1>1. IsFiniteSet({"frames"}) /\ IsFiniteSet({"person"}) /\ IsFiniteSet({"vehicle"})
  BY FS_Singleton
<1>2. IsFiniteSet({"frames"} \cup {"person"})
  BY <1>1, FS_Union
<1>3. IsFiniteSet(({"frames"} \cup {"person"}) \cup {"vehicle"})
  BY <1>1, <1>2, FS_Union
<1>4. Kinds = ({"frames"} \cup {"person"}) \cup {"vehicle"}
  BY DEF Kinds
<1>5. IsFiniteSet(S) /\ Cardinality(S) \in Nat
  BY <1>3, <1>4, FS_Subset, FS_CardinalityType
<1>6. \A T \in SUBSET S : Cardinality(T) <= Cardinality(S) /\ Cardinality(T) \in Nat
  BY <1>5, FS_Subset, FS_CardinalityType
<1>7. ASSUME NEW k \in Kinds PROVE Cardinality(S \cup {k}) <= Cardinality(S) + 1 /\ Cardinality(S \cup {k}) \in Nat
  <2>1. Cardinality(S \cup {k}) = Cardinality(S) \/ Cardinality(S \cup {k}) = Cardinality(S) + 1
    BY <1>5, FS_AddElement, Zenon
  <2>2. QED
    BY <1>5, <2>1
<1>8. QED
  BY <1>5, <1>6, <1>7

LEMMA ThreeCleaned ==
  /\ Len(Cleaned) = 3 /\ DOMAIN Cleaned = 1 .. 3 /\ \A i \in 1 .. 3 : Cleaned[i] \in Places
  /\ Kinds \subseteq Places /\ "plates" \notin Kinds
BY DEF Cleaned, Places, Kinds

LEMMA InitTenantInv == TenantInit => TenantInv
<1> SUFFICES ASSUME TenantInit PROVE TenantInv
  OBVIOUS
<1>a. /\ collection = [k \in Kinds |-> "none"] /\ job = [c \in Callers |-> <<>>] /\ answer = "none"
      /\ items = [p \in Places |-> {}] /\ written = 0 /\ erasing = "idle" /\ step = 1 /\ faults = 0
  BY DEF TenantInit
<1>b. row
  BY Zenon DEF TenantInit
<1>c. Kinds \subseteq Places
  BY ThreeCleaned
<1>1. DataTypes
  <2>1. row \in BOOLEAN
    BY <1>b, Zenon DEF TenantInit
  <2>2. 0 \in 0 .. MaxItems
    BY TenantAssumption DEF TenantAssumption
  <2>3. QED
    BY <1>a, <2>1, <2>2 DEF DataTypes, Jobs
<1>2. OrphansInv
  <2>1. Orphans = {}
    BY <1>a DEF Orphans
  <2>2. Cardinality({}) = 0
    BY FS_EmptySet
  <2>3. Cardinality(Orphans) = 0
    BY <2>1, <2>2
  <2>4. QED
    BY <1>a, <2>3 DEF OrphansInv
<1>3. NoneEmpty
  BY <1>a, <1>c DEF NoneEmpty
<1>4. ErasingInv
  BY <1>a, <1>b DEF ErasingInv
<1>5. QED
  BY <1>1, <1>2, <1>3, <1>4 DEF TenantInv

LEMMA Calling ==
  ASSUME DataTypes, NEW c \in Callers, job[c] # <<>>
  PROVE  /\ job[c] \in {"create", "index", "use"} \X Kinds \X {"search", "insert"}
         /\ Kind(c) \in Kinds
         /\ \A stage : Goto(c, stage) => job' = [job EXCEPT ![c] = <<stage, Kind(c), Use(c)>>]
<1>1. job[c] \in {"create", "index", "use"} \X Kinds \X {"search", "insert"}
  BY DEF DataTypes, Jobs
<1>2. ASSUME NEW stage, Goto(c, stage) PROVE job' = [job EXCEPT ![c] = <<stage, Kind(c), Use(c)>>]
  <2>1. [job[c] EXCEPT ![1] = stage] = <<stage, Kind(c), Use(c)>>
    BY <1>1 DEF Kind, Use
  <2>2. job' = [job EXCEPT ![c] = [job[c] EXCEPT ![1] = stage]]
    BY <1>2 DEF Goto
  <2>3. QED
    BY <2>1, <2>2
<1>3. QED
  BY <1>1, <1>2 DEF Kind

\* What the steps of a caller are made of.
CallerStep(c) ==
  \/ \E k \in Kinds, u \in {"search", "insert"} : Look(c, k, u)
  \/ Create(c) \/ CreateIndex(c) \/ Search(c) \/ Insert(c) \/ CallerCrash(c)

LEMMA StepsOf ==
  TenantNext => \/ \E c \in Callers : CallerStep(c)
                \/ Write \/ BeginDelete \/ ListPlace \/ RemoveListed \/ DeleteRow \/ DeleteCrash
<1>1. "frames" \in Kinds /\ "person" \in Kinds /\ "vehicle" \in Kinds
  BY DEF Kinds
<1>2. QED
  BY <1>1 DEF TenantNext, CallerStep, SearchText, SearchPersons, SearchVehicles, InsertInto, EnsureFrames, EnsurePersons, EnsureVehicles


\* What a step of a caller may be: it looks, creates, indexes, or its call returns.
Looks(c) ==
  /\ job[c] = <<>> /\ \E j \in {"create", "use"} \X Kinds \X {"search", "insert"} : job' = [job EXCEPT ![c] = j]
  /\ UNCHANGED <<collection, dataVars, eraseVars, faults>> /\ answer' = "none"
Creates(c) ==
  /\ At(c, "create") /\ job' = [job EXCEPT ![c] = <<"index", Kind(c), Use(c)>>]
  /\ collection' = [collection EXCEPT ![Kind(c)] = IF @ = "none" THEN "bare" ELSE @]
  /\ UNCHANGED <<answer, dataVars, eraseVars, faults>>
Indexes(c) ==
  /\ At(c, "index") /\ job' = [job EXCEPT ![c] = <<"use", Kind(c), Use(c)>>]
  /\ collection[Kind(c)] # "none" /\ collection' = [collection EXCEPT ![Kind(c)] = "ready"]
  /\ UNCHANGED <<answer, dataVars, eraseVars, faults>>
Returns(c) ==
  /\ job[c] # <<>> /\ job' = [job EXCEPT ![c] = <<>>] /\ UNCHANGED <<collection, eraseVars>>
  /\ faults' = faults + 1 \/ (faults' = faults /\ (~At(c, "index") \/ collection[Kind(c)] = "none"))
  /\ UNCHANGED dataVars \/ (collection[Kind(c)] # "none" /\ Put(Kind(c)))
  /\ \/ answer' = answer \/ answer' \in {"unavailable", "hits"}
     \/ answer' = "empty" /\ collection[Kind(c)] = "ready" /\ items[Kind(c)] = {}

LEMMA CallCases ==
  ASSUME DataTypes, NEW c \in Callers, CallerStep(c)
  PROVE  Looks(c) \/ Creates(c) \/ Indexes(c) \/ Returns(c)
<1>1. ASSUME NEW k \in Kinds, NEW u \in {"search", "insert"}, Look(c, k, u) PROVE Looks(c)
  <2>1. /\ job[c] = <<>> /\ UNCHANGED <<collection, dataVars, eraseVars, faults>> /\ answer' = "none"
        /\ job' = [job EXCEPT ![c] = <<IF collection[k] = "none" THEN "create" ELSE "use", k, u>>]
    BY <1>1, Zenon DEF Look
  <2>2. <<IF collection[k] = "none" THEN "create" ELSE "use", k, u>> \in {"create", "use"} \X Kinds \X {"search", "insert"}
    OBVIOUS
  <2>3. QED
    BY <2>1, <2>2, Zenon DEF Looks
<1>f. ASSUME Fail(c), job[c] # <<>>, faults' = faults + 1 \/ (faults' = faults /\ (~At(c, "index") \/ collection[Kind(c)] = "none"))
      PROVE  Returns(c)
  <2>1. job' = [job EXCEPT ![c] = <<>>] /\ answer' = "unavailable" /\ UNCHANGED <<collection, dataVars, eraseVars>>
    BY <1>f, Zenon DEF Fail, Return, Unavailable
  <2>2. answer' \in {"unavailable", "hits"}
    BY <2>1
  <2>3. UNCHANGED dataVars /\ UNCHANGED <<collection, eraseVars>>
    BY <2>1, Zenon
  <2>4. QED
    BY <1>f, <2>1, <2>2, <2>3, Zenon DEF Returns
<1>2. CASE Create(c)
  <2>1. At(c, "create") /\ job[c] # <<>>
    BY <1>2 DEF Create, At
  <2>2. CASE Fault /\ Fail(c)
    BY <2>1, <2>2, <1>f DEF Fault
  <2>3. CASE /\ Goto(c, "index") /\ UNCHANGED <<calls, answer, dataVars, eraseVars, faults>>
             /\ collection' = [collection EXCEPT ![Kind(c)] = IF @ = "none" THEN "bare" ELSE @]
    <3>1. job' = [job EXCEPT ![c] = <<"index", Kind(c), Use(c)>>]
      BY <2>1, <2>3, Calling
    <3>2. QED
      BY <2>1, <2>3, <3>1, Zenon DEF Creates
  <2>4. QED
    BY <1>2, <2>2, <2>3, Zenon DEF Create
<1>3. CASE CreateIndex(c)
  <2>1. At(c, "index") /\ job[c] # <<>>
    BY <1>3 DEF CreateIndex, At
  <2>2. CASE Fault /\ Fail(c)
    BY <2>1, <2>2, <1>f DEF Fault
  <2>3. CASE collection[Kind(c)] = "none" /\ Fail(c) /\ UNCHANGED faults
    BY <2>1, <2>3, <1>f
  <2>4. CASE /\ collection[Kind(c)] # "none" /\ Goto(c, "use") /\ UNCHANGED <<calls, answer, dataVars, eraseVars, faults>>
             /\ collection' = [collection EXCEPT ![Kind(c)] = "ready"]
    <3>1. job' = [job EXCEPT ![c] = <<"use", Kind(c), Use(c)>>]
      BY <2>1, <2>4, Calling
    <3>2. QED
      BY <2>1, <2>4, <3>1, Zenon DEF Indexes
  <2>5. QED
    BY <1>3, <2>2, <2>3, <2>4, Zenon DEF CreateIndex
<1>4. CASE Search(c)
  <2>1. job[c] # <<>> /\ ~At(c, "index")
    BY <1>4 DEF Search, At
  <2>2. CASE Fault /\ Fail(c)
    BY <2>1, <2>2, <1>f DEF Fault
  <2>3. CASE collection[Kind(c)] # "ready" /\ Fail(c) /\ UNCHANGED faults
    BY <2>1, <2>3, <1>f
  <2>4. CASE /\ collection[Kind(c)] = "ready" /\ Return(c)
             /\ answer' = IF items[Kind(c)] = {} THEN "empty" ELSE "hits"
             /\ UNCHANGED <<collection, calls, dataVars, eraseVars, faults>>
    <3>1. job' = [job EXCEPT ![c] = <<>>] /\ UNCHANGED <<collection, eraseVars>> /\ UNCHANGED dataVars /\ faults' = faults
      BY <2>4, Zenon DEF Return
    <3>2. answer' \in {"unavailable", "hits"} \/ (answer' = "empty" /\ items[Kind(c)] = {})
      BY <2>4
    <3>3. QED
      BY <2>1, <2>4, <3>1, <3>2, Zenon DEF Returns
  <2>5. QED
    BY <1>4, <2>2, <2>3, <2>4, Zenon DEF Search
<1>5. CASE Insert(c)
  <2>1. job[c] # <<>> /\ ~At(c, "index")
    BY <1>5 DEF Insert, At
  <2>2. CASE collection[Kind(c)] = "none" /\ Fail(c) /\ UNCHANGED faults
    BY <2>1, <2>2, <1>f
  <2>3. CASE /\ collection[Kind(c)] # "none" /\ Put(Kind(c)) /\ Return(c)
             /\ UNCHANGED <<collection, calls, answer, eraseVars, faults>>
    BY <2>1, <2>3, Zenon DEF Return, Returns
  <2>4. QED
    BY <1>5, <2>2, <2>3, Zenon DEF Insert
<1>6. CASE CallerCrash(c)
  <2>1. job[c] # <<>> /\ job' = [job EXCEPT ![c] = <<>>] /\ faults' = faults + 1
        /\ UNCHANGED <<collection, eraseVars>> /\ UNCHANGED dataVars /\ answer' = answer
    BY <1>6, Zenon DEF CallerCrash, Return, Fault
  <2>2. QED
    BY <2>1, Zenon DEF Returns
<1>7. QED
  BY <1>1, <1>2, <1>3, <1>4, <1>5, <1>6 DEF CallerStep

\* An item that is written, and the types of what a deletion changes.
LEMMA PutsOne ==
  ASSUME DataTypes, NEW p \in Places, Put(p)
  PROVE  /\ written' \in 0 .. MaxItems /\ items' \in [Places -> SUBSET (1 .. MaxItems)] /\ late \subseteq late'
         /\ items' = [items EXCEPT ![p] = @ \cup {written'}]
         /\ \A q \in Places \ {p} : items'[q] = items[q]
         /\ items'[p] = items[p] \cup {written'} /\ (Listed(p) => written' \in late')
<1>1. /\ written < MaxItems /\ written' = written + 1 /\ items' = [items EXCEPT ![p] = @ \cup {written'}]
      /\ late' = IF Listed(p) THEN late \cup {written'} ELSE late
  BY DEF Put
<1>2. written \in 0 .. MaxItems /\ items \in [Places -> SUBSET (1 .. MaxItems)] /\ MaxItems \in Nat
  BY TenantAssumption DEF DataTypes, TenantAssumption
<1>3. written' \in 1 .. MaxItems
  BY <1>1, <1>2
<1>4. late \subseteq late' /\ (Listed(p) => written' \in late')
  BY <1>1, Zenon
<1>5. QED
  BY <1>1, <1>2, <1>3, <1>4

LEMMA DeletionMoves ==
  ASSUME DataTypes
  PROVE  /\ ListPlace =>
              /\ erasing = "list" /\ UNCHANGED <<collectionVars, row, dataVars>> /\ (faults' = faults \/ faults' = faults + 1)
              /\ \/ /\ skipped' = skipped /\ erasing' = "remove" /\ listed' = Matched(Cleaned[step]) /\ step' = step
                 \/ /\ skipped' = skipped /\ Cleaned[step] \in Kinds /\ collection[Cleaned[step]] = "none" /\ Onward
                 \/ skipped' = skipped \cup {Cleaned[step]} /\ Onward
         /\ RemoveListed =>
              /\ erasing = "remove" /\ UNCHANGED <<callVars, row, written, late>> /\ (faults' = faults \/ faults' = faults + 1)
              /\ Onward
              /\ \/ /\ skipped' = skipped /\ \E R \in Removals(Cleaned[step]) : items' = [items EXCEPT ![Cleaned[step]] = @ \ R]
                    /\ collection' = IF Cleaned[step] \in Kinds THEN [collection EXCEPT ![Cleaned[step]] = "none"] ELSE collection
                 \/ /\ skipped' = skipped \cup {Cleaned[step]} /\ collection' = collection
                    /\ \E R \in SUBSET listed : items' = [items EXCEPT ![Cleaned[step]] = IF Cleaned[step] \in Kinds THEN @ ELSE @ \ R]
         /\ Onward => \/ step = 3 /\ erasing' = "row" /\ step' = step
                      \/ step # 3 /\ erasing' = "list" /\ step' = step + 1
<1>1. Onward => \/ step = 3 /\ erasing' = "row" /\ step' = step
                \/ step # 3 /\ erasing' = "list" /\ step' = step + 1
  BY ThreeCleaned DEF Onward
<1>2. ASSUME ListPlace
      PROVE  /\ erasing = "list" /\ UNCHANGED <<collectionVars, row, dataVars>> /\ (faults' = faults \/ faults' = faults + 1)
             /\ \/ /\ skipped' = skipped /\ erasing' = "remove" /\ listed' = Matched(Cleaned[step]) /\ step' = step
                \/ /\ skipped' = skipped /\ Cleaned[step] \in Kinds /\ collection[Cleaned[step]] = "none" /\ Onward
                \/ skipped' = skipped \cup {Cleaned[step]} /\ Onward
  BY <1>2, Zenon DEF ListPlace, Fault, Skip
<1>3. ASSUME RemoveListed
      PROVE  /\ erasing = "remove" /\ UNCHANGED <<callVars, row, written, late>> /\ (faults' = faults \/ faults' = faults + 1)
             /\ Onward
             /\ \/ /\ skipped' = skipped /\ \E R \in Removals(Cleaned[step]) : items' = [items EXCEPT ![Cleaned[step]] = @ \ R]
                   /\ collection' = IF Cleaned[step] \in Kinds THEN [collection EXCEPT ![Cleaned[step]] = "none"] ELSE collection
                \/ /\ skipped' = skipped \cup {Cleaned[step]} /\ collection' = collection
                   /\ \E R \in SUBSET listed : items' = [items EXCEPT ![Cleaned[step]] = IF Cleaned[step] \in Kinds THEN @ ELSE @ \ R]
  BY <1>3, Zenon DEF RemoveListed, Fault, Skip
<1>4. QED
  BY <1>1, <1>2, <1>3

LEMMA CallerKeepsTypes ==
  ASSUME DataTypes, NEW c \in Callers, CallerStep(c)
  PROVE  DataTypes'
<1>1. Looks(c) \/ Creates(c) \/ Indexes(c) \/ Returns(c)
  BY CallCases
<1>2. Kinds \subseteq Places
  BY ThreeCleaned
<1>3. CASE Looks(c)
  <2>1. UNCHANGED <<collection, items, written, erasing, step, row, faults>> /\ answer' = "none"
    BY <1>3, Zenon DEF Looks, dataVars, eraseVars
  <2>2. PICK j \in {"create", "use"} \X Kinds \X {"search", "insert"} : job' = [job EXCEPT ![c] = j]
    BY <1>3, Zenon DEF Looks
  <2>3. j \in Jobs
    BY <2>2 DEF Jobs
  <2>4. job' \in [Callers -> Jobs]
    BY <2>2, <2>3 DEF DataTypes
  <2>5. QED
    BY <2>1, <2>4 DEF DataTypes
<1>4. CASE Creates(c)
  <2>1. UNCHANGED <<answer, items, written, erasing, step, row, faults>> /\ At(c, "create")
        /\ job' = [job EXCEPT ![c] = <<"index", Kind(c), Use(c)>>]
        /\ collection' = [collection EXCEPT ![Kind(c)] = IF @ = "none" THEN "bare" ELSE @]
    BY <1>4, Zenon DEF Creates, dataVars, eraseVars
  <2>2. Kind(c) \in Kinds /\ <<"index", Kind(c), Use(c)>> \in Jobs
    BY <2>1, Calling DEF At, Jobs, Use
  <2>3. job' \in [Callers -> Jobs] /\ collection' \in [Kinds -> {"none", "bare", "ready"}]
    BY <2>1, <2>2 DEF DataTypes
  <2>4. QED
    BY <2>1, <2>3 DEF DataTypes
<1>5. CASE Indexes(c)
  <2>1. UNCHANGED <<answer, items, written, erasing, step, row, faults>> /\ At(c, "index")
        /\ job' = [job EXCEPT ![c] = <<"use", Kind(c), Use(c)>>]
        /\ collection' = [collection EXCEPT ![Kind(c)] = "ready"]
    BY <1>5, Zenon DEF Indexes, dataVars, eraseVars
  <2>2. Kind(c) \in Kinds /\ <<"use", Kind(c), Use(c)>> \in Jobs
    BY <2>1, Calling DEF At, Jobs, Use
  <2>3. job' \in [Callers -> Jobs] /\ collection' \in [Kinds -> {"none", "bare", "ready"}]
    BY <2>1, <2>2 DEF DataTypes
  <2>4. QED
    BY <2>1, <2>3 DEF DataTypes
<1>6. CASE Returns(c)
  <2>1. UNCHANGED <<collection, erasing, step, row>> /\ job' = [job EXCEPT ![c] = <<>>] /\ job[c] # <<>>
    BY <1>6, Zenon DEF Returns, eraseVars
  <2>2. faults' = faults + 1 \/ faults' = faults
    BY <1>6, Zenon DEF Returns
  <2>3. answer' \in {"none", "hits", "empty", "unavailable"}
    BY <1>6 DEF Returns, DataTypes
  <2>4. Kind(c) \in Places
    BY <2>1, <1>2, Calling
  <2>5. written' \in 0 .. MaxItems /\ items' \in [Places -> SUBSET (1 .. MaxItems)]
    <3>1. CASE Put(Kind(c))
      BY <3>1, <2>4, PutsOne
    <3>2. CASE UNCHANGED dataVars
      BY <3>2 DEF dataVars, DataTypes
    <3>3. QED
      BY <1>6, <3>1, <3>2, Zenon DEF Returns
  <2>6. job' \in [Callers -> Jobs]
    BY <2>1 DEF DataTypes, Jobs
  <2>7. QED
    BY <2>1, <2>2, <2>3, <2>5, <2>6 DEF DataTypes
<1>7. QED
  BY <1>1, <1>3, <1>4, <1>5, <1>6

LEMMA DeletionKeepsTypes ==
  ASSUME DataTypes, Write \/ BeginDelete \/ ListPlace \/ RemoveListed \/ DeleteRow \/ DeleteCrash
  PROVE  DataTypes'
<1>w. CASE Write
  <2>1. PICK p \in Places \ Kinds : Put(p) /\ UNCHANGED <<collectionVars, eraseVars, faults>>
    BY <1>w DEF Write
  <2>2. UNCHANGED <<collection, job, answer, erasing, step, row, faults>>
    BY <2>1 DEF collectionVars, callVars, eraseVars
  <2>3. written' \in 0 .. MaxItems /\ items' \in [Places -> SUBSET (1 .. MaxItems)]
    BY <2>1, PutsOne
  <2>4. QED
    BY <2>2, <2>3 DEF DataTypes
<1>b. CASE BeginDelete
  BY <1>b DEF BeginDelete, DataTypes, collectionVars, callVars
<1>l. CASE ListPlace
  <2>1. /\ erasing = "list" /\ UNCHANGED <<collectionVars, row, dataVars>> /\ (faults' = faults \/ faults' = faults + 1)
        /\ (erasing' = "remove" /\ step' = step) \/ Onward
    BY <1>l, DeletionMoves
  <2>2. UNCHANGED <<collection, job, answer, items, written, row>>
    BY <2>1 DEF collectionVars, callVars, dataVars
  <2>3. Onward => \/ step = 3 /\ erasing' = "row" /\ step' = step
                  \/ step # 3 /\ erasing' = "list" /\ step' = step + 1
    BY DeletionMoves
  <2>4. erasing' \in {"idle", "list", "remove", "row"} /\ step' \in 1 .. 3
    BY <2>1, <2>3 DEF DataTypes
  <2>5. QED
    BY <2>1, <2>2, <2>4 DEF DataTypes
<1>r. CASE RemoveListed
  <2>1. /\ UNCHANGED <<callVars, row, written>> /\ (faults' = faults \/ faults' = faults + 1) /\ Onward
        /\ \/ /\ \E R \in Removals(Cleaned[step]) : items' = [items EXCEPT ![Cleaned[step]] = @ \ R]
              /\ collection' = IF Cleaned[step] \in Kinds THEN [collection EXCEPT ![Cleaned[step]] = "none"] ELSE collection
           \/ /\ collection' = collection
              /\ \E R \in SUBSET listed : items' = [items EXCEPT ![Cleaned[step]] = IF Cleaned[step] \in Kinds THEN @ ELSE @ \ R]
    BY <1>r, DeletionMoves
  <2>2. Onward => \/ step = 3 /\ erasing' = "row" /\ step' = step
                  \/ step # 3 /\ erasing' = "list" /\ step' = step + 1
    BY DeletionMoves
  <2>3. erasing' \in {"idle", "list", "remove", "row"} /\ step' \in 1 .. 3
    BY <2>1, <2>2 DEF DataTypes
  <2>4. UNCHANGED <<job, answer, row, written>>
    BY <2>1 DEF callVars
  <2>5. items' \in [Places -> SUBSET (1 .. MaxItems)] /\ collection' \in [Kinds -> {"none", "bare", "ready"}]
    <3>1. Cleaned[step] \in Places
      BY ThreeCleaned DEF DataTypes
    <3>2. CASE /\ \E R \in Removals(Cleaned[step]) : items' = [items EXCEPT ![Cleaned[step]] = @ \ R]
               /\ collection' = IF Cleaned[step] \in Kinds THEN [collection EXCEPT ![Cleaned[step]] = "none"] ELSE collection
      BY <3>1, <3>2 DEF DataTypes
    <3>3. CASE /\ collection' = collection
               /\ \E R \in SUBSET listed : items' = [items EXCEPT ![Cleaned[step]] = IF Cleaned[step] \in Kinds THEN @ ELSE @ \ R]
      BY <3>1, <3>3 DEF DataTypes
    <3>4. QED
      BY <2>1, <3>2, <3>3
  <2>6. QED
    BY <2>1, <2>3, <2>4, <2>5 DEF DataTypes
<1>d. CASE DeleteRow
  <2>1. row' \in BOOLEAN
    BY <1>d, Zenon DEF DeleteRow
  <2>2. UNCHANGED <<collection, job, answer, items, written, faults>> /\ erasing' = "idle" /\ step' = 1
    BY <1>d, Zenon DEF DeleteRow, collectionVars, callVars, dataVars
  <2>3. QED
    BY <2>1, <2>2 DEF DataTypes
<1>c. CASE DeleteCrash
  BY <1>c DEF DeleteCrash, DataTypes, collectionVars, callVars, dataVars, Fault
<1>q. QED
  BY <1>w, <1>b, <1>l, <1>r, <1>d, <1>c

\* A collection loses the caller that would index it only by a fault.
LEMMA OrphansMove ==
  ASSUME DataTypes, TenantNext
  PROVE  \/ Orphans' \subseteq Orphans /\ (faults' = faults \/ faults' = faults + 1)
         \/ faults' = faults + 1 /\ \E k \in Kinds : Orphans' \subseteq Orphans \cup {k}
<1> DEFINE Next1 == {k \in Kinds : collection'[k] = "bare"
                       /\ \A d \in Callers : ~(job'[d] # <<>> /\ job'[d][1] = "index") \/ job'[d][2] # k}
<1>0. Orphans' = Next1
  BY DEF Orphans, At, Kind
<1>1. ASSUME NEW c \in Callers, CallerStep(c)
      PROVE  \/ Next1 \subseteq Orphans /\ (faults' = faults \/ faults' = faults + 1)
             \/ faults' = faults + 1 /\ \E k \in Kinds : Next1 \subseteq Orphans \cup {k}
  <2>1. Looks(c) \/ Creates(c) \/ Indexes(c) \/ Returns(c)
    BY <1>1, CallCases
  <2>2. job \in [Callers -> Jobs] /\ collection \in [Kinds -> {"none", "bare", "ready"}]
    BY DEF DataTypes
  <2>3. CASE Looks(c)
    <3>1. UNCHANGED <<collection, faults>> /\ job[c] = <<>>
      BY <2>3, Zenon DEF Looks
    <3>2. PICK j \in {"create", "use"} \X Kinds \X {"search", "insert"} : job' = [job EXCEPT ![c] = j]
      BY <2>3, Zenon DEF Looks
    <3>3. \A d \in Callers : At(d, "index") => job'[d] = job[d]
      BY <2>2, <3>1, <3>2 DEF At
    <3>4. Next1 \subseteq Orphans
      BY <3>1, <3>3 DEF Orphans, At, Kind
    <3>5. QED
      BY <3>1, <3>4
  <2>4. CASE Creates(c)
    <3>1. UNCHANGED faults /\ At(c, "create")
          /\ job' = [job EXCEPT ![c] = <<"index", Kind(c), Use(c)>>]
          /\ collection' = [collection EXCEPT ![Kind(c)] = IF @ = "none" THEN "bare" ELSE @]
      BY <2>4, Zenon DEF Creates
    <3>2. job'[c] = <<"index", Kind(c), Use(c)>> /\ ~At(c, "index")
      BY <2>2, <3>1 DEF At
    <3>3. \A d \in Callers : At(d, "index") => job'[d] = job[d]
      BY <2>2, <3>1, <3>2
    <3>4. Kind(c) \notin Next1
      BY <3>2
    <3>5. \A k \in Kinds : k # Kind(c) => collection'[k] = collection[k]
      BY <2>2, <3>1
    <3>6. Next1 \subseteq Orphans
      BY <3>3, <3>4, <3>5 DEF Orphans, At, Kind
    <3>7. QED
      BY <3>1, <3>6
  <2>5. CASE Indexes(c)
    <3>1. UNCHANGED faults /\ At(c, "index")
          /\ job' = [job EXCEPT ![c] = <<"use", Kind(c), Use(c)>>]
          /\ collection' = [collection EXCEPT ![Kind(c)] = "ready"]
      BY <2>5, Zenon DEF Indexes
    <3>2. Kind(c) \in Kinds
      BY <3>1, Calling DEF At
    <3>3. \A d \in Callers : At(d, "index") => d = c \/ job'[d] = job[d]
      BY <2>2, <3>1
    <3>4. Kind(c) \notin Next1
      BY <2>2, <3>1, <3>2
    <3>5. \A k \in Kinds : k # Kind(c) => collection'[k] = collection[k]
      BY <2>2, <3>1
    <3>6. Next1 \subseteq Orphans
      BY <3>3, <3>4, <3>5 DEF Orphans, At, Kind
    <3>7. QED
      BY <3>1, <3>6
  <2>6. CASE Returns(c)
    <3>1. UNCHANGED collection /\ job' = [job EXCEPT ![c] = <<>>] /\ job[c] # <<>>
          /\ (faults' = faults + 1 \/ (faults' = faults /\ (~At(c, "index") \/ collection[Kind(c)] = "none")))
      BY <2>6, Zenon DEF Returns
    <3>2. Kind(c) \in Kinds
      BY <3>1, Calling
    <3>3. \A d \in Callers : d # c => job'[d] = job[d]
      BY <2>2, <3>1
    <3>4. Next1 \subseteq Orphans \cup {Kind(c)}
      BY <3>1, <3>3 DEF Orphans, At, Kind
    <3>5. ~At(c, "index") \/ collection[Kind(c)] = "none" => Next1 \subseteq Orphans
      BY <3>1, <3>3 DEF Orphans, At, Kind
    <3>6. QED
      BY <3>1, <3>2, <3>4, <3>5
  <2>7. QED
    BY <2>1, <2>3, <2>4, <2>5, <2>6
<1>2. ASSUME Write \/ BeginDelete \/ ListPlace \/ RemoveListed \/ DeleteRow \/ DeleteCrash
      PROVE  Next1 \subseteq Orphans /\ (faults' = faults \/ faults' = faults + 1)
  <2>1. job' = job /\ (faults' = faults \/ faults' = faults + 1)
        /\ (collection' = collection \/ \E p \in Kinds : collection' = [collection EXCEPT ![p] = "none"])
    <3>1. Write => UNCHANGED <<job, collection, faults>>
      BY DEF Write, collectionVars, callVars
    <3>2. BeginDelete => UNCHANGED <<job, collection, faults>>
      BY DEF BeginDelete, collectionVars, callVars
    <3>3. ListPlace => UNCHANGED <<job, collection>> /\ (faults' = faults \/ faults' = faults + 1)
      BY DeletionMoves DEF collectionVars, callVars
    <3>4. ASSUME RemoveListed
          PROVE  job' = job /\ (faults' = faults \/ faults' = faults + 1)
                 /\ (collection' = collection \/ \E p \in Kinds : collection' = [collection EXCEPT ![p] = "none"])
      <4>1. UNCHANGED callVars /\ (faults' = faults \/ faults' = faults + 1)
            /\ (collection' = collection
                \/ collection' = IF Cleaned[step] \in Kinds THEN [collection EXCEPT ![Cleaned[step]] = "none"] ELSE collection)
        BY <3>4, DeletionMoves
      <4>2. QED
        BY <4>1 DEF callVars
    <3>5. DeleteRow => UNCHANGED <<job, collection, faults>>
      BY DEF DeleteRow, collectionVars, callVars
    <3>6. DeleteCrash => UNCHANGED <<job, collection>> /\ faults' = faults + 1
      BY DEF DeleteCrash, collectionVars, callVars, Fault
    <3>7. QED
      BY <1>2, <3>1, <3>2, <3>3, <3>4, <3>5, <3>6
  <2>2. \A k \in Kinds : collection'[k] = "bare" => collection[k] = "bare"
    BY <2>1 DEF DataTypes
  <2>3. Next1 \subseteq Orphans
    BY <2>1, <2>2 DEF Orphans, At, Kind
  <2>4. QED
    BY <2>1, <2>3
<1>3. QED
  BY <1>0, <1>1, <1>2, StepsOf

LEMMA ItemsKeepPlaces ==
  ASSUME DataTypes, NoneEmpty, TenantNext
  PROVE  NoneEmpty'
<1>k. Kinds \subseteq Places
  BY ThreeCleaned
<1>1. ASSUME NEW c \in Callers, CallerStep(c) PROVE NoneEmpty'
  <2>1. Looks(c) \/ Creates(c) \/ Indexes(c) \/ Returns(c)
    BY <1>1, CallCases
  <2>2. CASE Looks(c)
    BY <2>2 DEF Looks, dataVars, NoneEmpty
  <2>3. CASE Creates(c)
    <3>1. UNCHANGED items /\ collection' = [collection EXCEPT ![Kind(c)] = IF @ = "none" THEN "bare" ELSE @]
      BY <2>3, Zenon DEF Creates, dataVars
    <3>2. \A k \in Kinds : collection'[k] = "none" => collection[k] = "none"
      BY <3>1 DEF DataTypes
    <3>3. QED
      BY <3>1, <3>2 DEF NoneEmpty
  <2>4. CASE Indexes(c)
    <3>1. UNCHANGED items /\ collection' = [collection EXCEPT ![Kind(c)] = "ready"]
      BY <2>4, Zenon DEF Indexes, dataVars
    <3>2. \A k \in Kinds : collection'[k] = "none" => collection[k] = "none"
      BY <3>1 DEF DataTypes
    <3>3. QED
      BY <3>1, <3>2 DEF NoneEmpty
  <2>5. CASE Returns(c)
    <3>1. UNCHANGED collection /\ job[c] # <<>> /\ (UNCHANGED dataVars \/ (collection[Kind(c)] # "none" /\ Put(Kind(c))))
      BY <2>5, Zenon DEF Returns
    <3>2. Kind(c) \in Places
      BY <1>k, <3>1, Calling
    <3>3. CASE UNCHANGED dataVars
      BY <3>1, <3>3 DEF dataVars, NoneEmpty
    <3>4. CASE collection[Kind(c)] # "none" /\ Put(Kind(c))
      <4>1. \A q \in Places \ {Kind(c)} : items'[q] = items[q]
        BY <3>2, <3>4, PutsOne
      <4>2. QED
        BY <1>k, <3>1, <3>4, <4>1 DEF NoneEmpty
    <3>5. QED
      BY <3>1, <3>3, <3>4
  <2>6. QED
    BY <2>1, <2>2, <2>3, <2>4, <2>5
<1>2. CASE Write
  <2>1. PICK p \in Places \ Kinds : Put(p) /\ UNCHANGED <<collectionVars, eraseVars, faults>>
    BY <1>2 DEF Write
  <2>2. \A q \in Places \ {p} : items'[q] = items[q]
    BY <2>1, PutsOne
  <2>3. QED
    BY <1>k, <2>1, <2>2 DEF NoneEmpty, collectionVars
<1>3. CASE BeginDelete \/ DeleteRow \/ DeleteCrash
  <2>1. UNCHANGED <<collection, items>>
    BY <1>3 DEF BeginDelete, DeleteRow, DeleteCrash, collectionVars, dataVars
  <2>2. QED
    BY <2>1 DEF NoneEmpty
<1>4. CASE ListPlace
  <2>1. UNCHANGED <<collection, items>>
    BY <1>4, DeletionMoves DEF collectionVars, dataVars
  <2>2. QED
    BY <2>1 DEF NoneEmpty
<1>5. CASE RemoveListed
  <2>1. \/ /\ \E R \in Removals(Cleaned[step]) : items' = [items EXCEPT ![Cleaned[step]] = @ \ R]
           /\ collection' = IF Cleaned[step] \in Kinds THEN [collection EXCEPT ![Cleaned[step]] = "none"] ELSE collection
        \/ /\ collection' = collection
           /\ \E R \in SUBSET listed : items' = [items EXCEPT ![Cleaned[step]] = IF Cleaned[step] \in Kinds THEN @ ELSE @ \ R]
    BY <1>5, DeletionMoves
  <2>2. Cleaned[step] \in Places
    BY ThreeCleaned DEF DataTypes
  <2>3. CASE /\ \E R \in Removals(Cleaned[step]) : items' = [items EXCEPT ![Cleaned[step]] = @ \ R]
             /\ collection' = IF Cleaned[step] \in Kinds THEN [collection EXCEPT ![Cleaned[step]] = "none"] ELSE collection
    <3>1. PICK R \in Removals(Cleaned[step]) : items' = [items EXCEPT ![Cleaned[step]] = @ \ R]
      BY <2>3
    <3>2. \A q \in Places : items'[q] \subseteq items[q] /\ (q # Cleaned[step] => items'[q] = items[q])
      BY <2>2, <3>1 DEF DataTypes
    <3>3. CASE Cleaned[step] \in Kinds
      <4>1. items'[Cleaned[step]] = {}
        BY <2>2, <3>1, <3>3 DEF Removals, DataTypes
      <4>2. \A k \in Kinds : k # Cleaned[step] => collection'[k] = collection[k]
        BY <2>3, <3>3 DEF DataTypes
      <4>3. QED
        BY <1>k, <3>2, <4>1, <4>2 DEF NoneEmpty
    <3>4. CASE Cleaned[step] \notin Kinds
      BY <1>k, <2>3, <3>2, <3>4 DEF NoneEmpty
    <3>5. QED
      BY <3>3, <3>4
  <2>4. CASE /\ collection' = collection
             /\ \E R \in SUBSET listed : items' = [items EXCEPT ![Cleaned[step]] = IF Cleaned[step] \in Kinds THEN @ ELSE @ \ R]
    <3>1. \A q \in Places : items'[q] \subseteq items[q]
      BY <2>2, <2>4 DEF DataTypes
    <3>2. QED
      BY <1>k, <2>4, <3>1 DEF NoneEmpty
  <2>5. QED
    BY <2>1, <2>3, <2>4
<1>6. QED
  BY <1>1, <1>2, <1>3, <1>4, <1>5, StepsOf

\* What a cleaning goes by are items of its place, and changes with them.
LEMMA MatchedOf ==
  ASSUME NEW p \in Places
  PROVE  /\ Matched(p) \subseteq items[p]
         /\ \A S : items'[p] \subseteq items[p] \cup S => Matched(p)' \subseteq Matched(p) \cup S
         /\ \A R : items'[p] = items[p] \ R => Matched(p)' = Matched(p) \ R
BY DEF Matched

\* An item written where the deletion has been is late.
LEMMA PutKeepsErasing ==
  ASSUME DataTypes, ErasingInv, UNCHANGED eraseVars, UNCHANGED dataVars \/ \E p \in Places : Put(p)
  PROVE  ErasingInv'
<1>1. UNCHANGED <<erasing, step, listed, row, skipped>>
  BY DEF eraseVars
<1>2. CASE UNCHANGED dataVars
  BY <1>1, <1>2 DEF dataVars, ErasingInv, Dealt, Matched
<1>3. CASE \E p \in Places : Put(p)
  <2>1. PICK p \in Places : Put(p)
    BY <1>3
  <2>2. /\ late \subseteq late' /\ \A q \in Places \ {p} : items'[q] = items[q]
        /\ items'[p] = items[p] \cup {written'} /\ (Listed(p) => written' \in late')
    BY <2>1, PutsOne
  <2>3. \A q \in Places : items'[q] \subseteq items[q] \cup late' \/ (q = p /\ ~Listed(p))
    BY <2>2
  <2>4. ASSUME NEW i \in 1 .. 3, Dealt(i), Listed(Cleaned[i]) PROVE Dealt(i)'
    <3>1. PICK q \in Places : q = Cleaned[i]
      BY ThreeCleaned
    <3>2. items'[q] \subseteq items[q] \cup late'
      BY <2>3, <2>4, <3>1
    <3>3. Matched(q)' \subseteq Matched(q) \cup late'
      BY <3>2, MatchedOf
    <3>4. QED
      BY <1>1, <2>2, <2>4, <3>1, <3>3 DEF Dealt
  <2>5. ASSUME NEW i \in 1 .. 3, ~row PROVE Listed(Cleaned[i])
    BY <2>5, Zenon DEF Listed
  <2>6. ASSUME NEW i \in 1 .. 3, i < step PROVE Listed(Cleaned[i])
    BY <2>6 DEF Listed, DataTypes
  <2>7. ASSUME NEW i \in 1 .. 3, i <= step, erasing \in {"remove", "row"} PROVE Listed(Cleaned[i])
    BY <2>7 DEF Listed, DataTypes
  <2>8. erasing' = "idle" => step' = 1
    BY <1>1 DEF ErasingInv
  <2>9. erasing' # "idle" => row'
    BY <1>1, Zenon DEF ErasingInv
  <2>10. erasing' \in {"list", "remove"} => \A i \in 1 .. 3 : i < step' => Dealt(i)'
    <3> SUFFICES ASSUME erasing' \in {"list", "remove"}, NEW i \in 1 .. 3, i < step' PROVE Dealt(i)'
      OBVIOUS
    <3>1. Dealt(i)
      BY <1>1 DEF ErasingInv
    <3>2. QED
      BY <1>1, <3>1, <2>4, <2>6
  <2>11. erasing' = "remove" => Matched(Cleaned[step])' \subseteq late' \cup listed'
    <3> SUFFICES ASSUME erasing' = "remove" PROVE Matched(Cleaned[step])' \subseteq late' \cup listed
      BY <1>1
    <3>1. step \in 1 .. 3 /\ Cleaned[step] \in Places
      BY ThreeCleaned DEF DataTypes
    <3>2. PICK q \in Places : q = Cleaned[step]
      BY <3>1
    <3>3. Matched(q) \subseteq late \cup listed
      BY <1>1, <3>2 DEF ErasingInv
    <3>4. items'[q] \subseteq items[q] \cup late'
      BY <1>1, <2>3, <2>7, <3>1, <3>2
    <3>5. Matched(q)' \subseteq Matched(q) \cup late'
      BY <3>4, MatchedOf
    <3>6. QED
      BY <1>1, <2>2, <3>2, <3>3, <3>5
  <2>12. erasing' = "row" => \A i \in 1 .. 3 : Dealt(i)' /\ step' = 3
    <3> SUFFICES ASSUME erasing' = "row", NEW i \in 1 .. 3 PROVE Dealt(i)' /\ step' = 3
      OBVIOUS
    <3>1. Dealt(i) /\ step = 3
      BY <1>1 DEF ErasingInv
    <3>2. QED
      BY <1>1, <3>1, <2>4, <2>7
  <2>13. ~row' => \A i \in 1 .. 3 : Dealt(i)'
    <3> SUFFICES ASSUME ~row', NEW i \in 1 .. 3 PROVE Dealt(i)'
      OBVIOUS
    <3>1. ~row
      BY <1>1, Zenon
    <3>2. Dealt(i)
      BY <3>1, Zenon DEF ErasingInv
    <3>3. QED
      BY <3>1, <3>2, <2>4, <2>5
  <2>14. QED
    BY <2>8, <2>9, <2>10, <2>11, <2>12, <2>13, Zenon DEF ErasingInv
<1>4. QED
  BY <1>2, <1>3

\* The deletion deals with the place of its step, then goes on.
LEMMA OnwardKeepsErasing ==
  ASSUME DataTypes, ErasingInv, erasing \in {"list", "remove"}, Onward, late' = late, row' = row,
         skipped \subseteq skipped', \A p \in Places : items'[p] \subseteq items[p],
         \A p \in Places : p = Cleaned[step] => p \in skipped' \/ Matched(p)' \subseteq late
  PROVE  ErasingInv'
<1>1. \/ step = 3 /\ erasing' = "row" /\ step' = step
      \/ step # 3 /\ erasing' = "list" /\ step' = step + 1
  BY DeletionMoves
<1>2. step \in 1 .. 3 /\ row
  BY DEF DataTypes, ErasingInv
<1>3. \A i \in 1 .. 3 : i < step => Dealt(i)
  BY DEF ErasingInv
<1>4. ASSUME NEW i \in 1 .. 3, i <= step PROVE Dealt(i)'
  <2>1. PICK q \in Places : q = Cleaned[i]
    BY ThreeCleaned
  <2>2. CASE i = step
    BY <2>1, <2>2 DEF Dealt
  <2>3. CASE i < step
    <3>1. items'[q] \subseteq items[q] \cup {}
      OBVIOUS
    <3>2. Matched(q)' \subseteq Matched(q)
      BY <3>1, MatchedOf
    <3>3. QED
      BY <1>3, <2>1, <2>3, <3>2 DEF Dealt
  <2>4. QED
    BY <1>2, <1>4, <2>2, <2>3
<1>5. row'
  BY <1>2, Zenon
<1>6. erasing' # "idle" /\ erasing' # "remove"
  BY <1>1
<1>7. erasing' \in {"list", "remove"} => \A i \in 1 .. 3 : i < step' => Dealt(i)'
  BY <1>1, <1>2, <1>4
<1>8. erasing' = "row" => \A i \in 1 .. 3 : Dealt(i)' /\ step' = 3
  BY <1>1, <1>2, <1>4
<1>9. QED
  BY <1>5, <1>6, <1>7, <1>8, Zenon DEF ErasingInv

LEMMA ErasingKept ==
  ASSUME DataTypes, NoneEmpty, ErasingInv, TenantNext
  PROVE  ErasingInv'
<1>k. Kinds \subseteq Places /\ (step \in 1 .. 3 => Cleaned[step] \in Places)
  BY ThreeCleaned
<1>s. step \in 1 .. 3 /\ Cleaned[step] \in Places
  BY <1>k DEF DataTypes
<1>1. ASSUME NEW c \in Callers, CallerStep(c) PROVE ErasingInv'
  <2>1. Looks(c) \/ Creates(c) \/ Indexes(c) \/ Returns(c)
    BY <1>1, CallCases
  <2>2. UNCHANGED eraseVars
    BY <2>1, Zenon DEF Looks, Creates, Indexes, Returns
  <2>3. UNCHANGED dataVars \/ (job[c] # <<>> /\ Put(Kind(c)))
    BY <2>1, Zenon DEF Looks, Creates, Indexes, Returns
  <2>4. UNCHANGED dataVars \/ \E p \in Places : Put(p)
    BY <1>k, <2>3, Calling
  <2>5. QED
    BY <2>2, <2>4, PutKeepsErasing
<1>2. CASE Write
  <2>1. UNCHANGED eraseVars /\ \E p \in Places : Put(p)
    BY <1>2, Zenon DEF Write
  <2>2. QED
    BY <2>1, PutKeepsErasing
<1>3. CASE BeginDelete
  <2>1. erasing = "idle" /\ erasing' = "list" /\ step' = step
    BY <1>3, Zenon DEF BeginDelete
  <2>2. row'
    BY <1>3, Zenon DEF BeginDelete
  <2>3. step' = 1
    BY <2>1 DEF ErasingInv
  <2>4. erasing' \in {"list", "remove"} => \A i \in 1 .. 3 : i < step' => Dealt(i)'
    BY <2>3
  <2>5. erasing' # "idle" /\ erasing' # "remove" /\ erasing' # "row"
    BY <2>1
  <2>6. QED
    BY <2>2, <2>4, <2>5, Zenon DEF ErasingInv
<1>4. CASE ListPlace
  <2>1. /\ erasing = "list" /\ UNCHANGED <<row, dataVars>>
        /\ \/ /\ skipped' = skipped /\ erasing' = "remove" /\ listed' = Matched(Cleaned[step]) /\ step' = step
           \/ /\ skipped' = skipped /\ Cleaned[step] \in Kinds /\ collection[Cleaned[step]] = "none" /\ Onward
           \/ skipped' = skipped \cup {Cleaned[step]} /\ Onward
    BY <1>4, DeletionMoves
  <2>2. UNCHANGED <<row, items, late>>
    BY <2>1 DEF dataVars
  <2>3. CASE /\ skipped' = skipped /\ erasing' = "remove" /\ listed' = Matched(Cleaned[step]) /\ step' = step
    <3>1. \A i \in 1 .. 3 : i < step => Dealt(i)
      BY <2>1 DEF ErasingInv
    <3>2. \A i \in 1 .. 3 : i < step' => Dealt(i)'
      BY <2>2, <2>3, <3>1 DEF Dealt, Matched
    <3>3. row'
      <4>1. row
        BY <2>1, Zenon DEF ErasingInv
      <4>2. QED
        BY <2>2, <4>1, Zenon
    <3>4. Matched(Cleaned[step])' \subseteq late' \cup listed'
      BY <2>2, <2>3 DEF Matched
    <3>5. erasing' # "idle" /\ erasing' # "row"
      BY <2>3
    <3>6. QED
      BY <3>2, <3>3, <3>4, <3>5, Zenon DEF ErasingInv
  <2>4. CASE /\ skipped' = skipped /\ Cleaned[step] \in Kinds /\ collection[Cleaned[step]] = "none" /\ Onward
    <3>1. \A p \in Places : p = Cleaned[step] => Matched(p)' \subseteq late
      BY <2>2, <2>4 DEF NoneEmpty, Matched
    <3>2. QED
      BY <2>1, <2>2, <2>4, <3>1, OnwardKeepsErasing
  <2>5. CASE skipped' = skipped \cup {Cleaned[step]} /\ Onward
    BY <2>1, <2>2, <2>5, OnwardKeepsErasing
  <2>6. QED
    BY <2>1, <2>3, <2>4, <2>5
<1>5. CASE RemoveListed
  <2>1. /\ erasing = "remove" /\ UNCHANGED <<row, late>> /\ Onward
        /\ \/ /\ skipped' = skipped /\ \E R \in Removals(Cleaned[step]) : items' = [items EXCEPT ![Cleaned[step]] = @ \ R]
           \/ /\ skipped' = skipped \cup {Cleaned[step]}
              /\ \E R \in SUBSET listed : items' = [items EXCEPT ![Cleaned[step]] = IF Cleaned[step] \in Kinds THEN @ ELSE @ \ R]
    BY <1>5, DeletionMoves
  <2>2. CASE /\ skipped' = skipped /\ \E R \in Removals(Cleaned[step]) : items' = [items EXCEPT ![Cleaned[step]] = @ \ R]
    <3>1. PICK R \in Removals(Cleaned[step]) : items' = [items EXCEPT ![Cleaned[step]] = @ \ R]
      BY <2>2
    <3>2. \A q \in Places : items'[q] \subseteq items[q]
      BY <1>s, <3>1 DEF DataTypes
    <3>3. Matched(Cleaned[step]) \subseteq late \cup listed
      BY <2>1 DEF ErasingInv
    <3>4. Matched(Cleaned[step]) \subseteq R \cup late
      <4>1. Matched(Cleaned[step]) \subseteq items[Cleaned[step]]
        BY <1>s, MatchedOf
      <4>2. QED
        BY <3>3, <4>1 DEF Removals
    <3>5. ASSUME NEW p \in Places, p = Cleaned[step] PROVE Matched(p)' \subseteq late
      <4>1. items'[p] = items[p] \ R
        BY <3>1, <3>5 DEF DataTypes
      <4>2. Matched(p)' = Matched(p) \ R
        BY <4>1, MatchedOf
      <4>3. QED
        BY <3>4, <3>5, <4>2
    <3>6. QED
      BY <2>1, <2>2, <3>2, <3>5, OnwardKeepsErasing
  <2>3. CASE /\ skipped' = skipped \cup {Cleaned[step]}
             /\ \E R \in SUBSET listed : items' = [items EXCEPT ![Cleaned[step]] = IF Cleaned[step] \in Kinds THEN @ ELSE @ \ R]
    <3>1. \A q \in Places : items'[q] \subseteq items[q]
      BY <1>s, <2>3 DEF DataTypes
    <3>2. QED
      BY <2>1, <2>3, <3>1, OnwardKeepsErasing
  <2>4. QED
    BY <2>1, <2>2, <2>3
<1>6. CASE DeleteRow
  <2>1. erasing = "row" /\ erasing' = "idle" /\ step' = 1 /\ UNCHANGED <<skipped, items, late>>
    BY <1>6, Zenon DEF DeleteRow, dataVars
  <2>2. \A i \in 1 .. 3 : Dealt(i)
    BY <2>1 DEF ErasingInv
  <2>3. \A i \in 1 .. 3 : Dealt(i)'
    BY <2>1, <2>2 DEF Dealt, Matched
  <2>4. erasing' # "list" /\ erasing' # "remove" /\ erasing' # "row"
    BY <2>1
  <2>5. erasing' \notin {"list", "remove"}
    BY <2>4
  <2>6. QED
    BY <2>1, <2>3, <2>4, <2>5, Zenon DEF ErasingInv
<1>7. CASE DeleteCrash
  <2>1. erasing # "idle" /\ erasing' = "idle" /\ step' = 1
    BY <1>7, Zenon DEF DeleteCrash
  <2>2. row'
    <3>1. row /\ row' = row
      BY <1>7, Zenon DEF DeleteCrash, ErasingInv
    <3>2. QED
      BY <3>1, Zenon
  <2>3. erasing' # "row" /\ erasing' # "remove" /\ erasing' \notin {"list", "remove"}
    BY <2>1
  <2>4. QED
    BY <2>1, <2>2, <2>3, Zenon DEF ErasingInv
<1>8. QED
  BY <1>1, <1>2, <1>3, <1>4, <1>5, <1>6, <1>7, StepsOf

LEMMA TenantInvKept == TenantInv /\ [TenantNext]_tenantVars => TenantInv'
<1> SUFFICES ASSUME TenantInv, [TenantNext]_tenantVars PROVE TenantInv'
  OBVIOUS
<1>i. DataTypes /\ OrphansInv /\ NoneEmpty /\ ErasingInv
  BY DEF TenantInv
<1>1. CASE TenantNext
  <2>1. DataTypes'
    BY <1>1, <1>i, CallerKeepsTypes, DeletionKeepsTypes, StepsOf
  <2>2. OrphansInv'
    <3>1. Orphans \in SUBSET Kinds /\ Orphans' \in SUBSET Kinds
      BY DEF Orphans
    <3>2. Cardinality(Orphans) <= faults /\ faults \in Nat /\ Cardinality(Orphans) \in Nat
      BY <1>i, <3>1, ThreeKinds DEF OrphansInv, DataTypes
    <3>3. CASE Orphans' \subseteq Orphans /\ (faults' = faults \/ faults' = faults + 1)
      <4>1. Cardinality(Orphans') <= Cardinality(Orphans) /\ Cardinality(Orphans') \in Nat
        BY <3>1, <3>3, ThreeKinds
      <4>2. Cardinality(Orphans') <= faults'
        BY <3>2, <3>3, <4>1
      <4>3. QED
        BY <4>2 DEF OrphansInv
    <3>4. CASE faults' = faults + 1 /\ \E k \in Kinds : Orphans' \subseteq Orphans \cup {k}
      <4>1. PICK k \in Kinds : Orphans' \subseteq Orphans \cup {k}
        BY <3>4
      <4>2. Cardinality(Orphans \cup {k}) <= Cardinality(Orphans) + 1 /\ Cardinality(Orphans \cup {k}) \in Nat
        BY <3>1, ThreeKinds
      <4>3. Orphans \cup {k} \in SUBSET Kinds
        BY <3>1
      <4>4. Cardinality(Orphans') <= Cardinality(Orphans \cup {k}) /\ Cardinality(Orphans') \in Nat
        BY <4>1, <4>3, ThreeKinds
      <4>5. Cardinality(Orphans') <= faults'
        BY <3>2, <3>4, <4>2, <4>4
      <4>6. QED
        BY <4>5 DEF OrphansInv
    <3>5. QED
      BY <1>1, <1>i, <3>3, <3>4, OrphansMove
  <2>3. NoneEmpty'
    BY <1>1, <1>i, ItemsKeepPlaces
  <2>4. ErasingInv'
    BY <1>1, <1>i, ErasingKept
  <2>5. QED
    BY <2>1, <2>2, <2>3, <2>4 DEF TenantInv
<1>2. CASE UNCHANGED tenantVars
  <2>1. UNCHANGED <<collection, job, answer, items, written, erasing, step, listed, row, faults, late, skipped>>
    BY <1>2, Zenon DEF tenantVars, collectionVars, callVars, eraseVars, dataVars
  <2>2. DataTypes'
    BY <1>i, <2>1, Zenon DEF DataTypes
  <2>3. Orphans' = Orphans
    BY <2>1 DEF Orphans, At, Kind
  <2>4. OrphansInv'
    BY <1>i, <2>1, <2>3, Zenon DEF OrphansInv
  <2>5. NoneEmpty'
    BY <1>i, <2>1, Zenon DEF NoneEmpty
  <2>6. UNCHANGED eraseVars /\ UNCHANGED dataVars
    BY <1>2, Zenon DEF tenantVars
  <2>7. ErasingInv'
    BY <1>i, <2>6, PutKeepsErasing
  <2>8. QED
    BY <2>2, <2>4, <2>5, <2>7 DEF TenantInv
<1>3. QED
  BY <1>1, <1>2

\* Only the search that found its collection there, searchable and empty, answers so.
LEMMA EmptyAnswers ==
  ASSUME TenantInv, TenantNext, NEW c \in Callers, job[c] # <<>>, job'[c] = <<>>, answer' = "empty", answer # "empty"
  PROVE  collection[Kind(c)] = "ready" /\ items[Kind(c)] = {}
<1>i. DataTypes /\ job \in [Callers -> Jobs]
  BY DEF TenantInv, DataTypes
<1>1. ASSUME NEW d \in Callers, CallerStep(d) PROVE collection[Kind(c)] = "ready" /\ items[Kind(c)] = {}
  <2>1. Looks(d) \/ Creates(d) \/ Indexes(d) \/ Returns(d)
    BY <1>1, <1>i, CallCases
  <2>2. Returns(d)
    BY <2>1 DEF Looks, Creates, Indexes
  <2>3. c = d
    BY <1>i, <2>2 DEF Returns
  <2>4. QED
    BY <2>2, <2>3 DEF Returns
<1>2. ASSUME Write \/ BeginDelete \/ ListPlace \/ RemoveListed \/ DeleteRow \/ DeleteCrash PROVE FALSE
  <2>1. job' = job
    <3>1. UNCHANGED collectionVars \/ UNCHANGED callVars
      BY <1>2, <1>i, DeletionMoves DEF Write, BeginDelete, DeleteRow, DeleteCrash
    <3>2. QED
      BY <3>1 DEF collectionVars, callVars
  <2>2. QED
    BY <2>1
<1>3. QED
  BY <1>1, <1>2, StepsOf

\* For every set of callers and of installed clients and every bound, a tenant's data has its
\* cause: a collection that cannot be searched was left by a fault, an empty answer comes of an
\* empty collection, and of what a cleaning that did not fail goes by (the objects under the tenant's
\* prefix, its frame collection; no key of Redis, none of which has that prefix) only what was
\* written since it looked is left behind.
THEOREM DeletedWithCause == TenantSpec => TenantDataHolds
<1> DEFINE Held == TenantTypeOK /\ BarePaidFor /\ LeftBehindIsLate
<1> DEFINE AnsweredForCause == \A c \in Callers : job[c] # <<>> /\ job'[c] = <<>> /\ answer' = "empty" =>
                          answer = "empty" \/ (collection[Kind(c)] = "ready" /\ items[Kind(c)] = {})
<1>1. TenantInv => Held
  <2> SUFFICES ASSUME TenantInv PROVE Held
    OBVIOUS
  <2>1. DataTypes /\ OrphansInv /\ ErasingInv
    BY DEF TenantInv
  <2>2. TenantTypeOK
    BY <2>1 DEF DataTypes, Jobs, TenantTypeOK
  <2>3. BarePaidFor
    BY <2>1 DEF OrphansInv, Orphans, BarePaidFor
  <2>4. LeftBehindIsLate
    <3> SUFFICES ASSUME ~row, NEW i \in 1 .. 3 PROVE Dealt(i)
      BY ThreeCleaned DEF LeftBehindIsLate, Dealt
    <3>1. QED
      BY <2>1, Zenon DEF ErasingInv
  <2>5. QED
    BY <2>2, <2>3, <2>4
<1>2. TenantInv /\ [TenantNext]_tenantVars => [AnsweredForCause]_tenantVars
  BY EmptyAnswers
<1>3. TenantSpec => []TenantInv
  BY InitTenantInv, TenantInvKept, PTL DEF TenantSpec
<1>4. TenantSpec => []Held /\ [][AnsweredForCause]_tenantVars
  BY <1>1, <1>2, <1>3, PTL DEF TenantSpec
<1>5. QED
  BY <1>4 DEF TenantDataHolds, EmptyIsEmpty

--------------------------------------------------------------------------------
(* The tenant's row.                                                            *)

Busy == {a \in Admins : ask[a] # <<>>}

\* Ids are never given out twice.
AskInv ==
  /\ asks \in 0 .. MaxAsks /\ accounts \subseteq 1 .. asks
  /\ active \in [Ids -> BOOLEAN] /\ config \in [Ids -> Settings \cup {Sector}]
  /\ DOMAIN ask = Admins
  /\ \A a \in Admins :
       \/ ask[a] = <<>>
       \/ \E id \in 1 .. asks, value \in Settings \cup {Sector} : ask[a] = <<"create", id, value, value>>
       \/ \E id \in 1 .. asks, value \in BOOLEAN, read \in BOOLEAN : ask[a] = <<"status", id, value, read>>
       \/ \E id \in 1 .. asks, value \in Settings, read \in Settings \cup {Sector} :
            ask[a] = <<"plugins", id, value, read>>
  /\ \A a \in Admins : Asked(a, "create") => Id(a) \notin accounts
  /\ \A a, b \in Admins : a # b /\ Asked(a, "create") /\ Asked(b, "create") => Id(a) # Id(b)

\* What is asked for has been read as it is.
Current(a) ==
  Id(a) \in accounts =>
    /\ Asked(a, "status") => ask[a][4] = active[Id(a)]
    /\ Asked(a, "plugins") => ask[a][4] = config[Id(a)]

\* Requests under way count as unheeded; but the first of those that overlap only once another has
\* changed what the rest have read.
HeedInv ==
  /\ crossings \in Nat /\ unheeded \in Nat
  /\ \/ unheeded + Cardinality(Busy) <= crossings
     \/ /\ unheeded + Cardinality(Busy) <= crossings + 1 /\ Busy # {}
        /\ \A a \in Busy : Current(a)

AccountInv == AskInv /\ HeedInv /\ Cardinality(accounts) <= 1

LEMMA BusyFinite ==
  ASSUME NEW S \in SUBSET Admins
  PROVE  IsFiniteSet(S) /\ Cardinality(S) \in Nat
BY AccountAssumption, FS_Subset, FS_CardinalityType DEF AccountAssumption

LEMMA InitAccountInv == AccountInit => AccountInv
<1> SUFFICES ASSUME AccountInit PROVE AccountInv
  OBVIOUS
<1> USE AccountAssumption
<1>0. Cardinality({}) = 0
  BY FS_EmptySet
<1>1. AskInv
  BY DEF AccountInit, AskInv, Ids, Asked
<1>2. Busy = {}
  BY DEF AccountInit, Busy
<1>3. HeedInv
  BY <1>0, <1>2 DEF AccountInit, HeedInv
<1>4. QED
  BY <1>0, <1>1, <1>3 DEF AccountInv, AccountInit

\* A request begins, with what it has read.
LEMMA Begins ==
  ASSUME AccountInv, NEW a \in Admins, NEW what, NEW id \in 1 .. asks + 1, NEW value, NEW read, Begun(a, what, id, value, read),
         \/ what = "create" /\ id = asks + 1 /\ value \in Settings \cup {Sector} /\ read = value
         \/ what = "status" /\ id \in accounts /\ value \in BOOLEAN /\ read = active[id]
         \/ what = "plugins" /\ id \in accounts /\ value \in Settings /\ read = config[id]
  PROVE  AccountInv'
<1> USE AccountAssumption
<1>inv. AskInv /\ HeedInv /\ Cardinality(accounts) <= 1
  BY DEF AccountInv
<1>1. /\ ask[a] = <<>> /\ asks' = asks + 1 /\ asks' \in 0 .. MaxAsks /\ asks \in Nat
      /\ ask' = [ask EXCEPT ![a] = <<what, id, value, read>>]
      /\ ask'[a] = <<what, id, value, read>> /\ (\A b \in Admins \ {a} : ask'[b] = ask[b])
      /\ UNCHANGED <<accounts, active, config, unheeded>>
  BY <1>inv DEF Begun, AskInv
<1>2. AskInv'
  <2>1. 1 .. asks \subseteq 1 .. asks' /\ id \in 1 .. asks'
    BY <1>1
  <2>2. accounts' \subseteq 1 .. asks' /\ DOMAIN ask' = Admins
    BY <1>inv, <1>1, <2>1 DEF AskInv
  <2>3. what = "plugins" => read \in Settings \cup {Sector}
    BY <1>inv, <2>1, <1>1 DEF AskInv, Ids
  <2>4. what = "status" => read \in BOOLEAN
    BY <1>inv, <2>1, <1>1 DEF AskInv, Ids
  <2>5. ASSUME NEW b \in Admins
        PROVE  \/ ask'[b] = <<>>
               \/ \E i \in 1 .. asks', v \in Settings \cup {Sector} : ask'[b] = <<"create", i, v, v>>
               \/ \E i \in 1 .. asks', v \in BOOLEAN, r \in BOOLEAN : ask'[b] = <<"status", i, v, r>>
               \/ \E i \in 1 .. asks', v \in Settings, r \in Settings \cup {Sector} : ask'[b] = <<"plugins", i, v, r>>
    <3>1. CASE b = a
      BY <1>1, <2>1, <2>3, <2>4, <3>1
    <3>2. CASE b # a
      <4>1. ask'[b] = ask[b]
        BY <1>1, <3>2
      <4>2. QED
        BY <1>inv, <2>1, <4>1 DEF AskInv
    <3>3. QED
      BY <3>1, <3>2
  <2>6. \A b \in Admins : Asked(b, "create")' => Id(b)' \notin accounts'
    BY <1>inv, <1>1 DEF AskInv, Asked, Id
  <2>7. \A b \in Admins \ {a} : Asked(b, "create") => Id(b) \in 1 .. asks
    BY <1>inv DEF AskInv, Asked, Id
  <2>8. \A b, d \in Admins : b # d /\ Asked(b, "create")' /\ Asked(d, "create")' => Id(b)' # Id(d)'
    BY <1>inv, <1>1, <2>7 DEF AskInv, Asked, Id
  <2>9. QED
    BY <1>inv, <1>1, <2>2, <2>5, <2>6, <2>8 DEF AskInv
<1>3. a \notin Busy /\ Busy' = Busy \cup {a} /\ Busy \in SUBSET Admins
  BY <1>inv, <1>1 DEF Busy, AskInv
<1>4. Cardinality(Busy') = Cardinality(Busy) + 1 /\ Cardinality(Busy) \in Nat
  BY <1>3, BusyFinite, FS_AddElement
<1>5. crossings' = crossings + IF Busy # {} THEN 1 ELSE 0
  BY <1>inv DEF Begun, Busy, AskInv
<1>6. Current(a)'
  BY <1>inv, <1>1 DEF AskInv, Current, Asked, Id
<1>7. \A b \in Busy : Current(b) => Current(b)'
  BY <1>1, <1>3 DEF Current, Asked, Id, Busy
<1>8. HeedInv'
  <2>1. crossings \in Nat /\ unheeded \in Nat
    BY <1>inv DEF HeedInv
  <2>2. CASE Busy = {}
    <3>1. Cardinality(Busy) = 0
      BY <2>2, FS_EmptySet
    <3>2. unheeded <= crossings
      BY <1>inv, <2>2, <3>1, <2>1 DEF HeedInv
    <3>3. crossings' = crossings /\ unheeded' + Cardinality(Busy') <= crossings' + 1
      BY <1>1, <1>4, <1>5, <2>1, <2>2, <3>1, <3>2
    <3>4. QED
      BY <1>1, <1>3, <1>6, <2>1, <2>2, <3>3 DEF HeedInv
  <2>3. CASE Busy # {}
    <3>1. crossings' = crossings + 1
      BY <1>5, <2>3
    <3>2. CASE unheeded + Cardinality(Busy) <= crossings
      <4>1. unheeded' + Cardinality(Busy') <= crossings'
        BY <1>1, <1>4, <2>1, <3>1, <3>2
      <4>2. QED
        BY <1>1, <2>1, <3>1, <4>1 DEF HeedInv
    <3>3. CASE unheeded + Cardinality(Busy) <= crossings + 1 /\ \A b \in Busy : Current(b)
      <4>1. unheeded' + Cardinality(Busy') <= crossings' + 1
        BY <1>1, <1>4, <2>1, <3>1, <3>3
      <4>2. Busy' # {} /\ \A b \in Busy' : Current(b)'
        BY <1>3, <1>6, <1>7, <3>3
      <4>3. QED
        BY <1>1, <2>1, <3>1, <4>1, <4>2 DEF HeedInv
    <3>4. QED
      BY <1>inv, <3>2, <3>3 DEF HeedInv
  <2>4. QED
    BY <2>2, <2>3
<1>9. QED
  BY <1>inv, <1>1, <1>2, <1>8 DEF AccountInv

\* A request is done.  It went unheeded only if it had read something else.
LEMMA Finishes ==
  ASSUME AccountInv, NEW a \in Admins, ask[a] # <<>>, Done(a), AskInv', Cardinality(accounts)' <= 1,
         unheeded' = unheeded \/ (unheeded' = unheeded + 1 /\ ~Current(a))
  PROVE  AccountInv'
<1> USE AccountAssumption
<1>inv. AskInv /\ HeedInv
  BY DEF AccountInv
<1>1. a \in Busy /\ Busy' = Busy \ {a} /\ Busy \in SUBSET Admins /\ UNCHANGED crossings
  BY <1>inv DEF AskInv, Busy, Done
<1>2. Cardinality(Busy') = Cardinality(Busy) - 1 /\ Cardinality(Busy) \in Nat /\ Cardinality(Busy') \in Nat
  BY <1>1, BusyFinite, FS_RemoveElement
<1>3. crossings \in Nat /\ unheeded \in Nat
  BY <1>inv DEF HeedInv
<1>4. unheeded' + Cardinality(Busy') <= crossings'
  <2>1. CASE unheeded + Cardinality(Busy) <= crossings
    BY <1>1, <1>2, <1>3, <2>1
  <2>2. CASE unheeded + Cardinality(Busy) <= crossings + 1 /\ \A b \in Busy : Current(b)
    BY <1>1, <1>2, <1>3, <2>2
  <2>3. QED
    BY <1>inv, <2>1, <2>2 DEF HeedInv
<1>5. HeedInv'
  BY <1>1, <1>3, <1>4 DEF HeedInv
<1>6. QED
  BY <1>5 DEF AccountInv

\* What an answered request leaves of the others.
LEMMA DoneInv ==
  ASSUME AskInv, NEW a \in Admins, ask[a] # <<>>, Done(a),
         accounts' = accounts \/ (Asked(a, "create") /\ accounts' = accounts \cup {Id(a)}),
         active' \in [Ids -> BOOLEAN], config' \in [Ids -> Settings \cup {Sector}]
  PROVE  AskInv'
<1>1. /\ ask'[a] = <<>> /\ (\A b \in Admins \ {a} : ask'[b] = ask[b]) /\ DOMAIN ask' = Admins /\ asks' = asks
  BY DEF AskInv, Done
<1>2. Asked(a, "create") => Id(a) \in 1 .. asks
  BY DEF AskInv, Asked, Id
<1>3. \A b \in Admins : Asked(b, "create")' => b # a /\ Asked(b, "create") /\ Id(b)' = Id(b)
  BY <1>1 DEF Asked, Id
<1>4. \A b \in Admins : Asked(b, "create")' => Id(b)' \notin accounts'
  BY <1>3 DEF AskInv
<1>5. \A b, d \in Admins : b # d /\ Asked(b, "create")' /\ Asked(d, "create")' => Id(b)' # Id(d)'
  BY <1>3 DEF AskInv
<1>6. ASSUME NEW b \in Admins
      PROVE  \/ ask'[b] = <<>>
             \/ \E i \in 1 .. asks', v \in Settings \cup {Sector} : ask'[b] = <<"create", i, v, v>>
             \/ \E i \in 1 .. asks', v \in BOOLEAN, r \in BOOLEAN : ask'[b] = <<"status", i, v, r>>
             \/ \E i \in 1 .. asks', v \in Settings, r \in Settings \cup {Sector} : ask'[b] = <<"plugins", i, v, r>>
  <2>1. CASE b = a
    BY <1>1, <2>1
  <2>2. CASE b # a
    <3>1. ask'[b] = ask[b]
      BY <1>1, <2>2
    <3>2. QED
      BY <1>1, <3>1 DEF AskInv
  <2>3. QED
    BY <2>1, <2>2
<1>7. accounts' \subseteq 1 .. asks' /\ asks' \in 0 .. MaxAsks
  BY <1>1, <1>2 DEF AskInv
<1>8. QED
  BY <1>1, <1>4, <1>5, <1>6, <1>7 DEF AskInv

LEMMA StepAccountInv == AccountInv /\ [AccountNext]_accountVars => AccountInv'
<1> SUFFICES ASSUME AccountInv, [AccountNext]_accountVars PROVE AccountInv'
  OBVIOUS
<1> USE AccountAssumption
<1>inv. AskInv /\ HeedInv /\ Cardinality(accounts) <= 1 /\ asks \in Nat /\ accounts \subseteq 1 .. asks
        /\ accounts \subseteq Ids
  BY DEF AccountInv, AskInv, Ids
<1>1. ASSUME NEW a \in Admins, CreateAccount(a) \/ UpdateStatus(a) \/ UpdatePlugins(a) PROVE AccountInv'
  <2>1. accounts \subseteq 1 .. asks + 1 /\ asks + 1 \in 1 .. asks + 1
    BY <1>inv
  <2>2. CASE CreateAccount(a)
    BY <2>1, <2>2, Begins DEF CreateAccount
  <2>3. CASE UpdateStatus(a)
    BY <2>1, <2>3, Begins DEF UpdateStatus
  <2>4. CASE UpdatePlugins(a)
    BY <2>1, <2>4, Begins DEF UpdatePlugins
  <2>5. QED
    BY <1>1, <2>2, <2>3, <2>4
<1>2. ASSUME NEW a \in Admins, CommitAccount(a) PROVE AccountInv'
  <2>1. /\ ask[a] # <<>> /\ Done(a) /\ UNCHANGED unheeded /\ UNCHANGED active /\ Asked(a, "create")
        /\ Value(a) \in Settings \cup {Sector} /\ Id(a) \in Ids
    BY <1>2, <1>inv DEF CommitAccount, Asked, AskInv, Value, Id, Ids
  <2>2. accounts' = accounts \/ (accounts = {} /\ accounts' = {Id(a)})
    BY <1>2 DEF CommitAccount, SlugTaken
  <2>3. config' \in [Ids -> Settings \cup {Sector}]
    BY <1>2, <1>inv, <2>1 DEF CommitAccount, AskInv
  <2>4. AskInv'
    BY <1>inv, <2>1, <2>2, <2>3, DoneInv DEF AskInv
  <2>5. Cardinality(accounts)' <= 1
    BY <1>inv, <2>2, FS_Singleton
  <2>6. QED
    BY <2>1, <2>4, <2>5, Finishes
<1>3. ASSUME NEW a \in Admins, CommitStatus(a) PROVE AccountInv'
  <2>1. ask[a] # <<>> /\ Done(a) /\ UNCHANGED <<accounts, config>> /\ Asked(a, "status") /\ Value(a) \in BOOLEAN
    BY <1>3, <1>inv DEF CommitStatus, Asked, AskInv, Value
  <2>2. CASE Id(a) \notin accounts
    BY <1>3, <1>inv, <2>1, <2>2, DoneInv, Finishes DEF CommitStatus, AskInv
  <2>3. CASE Id(a) \in accounts
    <3>1. active' = [active EXCEPT ![Id(a)] = Flushed(a, active[Id(a)])] /\ Heed(a, active'[Id(a)]) /\ Id(a) \in Ids
      BY <1>3, <1>inv, <2>3 DEF CommitStatus
    <3>2. active' \in [Ids -> BOOLEAN] /\ active'[Id(a)] = Flushed(a, active[Id(a)])
      <4>1. Flushed(a, active[Id(a)]) \in BOOLEAN
        BY <1>inv, <2>1, <3>1 DEF AskInv, Flushed
      <4>2. QED
        BY <1>inv, <3>1, <4>1 DEF AskInv
    <3>3. AskInv'
      BY <1>inv, <2>1, <3>2, DoneInv DEF AskInv
    <3>4. unheeded' = unheeded \/ (unheeded' = unheeded + 1 /\ ~Current(a))
      BY <1>inv, <2>1, <2>3, <3>1, <3>2 DEF Heed, Flushed, Current, HeedInv
    <3>5. QED
      BY <1>inv, <2>1, <3>3, <3>4, Finishes
  <2>4. QED
    BY <2>2, <2>3
<1>4. ASSUME NEW a \in Admins, CommitPlugins(a) PROVE AccountInv'
  <2>1. ask[a] # <<>> /\ Done(a) /\ UNCHANGED <<accounts, active>> /\ Asked(a, "plugins") /\ Value(a) \in Settings
    BY <1>4, <1>inv DEF CommitPlugins, Asked, AskInv, Value
  <2>2. CASE Id(a) \notin accounts
    BY <1>4, <1>inv, <2>1, <2>2, DoneInv, Finishes DEF CommitPlugins, AskInv
  <2>3. CASE Id(a) \in accounts
    <3>1. config' = [config EXCEPT ![Id(a)] = Flushed(a, config[Id(a)])] /\ Heed(a, config'[Id(a)]) /\ Id(a) \in Ids
      BY <1>4, <1>inv, <2>3 DEF CommitPlugins
    <3>2. config' \in [Ids -> Settings \cup {Sector}] /\ config'[Id(a)] = Flushed(a, config[Id(a)])
      BY <1>inv, <2>1, <3>1 DEF AskInv, Flushed
    <3>3. AskInv'
      BY <1>inv, <2>1, <3>2, DoneInv DEF AskInv
    <3>4. unheeded' = unheeded \/ (unheeded' = unheeded + 1 /\ ~Current(a))
      BY <1>inv, <2>1, <2>3, <3>1, <3>2 DEF Heed, Flushed, Current, HeedInv
    <3>5. QED
      BY <1>inv, <2>1, <3>3, <3>4, Finishes
  <2>4. QED
    BY <2>2, <2>3
<1>5. CASE DeleteAccount
  <2>1. accounts' = {} /\ UNCHANGED <<active, config, ask, asks, crossings, unheeded>>
    BY <1>5 DEF DeleteAccount
  <2>2. AskInv'
    BY <1>inv, <2>1 DEF AskInv, Asked, Id
  <2>3. HeedInv'
    BY <1>inv, <2>1 DEF HeedInv, Busy, Current, Id
  <2>4. QED
    BY <2>1, <2>2, <2>3, FS_EmptySet DEF AccountInv
<1>6. CASE UNCHANGED accountVars
  BY <1>6 DEF accountVars, AccountInv, AskInv, HeedInv, Busy, Current, Asked, Id
<1>7. QED
  BY <1>1, <1>2, <1>3, <1>4, <1>5, <1>6 DEF AccountNext

\* However requests interleave there is one tenant of a slug, and a request that succeeds leaves what it
\* asked for unless another was under way with it (create, status and plugins in the auth service).
THEOREM AccountsAreHeld == AccountSpec => []AccountsHold
<1>1. AccountInv => AccountsHold
  <2> SUFFICES ASSUME AccountInv PROVE AccountsHold
    OBVIOUS
  <2> USE AccountAssumption
  <2>1. AskInv /\ HeedInv /\ Cardinality(accounts) <= 1
    BY DEF AccountInv
  <2>2. AccountTypeOK
    BY <2>1 DEF AskInv, AccountTypeOK, Ids
  <2>3. Cardinality(Busy) \in Nat /\ (Busy # {} => Cardinality(Busy) > 0)
    <3>1. IsFiniteSet(Busy) /\ Cardinality(Busy) \in Nat
      BY BusyFinite DEF Busy
    <3>2. QED
      BY <3>1, FS_EmptySet
  <2>4. unheeded <= crossings
    BY <2>1, <2>3 DEF HeedInv
  <2>5. QED
    BY <2>1, <2>2, <2>4 DEF AccountsHold
<1>2. QED
  BY <1>1, InitAccountInv, StepAccountInv, PTL DEF AccountSpec

--------------------------------------------------------------------------------
(* Members, roles and keys.                                                     *)

Stages ==
  {"user?", "user+", "member?", "member+", "role?", "role+", "assign?", "assign+"}

HasMember == {"role?", "role+", "assign?", "assign+"}
HasRole == {"assign?", "assign+"}

Types ==
  /\ MemberTypeOK /\ {lastId, overlaps, keyFor} \subseteq Nat
  /\ prov \in [Requests -> {<<>>} \cup (Stages \X Roles \X Nat \X Nat)]
  /\ login = <<>> \/ \E m \in Nat : login = <<m>>

\* Requests at work, and those that have seen that a row is missing.
Active == {r \in Requests : prov[r] # <<>>}
AtMember == {r \in Requests : Stage(r, "member+")}
AtRole(name) == {r \in Requests : Stage(r, "role+") /\ Name(r) = name}
AtAssigned(m, i) == {r \in Requests : Stage(r, "assign+") /\ Member(r) = m /\ RoleId(r) = i}

RowsOfRole(name) == {entry \in roleRows : entry[2] = name}
RowsOfAssigned(m, i) == {a \in assigned : a[2] = m /\ a[3] = i}

\* Rows there are, and rows there will be.
Counted(S, T) == IsFiniteSet(S) /\ Cardinality(S) + Cardinality(T) <= 1 + overlaps

ActiveInv == IsFiniteSet(Active) /\ Cardinality(Active) <= 1 + overlaps
MembersInv == Counted(members, AtMember)
RolesInv == \A name \in Roles : Counted(RowsOfRole(name), AtRole(name))
AssignedInv == \A m, i \in Nat : Counted(RowsOfAssigned(m, i), AtAssigned(m, i))

\* What a request has found is there, unless the tenant was deleted.
WorkOf(r) ==
  prov[r] # <<>> =>
    /\ tenant /\ prov[r][1] \in HasMember => Member(r) \in members
    /\ prov[r][1] \in HasRole => RoleId(r) \in 1 .. lastId /\ (tenant => <<RoleId(r), Name(r)>> \in roleRows)

WorkInv == \A r \in Requests : WorkOf(r)

\* A role that was granted is some member's.
GrantInv == tenant => \A name \in granted : \E a \in assigned : <<a[3], name>> \in roleRows

\* A login to which a role is due has found a member.
LoginInv ==
  /\ due \subseteq granted
  /\ tenant /\ login # <<>> /\ due # {} => login[1] \in members

KeyInv == KeyHasMember /\ (tenant /\ keyFor # 0 => keyFor \in members)

MemberInv ==
  /\ Types /\ ActiveInv /\ MembersInv /\ RolesInv /\ AssignedInv
  /\ WorkInv /\ GrantInv /\ LoginInv /\ KeyInv /\ TokenIsWhole

--------------------------------------------------------------------------------
(* Counting.                                                                    *)

\* Fewer rows and fewer requests.
LEMMA FewerCount ==
  ASSUME NEW S, NEW T, NEW S2 \in SUBSET S, NEW T2 \in SUBSET T,
         IsFiniteSet(S), IsFiniteSet(T), NEW n \in Nat, NEW n2 \in Nat, n <= n2,
         Cardinality(S) + Cardinality(T) <= 1 + n
  PROVE  IsFiniteSet(S2) /\ Cardinality(S2) + Cardinality(T2) <= 1 + n2
<1>1. /\ IsFiniteSet(S2) /\ Cardinality(S2) <= Cardinality(S)
      /\ IsFiniteSet(T2) /\ Cardinality(T2) <= Cardinality(T)
  BY FS_Subset
<1>2. {Cardinality(S), Cardinality(T), Cardinality(S2), Cardinality(T2)} \subseteq Nat
  BY <1>1, FS_CardinalityType
<1>3. QED
  BY <1>1, <1>2

\* No row, and no more requests than there are.
LEMMA NoneCount ==
  ASSUME NEW T, NEW A, T \subseteq A, IsFiniteSet(A), NEW n \in Nat, Cardinality(A) <= 1 + n
  PROVE  IsFiniteSet({}) /\ Cardinality({}) + Cardinality(T) <= 1 + n
<1>1. IsFiniteSet(T) /\ Cardinality(T) <= Cardinality(A)
  BY FS_Subset
<1>2. Cardinality(T) \in Nat /\ Cardinality(A) \in Nat
  BY <1>1, FS_CardinalityType
<1>3. QED
  BY <1>1, <1>2, FS_EmptySet

\* One request has turned into one row.
LEMMA TurnedCount ==
  ASSUME NEW S, NEW T, IsFiniteSet(S), IsFiniteSet(T), NEW x, NEW r \in T, NEW T2, T2 \subseteq T \ {r},
         NEW n \in Nat, Cardinality(S) + Cardinality(T) <= 1 + n
  PROVE  IsFiniteSet(S \cup {x}) /\ Cardinality(S \cup {x}) + Cardinality(T2) <= 1 + n
<1>1. /\ IsFiniteSet(S \cup {x}) /\ IsFiniteSet(T \ {r})
      /\ Cardinality(S \cup {x}) = Cardinality(S) \/ Cardinality(S \cup {x}) = Cardinality(S) + 1
      /\ Cardinality(T \ {r}) = Cardinality(T) - 1
  BY FS_AddElement, FS_RemoveElement
<1>2. IsFiniteSet(T2) /\ Cardinality(T2) <= Cardinality(T \ {r})
  BY <1>1, FS_Subset
<1>3. {Cardinality(S), Cardinality(T), Cardinality(T2)} \subseteq Nat
  BY <1>2, FS_CardinalityType
<1>4. QED
  BY <1>1, <1>2, <1>3

Counts == ActiveInv /\ MembersInv /\ RolesInv /\ AssignedInv

\* The sets that are counted are finite.
LEMMA FiniteAt ==
  ASSUME ActiveInv
  PROVE  /\ IsFiniteSet(AtMember)
         /\ \A name : IsFiniteSet(AtRole(name))
         /\ \A m, i : IsFiniteSet(AtAssigned(m, i))
<1>1. /\ AtMember \subseteq Active
      /\ \A name : AtRole(name) \subseteq Active
      /\ \A m, i : AtAssigned(m, i) \subseteq Active
  BY DEF AtMember, AtRole, AtAssigned, Active, Stage
<1>2. QED
  BY <1>1, FS_Subset DEF ActiveInv

\* A request that goes on leaves the set that its stage puts it in, and enters another one.
LEMMA Moved ==
  ASSUME Types, NEW r \in Requests, prov[r] # <<>>,
         NEW v \in {<<>>} \cup (Stages \X Roles \X Nat \X Nat), prov' = [prov EXCEPT ![r] = v]
  PROVE  /\ Active' \subseteq Active
         /\ v = <<>> \/ v[1] # "member+" => AtMember' \subseteq AtMember \ {r}
         /\ AtMember' \subseteq Active
         /\ \A name :
              /\ v = <<>> \/ v[1] # "role+" \/ v[2] # name => AtRole(name)' \subseteq AtRole(name) \ {r}
              /\ AtRole(name)' \subseteq Active
         /\ \A m, i :
              /\ v = <<>> \/ v[1] # "assign+" \/ v[3] # m \/ v[4] # i =>
                   AtAssigned(m, i)' \subseteq AtAssigned(m, i) \ {r}
              /\ AtAssigned(m, i)' \subseteq Active
<1>1. /\ prov'[r] = v
      /\ \A s \in Requests \ {r} : prov'[s] = prov[s]
  BY DEF Types
<1>2. Active' \subseteq Active
  BY <1>1 DEF Active
<1>3. /\ v = <<>> \/ v[1] # "member+" => AtMember' \subseteq AtMember \ {r}
      /\ AtMember' \subseteq Active
  BY <1>1 DEF AtMember, Stage, Active
<1>4. ASSUME NEW name
      PROVE  /\ v = <<>> \/ v[1] # "role+" \/ v[2] # name => AtRole(name)' \subseteq AtRole(name) \ {r}
             /\ AtRole(name)' \subseteq Active
  BY <1>1 DEF AtRole, Stage, Name, Active
<1>5. ASSUME NEW m, NEW i
      PROVE  /\ v = <<>> \/ v[1] # "assign+" \/ v[3] # m \/ v[4] # i =>
                  AtAssigned(m, i)' \subseteq AtAssigned(m, i) \ {r}
             /\ AtAssigned(m, i)' \subseteq Active
  BY <1>1 DEF AtAssigned, Stage, Member, RoleId, Active
<1>6. QED
  BY <1>2, <1>3, <1>4, <1>5

\* Where rows only disappear and no request comes to add one, the counts stay.
LEMMA FewerMembers ==
  ASSUME Types, Counts, overlaps' \in Nat, overlaps <= overlaps', members' \subseteq members, AtMember' \subseteq AtMember
  PROVE  MembersInv'
BY FiniteAt, FewerCount DEF Types, Counts, MembersInv, Counted

LEMMA FewerRoles ==
  ASSUME Types, Counts, overlaps' \in Nat, overlaps <= overlaps', roleRows' \subseteq roleRows,
         \A name \in Roles : AtRole(name)' \subseteq AtRole(name)
  PROVE  RolesInv'
<1> SUFFICES ASSUME NEW name \in Roles PROVE Counted(RowsOfRole(name), AtRole(name))'
  BY DEF RolesInv
<1>1. RowsOfRole(name)' \subseteq RowsOfRole(name)
  BY DEF RowsOfRole
<1>2. QED
  BY <1>1, FiniteAt, FewerCount DEF Types, Counts, RolesInv, Counted

LEMMA FewerAssigned ==
  ASSUME Types, Counts, overlaps' \in Nat, overlaps <= overlaps', assigned' \subseteq assigned,
         \A m, i \in Nat : AtAssigned(m, i)' \subseteq AtAssigned(m, i)
  PROVE  AssignedInv'
<1> SUFFICES ASSUME NEW m \in Nat, NEW i \in Nat PROVE Counted(RowsOfAssigned(m, i), AtAssigned(m, i))'
  BY DEF AssignedInv
<1>1. RowsOfAssigned(m, i)' \subseteq RowsOfAssigned(m, i)
  BY DEF RowsOfAssigned
<1>2. IsFiniteSet(AtAssigned(m, i)) /\ Counted(RowsOfAssigned(m, i), AtAssigned(m, i)) /\ overlaps \in Nat
  BY FiniteAt DEF Types, Counts, AssignedInv
<1>3. AtAssigned(m, i)' \subseteq AtAssigned(m, i)
  OBVIOUS
<1>4. QED
  BY <1>1, <1>2, <1>3, FewerCount DEF Counted

--------------------------------------------------------------------------------
(* Types.                                                                       *)

Work(r) ==
  \/ LookUser(r) \/ AddUser(r) \/ LookMember(r) \/ AddMember(r) \/ LookRole(r) \/ AddRole(r)
  \/ LookAssigned(r) \/ Assign(r) \/ CutShort(r)

\* Where a request goes.
LEMMA Goes ==
  ASSUME MemberInv, NEW r \in Requests, Work(r)
  PROVE  /\ prov[r] \in Stages \X Roles \X Nat \X Nat
         /\ \E v \in {<<>>} \cup (Stages \X {Name(r)} \X Nat \X Nat) : prov' = [prov EXCEPT ![r] = v]
<1>1. /\ prov[r] # <<>> /\ prov[r] \in Stages \X Roles \X Nat \X Nat
      /\ members \subseteq Nat /\ lastId \in Nat
  BY DEF Work, LookUser, AddUser, LookMember, AddMember, LookRole, AddRole, LookAssigned, Assign, CutShort,
         Stage, MemberInv, Types, MemberTypeOK
<1>2. Name(r) \in Roles /\ Member(r) \in Nat /\ RoleId(r) \in Nat
  BY <1>1 DEF Name, Member, RoleId
<1> DEFINE Vs == {<<>>} \cup (Stages \X {Name(r)} \X Nat \X Nat)
<1>3. ASSUME NEW stage \in Stages, NEW m \in Nat, NEW i \in Nat, To(r, stage, m, i)
      PROVE  \E v \in Vs : prov' = [prov EXCEPT ![r] = v]
  <2>1. <<stage, Name(r), m, i>> \in Vs
    OBVIOUS
  <2>2. QED
    BY <1>3, <2>1 DEF To
<1>4. EndOf(r) => \E v \in Vs : prov' = [prov EXCEPT ![r] = v]
  BY DEF EndOf
<1>5. \/ EndOf(r)
      \/ \E stage \in Stages, m \in Nat, i \in Nat : To(r, stage, m, i)
  <2>1. {"user?", "user+", "member?", "member+", "role?", "role+", "assign?", "assign+"} \subseteq Stages
    BY DEF Stages
  <2>2. CASE LookUser(r)
    BY <2>1, <2>2 DEF LookUser
  <2>3. CASE AddUser(r)
    BY <2>1, <2>3 DEF AddUser
  <2>4. CASE LookMember(r)
    BY <1>1, <2>1, <2>4 DEF LookMember
  <2>5. CASE AddMember(r)
    BY <1>1, <2>1, <2>5 DEF AddMember
  <2>6. CASE LookRole(r)
    <3>1. RolesNamed(Name(r)) \subseteq Nat
      BY <1>1 DEF RolesNamed
    <3>2. \/ To(r, "role+", Member(r), 0)
          \/ \E i \in Nat : To(r, "assign?", Member(r), i)
      BY <2>6, <3>1, Zenon DEF LookRole
    <3>3. QED
      BY <1>2, <2>1, <3>2
  <2>7. CASE AddRole(r)
    BY <1>1, <1>2, <2>1, <2>7 DEF AddRole
  <2>8. CASE LookAssigned(r)
    BY <1>2, <2>1, <2>8 DEF LookAssigned
  <2>9. CASE Assign(r) \/ CutShort(r)
    BY <2>9 DEF Assign, CutShort
  <2>10. QED
    BY <2>2, <2>3, <2>4, <2>5, <2>6, <2>7, <2>8, <2>9 DEF Work
<1>6. QED
  BY <1>1, <1>3, <1>4, <1>5

LEMMA TypesStep ==
  ASSUME MemberInv, MemberNext
  PROVE  Types'
<1>inv. /\ Types /\ MemberTypeOK /\ lastId \in Nat /\ overlaps \in Nat /\ keyFor \in Nat
        /\ prov \in [Requests -> {<<>>} \cup (Stages \X Roles \X Nat \X Nat)]
        /\ login = <<>> \/ \E m \in Nat : login = <<m>>
  BY DEF MemberInv, Types
<1>1. ASSUME NEW r \in Requests, NEW name \in Roles, Provision(r, name)
      PROVE  Types'
  <2>1. <<"user?", name, 0, 0>> \in Stages \X Roles \X Nat \X Nat
    BY DEF Stages
  <2>2. prov' \in [Requests -> {<<>>} \cup (Stages \X Roles \X Nat \X Nat)]
    BY <1>1, <1>inv, <2>1 DEF Provision
  <2>3. overlaps' \in Nat
    BY <1>1, <1>inv DEF Provision
  <2>4. QED
    BY <1>1, <1>inv, <2>2, <2>3 DEF Provision, rows, loginVars, Types, MemberTypeOK
<1>2. ASSUME NEW r \in Requests, Work(r)
      PROVE  Types'
  <2>1. prov' \in [Requests -> {<<>>} \cup (Stages \X Roles \X Nat \X Nat)]
    <3>1. Name(r) \in Roles
      BY <1>2, Goes DEF Name
    <3>2. PICK v \in {<<>>} \cup (Stages \X {Name(r)} \X Nat \X Nat) : prov' = [prov EXCEPT ![r] = v]
      BY <1>2, Goes
    <3>3. QED
      BY <1>inv, <3>1, <3>2
  <2>2. Name(r) \in Roles /\ Member(r) \in Nat
    BY <1>2, Goes DEF Name, Member
  <2>3. CASE LookUser(r) \/ LookMember(r) \/ LookRole(r) \/ CutShort(r)
    BY <1>inv, <2>1, <2>3 DEF LookUser, LookMember, LookRole, CutShort, Others, rows, loginVars, memberHistory, Types, MemberTypeOK
  <2>4. CASE AddUser(r)
    BY <1>inv, <2>1, <2>4 DEF AddUser, Others, loginVars, memberHistory, Types, MemberTypeOK
  <2>5. CASE AddMember(r)
    <3>1. \/ tenant /\ members' = members \cup {lastId + 1} /\ lastId' = lastId + 1
          \/ members' = members /\ lastId' = lastId
      BY <2>5 DEF AddMember
    <3>2. UNCHANGED <<tenant, user, roleRows, assigned, overlaps, granted, short, keyFor, login>>
      BY <2>5 DEF AddMember, Others, loginVars, memberHistory
    <3>3. members \subseteq members' /\ 1 .. lastId \subseteq 1 .. lastId' /\ lastId' \in Nat
      BY <1>inv, <3>1
    <3>4. members' \subseteq 1 .. lastId'
      <4>1. members \subseteq 1 .. lastId
        BY <1>inv DEF MemberTypeOK
      <4>2. members' = members \/ (members' = members \cup {lastId + 1} /\ lastId + 1 \in 1 .. lastId')
        BY <1>inv, <3>1
      <4>3. QED
        BY <3>3, <4>1, <4>2
    <3>5. QED
      BY <1>inv, <2>1, <3>2, <3>3, <3>4 DEF Types, MemberTypeOK
  <2>6. CASE AddRole(r)
    <3>1. \/ roleRows' = roleRows \cup {<<lastId + 1, Name(r)>>} /\ lastId' = lastId + 1
          \/ roleRows' = roleRows /\ lastId' = lastId
      BY <2>6 DEF AddRole
    <3>2. UNCHANGED <<tenant, user, members, assigned, overlaps, granted, short, keyFor, login>>
      BY <2>6 DEF AddRole, Others, loginVars, memberHistory
    <3>3. 1 .. lastId \subseteq 1 .. lastId' /\ lastId' \in Nat
      BY <1>inv, <3>1
    <3>4. roleRows' \subseteq (1 .. lastId') \X Roles
      BY <1>inv, <2>2, <3>1, <3>3 DEF MemberTypeOK
    <3>5. QED
      BY <1>inv, <2>1, <3>2, <3>3, <3>4 DEF Types, MemberTypeOK
  <2>7. CASE LookAssigned(r)
    BY <1>inv, <2>1, <2>2, <2>7 DEF LookAssigned, Others, rows, loginVars, Types, MemberTypeOK
  <2>8. CASE Assign(r)
    <3>1. /\ \/ Member(r) \in members /\ assigned' = assigned \cup {<<lastId + 1, Member(r), RoleId(r)>>}
                /\ lastId' = lastId + 1
             \/ assigned' = assigned /\ lastId' = lastId
          /\ granted' = granted \/ granted' = granted \cup {Name(r)}
      BY <2>8 DEF Assign, WithAssigned
    <3>2. UNCHANGED <<tenant, user, members, roleRows, overlaps, short, keyFor, login>>
      BY <2>8 DEF Assign, Others, loginVars
    <3>3. 1 .. lastId \subseteq 1 .. lastId' /\ lastId' \in Nat
      BY <1>inv, <3>1
    <3>4. RoleId(r) \in 1 .. lastId
      BY <2>8 DEF MemberInv, WorkInv, WorkOf, Assign, Stage, HasRole
    <3>5. assigned' \subseteq (1 .. lastId') \X members \X (1 .. lastId')
      BY <1>inv, <3>1, <3>3, <3>4 DEF MemberTypeOK
    <3>6. QED
      BY <1>inv, <2>1, <2>2, <3>1, <3>2, <3>3, <3>5 DEF Types, MemberTypeOK
  <2>9. QED
    BY <1>2, <2>3, <2>4, <2>5, <2>6, <2>7, <2>8 DEF Work
<1>3. CASE LoginMember \/ CheckKey
  <2>1. members \subseteq Nat
    BY <1>inv DEF MemberTypeOK
  <2>2. UNCHANGED <<rows, prov, short, granted, overlaps>>
    BY <1>3 DEF LoginMember, CheckKey, loginVars, memberHistory
  <2>3. (login' = <<>> \/ \E m \in Nat : login' = <<m>>) /\ keyFor' \in Nat
    BY <1>3, <1>inv, <2>1 DEF LoginMember, CheckKey, loginVars
  <2>4. QED
    BY <1>inv, <2>2, <2>3 DEF rows, Types, MemberTypeOK
<1>4. CASE LoginRoles
  <2>1. short' \in BOOLEAN
    BY <1>4 DEF LoginRoles
  <2>2. QED
    BY <1>4, <1>inv, <2>1 DEF LoginRoles, rows, memberHistory, Types, MemberTypeOK
<1>5. CASE CreateKey
  BY <1>5, <1>inv DEF CreateKey, loginVars, memberHistory, Types, MemberTypeOK
<1>6. CASE DeleteTenant
  BY <1>6, <1>inv DEF DeleteTenant, loginVars, memberHistory, Types, MemberTypeOK
<1>7. QED
  BY <1>1, <1>2, <1>3, <1>4, <1>5, <1>6 DEF MemberNext, Work

--------------------------------------------------------------------------------
(* Rows that say the same.                                                      *)

\* A row is looked for and then added: what counts is that no row was there when the request
\* looked, or that the request turns into the row.
LEMMA WorkCounts ==
  ASSUME MemberInv, NEW r \in Requests, Work(r)
  PROVE  Counts'
<1>inv. /\ Types /\ Counts /\ ActiveInv /\ MembersInv /\ RolesInv /\ AssignedInv
        /\ MemberTypeOK /\ lastId \in Nat /\ overlaps \in Nat
  BY DEF MemberInv, Counts, Types
<1>1. prov[r] # <<>> /\ prov[r] \in Stages \X Roles \X Nat \X Nat /\ UNCHANGED overlaps
  <2>1. prov[r] # <<>> /\ UNCHANGED overlaps
    BY DEF Work, LookUser, AddUser, LookMember, AddMember, LookRole, AddRole, LookAssigned, Assign, CutShort,
           Stage, memberHistory
  <2>2. QED
    BY <2>1, Goes
<1>2. PICK v \in {<<>>} \cup (Stages \X {Name(r)} \X Nat \X Nat) : prov' = [prov EXCEPT ![r] = v]
  BY Goes
<1>3. prov'[r] = v
  BY <1>2 DEF MemberInv, Types
<1>4. v \in {<<>>} \cup (Stages \X Roles \X Nat \X Nat)
  BY <1>1, <1>2 DEF Name
<1>5. /\ Active' \subseteq Active
      /\ v = <<>> \/ v[1] # "member+" => AtMember' \subseteq AtMember \ {r}
      /\ AtMember' \subseteq Active
      /\ \A name :
           /\ v = <<>> \/ v[1] # "role+" \/ v[2] # name => AtRole(name)' \subseteq AtRole(name) \ {r}
           /\ AtRole(name)' \subseteq Active
      /\ \A m, i :
           /\ v = <<>> \/ v[1] # "assign+" \/ v[3] # m \/ v[4] # i =>
                AtAssigned(m, i)' \subseteq AtAssigned(m, i) \ {r}
           /\ AtAssigned(m, i)' \subseteq Active
  BY <1>1, <1>2, <1>4, <1>inv, Moved
<1>6. IsFiniteSet(Active) /\ Cardinality(Active) <= 1 + overlaps
  BY <1>inv DEF ActiveInv
<1>7. ActiveInv'
  <2>1. IsFiniteSet(Active') /\ Cardinality(Active') <= Cardinality(Active)
    BY <1>5, <1>6, FS_Subset
  <2>2. Cardinality(Active') \in Nat /\ Cardinality(Active) \in Nat
    BY <1>6, <2>1, FS_CardinalityType
  <2>3. QED
    BY <1>1, <1>6, <1>inv, <2>1, <2>2 DEF ActiveInv
<1>8. MembersInv'
  <2>1. CASE LookMember(r) /\ members = {}
    <3>1. members' = {}
      BY <2>1 DEF LookMember, rows
    <3>2. QED
      BY <1>1, <1>5, <1>6, <1>inv, <3>1, NoneCount DEF MembersInv, Counted
  <2>2. CASE AddMember(r) /\ tenant
    <3>1. members' = members \cup {lastId + 1} /\ v[1] = "role?" /\ r \in AtMember
      BY <1>3, <2>2 DEF AddMember, To, AtMember, MemberInv, Types
    <3>2. QED
      BY <1>1, <1>5, <1>inv, <3>1, FiniteAt, TurnedCount DEF MembersInv, Counted
  <2>3. CASE ~(LookMember(r) /\ members = {}) /\ ~(AddMember(r) /\ tenant)
    <3>1. UNCHANGED members
      BY <2>3 DEF Work, LookUser, AddUser, LookMember, AddMember, LookRole, AddRole, LookAssigned, Assign, CutShort, rows
    <3>2. v = <<>> \/ v[1] # "member+"
      BY <1>3, <2>3 DEF Work, LookUser, AddUser, LookMember, AddMember, LookRole, AddRole, LookAssigned, Assign, CutShort,
                        To, EndOf, MemberInv, Types
    <3>3. QED
      BY <1>1, <1>5, <1>inv, <3>1, <3>2, FewerMembers
  <2>4. QED
    BY <2>1, <2>2, <2>3
<1>9. RolesInv'
  <2>1. CASE (LookRole(r) /\ RolesNamed(Name(r)) = {}) \/ (AddRole(r) /\ tenant)
    <3> SUFFICES ASSUME NEW name \in Roles PROVE Counted(RowsOfRole(name), AtRole(name))'
      BY DEF RolesInv
    <3>1. Counted(RowsOfRole(name), AtRole(name)) /\ IsFiniteSet(AtRole(name)) /\ AtRole(name)' \subseteq Active
      BY <1>5, <1>inv, FiniteAt DEF RolesInv
    <3>2. CASE LookRole(r) /\ RolesNamed(Name(r)) = {} /\ name = Name(r)
      <4>1. RowsOfRole(name)' = {}
        BY <1>inv, <3>2 DEF LookRole, rows, RolesNamed, RowsOfRole, MemberTypeOK
      <4>2. QED
        BY <1>1, <1>6, <1>inv, <3>1, <4>1, NoneCount DEF Counted
    <3>3. CASE AddRole(r) /\ tenant /\ name = Name(r)
      <4>1. /\ RowsOfRole(name)' = RowsOfRole(name) \cup {<<lastId + 1, name>>}
            /\ v[1] = "assign?" /\ r \in AtRole(name)
        BY <1>3, <3>3 DEF AddRole, To, AtRole, RowsOfRole, MemberInv, Types
      <4>2. AtRole(name)' \subseteq AtRole(name) \ {r}
        BY <1>5, <4>1
      <4>3. /\ IsFiniteSet(RowsOfRole(name) \cup {<<lastId + 1, name>>})
            /\ Cardinality(RowsOfRole(name) \cup {<<lastId + 1, name>>}) + Cardinality(AtRole(name)') <= 1 + overlaps
        BY <1>inv, <3>1, <4>1, <4>2, TurnedCount DEF Counted
      <4>4. QED
        BY <1>1, <4>1, <4>3 DEF Counted
    <3>4. CASE name # Name(r)
      <4>1. RowsOfRole(name)' = RowsOfRole(name)
        BY <2>1, <3>4 DEF LookRole, AddRole, rows, RowsOfRole
      <4>2. AtRole(name)' \subseteq AtRole(name)
        BY <1>2, <1>5, <3>4
      <4>3. QED
        BY <1>1, <1>inv, <3>1, <4>1, <4>2, FewerCount DEF Counted
    <3>5. QED
      BY <2>1, <3>2, <3>3, <3>4
  <2>2. CASE ~(LookRole(r) /\ RolesNamed(Name(r)) = {}) /\ ~(AddRole(r) /\ tenant)
    <3>1. UNCHANGED roleRows
      BY <2>2 DEF Work, LookUser, AddUser, LookMember, AddMember, LookRole, AddRole, LookAssigned, Assign, CutShort, rows
    <3>2. v = <<>> \/ v[1] # "role+"
      BY <1>3, <2>2 DEF Work, LookUser, AddUser, LookMember, AddMember, LookRole, AddRole, LookAssigned, Assign, CutShort,
                        To, EndOf, MemberInv, Types
    <3>3. QED
      BY <1>1, <1>5, <1>inv, <3>1, <3>2, FewerRoles
  <2>3. QED
    BY <2>1, <2>2
<1>10. AssignedInv'
  <2>1. CASE (LookAssigned(r) /\ ~Assigned(Member(r), RoleId(r))) \/ (Assign(r) /\ Member(r) \in members)
    <3> SUFFICES ASSUME NEW m \in Nat, NEW i \in Nat PROVE Counted(RowsOfAssigned(m, i), AtAssigned(m, i))'
      BY DEF AssignedInv
    <3>1. /\ Counted(RowsOfAssigned(m, i), AtAssigned(m, i)) /\ IsFiniteSet(AtAssigned(m, i))
          /\ AtAssigned(m, i)' \subseteq Active
      BY <1>5, <1>inv, FiniteAt DEF AssignedInv
    <3>2. CASE LookAssigned(r) /\ ~Assigned(Member(r), RoleId(r)) /\ m = Member(r) /\ i = RoleId(r)
      <4>1. RowsOfAssigned(m, i)' = {}
        BY <3>2 DEF LookAssigned, rows, Assigned, RowsOfAssigned
      <4>2. QED
        BY <1>1, <1>6, <1>inv, <3>1, <4>1, NoneCount DEF Counted
    <3>3. CASE Assign(r) /\ Member(r) \in members /\ m = Member(r) /\ i = RoleId(r)
      <4>1. /\ RowsOfAssigned(m, i)' = RowsOfAssigned(m, i) \cup {<<lastId + 1, m, i>>}
            /\ v = <<>> /\ r \in AtAssigned(m, i)
        BY <1>3, <3>3 DEF Assign, WithAssigned, EndOf, AtAssigned, RowsOfAssigned, MemberInv, Types
      <4>2. AtAssigned(m, i)' \subseteq AtAssigned(m, i) \ {r}
        BY <1>5, <4>1
      <4>3. /\ IsFiniteSet(RowsOfAssigned(m, i) \cup {<<lastId + 1, m, i>>})
            /\ Cardinality(RowsOfAssigned(m, i) \cup {<<lastId + 1, m, i>>}) + Cardinality(AtAssigned(m, i)')
                 <= 1 + overlaps
        BY <1>inv, <3>1, <4>1, <4>2, TurnedCount DEF Counted
      <4>4. QED
        BY <1>1, <4>1, <4>3 DEF Counted
    <3>4. CASE m # Member(r) \/ i # RoleId(r)
      <4>1. RowsOfAssigned(m, i)' = RowsOfAssigned(m, i)
        BY <2>1, <3>4 DEF LookAssigned, Assign, WithAssigned, rows, RowsOfAssigned
      <4>2. v = <<>> \/ v[1] # "assign+" \/ v[3] # m \/ v[4] # i
        BY <1>3, <2>1, <3>4 DEF LookAssigned, Assign, To, EndOf, MemberInv, Types
      <4>3. AtAssigned(m, i)' \subseteq AtAssigned(m, i)
        BY <1>5, <4>2
      <4>4. QED
        BY <1>1, <1>inv, <3>1, <4>1, <4>3, FewerCount DEF Counted
    <3>5. QED
      BY <2>1, <3>2, <3>3, <3>4
  <2>2. CASE /\ ~(LookAssigned(r) /\ ~Assigned(Member(r), RoleId(r)))
             /\ ~(Assign(r) /\ Member(r) \in members)
    <3>1. UNCHANGED assigned
      BY <2>2 DEF Work, LookUser, AddUser, LookMember, AddMember, LookRole, AddRole, LookAssigned, Assign, CutShort, rows
    <3>2. v = <<>> \/ v[1] # "assign+"
      BY <1>3, <2>2 DEF Work, LookUser, AddUser, LookMember, AddMember, LookRole, AddRole, LookAssigned, Assign, CutShort,
                        To, EndOf, MemberInv, Types
    <3>3. \A m, i \in Nat : AtAssigned(m, i)' \subseteq AtAssigned(m, i)
      BY <1>5, <3>2
    <3>4. QED
      BY <1>1, <1>inv, <3>1, <3>3, FewerAssigned
  <2>3. QED
    BY <2>1, <2>2
<1>11. QED
  BY <1>7, <1>8, <1>9, <1>10 DEF Counts

LEMMA CountsStep ==
  ASSUME MemberInv, MemberNext
  PROVE  Counts'
<1>inv. /\ Types /\ Counts /\ ActiveInv /\ IsFiniteSet(Active) /\ Cardinality(Active) <= 1 + overlaps
        /\ overlaps \in Nat /\ Cardinality(Active) \in Nat
  BY FS_CardinalityType DEF MemberInv, Counts, ActiveInv, Types
<1>1. ASSUME NEW r \in Requests, NEW name \in Roles, Provision(r, name)
      PROVE  Counts'
  <2>1. /\ prov'[r] = <<"user?", name, 0, 0>> /\ prov[r] = <<>>
        /\ \A s \in Requests \ {r} : prov'[s] = prov[s]
    BY <1>1, <1>inv DEF Provision, Types
  <2>2. UNCHANGED <<members, roleRows, assigned>> /\ overlaps' \in Nat /\ overlaps <= overlaps'
    BY <1>1, <1>inv DEF Provision, rows
  <2>3. Active' = Active \cup {r}
    BY <2>1 DEF Active
  <2>4. IsFiniteSet(Active') /\ Cardinality(Active') <= Cardinality(Active) + 1 /\ Cardinality(Active') \in Nat
    BY <1>inv, <2>3, FS_AddElement, FS_CardinalityType
  <2>5. Cardinality(Active') <= 1 + overlaps'
    <3>1. CASE \E s \in Requests \ {r} : prov[s] # <<>>
      BY <1>1, <1>inv, <2>4, <3>1 DEF Provision
    <3>2. CASE ~ \E s \in Requests \ {r} : prov[s] # <<>>
      <4>1. Active' = {r}
        BY <2>1, <3>2 DEF Active
      <4>2. QED
        BY <2>2, <4>1, FS_Singleton
    <3>3. QED
      BY <3>1, <3>2
  <2>6. /\ AtMember' \subseteq AtMember
        /\ \A n \in Roles : AtRole(n)' \subseteq AtRole(n)
        /\ \A m, i \in Nat : AtAssigned(m, i)' \subseteq AtAssigned(m, i)
    BY <2>1 DEF AtMember, AtRole, AtAssigned, Stage, Name, Member, RoleId
  <2>7. MembersInv' /\ RolesInv' /\ AssignedInv'
    BY <1>inv, <2>2, <2>6, FewerMembers, FewerRoles, FewerAssigned
  <2>8. QED
    BY <2>4, <2>5, <2>7 DEF Counts, ActiveInv
<1>2. ASSUME NEW r \in Requests, Work(r)
      PROVE  Counts'
  BY <1>2, WorkCounts
<1>3. CASE LoginMember \/ LoginRoles \/ CheckKey \/ CreateKey \/ DeleteTenant
  <2>1. /\ UNCHANGED <<prov, overlaps>>
        /\ members' \subseteq members /\ roleRows' \subseteq roleRows /\ assigned' \subseteq assigned
    BY <1>3 DEF LoginMember, LoginRoles, CheckKey, CreateKey, DeleteTenant, rows, memberHistory
  <2>2. /\ AtMember' \subseteq AtMember /\ Active' = Active
        /\ \A n \in Roles : AtRole(n)' \subseteq AtRole(n)
        /\ \A m, i \in Nat : AtAssigned(m, i)' \subseteq AtAssigned(m, i)
    BY <2>1 DEF AtMember, AtRole, AtAssigned, Active, Stage, Name, Member, RoleId
  <2>3. MembersInv' /\ RolesInv' /\ AssignedInv'
    BY <1>inv, <2>1, <2>2, FewerMembers, FewerRoles, FewerAssigned
  <2>4. QED
    BY <1>inv, <2>1, <2>2, <2>3 DEF Counts, ActiveInv
<1>4. QED
  BY <1>1, <1>2, <1>3 DEF MemberNext, Work

--------------------------------------------------------------------------------
(* What requests, logins and keys have found.                                   *)

\* While the tenant exists, rows are only added.
LEMMA RowsGrow ==
  ASSUME MemberInv, MemberNext
  PROVE  /\ lastId' \in Nat /\ 1 .. lastId \subseteq 1 .. lastId'
         /\ tenant' => /\ tenant /\ members \subseteq members' /\ roleRows \subseteq roleRows'
                       /\ assigned \subseteq assigned'
<1>1. lastId \in Nat
  BY DEF MemberInv, Types
<1>2. lastId' = lastId \/ lastId' = lastId + 1
  BY DEF MemberNext, Provision, LookUser, AddUser, LookMember, AddMember, LookRole, AddRole, LookAssigned, Assign,
         CutShort, LoginMember, LoginRoles, CheckKey, CreateKey, DeleteTenant, rows
<1>3. tenant' => /\ tenant /\ members \subseteq members' /\ roleRows \subseteq roleRows'
                 /\ assigned \subseteq assigned'
  BY DEF MemberNext, Provision, LookUser, AddUser, LookMember, AddMember, LookRole, AddRole, LookAssigned, Assign,
         WithAssigned, CutShort, LoginMember, LoginRoles, CheckKey, CreateKey, DeleteTenant, rows
<1>4. QED
  BY <1>1, <1>2, <1>3

\* A request that stays where it was keeps what it has found.
LEMMA WorkKept ==
  ASSUME MemberInv, MemberNext, NEW s \in Requests, prov'[s] = prov[s]
  PROVE  WorkOf(s)'
BY RowsGrow DEF MemberInv, WorkInv, WorkOf, Member, RoleId, Name

LEMMA WorkStep ==
  ASSUME MemberInv, MemberNext
  PROVE  WorkInv'
<1>inv. /\ prov \in [Requests -> {<<>>} \cup (Stages \X Roles \X Nat \X Nat)]
        /\ WorkInv /\ lastId \in Nat /\ roleRows \subseteq (1 .. lastId) \X Roles
  BY DEF MemberInv, Types, MemberTypeOK
<1>1. ASSUME NEW r \in Requests, NEW name \in Roles, Provision(r, name)
      PROVE  WorkInv'
  <2>1. WorkOf(r)'
    BY <1>1, <1>inv DEF Provision, WorkOf, HasMember, HasRole
  <2>2. QED
    BY <1>1, <1>inv, <2>1, WorkKept DEF Provision, WorkInv
<1>2. ASSUME NEW r \in Requests, Work(r)
      PROVE  WorkInv'
  <2>1. ASSUME NEW s \in Requests \ {r} PROVE WorkOf(s)'
    <3>1. PICK v \in {<<>>} \cup (Stages \X {Name(r)} \X Nat \X Nat) : prov' = [prov EXCEPT ![r] = v]
      BY <1>2, Goes
    <3>2. prov'[s] = prov[s]
      BY <1>inv, <2>1, <3>1
    <3>3. QED
      BY <3>2, WorkKept
  <2>2. EndOf(r) => WorkOf(r)'
    BY <1>inv DEF EndOf, WorkOf
  <2>3. ASSUME NEW stage \in Stages, NEW m, NEW i, To(r, stage, m, i)
        PROVE  prov'[r] = <<stage, Name(r), m, i>>
    BY <1>inv, <2>3 DEF To
  <2>4. WorkOf(r)'
    <3>1. CASE LookUser(r) \/ AddUser(r)
      BY <1>inv, <2>2, <2>3, <3>1 DEF LookUser, AddUser, WorkOf, Stages, HasMember, HasRole
    <3>2. CASE LookMember(r)
      BY <1>inv, <2>2, <2>3, <3>2 DEF LookMember, rows, WorkOf, Stages, HasMember, HasRole, Member
    <3>3. CASE AddMember(r)
      BY <1>inv, <2>2, <2>3, <3>3 DEF AddMember, WorkOf, Stages, HasMember, HasRole, Member
    <3>4. CASE LookRole(r)
      <4>1. tenant => Member(r) \in members
        BY <1>inv, <3>4 DEF WorkInv, WorkOf, LookRole, Stage, HasMember
      <4>2. CASE To(r, "role+", Member(r), 0)
        BY <2>3, <3>4, <4>1, <4>2 DEF LookRole, rows, WorkOf, Stages, HasMember, HasRole, Member
      <4>3. ASSUME NEW i \in RolesNamed(Name(r)), To(r, "assign?", Member(r), i)
            PROVE  WorkOf(r)'
        BY <1>inv, <2>3, <3>4, <4>1, <4>3 DEF LookRole, rows, RolesNamed, WorkOf, Stages, HasMember, HasRole, Member, RoleId, Name
      <4>4. QED
        BY <3>4, <4>2, <4>3 DEF LookRole
    <3>5. CASE AddRole(r)
      <4>1. tenant => Member(r) \in members
        BY <1>inv, <3>5 DEF WorkInv, WorkOf, AddRole, Stage, HasMember
      <4>2. CASE tenant
        <5>1. prov'[r] = <<"assign?", Name(r), Member(r), lastId + 1>> /\ lastId' = lastId + 1
              /\ <<lastId + 1, Name(r)>> \in roleRows' /\ members' = members
          BY <2>3, <3>5, <4>2 DEF AddRole, Stages
        <5>2. QED
          BY <1>inv, <4>1, <4>2, <5>1 DEF WorkOf, HasMember, HasRole, Member, RoleId, Name
      <4>3. QED
        BY <2>2, <3>5, <4>2 DEF AddRole, WorkOf, EndOf
    <3>6. CASE LookAssigned(r)
      <4>1. /\ tenant => Member(r) \in members /\ <<RoleId(r), Name(r)>> \in roleRows
            /\ RoleId(r) \in 1 .. lastId
        BY <1>inv, <3>6 DEF WorkInv, WorkOf, LookAssigned, Stage, HasMember, HasRole
      <4>2. EndOf(r) \/ prov'[r] = <<"assign+", Name(r), Member(r), RoleId(r)>>
        BY <2>3, <3>6 DEF LookAssigned, Stages
      <4>3. QED
        BY <2>2, <3>6, <4>1, <4>2 DEF LookAssigned, rows, WorkOf, HasMember, HasRole, Member, RoleId, Name
    <3>7. CASE Assign(r) \/ CutShort(r)
      BY <1>inv, <3>7 DEF Assign, CutShort, EndOf, WorkOf
    <3>8. QED
      BY <1>2, <3>1, <3>2, <3>3, <3>4, <3>5, <3>6, <3>7 DEF Work
  <2>5. QED
    BY <2>1, <2>4 DEF WorkInv
<1>3. CASE LoginMember \/ LoginRoles \/ CheckKey \/ CreateKey \/ DeleteTenant
  <2>1. UNCHANGED prov
    BY <1>3 DEF LoginMember, LoginRoles, CheckKey, CreateKey, DeleteTenant
  <2>2. QED
    BY <2>1, WorkKept DEF WorkInv
<1>4. QED
  BY <1>1, <1>2, <1>3 DEF MemberNext, Work

\* Roles are granted when there is an assignment, and a login goes by the rows there are.
LEMMA GrantStep ==
  ASSUME MemberInv, MemberNext
  PROVE  GrantInv'
<1> SUFFICES ASSUME tenant', NEW name \in granted' PROVE \E a \in assigned' : <<a[3], name>> \in roleRows'
  BY DEF GrantInv
<1>1. tenant /\ roleRows \subseteq roleRows' /\ assigned \subseteq assigned'
  BY RowsGrow
<1>2. CASE name \in granted
  BY <1>1, <1>2 DEF MemberInv, GrantInv
<1>3. CASE name \notin granted
  <2>1. PICK r \in Requests : (LookAssigned(r) \/ Assign(r)) /\ granted' # granted
    BY <1>3 DEF MemberNext, Provision, LookUser, AddUser, LookMember, AddMember, LookRole, AddRole,
                CutShort, LoginMember, LoginRoles, CheckKey, CreateKey, DeleteTenant, memberHistory
  <2>2. name = Name(r)
    BY <1>3, <2>1 DEF LookAssigned, Assign
  <2>3. <<RoleId(r), name>> \in roleRows
    BY <1>1, <2>1, <2>2 DEF MemberInv, WorkInv, WorkOf, LookAssigned, Assign, Stage, HasRole
  <2>4. \E a \in assigned' : a[3] = RoleId(r)
    <3>1. CASE LookAssigned(r)
      <4>1. Assigned(Member(r), RoleId(r)) /\ assigned' = assigned
        BY <2>1, <3>1 DEF LookAssigned, rows
      <4>2. QED
        BY <4>1 DEF Assigned
    <3>2. CASE Assign(r)
      <4>1. <<lastId + 1, Member(r), RoleId(r)>> \in assigned'
        BY <2>1, <3>2 DEF Assign, WithAssigned
      <4>2. <<lastId + 1, Member(r), RoleId(r)>>[3] = RoleId(r)
        OBVIOUS
      <4>3. QED
        BY <4>1, <4>2, Zenon
    <3>3. QED
      BY <2>1, <3>1, <3>2
  <2>5. QED
    BY <1>1, <2>3, <2>4
<1>4. QED
  BY <1>2, <1>3

LEMMA LoginStep ==
  ASSUME MemberInv, MemberNext
  PROVE  LoginInv'
<1>inv. LoginInv /\ GrantInv /\ assigned \subseteq (1 .. lastId) \X members \X (1 .. lastId)
  BY DEF MemberInv, Types, MemberTypeOK
<1>1. granted \subseteq granted'
  BY DEF MemberNext, Provision, LookUser, AddUser, LookMember, AddMember, LookRole, AddRole, LookAssigned, Assign,
         CutShort, LoginMember, LoginRoles, CheckKey, CreateKey, DeleteTenant, memberHistory
<1>2. CASE LoginMember
  <2>1. due' = granted /\ members' = members /\ tenant' = tenant /\ granted' = granted
    BY <1>2 DEF LoginMember, rows, memberHistory
  <2>2. tenant /\ granted # {} => members # {}
    BY <1>inv DEF GrantInv
  <2>3. members # {} => login'[1] \in members
    BY <1>2 DEF LoginMember
  <2>4. QED
    BY <2>1, <2>2, <2>3 DEF LoginInv
<1>3. CASE LoginRoles
  BY <1>3, <1>inv DEF LoginRoles, rows, memberHistory, LoginInv
<1>4. CASE ~LoginMember /\ ~LoginRoles
  <2>1. UNCHANGED <<login, due>>
    BY <1>4 DEF MemberNext, Provision, LookUser, AddUser, LookMember, AddMember, LookRole, AddRole, LookAssigned, Assign,
         CutShort, CheckKey, CreateKey, DeleteTenant, Others, loginVars
  <2>2. QED
    BY <1>1, <1>inv, <2>1, RowsGrow DEF LoginInv
<1>5. QED
  BY <1>2, <1>3, <1>4

LEMMA KeyStep ==
  ASSUME MemberInv, MemberNext
  PROVE  KeyInv'
<1>inv. KeyInv
  BY DEF MemberInv
<1>1. CASE CheckKey
  BY <1>1, <1>inv DEF CheckKey, rows, KeyInv, KeyHasMember
<1>2. CASE CreateKey
  BY <1>2, <1>inv DEF CreateKey, KeyInv, KeyHasMember
<1>3. CASE DeleteTenant
  BY <1>3 DEF DeleteTenant, Cascade, KeyInv, KeyHasMember
<1>4. CASE ~CheckKey /\ ~CreateKey /\ ~DeleteTenant
  <2>1. UNCHANGED <<keys, keyFor>> /\ members \subseteq members'
    BY <1>4 DEF MemberNext, Provision, LookUser, AddUser, LookMember, AddMember, LookRole, AddRole, LookAssigned, Assign,
         CutShort, LoginMember, LoginRoles, Others, rows
  <2>2. QED
    BY <1>inv, <2>1, RowsGrow DEF KeyInv, KeyHasMember
<1>5. QED
  BY <1>1, <1>2, <1>3, <1>4

\* Without overlaps there is one member at most, so that the roles that are due are its roles.
LEMMA OnlyMember ==
  ASSUME MemberInv, overlaps = 0, NEW m \in members, NEW k \in members
  PROVE  m = k
<1>1. IsFiniteSet(members) /\ Cardinality(members) + Cardinality(AtMember) <= 1
  BY DEF MemberInv, MembersInv, Counted
<1>2. IsFiniteSet(AtMember)
  BY FiniteAt DEF MemberInv
<1>3. Cardinality(members) \in Nat /\ Cardinality(AtMember) \in Nat
  BY <1>1, <1>2, FS_CardinalityType
<1>4. Cardinality(members) = 1
  BY <1>1, <1>3, FS_EmptySet
<1>5. QED
  BY <1>1, <1>4, FS_Singleton

LEMMA TokenStep ==
  ASSUME MemberInv, MemberNext
  PROVE  TokenIsWhole'
<1>inv. TokenIsWhole /\ LoginInv /\ GrantInv /\ assigned \subseteq (1 .. lastId) \X members \X (1 .. lastId)
        /\ granted \subseteq Roles /\ overlaps \in Nat
  BY DEF MemberInv, Types, MemberTypeOK
<1>1. overlaps' = 0 => overlaps = 0
  BY <1>inv DEF MemberNext, Provision, LookUser, AddUser, LookMember, AddMember, LookRole, AddRole, LookAssigned, Assign,
         CutShort, LoginMember, LoginRoles, CheckKey, CreateKey, DeleteTenant, memberHistory
<1>2. CASE LoginRoles
  <2> SUFFICES ASSUME overlaps = 0, tenant PROVE due \subseteq RolesOf(login[1])
    BY <1>1, <1>2, <1>inv, Zenon DEF TokenIsWhole, LoginRoles
  <2>1. ASSUME NEW name \in due PROVE name \in RolesOf(login[1])
    <3>1. login[1] \in members /\ name \in granted
      BY <1>2, <1>inv, <2>1 DEF LoginRoles, LoginInv
    <3>2. PICK a \in assigned : <<a[3], name>> \in roleRows
      BY <1>inv, <3>1 DEF GrantInv
    <3>3. a[2] = login[1]
      BY <1>inv, <3>1, <3>2, OnlyMember
    <3>4. QED
      BY <1>inv, <3>1, <3>2, <3>3 DEF RolesOf
  <2>2. QED
    BY <2>1
<1>3. CASE ~LoginRoles
  <2>1. UNCHANGED short
    BY <1>3 DEF MemberNext, Provision, LookUser, AddUser, LookMember, AddMember, LookRole, AddRole, LookAssigned, Assign,
         CutShort, LoginMember, CheckKey, CreateKey, DeleteTenant, Others, loginVars
  <2>2. QED
    BY <1>1, <1>inv, <2>1, Zenon DEF TokenIsWhole
<1>4. QED
  BY <1>2, <1>3

--------------------------------------------------------------------------------
LEMMA InitMemberInv == MemberInit => MemberInv
<1> SUFFICES ASSUME MemberInit PROVE MemberInv
  OBVIOUS
<1>1. /\ prov = [r \in Requests |-> <<>>] /\ members = {} /\ roleRows = {} /\ assigned = {} /\ keys = {}
      /\ lastId = 0 /\ keyFor = 0 /\ overlaps = 0 /\ login = <<>> /\ due = {} /\ granted = {}
  BY DEF MemberInit
<1>2. Types
  <2>1. {tenant, user, short} \subseteq BOOLEAN
    BY DEF MemberInit
  <2>2. QED
    BY <1>1, <2>1 DEF Types, MemberTypeOK
<1>3. /\ Active = {} /\ AtMember = {}
      /\ \A name : AtRole(name) = {} /\ RowsOfRole(name) = {}
      /\ \A m, i : AtAssigned(m, i) = {} /\ RowsOfAssigned(m, i) = {}
  BY <1>1 DEF Active, AtMember, AtRole, AtAssigned, RowsOfRole, RowsOfAssigned, Stage
<1>4. ActiveInv /\ MembersInv /\ RolesInv /\ AssignedInv
  <2>1. Counted({}, {}) /\ IsFiniteSet({}) /\ Cardinality({}) = 0
    BY <1>1, FS_EmptySet DEF Counted
  <2>2. ActiveInv /\ MembersInv
    BY <1>1, <1>3, <2>1 DEF ActiveInv, MembersInv
  <2>3. \A name \in Roles : Counted(RowsOfRole(name), AtRole(name))
    BY <1>3, <2>1, Zenon
  <2>4. \A m, i \in Nat : Counted(RowsOfAssigned(m, i), AtAssigned(m, i))
    BY <1>3, <2>1, Zenon
  <2>5. QED
    BY <2>2, <2>3, <2>4 DEF RolesInv, AssignedInv
<1>5. WorkInv /\ GrantInv /\ LoginInv /\ KeyInv
  BY <1>1 DEF WorkInv, WorkOf, GrantInv, LoginInv, KeyInv, KeyHasMember
<1>6. TokenIsWhole
  BY DEF MemberInit, TokenIsWhole
<1>7. QED
  BY <1>2, <1>4, <1>5, <1>6 DEF MemberInv

LEMMA NextMemberInv == MemberInv /\ [MemberNext]_memberVars => MemberInv'
<1>1. ASSUME MemberInv, MemberNext PROVE MemberInv'
  BY <1>1, TypesStep, CountsStep, WorkStep, GrantStep, LoginStep, KeyStep, TokenStep DEF MemberInv, Counts
<1>2. ASSUME MemberInv, UNCHANGED memberVars PROVE MemberInv'
  <2>1. UNCHANGED <<rows, prov, keyFor, login, due, short, granted, overlaps>>
    BY <1>2 DEF memberVars, loginVars, memberHistory
  <2>2. /\ Active' = Active /\ AtMember' = AtMember
        /\ \A name : AtRole(name)' = AtRole(name) /\ RowsOfRole(name)' = RowsOfRole(name)
        /\ \A m, i : AtAssigned(m, i)' = AtAssigned(m, i) /\ RowsOfAssigned(m, i)' = RowsOfAssigned(m, i)
    BY <2>1 DEF rows, Active, AtMember, AtRole, AtAssigned, RowsOfRole, RowsOfAssigned, Stage, Name, Member, RoleId
  <2>3. (ActiveInv /\ MembersInv /\ RolesInv /\ AssignedInv)'
    BY <1>2, <2>1, <2>2 DEF MemberInv, rows, ActiveInv, MembersInv, RolesInv, AssignedInv, Counted
  <2>4. Types'
    BY <1>2, <2>1 DEF MemberInv, rows, Types, MemberTypeOK
  <2>5. (WorkInv /\ GrantInv /\ LoginInv /\ KeyInv)'
    BY <1>2, <2>1 DEF MemberInv, rows, WorkInv, WorkOf, GrantInv, LoginInv, KeyInv, KeyHasMember, Member, RoleId, Name
  <2>6. TokenIsWhole'
    BY <1>2, <2>1, Zenon DEF MemberInv, TokenIsWhole
  <2>7. QED
    BY <2>3, <2>4, <2>5, <2>6 DEF MemberInv
<1>3. QED
  BY <1>1, <1>2

LEMMA IndInvPaid == MemberInv => MembershipsAreWhole
<1> SUFFICES ASSUME MemberInv PROVE MembershipsAreWhole
  OBVIOUS
<1>1. /\ Types /\ MemberTypeOK /\ ActiveInv /\ lastId \in Nat /\ overlaps \in Nat
      /\ MembersInv /\ RolesInv /\ AssignedInv
  BY DEF MemberInv, Types
<1>2. ASSUME NEW S, NEW T, Counted(S, T), IsFiniteSet(T) PROVE Cardinality(S) <= 1 + overlaps
  <2>1. Cardinality(S) \in Nat /\ Cardinality(T) \in Nat
    BY <1>2, FS_CardinalityType DEF Counted
  <2>2. QED
    BY <1>1, <1>2, <2>1 DEF Counted
<1>3. Cardinality(members) <= 1 + overlaps
  BY <1>1, <1>2, FiniteAt DEF MembersInv
<1>4. \A name \in Roles : Cardinality({entry \in roleRows : entry[2] = name}) <= 1 + overlaps
  BY <1>1, <1>2, FiniteAt DEF RolesInv, RowsOfRole
<1>5. \A m \in members, i \in 1 .. lastId : Cardinality({a \in assigned : a[2] = m /\ a[3] = i}) <= 1 + overlaps
  <2> SUFFICES ASSUME NEW m \in members, NEW i \in 1 .. lastId
               PROVE  Cardinality(RowsOfAssigned(m, i)) <= 1 + overlaps
    BY DEF RowsOfAssigned
  <2>1. m \in Nat /\ i \in Nat
    BY <1>1 DEF MemberTypeOK
  <2>2. Counted(RowsOfAssigned(m, i), AtAssigned(m, i)) /\ IsFiniteSet(AtAssigned(m, i))
    BY <1>1, <2>1, FiniteAt DEF AssignedInv
  <2>3. QED
    BY <1>2, <2>2
<1>6. QED
  BY <1>1, <1>3, <1>4, <1>5, Zenon DEF MemberInv, KeyInv, MembershipsAreWhole, RowsPaidFor

\* However provisioning requests interleave, are cut short or lose their tenant: memberships,
\* roles and assignments that say the same as another were each added by requests that
\* overlapped; without overlaps a token has every role granted before the login; and no API key
\* outlives its membership.
THEOREM WholeMemberships == MemberSpec => []MembershipsAreWhole
BY InitMemberInv, NextMemberInv, IndInvPaid, PTL DEF MemberSpec

--------------------------------------------------------------------------------
(* Users and resets.                                                            *)

Confirmations(t) == {c \in Clients : Confirming(c, t)}

\* The tokens are numbered in the order in which they were sent.
MailedInv == \E n \in 0 .. MaxResets : mailed = 1 .. n

\* Who is about to add a user, or to set a password, was let to.
DoingInv ==
  /\ doing \in [Clients -> {<<>>} \cup ({"add"} \X {"register", "social"}) \cup ({"confirm"} \X Tokens)]
  /\ adds \in 0 .. MaxUsers /\ confirms \in Nat
  /\ \A c \in Clients : doing[c] # <<>> /\ doing[c][1] = "add" => adds > 0
  /\ \A c \in Clients, t \in Tokens : Confirming(c, t) => t \in mailed

\* A token that set a password is spent, and confirmations that are under way count as passwords.
UsesInv ==
  /\ uses \in [Tokens -> Nat] /\ crossed \in [Tokens -> Nat]
  /\ \A t \in Tokens : uses[t] > 0 => t \in spent
  /\ \A t \in Tokens : uses[t] + Cardinality(Confirmations(t)) <= 1 + crossed[t]

UserInv ==
  /\ userRows \in Nat /\ userRows <= 1 /\ userRows <= MaxUsers /\ created = userRows
  /\ password \in 0 .. MaxResets /\ spent \subseteq mailed /\ stale \subseteq mailed

CredentialInv == MailedInv /\ DoingInv /\ UsesInv /\ UserInv

LEMMA Confirmed ==
  ASSUME NEW S \in SUBSET Clients
  PROVE  IsFiniteSet(S) /\ Cardinality(S) \in Nat
BY CredentialAssumption, FS_Subset, FS_CardinalityType DEF CredentialAssumption

LEMMA ConfirmedLess ==
  ASSUME NEW S \in SUBSET Clients, NEW T \in SUBSET S
  PROVE  Cardinality(T) \in Nat /\ Cardinality(S) \in Nat /\ Cardinality(T) <= Cardinality(S)
BY Confirmed, FS_Subset

LEMMA InitCredentialInv == CredentialInit => CredentialInv
<1> SUFFICES ASSUME CredentialInit PROVE CredentialInv
  OBVIOUS
<1> USE CredentialAssumption
<1>1. MailedInv
  <2>1. mailed = 1 .. 0 /\ 0 \in 0 .. MaxResets
    BY DEF CredentialInit
  <2>2. QED
    BY <2>1 DEF MailedInv
<1>2. DoingInv
  BY DEF CredentialInit, DoingInv, Confirming
<1>3. UsesInv
  <2>1. \A t \in Tokens : Confirmations(t) = {}
    BY DEF CredentialInit, Confirmations, Confirming
  <2>2. Cardinality({}) = 0
    BY FS_EmptySet
  <2>3. uses = [t \in Tokens |-> 0] /\ crossed = [t \in Tokens |-> 0]
    BY DEF CredentialInit
  <2>4. \A t \in Tokens : Cardinality(Confirmations(t)) = 0 /\ uses[t] = 0 /\ crossed[t] = 0
    BY <2>1, <2>2, <2>3
  <2>5. QED
    BY <2>3, <2>4 DEF UsesInv
<1>4. UserInv
  BY DEF CredentialInit, UserInv
<1>5. QED
  BY <1>1, <1>2, <1>3, <1>4 DEF CredentialInv

\* A step after which no more confirmations of a token are under way, and which sets no password.
LEMMA NoMoreUses ==
  ASSUME UsesInv, UNCHANGED <<uses, crossed, spent>>,
         \A t \in Tokens : Confirmations(t)' \subseteq Confirmations(t)
  PROVE  UsesInv'
<1>1. ASSUME NEW t \in Tokens
      PROVE  uses[t] + Cardinality(Confirmations(t)') <= 1 + crossed[t]
  <2>1. Cardinality(Confirmations(t)') \in Nat /\ Cardinality(Confirmations(t)) \in Nat
        /\ Cardinality(Confirmations(t)') <= Cardinality(Confirmations(t))
    BY ConfirmedLess DEF Confirmations
  <2>2. uses[t] \in Nat /\ crossed[t] \in Nat /\ uses[t] + Cardinality(Confirmations(t)) <= 1 + crossed[t]
    BY DEF UsesInv
  <2>3. QED
    BY <2>1, <2>2
<1>2. QED
  BY <1>1 DEF UsesInv

LEMMA StepCredentialInv == CredentialInv /\ [CredentialNext]_credentialVars => CredentialInv'
<1> SUFFICES ASSUME CredentialInv, [CredentialNext]_credentialVars PROVE CredentialInv'
  OBVIOUS
<1> USE CredentialAssumption
<1>inv. MailedInv /\ DoingInv /\ UsesInv /\ UserInv
  BY DEF CredentialInv
<1>1. ASSUME NEW c \in Clients, NEW kind \in {"register", "social"}, LookUp(c, kind) PROVE CredentialInv'
  <2>1. UNCHANGED <<userRows, created, password, mailed, spent, stale, confirms, uses, crossed>>
        /\ adds' = adds + 1 /\ adds < MaxUsers
        /\ (doing' = doing \/ doing' = [doing EXCEPT ![c] = <<"add", kind>>])
    BY <1>1 DEF LookUp, Reset
  <2>2. DoingInv'
    BY <1>inv, <2>1 DEF DoingInv, Confirming
  <2>3. \A t \in Tokens : Confirmations(t)' \subseteq Confirmations(t)
    BY <1>inv, <2>1 DEF DoingInv, Confirmations, Confirming
  <2>4. QED
    BY <1>inv, <2>1, <2>2, <2>3, NoMoreUses DEF CredentialInv, MailedInv, UserInv
<1>2. ASSUME NEW c \in Clients, Add(c) PROVE CredentialInv'
  <2>1. /\ UNCHANGED <<adds, password, mailed, spent, stale, confirms, uses, crossed>>
        /\ doing' = [doing EXCEPT ![c] = <<>>] /\ adds > 0
    BY <1>2, <1>inv DEF Add, Reset, DoingInv
  <2>2. DoingInv'
    BY <1>inv, <2>1 DEF DoingInv, Confirming
  <2>3. \A t \in Tokens : Confirmations(t)' \subseteq Confirmations(t)
    BY <1>inv, <2>1 DEF DoingInv, Confirmations, Confirming
  <2>4. UserInv'
    BY <1>2, <1>inv, <2>1 DEF Add, Taken, UserInv, DoingInv
  <2>5. QED
    BY <1>inv, <2>1, <2>2, <2>3, <2>4, NoMoreUses DEF CredentialInv, MailedInv
<1>3. CASE RequestReset
  <2>1. UNCHANGED <<userRows, password, spent, stale, doing, adds, confirms, created, uses, crossed>>
    BY <1>3 DEF RequestReset
  <2>2. PICK n \in 0 .. MaxResets : mailed = 1 .. n
    BY <1>inv DEF MailedInv
  <2>3. Cardinality(mailed) = n
    <3>1. Cardinality(1 .. n) = IF 1 > n THEN 0 ELSE n - 1 + 1
      BY <2>2, FS_Interval
    <3>2. QED
      BY <2>2, <3>1
  <2>4. n # MaxResets
    BY <1>3, <2>2 DEF RequestReset, Tokens
  <2>5. mailed' = 1 .. n + 1 /\ n + 1 \in 0 .. MaxResets
    BY <1>3, <2>2, <2>3, <2>4 DEF RequestReset
  <2>6. mailed \subseteq mailed'
    BY <1>3 DEF RequestReset
  <2>7. MailedInv'
    BY <2>5 DEF MailedInv
  <2>8. DoingInv' /\ UserInv'
    BY <1>inv, <2>1, <2>6 DEF DoingInv, UserInv, Confirming
  <2>9. UsesInv'
    BY <1>inv, <2>1, NoMoreUses DEF Confirmations, Confirming
  <2>10. QED
    BY <2>7, <2>8, <2>9 DEF CredentialInv
<1>4. CASE ExpireTokens
  <2>1. UNCHANGED <<userRows, password, mailed, spent, doing, adds, confirms, created, uses, crossed>>
        /\ stale' \subseteq mailed
    BY <1>4 DEF ExpireTokens
  <2>2. DoingInv' /\ UserInv'
    BY <1>inv, <2>1 DEF DoingInv, UserInv, Confirming
  <2>3. UsesInv'
    BY <1>inv, <2>1, NoMoreUses DEF Confirmations, Confirming
  <2>4. QED
    BY <1>inv, <2>1, <2>2, <2>3 DEF CredentialInv, MailedInv
<1>5. ASSUME NEW c \in Clients, NEW t \in Tokens, LookUpToken(c, t) PROVE CredentialInv'
  <2>1. /\ UNCHANGED <<userRows, password, mailed, spent, stale, adds, created, uses>>
        /\ doing[c] = <<>> /\ doing' = [doing EXCEPT ![c] = <<"confirm", t>>] /\ confirms' = confirms + 1
        /\ t \in mailed /\ t \notin spent
        /\ crossed' = [crossed EXCEPT ![t] = @ + IF Confirmations(t) # {} THEN 1 ELSE 0]
    BY <1>5 DEF LookUpToken, GoodTokens, Confirmations
  <2>2. DoingInv'
    BY <1>inv, <2>1 DEF DoingInv, Confirming
  <2>3. \A s \in Tokens : uses[s] \in Nat /\ crossed[s] \in Nat
          /\ uses[s] + Cardinality(Confirmations(s)) <= 1 + crossed[s]
    BY <1>inv DEF UsesInv
  <2>4. \A s \in Tokens \ {t} : Confirmations(s)' = Confirmations(s) /\ crossed'[s] = crossed[s]
    BY <1>inv, <2>1 DEF DoingInv, UsesInv, Confirmations, Confirming
  <2>5. c \notin Confirmations(t) /\ Confirmations(t)' = Confirmations(t) \cup {c}
    BY <1>inv, <2>1 DEF DoingInv, Confirmations, Confirming
  <2>6. Cardinality(Confirmations(t)') = Cardinality(Confirmations(t)) + 1 /\ Cardinality(Confirmations(t)) \in Nat
    <3>1. IsFiniteSet(Confirmations(t)) /\ Cardinality(Confirmations(t)) \in Nat
      BY Confirmed DEF Confirmations
    <3>2. QED
      BY <2>5, <3>1, FS_AddElement
  <2>7. uses[t] + Cardinality(Confirmations(t)') <= 1 + crossed'[t] /\ crossed' \in [Tokens -> Nat]
    <3>1. CASE Confirmations(t) # {}
      <4>1. crossed'[t] = crossed[t] + 1 /\ crossed' \in [Tokens -> Nat]
        BY <1>inv, <2>1, <3>1 DEF UsesInv
      <4>2. QED
        BY <2>3, <2>6, <4>1
    <3>2. CASE Confirmations(t) = {}
      <4>1. Cardinality(Confirmations(t)) = 0
        BY <3>2, FS_EmptySet
      <4>2. uses[t] = 0
        BY <1>inv, <2>1, <2>3 DEF UsesInv
      <4>3. crossed'[t] = crossed[t] /\ crossed' \in [Tokens -> Nat]
        BY <1>inv, <2>1, <3>2 DEF UsesInv
      <4>4. QED
        BY <2>3, <2>6, <4>1, <4>2, <4>3
    <3>3. QED
      BY <3>1, <3>2
  <2>8. UsesInv'
    BY <1>inv, <2>1, <2>3, <2>4, <2>7 DEF UsesInv
  <2>9. QED
    BY <1>inv, <2>1, <2>2, <2>8 DEF CredentialInv, MailedInv, UserInv
<1>6. ASSUME NEW c \in Clients, Confirm(c) PROVE CredentialInv'
  <2>1. PICK t \in Tokens :
          /\ Confirming(c, t) /\ doing' = [doing EXCEPT ![c] = <<>>]
          /\ password' = t /\ spent' = spent \cup {t} /\ uses' = [uses EXCEPT ![t] = @ + 1]
          /\ UNCHANGED <<userRows, mailed, stale, adds, confirms, created, crossed>>
    BY <1>6 DEF Confirm, Spent
  <2>2. DoingInv' /\ UserInv'
    BY <1>inv, <2>1 DEF DoingInv, UserInv, Confirming, Tokens
  <2>3. \A s \in Tokens : uses[s] \in Nat /\ crossed[s] \in Nat
          /\ uses[s] + Cardinality(Confirmations(s)) <= 1 + crossed[s]
    BY <1>inv DEF UsesInv
  <2>4. /\ \A s \in Tokens \ {t} : Confirmations(s)' = Confirmations(s) /\ uses'[s] = uses[s]
        /\ uses'[t] = uses[t] + 1 /\ uses' \in [Tokens -> Nat]
    BY <1>inv, <2>1 DEF DoingInv, UsesInv, Confirmations, Confirming
  <2>5. c \in Confirmations(t) /\ Confirmations(t)' = Confirmations(t) \ {c}
    BY <1>inv, <2>1 DEF DoingInv, Confirmations, Confirming
  <2>6. Cardinality(Confirmations(t)') = Cardinality(Confirmations(t)) - 1 /\ Cardinality(Confirmations(t)) \in Nat
    <3>1. IsFiniteSet(Confirmations(t)) /\ Cardinality(Confirmations(t)) \in Nat
      BY Confirmed DEF Confirmations
    <3>2. QED
      BY <2>5, <3>1, FS_RemoveElement
  <2>7. uses'[t] + Cardinality(Confirmations(t)') <= 1 + crossed[t]
    BY <2>3, <2>4, <2>6
  <2>8. UsesInv'
    BY <1>inv, <2>1, <2>3, <2>4, <2>7 DEF UsesInv
  <2>9. QED
    BY <1>inv, <2>1, <2>2, <2>8 DEF CredentialInv, MailedInv
<1>7. ASSUME NEW c \in Clients, Abandon(c) PROVE CredentialInv'
  <2>1. /\ UNCHANGED <<userRows, created, adds, password, mailed, spent, stale, confirms, uses, crossed>>
        /\ doing' = [doing EXCEPT ![c] = <<>>]
    BY <1>7 DEF Abandon, Reset
  <2>2. DoingInv'
    BY <1>inv, <2>1 DEF DoingInv, Confirming
  <2>3. \A t \in Tokens : Confirmations(t)' \subseteq Confirmations(t)
    BY <1>inv, <2>1 DEF DoingInv, Confirmations, Confirming
  <2>4. QED
    BY <1>inv, <2>1, <2>2, <2>3, NoMoreUses DEF CredentialInv, MailedInv, UserInv
<1>8. CASE UNCHANGED credentialVars
  BY <1>8 DEF credentialVars, CredentialInv, MailedInv, DoingInv, UsesInv, UserInv, Confirmations, Confirming
<1>9. QED
  BY <1>1, <1>2, <1>3, <1>4, <1>5, <1>6, <1>7, <1>8 DEF CredentialNext, Register, SocialLogin

\* However registrations and social logins of an email interleave, one of them creates the user and no
\* other is told that it did; a reset token sets a password once, and once more for every confirmation
\* that was under way together with another one of it (registration and password reset of the auth service).
THEOREM OnceEach == CredentialSpec => []OnceOnly
<1>1. CredentialInv => OnceOnly
  <2> SUFFICES ASSUME CredentialInv PROVE OnceOnly
    OBVIOUS
  <2> USE CredentialAssumption
  <2>inv. MailedInv /\ DoingInv /\ UsesInv /\ UserInv
    BY DEF CredentialInv
  <2>1. mailed \subseteq Tokens
    BY <2>inv DEF MailedInv, Tokens
  <2>2. CredentialTypeOK /\ OneCreator
    BY <2>inv, <2>1 DEF CredentialTypeOK, OneCreator, DoingInv, UserInv
  <2>3. ASSUME NEW t \in Tokens PROVE uses[t] <= 1 + crossed[t]
    <3>1. Cardinality(Confirmations(t)) \in Nat
      BY Confirmed DEF Confirmations
    <3>2. QED
      BY <2>inv, <3>1 DEF UsesInv
  <2>4. QED
    BY <2>2, <2>3 DEF OnceOnly, OneTimeToken
<1>2. QED
  BY <1>1, InitCredentialInv, StepCredentialInv, PTL DEF CredentialSpec

--------------------------------------------------------------------------------
(* The sides together.                                                          *)

\* The administration of tenants as a whole is each of its sides: what holds of one of them
\* holds beside the others.
THEOREM EachSide ==
  Spec => /\ TenantSpec /\ AccountSpec /\ MemberSpec /\ CredentialSpec
          /\ LockoutSpec /\ LivenessSpec /\ LegalSpec /\ AuditSpec
<1>1. Init => /\ TenantInit /\ AccountInit /\ MemberInit /\ CredentialInit
              /\ LockoutInit /\ LivenessInit /\ LegalInit /\ AuditInit
  BY Zenon DEF Init
<1> DEFINE Everything ==
      <<side, tenantVars, accountVars, memberVars, credentialVars, lockoutVars, livenessVars, legalVars, auditVars>>
<1>2. ASSUME [Next]_Everything
      PROVE  /\ [TenantNext]_tenantVars /\ [AccountNext]_accountVars /\ [MemberNext]_memberVars
             /\ [CredentialNext]_credentialVars /\ [LockoutNext]_lockoutVars /\ [LivenessNext]_livenessVars
             /\ [LegalNext]_legalVars /\ [AuditNext]_auditVars
  <2>1. CASE UNCHANGED Everything
    BY <2>1, Zenon
  <2>2. CASE Next
    BY <2>2, Zenon DEF Next
  <2>3. QED
    BY <1>2, <2>1, <2>2
<1>3. QED
  BY <1>1, <1>2, PTL DEF Spec, TenantSpec, AccountSpec, MemberSpec, CredentialSpec, LockoutSpec, LivenessSpec,
     LegalSpec, AuditSpec

\* Users, password resets and changes of a tenant's row happen once, however many requests
\* interleave: an email has one user, a slug one tenant, and a reset token sets a password
\* once more only for confirmations that were under way together.
THEOREM Provisioned == Spec => []ProvisionedOnce
<1>1. OnceOnly /\ AccountsHold => ProvisionedOnce
  BY DEF ProvisionedOnce
<1>2. QED
  BY <1>1, EachSide, OnceEach, AccountsAreHeld, PTL

\* Locks of edge devices and staleness of cameras come of what the devices and cameras did,
\* for any number of processes and threads that record it.
THEOREM DevicesAreHeld == Spec => DevicesHold
<1>1. QED
  BY EachSide, LocksOut, CamerasAreHeard, PTL DEF DevicesHold
================================================================================
