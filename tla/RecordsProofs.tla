----------------------------- MODULE RecordsProofs -----------------------------
(***************************************************************************)
(* Theorems about the records that the tenants' devices, cameras and       *)
(* auditors depend on: the lockout of edge devices, the liveness of        *)
(* cameras, legal holds and the audit trail; for any processes, threads,   *)
(* cameras, objects, entries and runs, and any bounds.                     *)
(***************************************************************************)
EXTENDS EdgeLockout, EdgeLiveness, LegalHold, AuditTrail, FiniteSetTheorems, WellFoundedInduction, TLAPS

--------------------------------------------------------------------------------
(* The lockout of edge devices.                                                 *)

VerifyStages == {"wrong", "count", "write", "right", "admit", "clear", "add"}

\* A device's wrong keys that are still to be counted, by the process, and by process or row.
Uncounted == {r \in Verifiers : In(r, "wrong") \/ In(r, "count")}
Unwritten == {r \in Verifiers : In(r, "wrong") \/ In(r, "count") \/ In(r, "write")}

LockoutTypes ==
  /\ registered \in BOOLEAN /\ revoked \in BOOLEAN /\ until \in BOOLEAN
  /\ failed \in Nat /\ left \in 0 .. Window /\ (left > 0 => until)
  /\ count \in [AuthProcesses -> Nat] /\ lock \in [AuthProcesses -> 0 .. Window]
  /\ req \in [Verifiers -> {<<>>} \cup (VerifyStages \X AuthProcesses \X Nat \X BOOLEAN)]
  /\ wrongs \in 0 .. MaxWrong /\ passed \in [AuthProcesses -> Nat] /\ since \in Nat /\ crowded \in Nat

\* Every failure that is counted, or read and to be counted, was a wrong key.
WrongsInv ==
  /\ failed + Cardinality(Unwritten) <= wrongs
  /\ \A r \in Verifiers : req[r] # <<>> => FailedRead(r) + Cardinality(Unwritten) <= wrongs
  /\ \A p \in AuthProcesses : count[p] + Cardinality(Uncounted) <= wrongs

PassedInv == \A p \in AuthProcesses : passed[p] <= count[p] /\ passed[p] < Limit

\* Until two requests are under way together, the one that has read the row knows it.
AloneInv ==
  crowded = 0 =>
    /\ failed = since
    /\ \A r, s \in Verifiers : req[r] # <<>> /\ req[s] # <<>> /\ ~In(r, "add") /\ ~In(s, "add") => r = s
    /\ \A r \in Verifiers : In(r, "count") \/ In(r, "write") \/ In(r, "admit") \/ In(r, "clear") => FailedRead(r) = failed

EarlyInv == \A r \in Verifiers : In(r, "admit") => r \in early

LockoutInv == LockoutTypes /\ WrongsInv /\ PassedInv /\ AloneInv /\ EarlyInv

LEMMA Requested ==
  ASSUME NEW S \in SUBSET Verifiers
  PROVE  /\ Cardinality(S) \in Nat
         /\ \A r \in S : Cardinality(S \ {r}) = Cardinality(S) - 1
         /\ \A r \in Verifiers : Cardinality(S \cup {r}) <= Cardinality(S) + 1
         /\ \A T \in SUBSET S : Cardinality(T) \in Nat /\ Cardinality(T) <= Cardinality(S)
<1>1. IsFiniteSet(S)
  BY LockoutAssumption, FS_Subset DEF LockoutAssumption
<1>2. QED
  BY <1>1, FS_Subset, FS_CardinalityType, FS_AddElement, FS_RemoveElement

LEMMA InitLockoutInv == LockoutInit => LockoutInv
<1> SUFFICES ASSUME LockoutInit PROVE LockoutInv
  OBVIOUS
<1> USE LockoutAssumption DEF LockoutAssumption
<1>1. LockoutTypes
  <2>1. registered \in BOOLEAN /\ revoked \in BOOLEAN /\ until \in BOOLEAN
    BY Zenon DEF LockoutInit
  <2>2. left = 0 /\ failed = 0 /\ since = 0 /\ crowded = 0 /\ wrongs = 0
    BY DEF LockoutInit
  <2>3. /\ count = [p \in AuthProcesses |-> 0] /\ lock = [p \in AuthProcesses |-> 0]
        /\ passed = [p \in AuthProcesses |-> 0] /\ req = [r \in Verifiers |-> <<>>]
    BY DEF LockoutInit
  <2>4. req \in [Verifiers -> {<<>>} \cup (VerifyStages \X AuthProcesses \X Nat \X BOOLEAN)]
    BY <2>3
  <2>5. 0 \in Nat /\ 0 \in 0 .. Window /\ 0 \in 0 .. MaxWrong /\ ~(0 > 0)
    OBVIOUS
  <2>6. count \in [AuthProcesses -> Nat] /\ lock \in [AuthProcesses -> 0 .. Window] /\ passed \in [AuthProcesses -> Nat]
    BY <2>3, <2>5
  <2>7. QED
    BY <2>1, <2>2, <2>4, <2>5, <2>6 DEF LockoutTypes
<1>2. Unwritten = {} /\ Uncounted = {}
  BY DEF LockoutInit, Unwritten, Uncounted, In
<1>3. Cardinality({}) = 0
  BY FS_EmptySet
<1>4. WrongsInv
  BY <1>2, <1>3 DEF LockoutInit, WrongsInv
<1>5. PassedInv /\ AloneInv /\ EarlyInv
  BY DEF LockoutInit, PassedInv, AloneInv, EarlyInv, In
<1>6. QED
  BY <1>1, <1>4, <1>5 DEF LockoutInv

\* What becomes of the requests in a step of one of them.
LEMMA Answered ==
  ASSUME LockoutTypes, NEW r \in Verifiers, req[r] # <<>>
  PROVE  /\ req[r] \in VerifyStages \X AuthProcesses \X Nat \X BOOLEAN
         /\ Process(r) \in AuthProcesses /\ FailedRead(r) \in Nat /\ UntilRead(r) \in BOOLEAN
         /\ \A stage \in VerifyStages : Keep(r, stage) =>
              req' = [req EXCEPT ![r] = <<stage, Process(r), FailedRead(r), UntilRead(r)>>]
<1>1. req[r] \in VerifyStages \X AuthProcesses \X Nat \X BOOLEAN
  BY DEF LockoutTypes
<1>2. QED
  BY <1>1 DEF Process, FailedRead, UntilRead, Keep

LEMMA LockoutTypesStep == LockoutTypes /\ LockoutNext => LockoutTypes'
<1> SUFFICES ASSUME LockoutTypes, LockoutNext PROVE LockoutTypes'
  OBVIOUS
<1> USE LockoutAssumption DEF LockoutAssumption
<1> DEFINE Request == {<<>>} \cup (VerifyStages \X AuthProcesses \X Nat \X BOOLEAN)
<1>a. req \in [Verifiers -> Request]
  BY DEF LockoutTypes
<1>b. lock \in [AuthProcesses -> 0 .. Window] /\ Window \in 0 .. Window
  BY DEF LockoutTypes
<1>c. count \in [AuthProcesses -> Nat] /\ passed \in [AuthProcesses -> Nat]
  BY DEF LockoutTypes
<1>1. ASSUME NEW r \in Verifiers, NEW p \in AuthProcesses, AskWrong(r, p) \/ AskRight(r, p) \/ Onboard(r, p)
      PROVE  LockoutTypes'
  <2>1. \A stage \in VerifyStages : <<stage, p, 0, FALSE>> \in Request
    OBVIOUS
  <2>2. req' = req \/ \E stage \in VerifyStages : req' = [req EXCEPT ![r] = <<stage, p, 0, FALSE>>]
    BY <1>1 DEF AskWrong, AskRight, Onboard, Ask, VerifyStages
  <2>3. req' \in [Verifiers -> Request]
    BY <2>1, <2>2, <1>a
  <2>4. crowded \in Nat /\ wrongs \in 0 .. MaxWrong
    BY DEF LockoutTypes
  <2>5. crowded' \in Nat /\ wrongs' \in 0 .. MaxWrong
    <3>1. crowded' = crowded \/ crowded' = crowded + 1
      <4>1. CASE Onboard(r, p)
        BY <4>1 DEF Onboard, lockoutHistory
      <4>2. CASE AskWrong(r, p) \/ AskRight(r, p)
        <5>1. crowded' = crowded + IF \E s \in Verifiers : req[s] # <<>> THEN 1 ELSE 0
          BY <4>2 DEF AskWrong, AskRight, Ask
        <5>2. QED
          BY <5>1, <2>4
      <4>3. QED
        BY <1>1, <4>1, <4>2
    <3>2. wrongs' = wrongs \/ (wrongs < MaxWrong /\ wrongs' = wrongs + 1)
      BY <1>1 DEF AskWrong, AskRight, Onboard
    <3>3. QED
      BY <3>1, <3>2, <2>4
  <2>6. UNCHANGED <<deviceRow, tracker, passed, since>>
    BY <1>1 DEF AskWrong, AskRight, Onboard, Ask, lockoutHistory
  <2>7. QED
    BY <2>3, <2>5, <2>6 DEF LockoutTypes, deviceRow, tracker
<1>2. ASSUME NEW r \in Verifiers, ReadCandidate(r) PROVE LockoutTypes'
  BY <1>2, Answered DEF LockoutTypes, ReadCandidate, GoOn, In, deviceRow, tracker, bounds, lockoutHistory, VerifyStages
<1>3. ASSUME NEW r \in Verifiers, CountWrong(r) PROVE LockoutTypes'
  <2>1. req[r] # <<>> /\ Process(r) \in AuthProcesses
    BY <1>3, Answered DEF CountWrong, In
  <2>2. req' \in [Verifiers -> {<<>>} \cup (VerifyStages \X AuthProcesses \X Nat \X BOOLEAN)]
    <3>1. Answer(r) \/ Keep(r, "write")
      BY <1>3, Zenon DEF CountWrong
    <3>2. <<"write", Process(r), FailedRead(r), UntilRead(r)>> \in Request
      BY <2>1, Answered DEF VerifyStages
    <3>3. \/ req' = [req EXCEPT ![r] = <<>>]
          \/ req' = [req EXCEPT ![r] = <<"write", Process(r), FailedRead(r), UntilRead(r)>>]
      BY <3>1, <2>1, Answered DEF Answer, VerifyStages
    <3>4. QED
      BY <3>2, <3>3, <1>a
  <2>3. count[Process(r)] \in Nat /\ passed[Process(r)] \in Nat
    BY <2>1 DEF LockoutTypes
  <2>4. count' \in [AuthProcesses -> Nat] /\ passed' \in [AuthProcesses -> Nat]
    <3>1. count' = [count EXCEPT ![Process(r)] = count[Process(r)] + 1]
      BY <1>3, Zenon DEF CountWrong
    <3>2. passed' = [passed EXCEPT ![Process(r)] = @ + 1] \/ passed' = passed
      BY <1>3 DEF CountWrong
    <3>3. QED
      BY <3>1, <3>2, <2>1, <2>3, <1>c
  <2>5. lock' \in [AuthProcesses -> 0 .. Window]
    <3>1. lock' = [lock EXCEPT ![Process(r)] = Window] \/ lock' = lock
      BY <1>3, Zenon DEF CountWrong
    <3>2. QED
      BY <3>1, <2>1, <1>b
  <2>6. UNCHANGED <<deviceRow, bounds, since, crowded>>
    BY <1>3 DEF CountWrong
  <2>7. QED
    BY <2>2, <2>4, <2>5, <2>6 DEF LockoutTypes, deviceRow, bounds
<1>4. ASSUME NEW r \in Verifiers, WriteFailure(r) PROVE LockoutTypes'
  <2>1. req[r] # <<>> /\ FailedRead(r) \in Nat
    BY <1>4, Answered DEF WriteFailure, In
  <2>2. req' \in [Verifiers -> {<<>>} \cup (VerifyStages \X AuthProcesses \X Nat \X BOOLEAN)]
    BY <1>4 DEF WriteFailure, Answer, LockoutTypes
  <2>3. failed' \in Nat /\ since' \in Nat /\ left' \in 0 .. Window
    <3>1. \/ failed' = Failed(r) /\ since' = since + 1 /\ (left' = Window \/ left' = left)
          \/ UNCHANGED <<failed, since, left>>
      BY <1>4, Zenon DEF WriteFailure
    <3>2. Failed(r) \in Nat
      BY <2>1 DEF Failed
    <3>3. failed \in Nat /\ since \in Nat /\ left \in 0 .. Window /\ Window \in 0 .. Window
      BY LockoutAssumption DEF LockoutAssumption, LockoutTypes
    <3>4. QED
      BY <3>1, <3>2, <3>3
  <2>4. until' \in BOOLEAN /\ (left' > 0 => until')
    BY <1>4 DEF WriteFailure, LockoutTypes
  <2>5. UNCHANGED <<registered, revoked, tracker, bounds, passed, crowded>>
    BY <1>4 DEF WriteFailure
  <2>6. QED
    BY <2>2, <2>3, <2>4, <2>5 DEF LockoutTypes, tracker, bounds
<1>5. ASSUME NEW r \in Verifiers, ReadDevice(r) PROVE LockoutTypes'
  <2>1. req[r] # <<>> /\ Process(r) \in AuthProcesses
    BY <1>5, Answered DEF ReadDevice, In
  <2>2. req' \in [Verifiers -> {<<>>} \cup (VerifyStages \X AuthProcesses \X Nat \X BOOLEAN)]
    <3>1. Answer(r) \/ GoOn(r, "admit")
      BY <1>5 DEF ReadDevice
    <3>2. failed \in Nat /\ until \in BOOLEAN
      BY DEF LockoutTypes
    <3>3. <<"admit", Process(r), failed, until>> \in VerifyStages \X AuthProcesses \X Nat \X BOOLEAN
      BY <2>1, <3>2 DEF VerifyStages
    <3>4. QED
      BY <3>1, <3>3 DEF GoOn, Answer, LockoutTypes
  <2>3. QED
    BY <1>5, <2>2 DEF LockoutTypes, ReadDevice, deviceRow, tracker, bounds
<1>6. ASSUME NEW r \in Verifiers, Admit(r) PROVE LockoutTypes'
  <2>1. req[r] # <<>> /\ Process(r) \in AuthProcesses
    BY <1>6, Answered DEF Admit, In
  <2>2. req' \in [Verifiers -> {<<>>} \cup (VerifyStages \X AuthProcesses \X Nat \X BOOLEAN)]
    <3>1. req' = [req EXCEPT ![r] = <<"clear", Process(r), FailedRead(r), UntilRead(r)>>]
      BY <1>6, <2>1, Answered DEF Admit, VerifyStages
    <3>2. <<"clear", Process(r), FailedRead(r), UntilRead(r)>> \in VerifyStages \X AuthProcesses \X Nat \X BOOLEAN
      BY <2>1, Answered DEF VerifyStages
    <3>3. QED
      BY <3>1, <3>2 DEF LockoutTypes
  <2>3. QED
    BY <1>6, <2>1, <2>2 DEF LockoutTypes, Admit, deviceRow, bounds
<1>7. ASSUME NEW r \in Verifiers, Clear(r) PROVE LockoutTypes'
  <2>1. req' \in [Verifiers -> {<<>>} \cup (VerifyStages \X AuthProcesses \X Nat \X BOOLEAN)]
    BY <1>7 DEF Clear, Answer, LockoutTypes
  <2>2. failed' \in Nat /\ since' \in Nat /\ left' \in 0 .. Window
    BY <1>7 DEF Clear, LockoutTypes, deviceRow
  <2>3. revoked' = revoked /\ revoked \in BOOLEAN
    BY <1>7 DEF Clear, RevokedAfter, LockoutTypes
  <2>4. until' \in BOOLEAN /\ (left' > 0 => until')
    <3>1. CASE UntilRead(r)
      <4>1. until' = FALSE /\ left' = 0
        BY <1>7, <3>1, Zenon DEF Clear
      <4>2. until' \in BOOLEAN
        BY <4>1, Zenon
      <4>3. ~(left' > 0)
        BY <4>1
      <4>4. QED
        BY <4>2, <4>3
    <3>2. CASE ~UntilRead(r)
      BY <1>7, <3>2 DEF Clear, LockoutTypes
    <3>3. QED
      BY <3>1, <3>2
  <2>5. UNCHANGED <<registered, tracker, bounds, passed, crowded>>
    BY <1>7 DEF Clear
  <2>6. QED
    BY <2>1, <2>2, <2>3, <2>4, <2>5 DEF LockoutTypes, tracker, bounds
<1>8. ASSUME NEW r \in Verifiers, AddDevice(r) PROVE LockoutTypes'
  BY <1>8 DEF LockoutTypes, AddDevice, Answer, tracker, bounds, lockoutHistory
<1>9. ASSUME NEW p \in AuthProcesses, Restart(p) PROVE LockoutTypes'
  BY <1>9 DEF LockoutTypes, Restart, deviceRow
<1>10. CASE Revoke
  BY <1>10 DEF LockoutTypes, Revoke, tracker, bounds, lockoutHistory
<1>11. CASE LockTick
  <2>1. \A n \in 0 .. Window : Less(n) \in 0 .. Window /\ (Less(n) > 0 => n > 0)
    BY DEF Less
  <2>2. left' \in 0 .. Window /\ (left' > 0 => left > 0)
    BY <1>11, <2>1 DEF LockTick, LockoutTypes
  <2>3. lock' \in [AuthProcesses -> 0 .. Window]
    BY <1>11, <2>1 DEF LockTick, LockoutTypes
  <2>4. UNCHANGED <<registered, revoked, failed, until, count, req, bounds, lockoutHistory>>
    BY <1>11 DEF LockTick
  <2>5. QED
    BY <2>2, <2>3, <2>4 DEF LockoutTypes, bounds, lockoutHistory
<1>12. QED
  BY <1>1, <1>2, <1>3, <1>4, <1>5, <1>6, <1>7, <1>8, <1>9, <1>10, <1>11 DEF LockoutNext

\* A step of request r leaves the others where they are.
LEMMA OthersStay ==
  ASSUME LockoutTypes, NEW r \in Verifiers, NEW x, req' = [req EXCEPT ![r] = x]
  PROVE  /\ req'[r] = x
         /\ \A s \in Verifiers \ {r} : req'[s] = req[s]
         /\ \A s \in Verifiers \ {r} : FailedRead(s)' = FailedRead(s)
         /\ \A s \in Verifiers \ {r}, stage \in VerifyStages : In(s, stage)' <=> In(s, stage)
BY DEF LockoutTypes, FailedRead, In

\* What request r becomes in a step of its own.
LEMMA Becomes ==
  ASSUME LockoutTypes, NEW r \in Verifiers
  PROVE  /\ \A p \in AuthProcesses : AskWrong(r, p) =>
              req[r] = <<>> /\ (req' = req \/ req' = [req EXCEPT ![r] = <<"wrong", p, 0, FALSE>>])
         /\ \A p \in AuthProcesses : AskRight(r, p) =>
              req[r] = <<>> /\ (req' = req \/ req' = [req EXCEPT ![r] = <<"right", p, 0, FALSE>>])
         /\ \A p \in AuthProcesses : Onboard(r, p) => req[r] = <<>> /\ req' = [req EXCEPT ![r] = <<"add", p, 0, FALSE>>]
         /\ ReadCandidate(r) => In(r, "wrong") /\ req' = [req EXCEPT ![r] = <<"count", Process(r), failed, until>>]
         /\ CountWrong(r) => In(r, "count") /\
              \/ req' = [req EXCEPT ![r] = <<>>]
              \/ req' = [req EXCEPT ![r] = <<"write", Process(r), FailedRead(r), UntilRead(r)>>]
         /\ WriteFailure(r) => In(r, "write") /\ req' = [req EXCEPT ![r] = <<>>]
         /\ ReadDevice(r) => In(r, "right") /\
              \/ req' = [req EXCEPT ![r] = <<>>]
              \/ req' = [req EXCEPT ![r] = <<"admit", Process(r), failed, until>>]
         /\ Admit(r) => In(r, "admit") /\
              req' = [req EXCEPT ![r] = <<"clear", Process(r), FailedRead(r), UntilRead(r)>>]
         /\ Clear(r) => In(r, "clear") /\ req' = [req EXCEPT ![r] = <<>>]
         /\ AddDevice(r) => In(r, "add") /\ req' = [req EXCEPT ![r] = <<>>]
<1>1. ASSUME NEW p \in AuthProcesses, AskWrong(r, p) \/ AskRight(r, p) \/ Onboard(r, p)
      PROVE  /\ AskWrong(r, p) => req[r] = <<>> /\ (req' = req \/ req' = [req EXCEPT ![r] = <<"wrong", p, 0, FALSE>>])
             /\ AskRight(r, p) => req[r] = <<>> /\ (req' = req \/ req' = [req EXCEPT ![r] = <<"right", p, 0, FALSE>>])
             /\ Onboard(r, p) => req[r] = <<>> /\ req' = [req EXCEPT ![r] = <<"add", p, 0, FALSE>>]
  BY <1>1 DEF AskWrong, AskRight, Onboard, Ask
<1>2. ReadCandidate(r) => In(r, "wrong") /\ req' = [req EXCEPT ![r] = <<"count", Process(r), failed, until>>]
  BY DEF ReadCandidate, GoOn
<1>3. ASSUME CountWrong(r)
      PROVE  In(r, "count") /\
              \/ req' = [req EXCEPT ![r] = <<>>]
              \/ req' = [req EXCEPT ![r] = <<"write", Process(r), FailedRead(r), UntilRead(r)>>]
  <2>1. In(r, "count") /\ (Answer(r) \/ Keep(r, "write"))
    BY <1>3, Zenon DEF CountWrong
  <2>2. QED
    BY <2>1, Answered DEF Answer, In, VerifyStages
<1>4. WriteFailure(r) => In(r, "write") /\ req' = [req EXCEPT ![r] = <<>>]
  BY DEF WriteFailure, Answer
<1>5. ASSUME ReadDevice(r)
      PROVE  In(r, "right") /\
              \/ req' = [req EXCEPT ![r] = <<>>]
              \/ req' = [req EXCEPT ![r] = <<"admit", Process(r), failed, until>>]
  <2>1. In(r, "right") /\ (Answer(r) \/ GoOn(r, "admit"))
    BY <1>5, Zenon DEF ReadDevice
  <2>2. QED
    BY <2>1 DEF Answer, GoOn
<1>6. ASSUME Admit(r)
      PROVE  In(r, "admit") /\
              req' = [req EXCEPT ![r] = <<"clear", Process(r), FailedRead(r), UntilRead(r)>>]
  <2>1. In(r, "admit") /\ Keep(r, "clear")
    BY <1>6, Zenon DEF Admit
  <2>2. QED
    BY <2>1, Answered DEF In, VerifyStages
<1>7. Clear(r) => In(r, "clear") /\ req' = [req EXCEPT ![r] = <<>>]
  BY Zenon DEF Clear, Answer
<1>8. AddDevice(r) => In(r, "add") /\ req' = [req EXCEPT ![r] = <<>>]
  BY DEF AddDevice, Answer
<1>9. QED
  BY <1>1, <1>2, <1>3, <1>4, <1>5, <1>6, <1>7, <1>8

\* What its request has read then.
LEMMA ReadBy ==
  ASSUME LockoutTypes, NEW r \in Verifiers
  PROVE  /\ req' = [req EXCEPT ![r] = <<>>] =>
              \A s \in Verifiers : req'[s] # <<>> => req[s] # <<>> /\ FailedRead(s)' = FailedRead(s)
         /\ \A stage, p, n, l : req' = [req EXCEPT ![r] = <<stage, p, n, l>>] =>
              \A s \in Verifiers : req'[s] # <<>> =>
                (s = r /\ FailedRead(s)' = n) \/ (s # r /\ req[s] # <<>> /\ FailedRead(s)' = FailedRead(s))
         /\ req' = req => \A s \in Verifiers : FailedRead(s)' = FailedRead(s)
BY DEF LockoutTypes, FailedRead

LEMMA Within ==
  ASSUME NEW f \in Nat, NEW g \in Nat, NEW u \in Nat, NEW v \in Nat, NEW w \in Nat, f + u <= w, g <= f, v <= u
  PROVE  g + v <= w
OBVIOUS

LEMMA WrongsInvStep == LockoutTypes /\ WrongsInv /\ LockoutNext => WrongsInv'
<1> SUFFICES ASSUME LockoutTypes, WrongsInv, LockoutNext PROVE WrongsInv'
  OBVIOUS
<1> DEFINE U == Cardinality(Unwritten)
           C == Cardinality(Uncounted)
           U1 == Cardinality(Unwritten')
           C1 == Cardinality(Uncounted')
<1>a. Unwritten \in SUBSET Verifiers /\ Unwritten' \in SUBSET Verifiers
      /\ Uncounted \in SUBSET Verifiers /\ Uncounted' \in SUBSET Verifiers
  BY DEF Unwritten, Uncounted
<1>b. U \in Nat /\ U1 \in Nat /\ C \in Nat /\ C1 \in Nat
  BY <1>a, Requested
<1>c. /\ failed \in Nat /\ wrongs \in Nat /\ count \in [AuthProcesses -> Nat]
      /\ \A r \in Verifiers : req[r] # <<>> => FailedRead(r) \in Nat
  BY Answered DEF LockoutTypes
<1>d. /\ failed + U <= wrongs
      /\ \A r \in Verifiers : req[r] # <<>> => FailedRead(r) + U <= wrongs
      /\ \A p \in AuthProcesses : count[p] + C <= wrongs
  BY DEF WrongsInv
<1>e. ASSUME wrongs' \in Nat, failed' \in Nat, failed' + U1 <= wrongs',
             \A r \in Verifiers : req'[r] # <<>> => FailedRead(r)' + U1 <= wrongs',
             \A p \in AuthProcesses : count'[p] + C1 <= wrongs'
      PROVE  WrongsInv'
  BY <1>e DEF WrongsInv
<1>f. ASSUME Unwritten' \subseteq Unwritten PROVE U1 <= U
  BY <1>f, <1>a, Requested
<1>g. ASSUME Uncounted' \subseteq Uncounted PROVE C1 <= C
  BY <1>g, <1>a, Requested
<1> HIDE DEF U, C, U1, C1
<1>1. ASSUME NEW r \in Verifiers, NEW p \in AuthProcesses, AskWrong(r, p) PROVE WrongsInv'
  <2>1. /\ req[r] = <<>> /\ (req' = req \/ req' = [req EXCEPT ![r] = <<"wrong", p, 0, FALSE>>])
        /\ wrongs' = wrongs + 1 /\ failed' = failed /\ count' = count
    BY <1>1, Becomes DEF AskWrong, Ask, deviceRow, tracker
  <2>2. Unwritten' \subseteq Unwritten \cup {r} /\ Uncounted' \subseteq Uncounted \cup {r}
    BY <2>1, OthersStay DEF Unwritten, Uncounted, In, VerifyStages
  <2>3. U1 <= U + 1 /\ C1 <= C + 1
    <3>1. Unwritten \cup {r} \in SUBSET Verifiers /\ Uncounted \cup {r} \in SUBSET Verifiers
      BY <1>a
    <3>2. /\ Cardinality(Unwritten \cup {r}) <= U + 1 /\ Cardinality(Uncounted \cup {r}) <= C + 1
          /\ Cardinality(Unwritten \cup {r}) \in Nat /\ Cardinality(Uncounted \cup {r}) \in Nat
      BY <1>a, <3>1, Requested DEF U, C, U1, C1
    <3>3. U1 <= Cardinality(Unwritten \cup {r}) /\ C1 <= Cardinality(Uncounted \cup {r})
      BY <2>2, <3>1, Requested DEF U, C, U1, C1
    <3>4. QED
      BY <1>b, <3>2, <3>3
  <2>4. \A s \in Verifiers : req'[s] # <<>> => FailedRead(s)' = 0 \/ (req[s] # <<>> /\ FailedRead(s)' = FailedRead(s))
    <3>1. CASE req' = req
      BY <3>1, ReadBy
    <3>2. CASE req' = [req EXCEPT ![r] = <<"wrong", p, 0, FALSE>>]
      BY <3>2, ReadBy
    <3>3. QED
      BY <2>1, <3>1, <3>2
  <2>5. \A s \in Verifiers : req'[s] # <<>> => FailedRead(s)' + U1 <= wrongs'
    <3>1. SUFFICES ASSUME NEW s \in Verifiers, req'[s] # <<>> PROVE FailedRead(s)' + U1 <= wrongs'
      OBVIOUS
    <3>2. CASE FailedRead(s)' = 0
      BY <2>1, <2>3, <3>2, <1>b, <1>c, <1>d
    <3>3. CASE req[s] # <<>> /\ FailedRead(s)' = FailedRead(s)
      BY <2>1, <2>3, <3>3, <1>b, <1>c, <1>d
    <3>4. QED
      BY <2>4, <3>1, <3>2, <3>3
  <2>6. failed' + U1 <= wrongs' /\ wrongs' \in Nat /\ failed' \in Nat
    BY <2>1, <2>3, <1>b, <1>c, <1>d
  <2>7. \A q \in AuthProcesses : count'[q] + C1 <= wrongs'
    BY <2>1, <2>3, <1>b, <1>c, <1>d
  <2>8. QED
    BY <2>5, <2>6, <2>7, <1>e
\* Nobody else asks with a wrong key.
<1>h. ASSUME wrongs' = wrongs, U1 <= U, C1 <= C, failed' \in Nat, failed' <= failed \/ failed' + U1 <= wrongs,
             \A s \in Verifiers : req'[s] # <<>> =>
               \/ FailedRead(s)' = 0 \/ FailedRead(s)' = failed
               \/ req[s] # <<>> /\ FailedRead(s)' = FailedRead(s),
             \A q \in AuthProcesses : count'[q] = 0 \/ count'[q] = count[q] \/ (count'[q] = count[q] + 1 /\ C1 + 1 <= C)
      PROVE  WrongsInv'
  <2>1. failed' + U1 <= wrongs' /\ wrongs' \in Nat /\ failed' \in Nat
    <3>1. failed' \in Nat /\ wrongs' = wrongs /\ U1 <= U /\ (failed' <= failed \/ failed' + U1 <= wrongs)
      BY <1>h
    <3>2. failed + U <= wrongs /\ failed \in Nat /\ wrongs \in Nat /\ U \in Nat /\ U1 \in Nat
      BY <1>b, <1>c, <1>d
    <3>3. CASE failed' <= failed
      <4>1. failed' \in Nat /\ U1 <= U
        BY <3>1
      <4>2. QED
        BY <3>1, <3>2, <3>3, <4>1, Within
    <3>4. CASE failed' + U1 <= wrongs
      BY <3>1, <3>2, <3>4
    <3>5. QED
      BY <3>1, <3>3, <3>4
  <2>2. ASSUME NEW s \in Verifiers, req'[s] # <<>> PROVE FailedRead(s)' + U1 <= wrongs'
    <3>1. CASE FailedRead(s)' = 0 \/ FailedRead(s)' = failed
      BY <1>h, <3>1, <1>b, <1>c, <1>d
    <3>2. CASE req[s] # <<>> /\ FailedRead(s)' = FailedRead(s)
      BY <1>h, <3>2, <1>b, <1>c, <1>d
    <3>3. QED
      BY <1>h, <2>2, <3>1, <3>2
  <2>3. ASSUME NEW q \in AuthProcesses PROVE count'[q] + C1 <= wrongs'
    BY <1>h, <2>3, <1>b, <1>c, <1>d
  <2>4. QED
    BY <2>1, <2>2, <2>3, <1>e
<1>2. ASSUME NEW r \in Verifiers, NEW p \in AuthProcesses, AskRight(r, p) \/ Onboard(r, p) PROVE WrongsInv'
  <2>1. req[r] = <<>> /\ \/ req' = req \/ req' = [req EXCEPT ![r] = <<"right", p, 0, FALSE>>]
                         \/ req' = [req EXCEPT ![r] = <<"add", p, 0, FALSE>>]
    BY <1>2, Becomes
  <2>2. wrongs' = wrongs /\ failed' = failed /\ count' = count
    BY <1>2 DEF AskRight, Onboard, Ask, deviceRow, tracker
  <2>3. /\ Unwritten' \subseteq Unwritten /\ Uncounted' \subseteq Uncounted
        /\ \A s \in Verifiers : req'[s] # <<>> =>
             FailedRead(s)' = 0 \/ (req[s] # <<>> /\ FailedRead(s)' = FailedRead(s))
    <3>1. CASE req' = req
      BY <3>1 DEF Unwritten, Uncounted, In, FailedRead
    <3>2. ASSUME NEW stage \in {"right", "add"}, req' = [req EXCEPT ![r] = <<stage, p, 0, FALSE>>]
          PROVE  <2>3!1 /\ <2>3!2
      <4>1. Unwritten' \subseteq Unwritten /\ Uncounted' \subseteq Uncounted
        BY <3>2, OthersStay DEF Unwritten, Uncounted, In, VerifyStages
      <4>2. QED
        BY <3>2, <4>1, ReadBy
    <3>3. QED
      BY <2>1, <3>1, <3>2
  <2>4. QED
    BY <2>2, <2>3, <1>c, <1>f, <1>g, <1>h
<1>3. ASSUME NEW r \in Verifiers, ReadCandidate(r) PROVE WrongsInv'
  <2>1. In(r, "wrong") /\ req' = [req EXCEPT ![r] = <<"count", Process(r), failed, until>>]
    BY <1>3, Becomes
  <2>2. wrongs' = wrongs /\ failed' = failed /\ count' = count
    BY <1>3 DEF ReadCandidate, deviceRow, tracker, bounds
  <2>3. Unwritten' \subseteq Unwritten /\ Uncounted' \subseteq Uncounted
    BY <2>1, OthersStay DEF Unwritten, Uncounted, In, VerifyStages
  <2>4. \A s \in Verifiers : req'[s] # <<>> => FailedRead(s)' = failed \/ (req[s] # <<>> /\ FailedRead(s)' = FailedRead(s))
    BY <2>1, ReadBy
  <2>5. QED
    BY <2>2, <2>3, <2>4, <1>c, <1>f, <1>g, <1>h
<1>4. ASSUME NEW r \in Verifiers, CountWrong(r) PROVE WrongsInv'
  <2>1. In(r, "count") /\ \/ req' = [req EXCEPT ![r] = <<>>]
                          \/ req' = [req EXCEPT ![r] = <<"write", Process(r), FailedRead(r), UntilRead(r)>>]
    BY <1>4, Becomes
  <2>2. wrongs' = wrongs /\ failed' = failed
    BY <1>4, Zenon DEF CountWrong, deviceRow, bounds
  <2>3. Unwritten' \subseteq Unwritten /\ Uncounted' \subseteq Uncounted \ {r} /\ r \in Uncounted
    BY <2>1, OthersStay DEF Unwritten, Uncounted, In, VerifyStages
  <2>4. \A s \in Verifiers : req'[s] # <<>> => req[s] # <<>> /\ FailedRead(s)' = FailedRead(s)
    BY <2>1, ReadBy DEF In
  <2>5. C1 + 1 <= C
    <3>1. Uncounted \ {r} \in SUBSET Verifiers /\ Cardinality(Uncounted \ {r}) = C - 1
      BY <1>a, <2>3, Requested DEF C, C1
    <3>2. C1 <= Cardinality(Uncounted \ {r})
      BY <2>3, <3>1, Requested DEF C, C1
    <3>3. QED
      BY <1>b, <3>1, <3>2
  <2>6. \A q \in AuthProcesses : count'[q] = count[q] \/ count'[q] = count[q] + 1
    <3>1. count' = [count EXCEPT ![Process(r)] = count[Process(r)] + 1]
      BY <1>4, Zenon DEF CountWrong
    <3>2. QED
      BY <3>1, <1>c
  <2>7. U1 <= U /\ C1 <= C
    BY <2>3, <2>5, <1>b, <1>f
  <2>8. QED
    BY <2>2, <2>4, <2>5, <2>6, <2>7, <1>c, <1>h
<1>5. ASSUME NEW r \in Verifiers, WriteFailure(r) PROVE WrongsInv'
  <2>1. In(r, "write") /\ req' = [req EXCEPT ![r] = <<>>]
    BY <1>5, Becomes
  <2>2. wrongs' = wrongs /\ count' = count /\ (failed' = FailedRead(r) + 1 \/ failed' = failed)
    BY <1>5 DEF WriteFailure, Failed, tracker, bounds
  <2>3. Unwritten' \subseteq Unwritten \ {r} /\ r \in Unwritten /\ Uncounted' \subseteq Uncounted
    <3>1. req'[r] = <<>> /\ \A s \in Verifiers \ {r} : req'[s] = req[s]
      BY <2>1, OthersStay
    <3>2. QED
      BY <2>1, <3>1 DEF Unwritten, Uncounted, In
  <2>4. \A s \in Verifiers : req'[s] # <<>> => req[s] # <<>> /\ FailedRead(s)' = FailedRead(s)
    BY <2>1, ReadBy DEF In
  <2>5. U1 + 1 <= U
    <3>1. Unwritten \ {r} \in SUBSET Verifiers /\ Cardinality(Unwritten \ {r}) = U - 1
      BY <1>a, <2>3, Requested DEF U, U1
    <3>2. U1 <= Cardinality(Unwritten \ {r})
      BY <2>3, <3>1, Requested DEF U, U1
    <3>3. QED
      BY <1>b, <3>1, <3>2
  <2>6. FailedRead(r) \in Nat /\ FailedRead(r) + U <= wrongs
    BY <2>1, <1>c, <1>d DEF In
  <2>7. failed' \in Nat /\ (failed' <= failed \/ failed' + U1 <= wrongs)
    BY <2>2, <2>5, <2>6, <1>b, <1>c
  <2>8. U1 <= U /\ C1 <= C
    BY <2>3, <2>5, <1>b, <1>g
  <2>9. QED
    BY <2>2, <2>4, <2>7, <2>8, <1>h
<1>6. ASSUME NEW r \in Verifiers, ReadDevice(r) PROVE WrongsInv'
  <2>1. In(r, "right") /\ \/ req' = [req EXCEPT ![r] = <<>>]
                          \/ req' = [req EXCEPT ![r] = <<"admit", Process(r), failed, until>>]
    BY <1>6, Becomes
  <2>2. wrongs' = wrongs /\ failed' = failed /\ count' = count
    BY <1>6 DEF ReadDevice, deviceRow, tracker, bounds
  <2>3. Unwritten' \subseteq Unwritten /\ Uncounted' \subseteq Uncounted
    BY <2>1, OthersStay DEF Unwritten, Uncounted, In, VerifyStages
  <2>4. \A s \in Verifiers : req'[s] # <<>> => FailedRead(s)' = failed \/ (req[s] # <<>> /\ FailedRead(s)' = FailedRead(s))
    BY <2>1, ReadBy
  <2>5. QED
    BY <2>2, <2>3, <2>4, <1>c, <1>f, <1>g, <1>h
<1>7. ASSUME NEW r \in Verifiers, Admit(r) PROVE WrongsInv'
  <2>1. In(r, "admit") /\ req' = [req EXCEPT ![r] = <<"clear", Process(r), FailedRead(r), UntilRead(r)>>]
    BY <1>7, Becomes
  <2>2. wrongs' = wrongs /\ failed' = failed /\ count' = [count EXCEPT ![Process(r)] = 0]
    BY <1>7 DEF Admit, deviceRow, bounds
  <2>3. Unwritten' \subseteq Unwritten /\ Uncounted' \subseteq Uncounted
    BY <2>1, OthersStay DEF Unwritten, Uncounted, In, VerifyStages
  <2>4. \A s \in Verifiers : req'[s] # <<>> => req[s] # <<>> /\ FailedRead(s)' = FailedRead(s)
    BY <2>1, ReadBy DEF In
  <2>5. \A q \in AuthProcesses : count'[q] = 0 \/ count'[q] = count[q]
    BY <2>2, <1>c
  <2>6. QED
    BY <2>2, <2>3, <2>4, <2>5, <1>c, <1>f, <1>g, <1>h
<1>8. ASSUME NEW r \in Verifiers, Clear(r) PROVE WrongsInv'
  <2>1. In(r, "clear") /\ req' = [req EXCEPT ![r] = <<>>]
    BY <1>8, Becomes
  <2>2. wrongs' = wrongs /\ count' = count /\ (failed' = 0 \/ failed' = failed)
    BY <1>8, Zenon DEF Clear, tracker, bounds
  <2>3. Unwritten' \subseteq Unwritten /\ Uncounted' \subseteq Uncounted
    BY <2>1, OthersStay DEF Unwritten, Uncounted, In, VerifyStages
  <2>4. \A s \in Verifiers : req'[s] # <<>> => req[s] # <<>> /\ FailedRead(s)' = FailedRead(s)
    BY <2>1, ReadBy DEF In
  <2>5. failed' \in Nat /\ failed' <= failed
    BY <2>2, <1>c
  <2>6. QED
    BY <2>2, <2>3, <2>4, <2>5, <1>c, <1>f, <1>g, <1>h
<1>9. ASSUME NEW r \in Verifiers, AddDevice(r) PROVE WrongsInv'
  <2>1. In(r, "add") /\ req' = [req EXCEPT ![r] = <<>>]
    BY <1>9, Becomes
  <2>2. wrongs' = wrongs /\ count' = count /\ failed' = failed
    BY <1>9 DEF AddDevice, tracker, bounds
  <2>3. Unwritten' \subseteq Unwritten /\ Uncounted' \subseteq Uncounted
    BY <2>1, OthersStay DEF Unwritten, Uncounted, In, VerifyStages
  <2>4. \A s \in Verifiers : req'[s] # <<>> => req[s] # <<>> /\ FailedRead(s)' = FailedRead(s)
    BY <2>1, ReadBy DEF In
  <2>5. QED
    BY <2>2, <2>3, <2>4, <1>c, <1>f, <1>g, <1>h
<1>10. ASSUME NEW p \in AuthProcesses, Restart(p) PROVE WrongsInv'
  <2>1. req' = [r \in Verifiers |-> IF req[r] # <<>> /\ Process(r) = p THEN <<>> ELSE req[r]]
    BY <1>10 DEF Restart
  <2>2. wrongs' = wrongs /\ failed' = failed /\ count' = [count EXCEPT ![p] = 0]
    BY <1>10 DEF Restart, deviceRow
  <2>3. Unwritten' \subseteq Unwritten /\ Uncounted' \subseteq Uncounted
    BY <2>1 DEF Unwritten, Uncounted, In
  <2>4. \A s \in Verifiers : req'[s] # <<>> => req[s] # <<>> /\ FailedRead(s)' = FailedRead(s)
    BY <2>1 DEF FailedRead
  <2>5. \A q \in AuthProcesses : count'[q] = 0 \/ count'[q] = count[q]
    BY <2>2, <1>c
  <2>6. QED
    BY <2>2, <2>3, <2>4, <2>5, <1>c, <1>f, <1>g, <1>h
<1>11. CASE Revoke \/ LockTick
  <2>1. UNCHANGED <<failed, count, req, wrongs>>
    BY <1>11 DEF Revoke, LockTick, tracker, bounds
  <2>2. Unwritten' = Unwritten /\ Uncounted' = Uncounted
    BY <2>1 DEF Unwritten, Uncounted, In
  <2>3. QED
    BY <2>1, <2>2 DEF WrongsInv, FailedRead
<1>12. QED
  BY <1>1, <1>2, <1>3, <1>4, <1>5, <1>6, <1>7, <1>8, <1>9, <1>10, <1>11 DEF LockoutNext

LEMMA PassedInvStep == LockoutTypes /\ PassedInv /\ LockoutNext => PassedInv'
<1> SUFFICES ASSUME LockoutTypes, PassedInv, LockoutNext PROVE PassedInv'
  OBVIOUS
<1>a. /\ count \in [AuthProcesses -> Nat] /\ passed \in [AuthProcesses -> Nat]
      /\ \A p \in AuthProcesses : passed[p] <= count[p] /\ passed[p] < Limit
      /\ Limit \in Nat \ {0}
  BY LockoutAssumption DEF LockoutTypes, PassedInv, LockoutAssumption
<1>1. ASSUME NEW r \in Verifiers, CountWrong(r) PROVE PassedInv'
  <2>1. /\ count' = [count EXCEPT ![Process(r)] = count[Process(r)] + 1]
        /\ \/ passed' = passed
           \/ ~Locks(count[Process(r)] + 1) /\ passed' = [passed EXCEPT ![Process(r)] = passed[Process(r)] + 1]
    BY <1>1, Zenon DEF CountWrong
  <2>2. Process(r) \in AuthProcesses
    BY <1>1, Answered DEF CountWrong, In
  <2>3. ASSUME NEW p \in AuthProcesses PROVE passed'[p] <= count'[p] /\ passed'[p] < Limit
    BY <1>a, <2>1, <2>2, <2>3 DEF Locks
  <2>4. QED
    BY <2>3 DEF PassedInv
<1>2. ASSUME NEW p \in AuthProcesses, count' = [count EXCEPT ![p] = 0], passed' = [passed EXCEPT ![p] = 0]
      PROVE  PassedInv'
  BY <1>a, <1>2 DEF PassedInv
<1>3. ASSUME count' = count, passed' = passed PROVE PassedInv'
  BY <1>a, <1>3 DEF PassedInv
<1>4. ASSUME NEW r \in Verifiers, NEW p \in AuthProcesses, AskWrong(r, p) \/ AskRight(r, p) \/ Onboard(r, p)
      PROVE  PassedInv'
  BY <1>4, <1>3 DEF AskWrong, AskRight, Onboard, Ask, tracker, lockoutHistory
<1>5. ASSUME NEW r \in Verifiers, ReadCandidate(r) \/ WriteFailure(r) \/ ReadDevice(r) \/ Clear(r) \/ AddDevice(r)
      PROVE  PassedInv'
  <2>1. UNCHANGED <<tracker, passed>>
    BY <1>5, Zenon DEF ReadCandidate, WriteFailure, ReadDevice, Clear, AddDevice, lockoutHistory
  <2>2. QED
    BY <2>1, <1>3 DEF tracker
<1>6. ASSUME NEW r \in Verifiers, Admit(r) PROVE PassedInv'
  <2>1. Process(r) \in AuthProcesses
    BY <1>6, Answered DEF Admit, In
  <2>2. QED
    BY <1>6, <2>1, <1>2 DEF Admit
<1>7. ASSUME NEW p \in AuthProcesses, Restart(p) PROVE PassedInv'
  BY <1>7, <1>2 DEF Restart
<1>8. CASE Revoke \/ LockTick
  BY <1>8, <1>3 DEF Revoke, LockTick, tracker, lockoutHistory
<1>9. QED
  BY <1>1, <1>4, <1>5, <1>6, <1>7, <1>8 DEF LockoutNext

\* Until then no request is under way when another begins, and the one there is knows the row.
LEMMA AloneInvStep == LockoutTypes /\ AloneInv /\ LockoutNext => AloneInv'
<1> SUFFICES ASSUME LockoutTypes, AloneInv, LockoutNext, crowded' = 0 PROVE AloneInv'
  BY DEF AloneInv
<1> DEFINE Reads(r) == In(r, "count") \/ In(r, "write") \/ In(r, "admit") \/ In(r, "clear")
           Verifies(r) == req[r] # <<>> /\ ~In(r, "add")
<1>a. crowded = 0
  <2>1. crowded' = crowded \/ crowded' = crowded + 1
    <3>1. CASE \E r \in Verifiers, p \in AuthProcesses : AskWrong(r, p) \/ AskRight(r, p)
      <4>1. crowded' = crowded + IF \E s \in Verifiers : req[s] # <<>> THEN 1 ELSE 0
        BY <3>1 DEF AskWrong, AskRight, Ask
      <4>2. QED
        BY <4>1 DEF LockoutTypes
    <3>2. CASE \E r \in Verifiers, p \in AuthProcesses : Onboard(r, p)
      BY <3>2 DEF Onboard, lockoutHistory
    <3>3. CASE \E r \in Verifiers : \/ ReadCandidate(r) \/ CountWrong(r) \/ WriteFailure(r)
                                    \/ ReadDevice(r) \/ Admit(r) \/ Clear(r) \/ AddDevice(r)
      BY <3>3, Zenon DEF ReadCandidate, CountWrong, WriteFailure, ReadDevice, Admit, Clear, AddDevice, lockoutHistory
    <3>4. CASE Revoke \/ LockTick \/ \E p \in AuthProcesses : Restart(p)
      BY <3>4, Zenon DEF Revoke, LockTick, Restart, lockoutHistory
    <3>5. QED
      BY <3>1, <3>2, <3>3, <3>4 DEF LockoutNext
  <2>2. crowded \in Nat
    BY DEF LockoutTypes
  <2>3. QED
    BY <2>1, <2>2
<1>b. /\ failed = since
      /\ \A r, s \in Verifiers : Verifies(r) /\ Verifies(s) => r = s
      /\ \A r \in Verifiers : Reads(r) => FailedRead(r) = failed
  BY <1>a DEF AloneInv
<1>c. ASSUME failed' = since',
             \A r, s \in Verifiers : Verifies(r)' /\ Verifies(s)' => r = s,
             \A r \in Verifiers : Reads(r)' => FailedRead(r)' = failed'
      PROVE  AloneInv'
  BY <1>c DEF AloneInv
<1>d. \A r \in Verifiers : Reads(r) => Verifies(r)
  BY DEF In
\* A step of one that was there already.
<1>e. ASSUME NEW r \in Verifiers, Verifies(r), NEW x, req' = [req EXCEPT ![r] = x],
             failed' = since', x = <<>> \/ x[1] \in {"wrong", "right"} \/ x[3] = failed'
      PROVE  AloneInv'
  <2>1. req'[r] = x /\ \A s \in Verifiers \ {r} : req'[s] = req[s]
    BY <1>e, OthersStay
  <2>2. \A s \in Verifiers : Verifies(s)' => s = r
    BY <2>1, <1>b, <1>e DEF In
  <2>3. ASSUME NEW s \in Verifiers, Reads(s)' PROVE FailedRead(s)' = failed'
    <3>1. Verifies(s)'
      BY <2>3 DEF In
    <3>2. s = r
      BY <2>2, <3>1
    <3>3. x # <<>> /\ x[1] \notin {"wrong", "right"}
      BY <2>1, <2>3, <3>2 DEF In
    <3>4. QED
      BY <1>e, <2>1, <3>2, <3>3 DEF FailedRead
  <2>4. QED
    BY <1>c, <1>e, <2>2, <2>3
\* None that reads or begins.
<1>f. ASSUME failed' = failed, since' = since, \A s \in Verifiers : req'[s] = req[s] \/ ~Verifies(s)'
      PROVE  AloneInv'
  <2>1. \A s \in Verifiers : Verifies(s)' => Verifies(s) /\ req'[s] = req[s]
    BY <1>f DEF In
  <2>2. \A s \in Verifiers : Reads(s)' => Reads(s) /\ FailedRead(s)' = FailedRead(s)
    <3>1. \A s \in Verifiers : Reads(s)' => Verifies(s)'
      BY DEF In
    <3>2. QED
      BY <2>1, <3>1 DEF In, FailedRead
  <2>3. QED
    BY <1>b, <1>c, <1>f, <2>1, <2>2
<1> HIDE DEF Reads, Verifies
<1>1. ASSUME NEW r \in Verifiers, NEW p \in AuthProcesses, AskWrong(r, p) \/ AskRight(r, p) PROVE AloneInv'
  <2>1. failed' = failed /\ since' = since
    BY <1>1 DEF AskWrong, AskRight, Ask, deviceRow
  <2>2. \A s \in Verifiers : req[s] = <<>>
    <3>1. crowded' = crowded + IF \E s \in Verifiers : req[s] # <<>> THEN 1 ELSE 0
      BY <1>1 DEF AskWrong, AskRight, Ask
    <3>2. QED
      BY <3>1, <1>a
  <2>3. CASE req' = req
    BY <2>1, <2>3, <1>f
  <2>4. ASSUME NEW stage \in {"wrong", "right"}, req' = [req EXCEPT ![r] = <<stage, p, 0, FALSE>>]
        PROVE  AloneInv'
    <3>1. req'[r] = <<stage, p, 0, FALSE>> /\ \A s \in Verifiers \ {r} : req'[s] = <<>>
      BY <2>2, <2>4, OthersStay
    <3>2. \A s \in Verifiers : Verifies(s)' => s = r
      BY <3>1 DEF Verifies
    <3>3. \A s \in Verifiers : ~Reads(s)'
      BY <3>1 DEF Reads, In
    <3>4. QED
      BY <2>1, <3>2, <3>3, <1>b, <1>c
  <2>5. QED
    BY <1>1, <2>3, <2>4, Becomes
<1>2. ASSUME NEW r \in Verifiers, NEW p \in AuthProcesses, Onboard(r, p) PROVE AloneInv'
  <2>1. req' = [req EXCEPT ![r] = <<"add", p, 0, FALSE>>] /\ failed' = failed /\ since' = since
    BY <1>2 DEF Onboard, deviceRow, lockoutHistory
  <2>2. req'[r] = <<"add", p, 0, FALSE>> /\ \A s \in Verifiers \ {r} : req'[s] = req[s]
    BY <2>1, OthersStay
  <2>3. \A s \in Verifiers : req'[s] = req[s] \/ ~Verifies(s)'
    BY <2>2 DEF Verifies, In
  <2>4. QED
    BY <2>1, <2>3, <1>f
<1>3. ASSUME NEW r \in Verifiers, ReadCandidate(r) PROVE AloneInv'
  <2>1. In(r, "wrong") /\ req' = [req EXCEPT ![r] = <<"count", Process(r), failed, until>>]
    BY <1>3, Becomes
  <2>2. failed' = failed /\ since' = since
    BY <1>3 DEF ReadCandidate, deviceRow, lockoutHistory
  <2>3. Verifies(r)
    BY <2>1 DEF Verifies, In
  <2>4. QED
    BY <2>1, <2>2, <2>3, <1>b, <1>e
<1>4. ASSUME NEW r \in Verifiers, CountWrong(r) PROVE AloneInv'
  <2>1. In(r, "count") /\ \/ req' = [req EXCEPT ![r] = <<>>]
                          \/ req' = [req EXCEPT ![r] = <<"write", Process(r), FailedRead(r), UntilRead(r)>>]
    BY <1>4, Becomes
  <2>2. failed' = failed /\ since' = since
    BY <1>4, Zenon DEF CountWrong, deviceRow
  <2>3. Verifies(r) /\ FailedRead(r) = failed
    BY <2>1, <1>b DEF Verifies, Reads, In
  <2>4. QED
    BY <2>1, <2>2, <2>3, <1>b, <1>e
<1>5. ASSUME NEW r \in Verifiers, WriteFailure(r) PROVE AloneInv'
  <2>1. In(r, "write") /\ req' = [req EXCEPT ![r] = <<>>]
    BY <1>5, Becomes
  <2>2. Verifies(r) /\ FailedRead(r) = failed
    BY <2>1, <1>b DEF Verifies, Reads, In
  <2>3. (failed' = FailedRead(r) + 1 /\ since' = since + 1) \/ (failed' = failed /\ since' = since)
    BY <1>5, Zenon DEF WriteFailure, Failed
  <2>4. failed' = since'
    BY <2>2, <2>3, <1>b
  <2>5. QED
    BY <2>1, <2>2, <2>4, <1>e
<1>6. ASSUME NEW r \in Verifiers, ReadDevice(r) PROVE AloneInv'
  <2>1. In(r, "right") /\ \/ req' = [req EXCEPT ![r] = <<>>]
                          \/ req' = [req EXCEPT ![r] = <<"admit", Process(r), failed, until>>]
    BY <1>6, Becomes
  <2>2. failed' = failed /\ since' = since
    BY <1>6, Zenon DEF ReadDevice, deviceRow
  <2>3. Verifies(r)
    BY <2>1 DEF Verifies, In
  <2>4. QED
    BY <2>1, <2>2, <2>3, <1>b, <1>e
<1>7. ASSUME NEW r \in Verifiers, Admit(r) PROVE AloneInv'
  <2>1. In(r, "admit") /\ req' = [req EXCEPT ![r] = <<"clear", Process(r), FailedRead(r), UntilRead(r)>>]
    BY <1>7, Becomes
  <2>2. failed' = failed /\ since' = since
    BY <1>7, Zenon DEF Admit, deviceRow
  <2>3. Verifies(r) /\ FailedRead(r) = failed
    BY <2>1, <1>b DEF Verifies, Reads, In
  <2>4. QED
    BY <2>1, <2>2, <2>3, <1>b, <1>e
<1>8. ASSUME NEW r \in Verifiers, Clear(r) PROVE AloneInv'
  <2>1. In(r, "clear") /\ req' = [req EXCEPT ![r] = <<>>]
    BY <1>8, Becomes
  <2>2. Verifies(r)
    BY <2>1 DEF Verifies, In
  <2>3. (failed' = 0 /\ since' = 0) \/ (failed' = failed /\ since' = since)
    BY <1>8, Zenon DEF Clear
  <2>4. QED
    BY <2>1, <2>2, <2>3, <1>b, <1>e
<1>9. ASSUME NEW r \in Verifiers, AddDevice(r) PROVE AloneInv'
  <2>1. req' = [req EXCEPT ![r] = <<>>] /\ failed' = failed /\ since' = since
    BY <1>9 DEF AddDevice, Answer, lockoutHistory
  <2>2. req'[r] = <<>> /\ \A s \in Verifiers \ {r} : req'[s] = req[s]
    BY <2>1, OthersStay
  <2>3. \A s \in Verifiers : req'[s] = req[s] \/ ~Verifies(s)'
    BY <2>2 DEF Verifies
  <2>4. QED
    BY <2>1, <2>3, <1>f
<1>10. ASSUME NEW p \in AuthProcesses, Restart(p) PROVE AloneInv'
  <2>1. req' = [r \in Verifiers |-> IF req[r] # <<>> /\ Process(r) = p THEN <<>> ELSE req[r]]
        /\ failed' = failed /\ since' = since
    BY <1>10 DEF Restart, deviceRow
  <2>2. \A s \in Verifiers : req'[s] = req[s] \/ req'[s] = <<>>
    BY <2>1
  <2>3. \A s \in Verifiers : req'[s] = req[s] \/ ~Verifies(s)'
    BY <2>2 DEF Verifies
  <2>4. QED
    BY <2>1, <2>3, <1>f
<1>11. CASE Revoke \/ LockTick
  <2>1. req' = req /\ failed' = failed /\ since' = since
    BY <1>11 DEF Revoke, LockTick, lockoutHistory
  <2>2. QED
    BY <2>1, <1>f
<1>12. QED
  BY <1>1, <1>2, <1>3, <1>4, <1>5, <1>6, <1>7, <1>8, <1>9, <1>10, <1>11 DEF LockoutNext

\* Where a step leads to the admission of a request, and what is revoked then.
LEMMA EarlyInvStep == LockoutTypes /\ EarlyInv /\ LockoutNext => EarlyInv'
<1> SUFFICES ASSUME LockoutTypes, EarlyInv, LockoutNext PROVE EarlyInv'
  OBVIOUS
<1>a. \A r \in Verifiers : In(r, "admit") => r \in early
  BY DEF EarlyInv
<1>b. ASSUME early' = early, \A s \in Verifiers : req'[s] = req[s] \/ req'[s] = <<>> \/ req'[s][1] # "admit"
      PROVE  EarlyInv'
  BY <1>a, <1>b DEF EarlyInv, In
<1>1. ASSUME NEW r \in Verifiers, NEW p \in AuthProcesses, AskWrong(r, p) \/ AskRight(r, p) \/ Onboard(r, p)
      PROVE  EarlyInv'
  <2>1. early' = early
    BY <1>1 DEF AskWrong, AskRight, Onboard, Ask, lockoutHistory
  <2>2. CASE req' = req
    BY <2>1, <2>2, <1>b
  <2>3. ASSUME NEW stage \in {"wrong", "right", "add"}, req' = [req EXCEPT ![r] = <<stage, p, 0, FALSE>>] PROVE EarlyInv'
    <3>1. req'[r] = <<stage, p, 0, FALSE>> /\ \A s \in Verifiers \ {r} : req'[s] = req[s]
      BY <2>3, OthersStay
    <3>2. QED
      BY <2>1, <3>1, <1>b
  <2>4. QED
    BY <1>1, <2>2, <2>3, Becomes
<1>2. ASSUME NEW r \in Verifiers, ReadDevice(r) PROVE EarlyInv'
  <2>1. \/ req' = [req EXCEPT ![r] = <<>>]
        \/ early' = early \cup {r} /\ req' = [req EXCEPT ![r] = <<"admit", Process(r), failed, until>>]
    BY <1>2, Zenon DEF ReadDevice, Answer, GoOn
  <2>2. \A s \in Verifiers \ {r} : s \in early => s \in early'
    BY <1>2 DEF ReadDevice
  <2>3. \A s \in Verifiers \ {r} : In(s, "admit")' => In(s, "admit")
    BY <2>1, OthersStay DEF VerifyStages
  <2>4. In(r, "admit")' => r \in early'
    <3>1. CASE req' = [req EXCEPT ![r] = <<>>]
      BY <3>1, OthersStay DEF In
    <3>2. CASE early' = early \cup {r}
      BY <3>2
    <3>3. QED
      BY <2>1, <3>1, <3>2
  <2>5. QED
    BY <1>a, <2>2, <2>3, <2>4 DEF EarlyInv
<1>3. ASSUME NEW r \in Verifiers, NEW x, req' = [req EXCEPT ![r] = x], x = <<>> \/ x[1] # "admit", early' = early
      PROVE  EarlyInv'
  BY <1>3, <1>b, OthersStay
<1>4. ASSUME NEW r \in Verifiers, ReadCandidate(r) PROVE EarlyInv'
  <2>1. req' = [req EXCEPT ![r] = <<"count", Process(r), failed, until>>] /\ early' = early
    BY <1>4, Becomes DEF ReadCandidate, lockoutHistory
  <2>2. QED
    BY <2>1, <1>3
<1>5. ASSUME NEW r \in Verifiers, CountWrong(r) PROVE EarlyInv'
  <2>1. early' = early
    BY <1>5, Zenon DEF CountWrong
  <2>2. \/ req' = [req EXCEPT ![r] = <<>>]
        \/ req' = [req EXCEPT ![r] = <<"write", Process(r), FailedRead(r), UntilRead(r)>>]
    BY <1>5, Becomes
  <2>3. QED
    BY <2>1, <2>2, <1>3
<1>6. ASSUME NEW r \in Verifiers, WriteFailure(r) \/ Clear(r) \/ AddDevice(r) PROVE EarlyInv'
  <2>1. early' = early
    BY <1>6, Zenon DEF WriteFailure, Clear, AddDevice, lockoutHistory
  <2>2. req' = [req EXCEPT ![r] = <<>>]
    BY <1>6, Becomes
  <2>3. QED
    BY <2>1, <2>2, <1>3
<1>7. ASSUME NEW r \in Verifiers, Admit(r) PROVE EarlyInv'
  <2>1. req' = [req EXCEPT ![r] = <<"clear", Process(r), FailedRead(r), UntilRead(r)>>] /\ early' = early
    BY <1>7, Becomes DEF Admit
  <2>2. QED
    BY <2>1, <1>3
<1>8. ASSUME NEW p \in AuthProcesses, Restart(p) PROVE EarlyInv'
  <2>1. early' = early /\ \A s \in Verifiers : req'[s] = req[s] \/ req'[s] = <<>>
    BY <1>8 DEF Restart
  <2>2. QED
    BY <2>1, <1>b
<1>9. CASE Revoke \/ LockTick
  BY <1>9, <1>b DEF Revoke, LockTick, lockoutHistory
<1>10. QED
  BY <1>1, <1>2, <1>4, <1>5, <1>6, <1>7, <1>8, <1>9 DEF LockoutNext

\* Only an admission ends the stage in which a request is admitted, or its process's end.
LEMMA RevocationStep ==
  LockoutInv /\ [LockoutNext]_lockoutVars =>
    (revoked => revoked' /\ \A r \in Verifiers : In(r, "admit") /\ ~In(r, "admit")' => r \in early)
<1> SUFFICES ASSUME LockoutInv, [LockoutNext]_lockoutVars, revoked
    PROVE  revoked' /\ \A r \in Verifiers : In(r, "admit") /\ ~In(r, "admit")' => r \in early
  OBVIOUS
<1>1. \A r \in Verifiers : In(r, "admit") => r \in early
  BY DEF LockoutInv, EarlyInv
<1>2. revoked'
  <2>1. CASE UNCHANGED lockoutVars
    BY <2>1, Zenon DEF lockoutVars, deviceRow
  <2>2. CASE \E r \in Verifiers, p \in AuthProcesses : AskWrong(r, p) \/ AskRight(r, p) \/ Onboard(r, p)
    BY <2>2, Zenon DEF AskWrong, AskRight, Onboard, Ask, deviceRow
  <2>3. CASE \E r \in Verifiers : \/ ReadCandidate(r) \/ CountWrong(r) \/ WriteFailure(r)
                                  \/ ReadDevice(r) \/ Admit(r) \/ Clear(r) \/ AddDevice(r)
    BY <2>3, Zenon DEF ReadCandidate, CountWrong, WriteFailure, ReadDevice, Admit, Clear, RevokedAfter, AddDevice, deviceRow
  <2>4. CASE Revoke \/ LockTick \/ \E p \in AuthProcesses : Restart(p)
    BY <2>4, Zenon DEF Revoke, LockTick, Restart, deviceRow
  <2>5. QED
    BY <2>1, <2>2, <2>3, <2>4 DEF LockoutNext
<1>3. QED
  BY <1>1, <1>2

LEMMA NextLockoutInv == LockoutInv /\ [LockoutNext]_lockoutVars => LockoutInv'
<1>1. LockoutInv /\ LockoutNext => LockoutInv'
  BY LockoutTypesStep, WrongsInvStep, PassedInvStep, AloneInvStep, EarlyInvStep DEF LockoutInv
<1>2. LockoutInv /\ UNCHANGED lockoutVars => LockoutInv'
  <2> SUFFICES ASSUME LockoutInv, UNCHANGED lockoutVars PROVE LockoutInv'
    OBVIOUS
  <2>1. UNCHANGED <<registered, revoked, failed, until, left, count, lock, req, wrongs, early, passed, since, crowded>>
    BY DEF lockoutVars, deviceRow, tracker, bounds, lockoutHistory
  <2>2. Unwritten' = Unwritten /\ Uncounted' = Uncounted
    BY <2>1 DEF Unwritten, Uncounted, In
  <2>3. WrongsInv'
    BY <2>1, <2>2 DEF LockoutInv, WrongsInv, FailedRead
  <2>4. AloneInv' /\ EarlyInv' /\ PassedInv'
    BY <2>1 DEF LockoutInv, AloneInv, EarlyInv, PassedInv, In, FailedRead
  <2>5. LockoutTypes'
    BY <2>1 DEF LockoutInv, LockoutTypes
  <2>6. QED
    BY <2>3, <2>4, <2>5 DEF LockoutInv
<1>3. QED
  BY <1>1, <1>2

LEMMA LockoutPays == LockoutInv => LockoutTypeOK /\ LimitHolds /\ RowCounts
<1> SUFFICES ASSUME LockoutInv PROVE LockoutTypeOK /\ LimitHolds /\ RowCounts
  OBVIOUS
<1>1. LimitHolds /\ RowCounts
  BY DEF LockoutInv, PassedInv, AloneInv, LimitHolds, RowCounts
<1>2. Cardinality(Unwritten) \in Nat /\ Cardinality(Uncounted) \in Nat
  BY Requested DEF Unwritten, Uncounted
<1>3. /\ failed + Cardinality(Unwritten) <= wrongs /\ \A p \in AuthProcesses : count[p] + Cardinality(Uncounted) <= wrongs
      /\ wrongs \in 0 .. MaxWrong /\ failed \in Nat /\ count \in [AuthProcesses -> Nat] /\ MaxWrong \in Nat
  BY LockoutAssumption DEF LockoutInv, LockoutTypes, WrongsInv, LockoutAssumption
<1>4. failed \in 0 .. MaxWrong /\ \A p \in AuthProcesses : count[p] \in 0 .. MaxWrong
  BY <1>2, <1>3
<1>5. {registered, revoked, until} \subseteq BOOLEAN
  BY DEF LockoutInv, LockoutTypes
<1>6. QED
  BY <1>1, <1>3, <1>4, <1>5 DEF LockoutTypeOK, LockoutInv, LockoutTypes

\* A process answers 401 to fewer wrong keys than lock a device, and a revocation stays, for any
\* number of processes and of requests at a time: dsai_verify_edge_device counts in the process
\* before it counts in the row, and only writes the columns that changed.
THEOREM LocksOut == LockoutSpec => LockoutHolds
<1>1. LockoutSpec => []LockoutInv
  BY InitLockoutInv, NextLockoutInv, PTL DEF LockoutSpec
<1>2. []LockoutInv => [](LockoutTypeOK /\ LimitHolds /\ RowCounts)
  BY LockoutPays, PTL
<1>3. []LockoutInv /\ [][LockoutNext]_lockoutVars => RevokedIsFinal
  <2>1. LockoutInv /\ [LockoutNext]_lockoutVars =>
          [revoked => revoked' /\ \A r \in Verifiers : In(r, "admit") /\ ~In(r, "admit")' => r \in early]_lockoutVars
    BY RevocationStep
  <2>2. QED
    BY <2>1, PTL DEF RevokedIsFinal
<1>4. QED
  BY <1>1, <1>2, <1>3, PTL DEF LockoutSpec, LockoutHolds

--------------------------------------------------------------------------------
(* The liveness of cameras.                                                     *)

LivenessTypes ==
  /\ now \in 0 .. MaxTime /\ beat \in [Servers -> Never .. now]
  /\ lastSeen \in Never .. now /\ setAt \in Never .. now /\ heard \in Never .. now
  /\ lastSeen <= setAt /\ lastSeen <= heard /\ refusals \in 0 .. MaxRefused /\ overtaken \in BOOLEAN

\* What is stored is the latest that was heard, but for the second that is cut off; or a day has passed.
LatestInv ==
  refusals = 0 /\ ~overtaken /\ heard # Never =>
    \/ lastSeen # Never /\ heard - lastSeen < Second /\ setAt >= heard
    \/ lastSeen = Never /\ now - heard >= Day

LivenessInv == LivenessTypes /\ LatestInv

LEMMA SecondsCutOff ==
  ASSUME NEW t \in Nat
  PROVE  WholeSeconds(t) \in Nat /\ WholeSeconds(t) <= t /\ t - WholeSeconds(t) < Second
<1>1. Second \in Nat \ {0}
  BY LivenessAssumption DEF LivenessAssumption
<1>2. PICK q \in Nat, m \in Nat : q = t \div Second /\ m = t % Second
  BY <1>1
<1>3. t = Second * q + m /\ m < Second
  BY <1>1, <1>2
<1>4. q * Second \in Nat /\ q * Second = Second * q
  BY <1>1
<1>5. QED
  BY <1>1, <1>2, <1>3, <1>4 DEF WholeSeconds

LEMMA InitLivenessInv == LivenessInit => LivenessInv
<1> SUFFICES ASSUME LivenessInit PROVE LivenessInv
  OBVIOUS
<1>1. now = 0 /\ beat = [s \in Servers |-> Never] /\ lastSeen = Never /\ setAt = Never /\ heard = Never /\ refusals = 0
  BY DEF LivenessInit
<1>2. overtaken \in BOOLEAN
  BY Zenon DEF LivenessInit
<1>3. MaxTime \in Nat /\ MaxRefused \in Nat
  BY LivenessAssumption DEF LivenessAssumption
<1>4. QED
  BY <1>1, <1>2, <1>3 DEF LivenessInv, LivenessTypes, LatestInv, Never

LEMMA NextLivenessInv == LivenessInv /\ [LivenessNext]_livenessVars => LivenessInv'
<1> SUFFICES ASSUME LivenessInv, [LivenessNext]_livenessVars PROVE LivenessInv'
  OBVIOUS
<1>a. /\ now \in 0 .. MaxTime /\ beat \in [Servers -> Never .. now] /\ overtaken \in BOOLEAN
      /\ lastSeen \in Never .. now /\ setAt \in Never .. now /\ heard \in Never .. now
      /\ lastSeen <= setAt /\ lastSeen <= heard /\ refusals \in 0 .. MaxRefused
      /\ MaxTime \in Nat /\ MaxRefused \in Nat /\ Day \in Nat /\ Second \in Nat \ {0}
  BY LivenessAssumption DEF LivenessInv, LivenessTypes, LivenessAssumption
<1>b. /\ now \in Int /\ now >= 0 /\ now <= MaxTime /\ {lastSeen, setAt, heard, refusals} \subseteq Int
      /\ lastSeen >= -1 /\ setAt >= -1 /\ heard >= -1 /\ refusals >= 0
      /\ lastSeen <= now /\ setAt <= now /\ heard <= now
      /\ \A s \in Servers : beat[s] \in Int /\ beat[s] >= -1 /\ beat[s] <= now
  BY <1>a DEF Never
<1>1. CASE LivenessTick
  <2>1. now' = now + 1 /\ now < MaxTime /\ UNCHANGED <<beat, lastSeen, setAt, heard, refusals>>
    BY <1>1 DEF LivenessTick
  <2>2. overtaken' = overtaken
    BY <1>1 DEF LivenessTick
  <2>3. LivenessTypes'
    <3>1. beat' \in [Servers -> Never .. now']
      BY <1>a, <1>b, <2>1 DEF Never
    <3>2. overtaken' \in BOOLEAN
      BY <1>a, <2>2
    <3>3. QED
      BY <1>a, <1>b, <2>1, <3>1, <3>2 DEF LivenessTypes, Never
  <2>4. LatestInv'
    <3>1. SUFFICES ASSUME refusals = 0, ~overtaken, heard # Never
                   PROVE  \/ lastSeen # Never /\ heard - lastSeen < Second /\ setAt >= heard
                          \/ lastSeen = Never /\ now' - heard >= Day
      BY <2>1, <2>2 DEF LatestInv
    <3>2. \/ lastSeen # Never /\ heard - lastSeen < Second /\ setAt >= heard
          \/ lastSeen = Never /\ now - heard >= Day
      BY <3>1 DEF LivenessInv, LatestInv
    <3>3. QED
      BY <2>1, <3>2, <1>a, <1>b
  <2>5. QED
    BY <2>3, <2>4 DEF LivenessInv
<1>2. ASSUME NEW s \in Servers, Beat(s) PROVE LivenessInv'
  <2>1. UNCHANGED <<now, lastSeen, setAt, heard, refusals, overtaken>> /\ beat' = [beat EXCEPT ![s] = now]
    BY <1>2 DEF Beat
  <2>2. beat' \in [Servers -> Never .. now]
    BY <2>1, <1>a, <1>b DEF Never
  <2>3. QED
    BY <2>1, <2>2 DEF LivenessInv, LivenessTypes, LatestInv
<1>3. ASSUME NEW s \in Servers, RecordLiveness(s) PROVE LivenessInv'
  <2>1. beat[s] # Never /\ beat' = [beat EXCEPT ![s] = Never] /\ now' = now
        /\ heard' = IF beat[s] > heard THEN beat[s] ELSE heard
    BY <1>3 DEF RecordLiveness
  <2>2. beat[s] \in Nat /\ beat[s] <= now
    BY <2>1, <1>b DEF Never
  <2>3. beat' \in [Servers -> Never .. now'] /\ heard' \in Never .. now' /\ heard' >= beat[s] /\ heard' >= heard
    BY <2>1, <2>2, <1>a, <1>b DEF Never
  <2>4. CASE lastSeen' = WholeSeconds(beat[s]) /\ setAt' = now /\ overtaken' = (beat[s] < heard) /\ refusals' = refusals
    <3>1. /\ WholeSeconds(beat[s]) \in Nat /\ WholeSeconds(beat[s]) <= beat[s]
          /\ beat[s] - WholeSeconds(beat[s]) < Second
      BY <2>2, SecondsCutOff
    <3>2. overtaken' \in BOOLEAN /\ (~overtaken' => ~(beat[s] < heard))
      <4>1. overtaken' = (beat[s] < heard)
        BY <2>4
      <4>2. (beat[s] < heard) \in BOOLEAN
        OBVIOUS
      <4>3. overtaken' \in BOOLEAN
        BY <4>1, <4>2, Zenon
      <4>4. ~overtaken' => ~(beat[s] < heard)
        BY <4>1, Zenon
      <4>5. QED
        BY <4>3, <4>4
    <3>3. LivenessTypes'
      <4>1. lastSeen' = WholeSeconds(beat[s]) /\ setAt' = now /\ now' = now /\ refusals' = refusals
        BY <2>4, <2>1
      <4>2. lastSeen' \in Never .. now' /\ setAt' \in Never .. now' /\ lastSeen' <= setAt' /\ lastSeen' <= heard'
        BY <4>1, <3>1, <2>2, <2>3, <1>b DEF Never
      <4>3. QED
        BY <4>1, <4>2, <2>3, <3>2, <1>a DEF LivenessTypes
    <3>4. ASSUME ~overtaken' PROVE lastSeen' # Never /\ heard' - lastSeen' < Second /\ setAt' >= heard'
      <4>1. heard' = beat[s]
        BY <2>1, <2>2, <3>2, <3>4, <1>b
      <4>2. lastSeen' = WholeSeconds(beat[s]) /\ setAt' = now
        BY <2>4
      <4>3. QED
        BY <4>1, <4>2, <3>1, <2>2, <1>b DEF Never
    <3>5. QED
      BY <3>3, <3>4 DEF LivenessInv, LatestInv
  <2>5. CASE refusals < MaxRefused /\ refusals' = refusals + 1 /\ UNCHANGED <<lastSeen, setAt, overtaken>>
    <3>1. refusals' \in 0 .. MaxRefused /\ refusals' # 0
      BY <2>5, <1>a, <1>b
    <3>2. lastSeen' = lastSeen /\ setAt' = setAt /\ now' = now /\ lastSeen <= heard'
      <4>1. lastSeen' = lastSeen /\ setAt' = setAt /\ now' = now
        BY <2>5, <2>1
      <4>2. lastSeen <= heard'
        BY <2>3, <1>a, <1>b DEF Never
      <4>3. QED
        BY <4>1, <4>2
    <3>3. overtaken' \in BOOLEAN
      BY <2>5, <1>a
    <3>4. LivenessTypes'
      BY <3>1, <3>2, <3>3, <2>3, <1>a, <2>1 DEF LivenessTypes
    <3>5. QED
      BY <3>1, <3>4 DEF LivenessInv, LatestInv
  <2>6. QED
    BY <1>3, <2>4, <2>5 DEF RecordLiveness
<1>4. CASE Forget
  <2>1. setAt # Never /\ now - setAt >= Day /\ lastSeen' = Never /\ setAt' = Never
        /\ UNCHANGED <<now, beat, heard, refusals>>
    BY <1>4 DEF Forget
  <2>2. overtaken' = overtaken
    BY <1>4 DEF Forget
  <2>3. LivenessTypes'
    BY <2>1, <2>2, <1>a, <1>b DEF LivenessTypes, Never
  <2>4. LatestInv'
    <3>1. SUFFICES ASSUME refusals = 0, ~overtaken, heard # Never PROVE now - heard >= Day
      BY <2>1, <2>2 DEF LatestInv
    <3>2. \/ lastSeen # Never /\ heard - lastSeen < Second /\ setAt >= heard
          \/ lastSeen = Never /\ now - heard >= Day
      BY <3>1 DEF LivenessInv, LatestInv
    <3>3. QED
      BY <2>1, <3>2, <1>a, <1>b
  <2>5. QED
    BY <2>3, <2>4 DEF LivenessInv
<1>5. CASE UNCHANGED livenessVars
  BY <1>5 DEF livenessVars, LivenessInv, LivenessTypes, LatestInv
<1>6. QED
  BY <1>1, <1>2, <1>3, <1>4, <1>5 DEF LivenessNext

LEMMA LivenessPays == LivenessInv => LivenessHolds
<1> SUFFICES ASSUME LivenessInv PROVE LivenessHolds
  OBVIOUS
<1>a. /\ now \in 0 .. MaxTime /\ beat \in [Servers -> Never .. now]
      /\ lastSeen \in Never .. now /\ setAt \in Never .. now /\ heard \in Never .. now
      /\ lastSeen <= setAt /\ lastSeen <= heard /\ refusals \in 0 .. MaxRefused
      /\ Day \in Nat /\ Second \in Nat \ {0} /\ MaxIdle \in Nat
  BY LivenessAssumption DEF LivenessInv, LivenessTypes, LivenessAssumption
<1>1. LivenessTypeOK
  BY <1>a DEF LivenessTypeOK
<1>2. ~Stale => heard # Never /\ now - heard <= MaxIdle
  BY <1>a DEF Stale, Never
<1>3. ASSUME Stale, heard # Never, now - heard <= MaxIdle - (Second - 1), ~(refusals > 0), ~overtaken, ~(MaxIdle >= Day)
      PROVE  FALSE
  <2>1. \/ lastSeen # Never /\ heard - lastSeen < Second /\ setAt >= heard
        \/ lastSeen = Never /\ now - heard >= Day
    BY <1>3, <1>a DEF LivenessInv, LatestInv
  <2>2. lastSeen = Never \/ now - lastSeen > MaxIdle
    BY <1>3 DEF Stale
  <2>3. QED
    BY <2>1, <2>2, <1>3, <1>a DEF Never
<1>4. QED
  BY <1>1, <1>2, <1>3 DEF LivenessHolds

\* A camera is called active or stale for cause, whatever the threads that serve its heartbeats,
\* the seconds, the limit and the TTL: dsai_record_liveness and dsai_check_camera_liveness.
THEOREM CamerasAreHeard == LivenessSpec => []LivenessHolds
BY InitLivenessInv, NextLivenessInv, LivenessPays, PTL DEF LivenessSpec

--------------------------------------------------------------------------------
(* Legal holds.                                                                 *)

Counters == {outages, broken, raced} \subseteq Nat

\* What is on its way to Redis, and what the cleaner is looking at.
Underway ==
  /\ sync \in [Everyone -> {<<>>} \cup (Targets \X BOOLEAN)]
  /\ look \in {<<>>} \cup ({"camera", "all", "remove"} \X Objects)

\* As long as Redis answers it knows every hold.  If the object that the cleaner looks at is
\* held on a count that was already asked about, then a hold came in the meantime that has
\* not been charged with an object yet.
Charged ==
  outages = 0 =>
    /\ redis = held /\ broken <= raced
    /\ look # <<>> /\ look[1] = "all" /\ CameraOf[look[2]] \in held => broken + 1 <= raced
    /\ look # <<>> /\ look[1] = "remove" /\ InForce(look[2], held) => broken + 1 <= raced

HoldInv == LegalTypeOK /\ Counters /\ Underway /\ Charged

LEMMA InitHoldInv == LegalInit => HoldInv
BY DEF LegalInit, HoldInv, LegalTypeOK, Counters, Underway, Charged

\* Outages are counted up.
LEMMA OutagesGrow ==
  ASSUME Counters, UNCHANGED outages \/ Outage
  PROVE  /\ outages' \in Nat
         /\ outages' = 0 => UNCHANGED outages /\ outages = 0
BY DEF Counters, Outage

LEMMA CheckIndInv ==
  ASSUME HoldInv, NEW stage \in {"camera", "all"}, NEW next, NEW H, Check(stage, next, H),
         \/ stage = "camera" /\ next = "all" /\ H = redis
         \/ stage = "all" /\ next = "remove" /\ H = redis \cap {All}
  PROVE  HoldInv'
<1>1. /\ look # <<>> /\ look[1] = stage
      /\ look' = <<>> \/ look' = <<next, look[2]>>
      /\ UNCHANGED <<memory, sync, sets, redis, held, raced, stored, old, scan, broken>>
  BY DEF Check, holdVars
<1>2. LegalTypeOK'
  BY <1>1 DEF HoldInv, LegalTypeOK
<1>3. outages' \in Nat /\ (outages' = 0 => UNCHANGED outages /\ outages = 0)
  BY OutagesGrow DEF HoldInv, Check
<1>4. Counters' /\ Underway'
  BY <1>1, <1>3 DEF HoldInv, Counters, Underway
<1>5. ASSUME outages' = 0, look' # <<>>
      PROVE  look' = <<next, look[2]>> /\ ~Sees(look[2], H)
  BY <1>3, <1>5 DEF Check, Outage, HoldInv, Counters
<1>6. Charged'
  <2> SUFFICES ASSUME outages' = 0
               PROVE  Charged'
    BY DEF Charged
  <2>1. Charged /\ outages = 0 /\ redis = held /\ look[2] \in Objects
    BY <1>1, <1>3 DEF HoldInv, Charged, Underway
  <2>2. CASE look' = <<>>
    BY <1>1, <2>1, <2>2 DEF Charged
  <2>3. CASE look' # <<>> /\ stage = "camera"
    BY <1>1, <1>5, <2>1, <2>3 DEF Charged, Sees, InForce
  <2>4. CASE look' # <<>> /\ stage = "all"
    BY <1>1, <1>5, <2>1, <2>4 DEF Charged, Sees, InForce
  <2>5. QED
    BY <2>2, <2>3, <2>4
<1>7. QED
  BY <1>2, <1>4, <1>6 DEF HoldInv

LEMMA NextHoldInv == HoldInv /\ [LegalNext]_legalVars => HoldInv'
<1> SUFFICES ASSUME HoldInv, [LegalNext]_legalVars PROVE HoldInv'
  OBVIOUS
<1> USE HoldAssumption
<1>inv. LegalTypeOK /\ Counters /\ Underway /\ Charged
  BY DEF HoldInv
<1>1. ASSUME NEW p \in Everyone, Sync(p) PROVE HoldInv'
  <2> DEFINE t == sync[p][1]
             enabled == sync[p][2]
  <2>1. /\ sync[p] # <<>> /\ t \in Targets /\ enabled \in BOOLEAN
        /\ sync' = [sync EXCEPT ![p] = <<>>] /\ held' = After(held, t, enabled)
        /\ UNCHANGED <<memory, stored, old, scan, look, broken>>
    BY <1>1, <1>inv DEF Sync, Underway, scanVars
  <2>2. /\ enabled /\ look # <<>> => raced' = raced + 1
        /\ ~(enabled /\ look # <<>>) => raced' = raced
    <3>1. raced' = raced + IF enabled /\ look # <<>> THEN 1 ELSE 0
      BY <1>1 DEF Sync
    <3>2. CASE enabled /\ look # <<>>
      BY <3>1, <3>2
    <3>3. CASE ~(enabled /\ look # <<>>)
      BY <1>inv, <3>1, <3>3 DEF Counters
    <3>4. QED
      BY <3>2, <3>3
  <2>3. \/ redis' = After(redis, t, enabled) /\ UNCHANGED outages
        \/ Outage /\ UNCHANGED redis
    BY <1>1, Zenon DEF Sync, InRedis
  <2>4. outages' \in Nat /\ (outages' = 0 => UNCHANGED outages /\ outages = 0)
    BY <1>inv, <2>3, OutagesGrow
  <2> HIDE DEF t, enabled
  <2>5. LegalTypeOK'
    BY <1>inv, <2>1, <2>3 DEF LegalTypeOK, After
  <2>6. Counters' /\ Underway'
    BY <1>inv, <2>1, <2>2, <2>4 DEF Counters, Underway
  <2>7. Charged'
    <3> SUFFICES ASSUME outages' = 0 PROVE Charged'
      BY DEF Charged
    <3>1. outages = 0 /\ redis = held /\ broken <= raced /\ redis' = held'
      BY <1>inv, <2>1, <2>3, <2>4 DEF Charged, Outage, Counters
    <3>2. CASE enabled /\ look # <<>>
      <4>1. raced' = raced + 1
        BY <2>2, <3>2, Zenon
      <4>2. broken' + 1 <= raced' /\ broken' <= raced'
        BY <1>inv, <2>1, <3>1, <4>1 DEF Counters
      <4>3. QED
        BY <3>1, <4>2 DEF Charged
    <3>3. CASE ~enabled
      BY <1>inv, <2>1, <2>2, <3>1, <3>3 DEF Charged, Counters, After, InForce
    <3>4. CASE look = <<>>
      BY <1>inv, <2>1, <2>2, <3>1, <3>4 DEF Charged, Counters
    <3>5. QED
      BY <2>1, <3>2, <3>3, <3>4
  <2>8. QED
    BY <2>5, <2>6, <2>7 DEF HoldInv
<1>2. ASSUME NEW p \in Everyone, NEW t \in Targets, NEW enabled \in BOOLEAN, SetHold(p, t, enabled)
      PROVE  HoldInv'
  <2>1. memory' \in [Everyone -> SUBSET Targets]
    BY <1>2, <1>inv DEF SetHold, LegalTypeOK, After
  <2>2. sync' \in [Everyone -> {<<>>} \cup (Targets \X BOOLEAN)]
    BY <1>2, <1>inv DEF SetHold, Underway
  <2>3. QED
    BY <1>2, <1>inv, <2>1, <2>2 DEF SetHold, scanVars, HoldInv, LegalTypeOK, Counters, Underway, Charged
<1>3. ASSUME NEW o \in Objects, GrowOld(o) \/ Expire(o) PROVE HoldInv'
  BY <1>3, <1>inv DEF GrowOld, Expire, holdVars, HoldInv, LegalTypeOK, Counters, Underway, Charged
<1>4. ASSUME NEW o \in Objects, Pick(o) PROVE HoldInv'
  BY <1>4, <1>inv DEF Pick, holdVars, HoldInv, LegalTypeOK, Counters, Underway, Charged
<1>5. CASE BeginScan
  BY <1>5, <1>inv DEF BeginScan, holdVars, HoldInv, LegalTypeOK, Counters, Underway, Charged
<1>6. CASE CheckCamera \/ CheckTenant
  BY <1>6, CheckIndInv DEF CheckCamera, CheckTenant
<1>7. CASE Remove
  BY <1>7, <1>inv DEF Remove, holdVars, HoldInv, LegalTypeOK, Counters, Underway, Charged
<1>8. CASE BreakOff
  BY <1>8, <1>inv DEF BreakOff, holdVars, HoldInv, LegalTypeOK, Counters, Underway, Charged
<1>9. CASE UNCHANGED legalVars
  BY <1>9, <1>inv DEF legalVars, holdVars, scanVars, HoldInv, LegalTypeOK, Counters, Underway, Charged
<1>10. QED
  BY <1>1, <1>2, <1>3, <1>4, <1>5, <1>6, <1>7, <1>8, <1>9 DEF LegalNext

\* As long as Redis answers, the cleaner removes no more objects that are under a hold than
\* there were holds set while it was looking at an object, whichever process set them.
THEOREM HoldsAreHonoured == LegalSpec => []HeldIsKept
<1>1. HoldInv => HeldIsKept
  BY DEF HoldInv, Charged, HeldIsKept
<1>2. QED
  BY <1>1, InitHoldInv, NextHoldInv, PTL DEF LegalSpec

--------------------------------------------------------------------------------
(* The audit trail.                                                             *)

RunStates == {<<>>} \cup ({"upload", "delete"} \X (SUBSET Entries) \X Nat \X Nat)

TrailTypes ==
  /\ seen \in SUBSET Entries /\ {table, topic, sending, oldRows, deleted} \subseteq SUBSET seen
  /\ table \cap deleted = {} /\ conn \in {"none", "open", "closed"}
  /\ locked \in [Runs -> SUBSET seen] /\ run \in [Runs -> RunStates]
  /\ {begun, second, overwritten, refused, failures, overlapping, downs, lostSends} \subseteq Nat

Stored == table \cup deleted

\* Entries of chunks that are uploaded and not yet deleted; entries of the archive's objects.
Pending == {e \in Entries : \E r \in Runs : InRun(r, "delete") /\ e \in Chunk(r)}
InArchive == {e \in Entries : \E a \in archive : e \in a[3]}
Copies(e) == {a \in archive : e \in a[3]}

\* A run's objects have numbers below the next one's; no object is bigger than a chunk.
InArchiveInv ==
  /\ IsFiniteSet(archive)
  /\ \A a \in archive : /\ a[2] \in 1 .. begun /\ a[3] \in SUBSET Entries /\ Cardinality(a[3]) <= ChunkSize
                        /\ a = <<a[1], a[2], a[3]>> /\ a[1] = <<a[1][1], a[1][2]>> /\ a[1][2] \in Nat
  /\ \A a, b \in archive : a[1] = b[1] => a = b
  /\ \A r \in Runs : run[r] # <<>> => Which(r) \in 1 .. begun
  /\ \A r, s \in Runs : run[r] # <<>> /\ run[s] # <<>> /\ Which(r) = Which(s) => r = s
  /\ \A r \in Runs, a \in archive : run[r] # <<>> /\ a[2] = Which(r) =>
       a[1][2] < Number(r) \/ (InRun(r, "delete") /\ a[1][2] <= Number(r))

\* What is deleted, or about to be, is in the archive but for the objects put over.
LostInv == Cardinality((deleted \cup Pending) \ InArchive) <= ChunkSize * overwritten

\* While no two runs overlap, a run has rows of the table only, and one more object for a row
\* is paid for by what ended the run, unless it deletes the row.
OnceInv ==
  overlapping = 0 =>
    /\ \A r, s \in Runs : run[r] # <<>> /\ run[s] # <<>> => r = s
    /\ \A r \in Runs : run[r] # <<>> => Fetched(r) \subseteq table
    /\ \A e \in Entries : Cardinality(Copies(e)) <= failures + refused + 1
    /\ \A e \in Entries \ (deleted \cup Pending) : Cardinality(Copies(e)) <= failures + refused

MissedInv == /\ seen \subseteq Stored \/ downs > 0
             /\ (conn # "open" => downs > 0) /\ (database \/ downs > 0)

TopicInv ==
  /\ topic \subseteq Stored /\ sending \subseteq Stored /\ (sending = {} \/ \E e \in Entries : sending = {e})
  /\ Cardinality(Stored \ (topic \cup sending)) <= lostSends

TrailInv == TrailTypes /\ InArchiveInv /\ LostInv /\ OnceInv /\ MissedInv /\ TopicInv

LEMMA Logged ==
  ASSUME NEW S \in SUBSET Entries
  PROVE  /\ IsFiniteSet(S) /\ Cardinality(S) \in Nat
         /\ \A T \in SUBSET S : IsFiniteSet(T) /\ Cardinality(T) \in Nat /\ Cardinality(T) <= Cardinality(S)
<1>1. IsFiniteSet(Entries)
  BY AuditAssumption, FS_Interval DEF AuditAssumption, Entries
<1>2. IsFiniteSet(S)
  BY <1>1, FS_Subset
<1>3. QED
  BY <1>2, FS_Subset, FS_CardinalityType

\* A set of entries that is not empty has a last one.
LEMMA HasLast ==
  ASSUME NEW S \in SUBSET Entries, S # {}
  PROVE  \E e \in S : \A f \in S : f <= e
<1> DEFINE Before == {ss \in Nat \X Nat : ss[1] < ss[2]}
           T == {MaxEntries - e : e \in S}
<1>a. MaxEntries \in Nat /\ \A e \in S : e \in Nat /\ e <= MaxEntries
  BY AuditAssumption DEF AuditAssumption, Entries
<1>1. IsWellFoundedOn(Before, Nat)
  <2>1. OpToRel(<, Nat) = Before
    BY DEF OpToRel
  <2>2. QED
    BY <2>1, NatLessThanWellFounded
<1>2. T \subseteq Nat /\ T # {}
  BY <1>a
<1> HIDE DEF T
<1>3. PICK x \in T : \A y \in T : <<y, x>> \notin Before
  BY ONLY <1>1, <1>2, WFMin, Zenon
<1>4. PICK e \in S : x = MaxEntries - e
  BY <1>3 DEF T
<1>5. ASSUME NEW f \in S PROVE f <= e
  <2>1. MaxEntries - f \in T
    BY DEF T
  <2>2. ~(MaxEntries - f < x)
    BY <1>2, <1>3, <2>1
  <2>3. QED
    BY <1>a, <1>4, <2>2
<1>6. QED
  BY <1>5

\* The first entries, up to the size of a chunk, are at most as many.
LEMMA ChunkIsSmall ==
  ASSUME NEW F \in SUBSET Entries
  PROVE  LET C == {e \in F : Cardinality({f \in F : f < e}) < ChunkSize}
         IN  C \in SUBSET F /\ IsFiniteSet(C) /\ Cardinality(C) \in Nat /\ Cardinality(C) <= ChunkSize
<1> DEFINE C == {e \in F : Cardinality({f \in F : f < e}) < ChunkSize}
<1>1. C \in SUBSET F /\ IsFiniteSet(C) /\ Cardinality(C) \in Nat
  BY Logged
<1>2. ChunkSize \in Nat \ {0}
  BY AuditAssumption DEF AuditAssumption
<1> HIDE DEF C
<1>3. ASSUME C = {} PROVE Cardinality(C) <= ChunkSize
  BY <1>2, <1>3, FS_EmptySet
<1>4. ASSUME C # {} PROVE Cardinality(C) <= ChunkSize
  <2>1. PICK e \in C : \A f \in C : f <= e
    BY <1>1, <1>4, HasLast
  <2>2. C \ {e} \subseteq {f \in F : f < e}
    <3>1. \A f \in F : f \in Nat
      BY AuditAssumption DEF AuditAssumption, Entries
    <3>2. ASSUME NEW f \in C \ {e} PROVE f \in F /\ f < e
      BY <1>1, <2>1, <3>1, <3>2
    <3>3. QED
      BY <3>2
  <2>3. Cardinality({f \in F : f < e}) \in Nat /\ Cardinality({f \in F : f < e}) < ChunkSize
    <3>1. {f \in F : f < e} \in SUBSET Entries
      OBVIOUS
    <3>2. QED
      BY <2>1, <3>1, Logged DEF C
  <2>4. Cardinality(C \ {e}) <= Cardinality({f \in F : f < e})
    <3>1. {f \in F : f < e} \in SUBSET Entries
      OBVIOUS
    <3>2. QED
      BY <2>2, <3>1, Logged
  <2>5. Cardinality(C \ {e}) = Cardinality(C) - 1
    BY <1>1, <2>1, FS_RemoveElement
  <2>6. QED
    BY <1>1, <1>2, <2>3, <2>4, <2>5
<1>5. QED
  BY <1>1, <1>3, <1>4 DEF C

LEMMA InitTrailInv == AuditInit => TrailInv
<1> SUFFICES ASSUME AuditInit PROVE TrailInv
  OBVIOUS
<1>a. /\ seen = {} /\ table = {} /\ topic = {} /\ sending = {} /\ conn = "open" /\ oldRows = {} /\ deleted = {}
      /\ run = [r \in Runs |-> <<>>] /\ begun = 0 /\ locked = [r \in Runs |-> {}] /\ archive = {} /\ second = 0
      /\ downs = 0 /\ lostSends = 0 /\ overwritten = 0 /\ refused = 0 /\ failures = 0 /\ overlapping = 0
  BY DEF AuditInit
<1>b. database
  BY Zenon DEF AuditInit
<1>c. Cardinality({}) = 0 /\ IsFiniteSet({})
  BY FS_EmptySet
<1>d. ChunkSize \in Nat
  BY AuditAssumption DEF AuditAssumption
<1>1. TrailTypes
  <2>1. run \in [Runs -> RunStates]
    BY <1>a DEF RunStates
  <2>2. QED
    BY <1>a, <2>1 DEF TrailTypes
<1>2. InArchiveInv
  BY <1>a, <1>c DEF InArchiveInv
<1>3. Pending = {}
  BY <1>a DEF Pending, InRun
<1>4. LostInv
  <2>1. (deleted \cup Pending) \ InArchive = {}
    BY <1>a, <1>3
  <2>2. ChunkSize * overwritten = 0
    BY <1>a, <1>d
  <2>3. QED
    BY <1>c, <2>1, <2>2 DEF LostInv
<1>5. OnceInv
  <2>1. \A e : Copies(e) = {}
    BY <1>a DEF Copies
  <2>2. \A e \in Entries : Cardinality(Copies(e)) = 0
    BY <1>c, <2>1
  <2>3. QED
    BY <1>a, <2>2 DEF OnceInv
<1>6. MissedInv
  BY <1>a, <1>b DEF MissedInv
<1>7. TopicInv
  <2>1. Stored \ (topic \cup sending) = {}
    BY <1>a DEF Stored
  <2>2. QED
    <3>1. Cardinality(Stored \ (topic \cup sending)) <= lostSends
      <4>1. Cardinality(Stored \ (topic \cup sending)) = 0 /\ lostSends = 0
        BY <1>a, <1>c, <2>1, Zenon
      <4>2. QED
        BY <4>1
    <3>2. QED
      BY <1>a, <3>1 DEF TopicInv
<1>8. QED
  BY <1>1, <1>2, <1>4, <1>5, <1>6, <1>7 DEF TrailInv

\* What a run at work is, and what becomes of the runs in a step of one of them.
LEMMA AtWork ==
  ASSUME TrailTypes, NEW r \in Runs, run[r] # <<>>
  PROVE  /\ run[r] \in {"upload", "delete"} \X (SUBSET Entries) \X Nat \X Nat
         /\ Fetched(r) \in SUBSET Entries /\ Number(r) \in Nat /\ Which(r) \in Nat
         /\ Chunk(r) \in SUBSET Fetched(r) /\ Cardinality(Chunk(r)) <= ChunkSize
         /\ Upload(r) => run' = [run EXCEPT ![r] = <<"delete", Fetched(r), Number(r), Which(r)>>]
<1>1. run[r] \in {"upload", "delete"} \X (SUBSET Entries) \X Nat \X Nat
  BY DEF TrailTypes, RunStates
<1>2. Fetched(r) \in SUBSET Entries /\ Number(r) \in Nat /\ Which(r) \in Nat
  BY <1>1 DEF Fetched, Number, Which
<1>3. Upload(r) => run' = [run EXCEPT ![r] = <<"delete", Fetched(r), Number(r), Which(r)>>]
  <2>1. /\ run[r] = <<run[r][1], Fetched(r), Number(r), Which(r)>>
        /\ [run[r] EXCEPT ![1] = "delete"] = <<"delete", Fetched(r), Number(r), Which(r)>>
    BY <1>1 DEF Fetched, Number, Which
  <2>2. Upload(r) => run' = [run EXCEPT ![r] = [run[r] EXCEPT ![1] = "delete"]]
    BY DEF Upload
  <2>3. QED
    BY <2>1, <2>2
<1>4. Chunk(r) \in SUBSET Fetched(r) /\ Cardinality(Chunk(r)) <= ChunkSize
  BY <1>2, ChunkIsSmall DEF Chunk
<1>5. QED
  BY <1>1, <1>2, <1>3, <1>4

\* A run of its own steps: the others stay as they are.
LEMMA OtherRunsStay ==
  ASSUME TrailTypes, NEW r \in Runs, NEW x, run' = [run EXCEPT ![r] = x]
  PROVE  /\ run'[r] = x
         /\ \A s \in Runs \ {r} : run'[s] = run[s]
BY DEF TrailTypes

\* Steps in which no run does anything.
LEMMA Elsewhere ==
  ASSUME TrailTypes, InArchiveInv, LostInv, UNCHANGED <<run, begun, archive, deleted, overwritten>>
  PROVE  InArchiveInv' /\ LostInv'
<1>1. Pending' = Pending
  BY DEF Pending, InRun, Chunk, Fetched
<1>2. InArchive' = InArchive
  BY DEF InArchive
<1>3. LostInv'
  BY <1>1, <1>2 DEF LostInv
<1>4. InArchiveInv'
  BY DEF InArchiveInv, Which, Number, InRun
<1>5. QED
  BY <1>3, <1>4

LEMMA NoneRuns ==
  ASSUME TrailTypes, OnceInv, table \subseteq table', UNCHANGED <<run, archive, deleted, refused, failures, overlapping>>
  PROVE  OnceInv'
<1>1. Pending' = Pending
  BY DEF Pending, InRun, Chunk, Fetched
<1>2. \A e : Copies(e)' = Copies(e)
  BY DEF Copies
<1>3. CASE overlapping # 0
  BY <1>3 DEF OnceInv
<1>4. CASE overlapping = 0
  <2>1. /\ \A r, s \in Runs : run[r] # <<>> /\ run[s] # <<>> => r = s
        /\ \A r \in Runs : run[r] # <<>> => Fetched(r) \subseteq table
        /\ \A e \in Entries : Cardinality(Copies(e)) <= failures + refused + 1
        /\ \A e \in Entries \ (deleted \cup Pending) : Cardinality(Copies(e)) <= failures + refused
    BY <1>4 DEF OnceInv
  <2>2. \A r \in Runs : run'[r] # <<>> => Fetched(r)' \subseteq table'
    BY <2>1 DEF Fetched
  <2>3. /\ \A e \in Entries : Cardinality(Copies(e)') <= failures' + refused' + 1
        /\ \A e \in Entries \ (deleted' \cup Pending') : Cardinality(Copies(e)') <= failures' + refused'
    BY <1>1, <1>2, <2>1
  <2>4. QED
    BY <2>1, <2>2, <2>3 DEF OnceInv
<1>5. QED
  BY <1>3, <1>4

\* A chunk that is deleted, and the rows it leaves.
LEMMA DeletesRows ==
  ASSUME TrailTypes, NEW r \in Runs, DeleteChunk(r)
  PROVE  /\ InRun(r, "delete")
         /\ \/ /\ EndRun(r) /\ refused' = refused + 1 /\ UNCHANGED <<table, deleted>>
            \/ /\ table' = table \ Chunk(r) /\ deleted' = deleted \cup (Chunk(r) \cap table)
               /\ refused' = refused /\ cut' = cut /\ locked' = [locked EXCEPT ![r] = {}]
               /\ \/ run' = [run EXCEPT ![r] = <<>>]
                  \/ run' = [run EXCEPT ![r] = <<"upload", Fetched(r) \ Chunk(r), Number(r) + 1, Which(r)>>]
         /\ UNCHANGED <<serviceVars, begun, archive, overwritten, failures, overlapping, database, oldRows, immutable, second, troubles>>
<1>1. InRun(r, "delete")
  BY Zenon DEF DeleteChunk
<1>2. \/ /\ EndRun(r) /\ refused' = refused + 1 /\ UNCHANGED <<table, deleted>>
      \/ /\ table' = table \ Chunk(r) /\ deleted' = deleted \cup (Chunk(r) \cap table)
         /\ refused' = refused /\ cut' = cut /\ locked' = [locked EXCEPT ![r] = {}]
         /\ run' = [run EXCEPT ![r] = IF Fetched(r) \ Chunk(r) = {} THEN <<>>
                                      ELSE <<"upload", Fetched(r) \ Chunk(r), Number(r) + 1, Which(r)>>]
  BY Zenon DEF DeleteChunk, Deletes
<1>3. UNCHANGED <<serviceVars, begun, archive, overwritten, failures, overlapping, database, oldRows, immutable, second, troubles>>
  BY Zenon DEF DeleteChunk
<1>4. QED
  BY <1>1, <1>2, <1>3

LEMMA TrailTypesStep == TrailTypes /\ AuditNext => TrailTypes'
<1> SUFFICES ASSUME TrailTypes, AuditNext PROVE TrailTypes'
  OBVIOUS
<1>a. /\ seen \in SUBSET Entries /\ table \in SUBSET seen /\ topic \in SUBSET seen /\ sending \in SUBSET seen
      /\ oldRows \in SUBSET seen /\ deleted \in SUBSET seen
      /\ table \cap deleted = {} /\ conn \in {"none", "open", "closed"}
      /\ locked \in [Runs -> SUBSET seen] /\ run \in [Runs -> RunStates]
      /\ begun \in Nat /\ second \in Nat /\ overwritten \in Nat /\ refused \in Nat /\ failures \in Nat
      /\ overlapping \in Nat /\ downs \in Nat /\ lostSends \in Nat
  BY DEF TrailTypes
<1>b. ASSUME seen' \in SUBSET Entries, seen \subseteq seen',
             table' \in SUBSET seen', topic' \in SUBSET seen', sending' \in SUBSET seen',
             oldRows' \in SUBSET seen', deleted' \in SUBSET seen',
             table' \cap deleted' = {}, conn' \in {"none", "open", "closed"},
             locked' \in [Runs -> SUBSET seen'], run' \in [Runs -> RunStates],
             {begun', second', overwritten', refused', failures', overlapping', downs', lostSends'} \subseteq Nat
      PROVE  TrailTypes'
  BY <1>b DEF TrailTypes
<1>c. ASSUME NEW S, S \in SUBSET seen, seen \subseteq seen' PROVE S \in SUBSET seen'
  BY <1>c
<1>1. ASSUME NEW e \in Entries, Receive(e) PROVE TrailTypes'
  <2>1. /\ seen' = seen \cup {e} /\ e \notin seen
        /\ (table' = table \cup {e} /\ sending' = {e}) \/ (table' = table /\ sending' = sending)
        /\ UNCHANGED <<runVars, topic, producer, downs, lostSends, oldRows, second>>
    BY <1>1, Zenon DEF Receive
  <2>2. conn' \in {"none", "open", "closed"}
    <3>1. conn' = "closed" \/ conn' = conn
      BY <1>1, Zenon DEF Receive
    <3>2. QED
      BY <3>1, <1>a
  <2>3. UNCHANGED <<run, begun, locked, deleted, overwritten, refused, failures, overlapping>>
    BY <2>1 DEF runVars
  <2>4. locked' \in [Runs -> SUBSET seen']
    BY <1>a, <2>1, <2>3
  <2>5. table' \in SUBSET seen' /\ topic' \in SUBSET seen' /\ sending' \in SUBSET seen' /\ oldRows' \in SUBSET seen'
        /\ deleted' \in SUBSET seen' /\ table' \cap deleted' = {} /\ seen' \in SUBSET Entries /\ seen \subseteq seen'
    BY <1>a, <2>1, <2>3
  <2>6. {begun', second', overwritten', refused', failures', overlapping', downs', lostSends'} \subseteq Nat
    BY <1>a, <2>1, <2>3
  <2>7. QED
    BY <1>a, <1>b, <2>2, <2>3, <2>4, <2>5, <2>6
<1>2. CASE Produce
  <2>1. /\ sending' = {} /\ (topic' = topic \cup sending \/ topic' = topic) /\ (lostSends' = lostSends \/ lostSends' = lostSends + 1)
        /\ UNCHANGED <<runVars, seen, conn, downs, table, oldRows, second>>
    BY <1>2, Zenon DEF Produce, Send
  <2>2. UNCHANGED <<run, begun, locked, deleted, overwritten, refused, failures, overlapping>>
    BY <2>1 DEF runVars
  <2>3. {begun', second', overwritten', refused', failures', overlapping', downs', lostSends'} \subseteq Nat
    BY <1>a, <2>1, <2>2
  <2>4. QED
    BY <1>a, <1>b, <2>1, <2>2, <2>3
<1>3. CASE RestartService
  <2>1. /\ sending' = {} /\ lostSends' = lostSends + Cardinality(sending)
        /\ (conn' = "open" \/ conn' = "none") /\ (downs' = downs \/ downs' = downs + 1)
        /\ UNCHANGED <<runVars, seen, topic, table, oldRows, second>>
    BY <1>3, Zenon DEF RestartService
  <2>2. UNCHANGED <<run, begun, locked, deleted, overwritten, refused, failures, overlapping>>
    BY <2>1 DEF runVars
  <2>3. Cardinality(sending) \in Nat
    <3>1. sending \in SUBSET Entries
      BY <1>a
    <3>2. QED
      BY <3>1, Logged
  <2>4. {begun', second', overwritten', refused', failures', overlapping', downs', lostSends'} \subseteq Nat
    BY <1>a, <2>1, <2>2, <2>3
  <2>5. QED
    BY <1>a, <1>b, <2>1, <2>2, <2>4
<1>4. CASE GrowOldRow \/ PassSecond \/ DatabaseUp
  <2>1. /\ oldRows' = oldRows \/ \E e \in table : oldRows' = oldRows \cup {e}
        /\ second' = second \/ second' = second + 1
        /\ UNCHANGED <<serviceVars, runVars, table>>
    BY <1>4, Zenon DEF GrowOldRow, PassSecond, DatabaseUp
  <2>2. UNCHANGED <<seen, topic, sending, conn, downs, lostSends, run, begun, locked, deleted, overwritten, refused, failures, overlapping>>
    BY <2>1 DEF runVars, serviceVars
  <2>3. {begun', second', overwritten', refused', failures', overlapping', downs', lostSends'} \subseteq Nat
    BY <1>a, <2>1, <2>2
  <2>4. oldRows' \in SUBSET seen
    BY <1>a, <2>1
  <2>5. QED
    BY <1>a, <1>b, <2>1, <2>2, <2>3, <2>4
<1>5. CASE DatabaseDown
  <2>1. /\ downs' = downs + 1 /\ locked' = [r \in Runs |-> {}]
        /\ UNCHANGED <<seen, topic, sending, conn, lostSends, run, begun, deleted, overwritten,
                       refused, failures, overlapping, table, oldRows, second>>
    BY <1>5, Zenon DEF DatabaseDown
  <2>2. locked' \in [Runs -> SUBSET seen']
    BY <2>1
  <2>3. {begun', second', overwritten', refused', failures', overlapping', downs', lostSends'} \subseteq Nat
    BY <1>a, <2>1
  <2>4. QED
    BY <1>a, <1>b, <2>1, <2>2, <2>3
<1>6. ASSUME NEW r \in Runs, Fetch(r) PROVE TrailTypes'
  <2> DEFINE fetched == (table \cap oldRows) \ LockedByOthers(r)
  <2>1. /\ run' = [run EXCEPT ![r] = <<"upload", fetched, 1, begun'>>] /\ begun' = begun + 1
        /\ locked' = [locked EXCEPT ![r] = fetched]
        /\ overlapping' = overlapping + IF \E s \in Runs : run[s] # <<>> THEN 1 ELSE 0
        /\ UNCHANGED <<serviceVars, deleted, overwritten, refused, failures, table, oldRows, second>>
    BY <1>6, Zenon DEF Fetch
  <2>2. fetched \in SUBSET seen /\ fetched \in SUBSET Entries
    BY <1>a
  <2> HIDE DEF fetched
  <2>3. begun' \in Nat /\ overlapping' \in Nat
    BY <1>a, <2>1
  <2>4. run' \in [Runs -> RunStates]
    <3>1. <<"upload", fetched, 1, begun'>> \in RunStates
      BY <2>2, <2>3 DEF RunStates
    <3>2. QED
      BY <1>a, <2>1, <3>1
  <2>5. locked' \in [Runs -> SUBSET seen]
    BY <1>a, <2>1, <2>2
  <2>6. UNCHANGED <<seen, topic, sending, conn, downs, lostSends, table, deleted, oldRows>>
    BY <2>1 DEF serviceVars
  <2>7. {begun', second', overwritten', refused', failures', overlapping', downs', lostSends'} \subseteq Nat
    BY <1>a, <2>1, <2>3, <2>6
  <2>8. QED
    BY <1>a, <1>b, <2>4, <2>5, <2>6, <2>7
<1>7. ASSUME NEW r \in Runs, Upload(r) PROVE TrailTypes'
  <2>1. run[r] # <<>>
    BY <1>7 DEF Upload, InRun
  <2>2. run' \in [Runs -> RunStates]
    <3>1. <<"delete", Fetched(r), Number(r), Which(r)>> \in RunStates
      BY <2>1, AtWork DEF RunStates
    <3>2. QED
      BY <1>a, <1>7, <2>1, <3>1, AtWork
  <2>3. /\ overwritten' = overwritten \/ overwritten' = overwritten + 1
        /\ UNCHANGED <<serviceVars, begun, locked, deleted, refused, failures, overlapping, table, oldRows, second>>
    <3>1. overwritten' = overwritten + IF \E a \in archive : a[1] = Key(r) /\ a[2] # Which(r) THEN 1 ELSE 0
      BY <1>7 DEF Upload
    <3>2. UNCHANGED <<serviceVars, begun, locked, deleted, refused, failures, overlapping, table, oldRows, second>>
      BY <1>7 DEF Upload
    <3>3. QED
      BY <1>a, <3>1, <3>2
  <2>4. UNCHANGED <<seen, topic, sending, conn, downs, lostSends, table, deleted, oldRows>>
    BY <2>3 DEF serviceVars
  <2>5. {begun', second', overwritten', refused', failures', overlapping', downs', lostSends'} \subseteq Nat
    BY <1>a, <2>3, <2>4
  <2>6. QED
    BY <1>a, <1>b, <2>2, <2>3, <2>4, <2>5
<1>8. ASSUME NEW r \in Runs, DeleteChunk(r) PROVE TrailTypes'
  <2>1. run[r] # <<>>
    BY <1>8, DeletesRows DEF InRun
  <2>2. /\ UNCHANGED <<seen, topic, sending, conn, downs, lostSends, begun, overwritten, failures, overlapping, oldRows, second>>
        /\ refused' = refused \/ refused' = refused + 1
        /\ run' = [run EXCEPT ![r] = <<>>]
           \/ run' = [run EXCEPT ![r] = <<"upload", Fetched(r) \ Chunk(r), Number(r) + 1, Which(r)>>]
        /\ locked' = [locked EXCEPT ![r] = {}]
        /\ \/ UNCHANGED <<table, deleted>>
           \/ table' = table \ Chunk(r) /\ deleted' = deleted \cup (Chunk(r) \cap table)
    BY <1>8, DeletesRows DEF serviceVars, EndRun
  <2>3. run' \in [Runs -> RunStates]
    <3>1. <<"upload", Fetched(r) \ Chunk(r), Number(r) + 1, Which(r)>> \in RunStates /\ <<>> \in RunStates
      BY <2>1, AtWork DEF RunStates
    <3>2. QED
      BY <1>a, <2>2, <3>1
  <2>4. locked' \in [Runs -> SUBSET seen]
    BY <1>a, <2>2
  <2>5. table' \in SUBSET seen /\ deleted' \in SUBSET seen /\ table' \cap deleted' = {}
    BY <1>a, <2>2
  <2>6. {begun', second', overwritten', refused', failures', overlapping', downs', lostSends'} \subseteq Nat
    BY <1>a, <2>2
  <2>7. QED
    BY <1>a, <1>b, <2>2, <2>3, <2>4, <2>5, <2>6
<1>9. ASSUME NEW r \in Runs, FailRun(r) PROVE TrailTypes'
  <2>1. /\ EndRun(r) /\ UNCHANGED <<serviceVars, begun, deleted, overwritten, refused, overlapping, table, oldRows, second>>
    BY <1>9 DEF FailRun
  <2>2. failures' \in Nat
    <3>1. failures' = failures + IF InRun(r, "delete") THEN 1 ELSE 0
      BY <1>9 DEF FailRun
    <3>2. QED
      BY <1>a, <3>1
  <2>3. run' \in [Runs -> RunStates] /\ locked' \in [Runs -> SUBSET seen]
    BY <1>a, <2>1 DEF EndRun, RunStates
  <2>4. UNCHANGED <<seen, topic, sending, conn, downs, lostSends, table, deleted, oldRows>>
    BY <2>1 DEF serviceVars
  <2>5. {begun', second', overwritten', refused', failures', overlapping', downs', lostSends'} \subseteq Nat
    BY <1>a, <2>1, <2>2, <2>4
  <2>6. QED
    BY <1>a, <1>b, <2>3, <2>4, <2>5
<1>10. QED
  BY <1>1, <1>2, <1>3, <1>4, <1>5, <1>6, <1>7, <1>8, <1>9 DEF AuditNext

\* The runs move entries out of the table and leave the service alone.
LEMMA RunsKeepStored ==
  ASSUME TrailTypes, NEW r \in Runs, Fetch(r) \/ Upload(r) \/ DeleteChunk(r) \/ FailRun(r)
  PROVE  Stored' = Stored /\ UNCHANGED <<seen, topic, sending, conn, downs, lostSends>> /\ database' = database
<1>1. CASE Fetch(r) \/ Upload(r) \/ FailRun(r)
  <2>1. UNCHANGED <<serviceVars, table, deleted, database>>
    BY <1>1, Zenon DEF Fetch, Upload, FailRun
  <2>2. QED
    BY <2>1, Zenon DEF serviceVars, Stored
<1>2. CASE DeleteChunk(r)
  <2>1. UNCHANGED <<serviceVars, database>>
    BY <1>2, DeletesRows
  <2>2. (table' = table /\ deleted' = deleted)
        \/ (table' = table \ Chunk(r) /\ deleted' = deleted \cup (Chunk(r) \cap table))
    BY <1>2, DeletesRows
  <2>3. Stored' = Stored
    BY <2>2 DEF Stored
  <2>4. QED
    BY <2>1, <2>3, Zenon DEF serviceVars
<1>3. QED
  BY <1>1, <1>2

LEMMA MissedInvStep == TrailTypes /\ MissedInv /\ AuditNext => MissedInv'
<1> SUFFICES ASSUME TrailTypes, MissedInv, AuditNext PROVE MissedInv'
  OBVIOUS
<1>a. /\ downs \in Nat /\ (seen \subseteq Stored \/ downs > 0)
      /\ (conn # "open" => downs > 0) /\ (database \/ downs > 0)
  BY DEF TrailTypes, MissedInv
<1>1. ASSUME NEW e \in Entries, Receive(e) PROVE MissedInv'
  <2>1. /\ seen' = seen \cup {e} /\ UNCHANGED <<deleted, downs>> /\ table \subseteq table'
        /\ Stores => table' = table \cup {e}
        /\ conn' = conn \/ ~database
    BY <1>1, Zenon DEF Receive, runVars
  <2>2. database' = database
    BY <1>1, Zenon DEF Receive
  <2>3. CASE downs > 0
    BY <2>1, <2>3 DEF MissedInv
  <2>4. CASE ~(downs > 0)
    <3>1. Stores /\ seen \subseteq Stored
      BY <2>4, <1>a DEF Stores
    <3>2. seen' \subseteq Stored'
      BY <2>1, <3>1 DEF Stored
    <3>3. conn' # "open" => downs' > 0
      BY <2>1, <2>4, <1>a
    <3>4. database' \/ downs' > 0
      BY <2>2, <2>4, <1>a
    <3>5. QED
      BY <3>2, <3>3, <3>4 DEF MissedInv
  <2>5. QED
    BY <2>3, <2>4
<1>2. CASE Produce \/ GrowOldRow \/ PassSecond
  <2>1. UNCHANGED <<seen, table, deleted, conn, downs, database>>
    BY <1>2, Zenon DEF Produce, GrowOldRow, PassSecond, serviceVars, runVars
  <2>2. QED
    BY <2>1 DEF MissedInv, Stored
<1>3. CASE RestartService
  <2>1. UNCHANGED <<seen, table, deleted, database>>
    BY <1>3, Zenon DEF RestartService, runVars
  <2>2. (conn' = "open" /\ downs' = downs) \/ downs' = downs + 1
    BY <1>3, Zenon DEF RestartService
  <2>3. QED
    BY <1>a, <2>1, <2>2 DEF MissedInv, Stored
<1>4. CASE DatabaseDown
  <2>1. downs' = downs + 1
    BY <1>4, Zenon DEF DatabaseDown
  <2>2. QED
    BY <1>a, <2>1 DEF MissedInv
<1>5. CASE DatabaseUp
  <2>1. UNCHANGED <<seen, table, deleted, conn, downs>>
    BY <1>5, Zenon DEF DatabaseUp, serviceVars, runVars
  <2>2. database'
    BY <1>5, Zenon DEF DatabaseUp
  <2>3. QED
    BY <1>a, <2>1, <2>2 DEF MissedInv, Stored
<1>6. ASSUME NEW r \in Runs, Fetch(r) \/ Upload(r) \/ DeleteChunk(r) \/ FailRun(r) PROVE MissedInv'
  <2>1. Stored' = Stored /\ UNCHANGED <<seen, conn, downs, database>>
    BY <1>6, RunsKeepStored
  <2>2. QED
    BY <2>1 DEF MissedInv
<1>7. QED
  BY <1>1, <1>2, <1>3, <1>4, <1>5, <1>6 DEF AuditNext

LEMMA TopicInvStep == TrailTypes /\ TopicInv /\ AuditNext => TopicInv'
<1> SUFFICES ASSUME TrailTypes, TopicInv, AuditNext PROVE TopicInv'
  OBVIOUS
<1> DEFINE Unsent == Stored \ (topic \cup sending)
           Unsent1 == Stored' \ (topic' \cup sending')
<1>a. /\ lostSends \in Nat /\ topic \subseteq Stored /\ sending \subseteq Stored
      /\ sending = {} \/ \E e \in Entries : sending = {e}
      /\ Stored \in SUBSET Entries /\ Cardinality(Unsent) <= lostSends
  BY DEF TrailTypes, TopicInv, Stored
<1>b. Unsent \in SUBSET Entries /\ IsFiniteSet(Unsent) /\ Cardinality(Unsent) \in Nat
  BY <1>a, Logged
<1>c. ASSUME topic' \subseteq Stored', sending' \subseteq Stored', sending' = {} \/ \E e \in Entries : sending' = {e},
             Cardinality(Unsent1) <= lostSends'
      PROVE  TopicInv'
  BY <1>c DEF TopicInv
<1>d. Cardinality(sending) <= 1 /\ Cardinality(sending) \in Nat /\ IsFiniteSet(sending)
  <2>1. CASE sending = {}
    BY <2>1, FS_EmptySet
  <2>2. CASE sending # {}
    <3>1. PICK e \in Entries : sending = {e}
      BY <2>2, <1>a
    <3>2. Cardinality({e}) = 1 /\ IsFiniteSet({e})
      BY FS_Singleton
    <3>3. QED
      BY <3>1, <3>2
  <2>3. QED
    BY <2>1, <2>2
\* What was being sent may stay unsent.
<1>e. ASSUME sending' = {}, Stored' = Stored, topic' = topic
      PROVE  Cardinality(Unsent1) \in Nat /\ Cardinality(Unsent1) <= Cardinality(Unsent) + Cardinality(sending)
  <2>1. Unsent1 \subseteq Unsent \cup sending /\ Unsent \cap sending = {}
    BY <1>e, <1>a
  <2>2. Cardinality({}) = 0
    BY FS_EmptySet
  <2>3. Cardinality(Unsent \cup sending) = Cardinality(Unsent) + Cardinality(sending) - Cardinality(Unsent \cap sending)
    BY <1>b, <1>d, FS_Union
  <2>4. Cardinality(Unsent \cap sending) = 0
    BY <2>1, <2>2
  <2>5. Cardinality(Unsent1) \in Nat /\ Cardinality(Unsent1) <= Cardinality(Unsent \cup sending)
    <3>1. Unsent \cup sending \in SUBSET Entries
      BY <1>a
    <3>2. QED
      BY <2>1, <3>1, Logged
  <2>6. QED
    BY <1>b, <1>d, <2>3, <2>4, <2>5
<1> HIDE DEF Unsent, Unsent1
<1>1. ASSUME NEW e \in Entries, Receive(e) PROVE TopicInv'
  <2>1. /\ sending = {} /\ UNCHANGED <<topic, deleted, lostSends>>
        /\ (table' = table \cup {e} /\ sending' = {e}) \/ (table' = table /\ sending' = sending)
    BY <1>1, Zenon DEF Receive, runVars
  <2>2. Unsent1 \subseteq Unsent
    BY <2>1 DEF Unsent, Unsent1, Stored
  <2>3. Cardinality(Unsent1) <= Cardinality(Unsent) /\ Cardinality(Unsent1) \in Nat
    BY <2>2, <1>b, Logged
  <2>4. topic' \subseteq Stored' /\ sending' \subseteq Stored' /\ (sending' = {} \/ \E f \in Entries : sending' = {f})
    BY <2>1, <1>a DEF Stored
  <2>5. lostSends' = lostSends
    BY <2>1
  <2>6. QED
    BY <1>a, <1>b, <1>c, <2>3, <2>4, <2>5
<1>2. CASE Produce
  <2>1. /\ sending' = {} /\ UNCHANGED <<table, deleted>>
        /\ \/ topic' = topic \cup sending /\ lostSends' = lostSends
           \/ topic' = topic /\ lostSends' = lostSends + 1
    BY <1>2, Zenon DEF Produce, Send, runVars
  <2>2. Stored' = Stored
    BY <2>1 DEF Stored
  <2>3. CASE topic' = topic \cup sending /\ lostSends' = lostSends
    <3>1. Unsent1 = Unsent
      BY <2>1, <2>2, <2>3 DEF Unsent, Unsent1
    <3>2. QED
      BY <1>a, <1>c, <2>1, <2>2, <2>3, <3>1
  <2>4. CASE topic' = topic /\ lostSends' = lostSends + 1
    <3>1. Cardinality(Unsent1) \in Nat /\ Cardinality(Unsent1) <= Cardinality(Unsent) + Cardinality(sending)
      BY <1>e, <2>1, <2>2, <2>4
    <3>2. Cardinality(Unsent1) <= lostSends'
      BY <1>a, <1>b, <1>d, <2>4, <3>1
    <3>3. QED
      BY <1>a, <1>c, <2>1, <2>2, <2>4, <3>2
  <2>5. QED
    BY <2>1, <2>3, <2>4
<1>3. CASE RestartService
  <2>1. sending' = {} /\ UNCHANGED <<table, deleted, topic>> /\ lostSends' = lostSends + Cardinality(sending)
    BY <1>3, Zenon DEF RestartService, runVars
  <2>2. Stored' = Stored
    BY <2>1 DEF Stored
  <2>3. Cardinality(Unsent1) \in Nat /\ Cardinality(Unsent1) <= Cardinality(Unsent) + Cardinality(sending)
    BY <1>e, <2>1, <2>2
  <2>4. Cardinality(Unsent1) <= lostSends'
    BY <1>a, <1>b, <1>d, <2>1, <2>3
  <2>5. QED
    BY <1>a, <1>c, <2>1, <2>2, <2>4
<1>4. ASSUME Stored' = Stored, UNCHANGED <<topic, sending, lostSends>> PROVE TopicInv'
  <2>1. Unsent1 = Unsent /\ lostSends' = lostSends
    BY <1>4 DEF Unsent, Unsent1
  <2>2. QED
    BY <1>a, <1>c, <1>4, <2>1
<1>5. CASE GrowOldRow \/ PassSecond \/ DatabaseDown \/ DatabaseUp
  <2>1. UNCHANGED <<table, deleted, topic, sending, lostSends>>
    BY <1>5, Zenon DEF GrowOldRow, PassSecond, DatabaseDown, DatabaseUp, serviceVars, runVars
  <2>2. QED
    BY <2>1, <1>4 DEF Stored
<1>6. ASSUME NEW r \in Runs, Fetch(r) \/ Upload(r) \/ DeleteChunk(r) \/ FailRun(r) PROVE TopicInv'
  BY <1>6, <1>4, RunsKeepStored
<1>7. QED
  BY <1>1, <1>2, <1>3, <1>5, <1>6 DEF AuditNext

\* What becomes of the runs, and of what they have uploaded, in a step of one of them.
LEMMA RunsMove ==
  ASSUME TrailTypes, NEW r \in Runs
  PROVE  /\ Fetch(r) =>
              /\ run[r] = <<>> /\ UNCHANGED <<archive, table, deleted, overwritten, refused, failures>> /\ begun' = begun + 1
              /\ run' = [run EXCEPT ![r] = <<"upload", (table \cap oldRows) \ LockedByOthers(r), 1, begun + 1>>]
              /\ overlapping' = overlapping + IF \E s \in Runs : run[s] # <<>> THEN 1 ELSE 0
         /\ Upload(r) =>
              /\ InRun(r, "upload") /\ UNCHANGED <<begun, table, deleted, refused, failures, overlapping>>
              /\ run' = [run EXCEPT ![r] = <<"delete", Fetched(r), Number(r), Which(r)>>]
         /\ FailRun(r) =>
              /\ run[r] # <<>> /\ run' = [run EXCEPT ![r] = <<>>]
              /\ UNCHANGED <<archive, begun, table, deleted, overwritten, refused, overlapping>>
              /\ failures' = failures + IF InRun(r, "delete") THEN 1 ELSE 0
<1>1. ASSUME Fetch(r)
      PROVE  /\ run[r] = <<>> /\ UNCHANGED <<archive, table, deleted, overwritten, refused, failures>> /\ begun' = begun + 1
             /\ run' = [run EXCEPT ![r] = <<"upload", (table \cap oldRows) \ LockedByOthers(r), 1, begun + 1>>]
             /\ overlapping' = overlapping + IF \E s \in Runs : run[s] # <<>> THEN 1 ELSE 0
  BY <1>1, Zenon DEF Fetch
<1>2. ASSUME Upload(r)
      PROVE  /\ InRun(r, "upload") /\ UNCHANGED <<begun, table, deleted, refused, failures, overlapping>>
             /\ run' = [run EXCEPT ![r] = <<"delete", Fetched(r), Number(r), Which(r)>>]
  <2>1. InRun(r, "upload") /\ UNCHANGED <<begun, table, deleted, refused, failures, overlapping>>
    BY <1>2, Zenon DEF Upload
  <2>2. QED
    BY <1>2, <2>1, AtWork DEF InRun
<1>3. ASSUME FailRun(r)
      PROVE  /\ run[r] # <<>> /\ run' = [run EXCEPT ![r] = <<>>]
             /\ UNCHANGED <<archive, begun, table, deleted, overwritten, refused, overlapping>>
             /\ failures' = failures + IF InRun(r, "delete") THEN 1 ELSE 0
  BY <1>3, Zenon DEF FailRun, EndRun
<1>4. QED
  BY <1>1, <1>2, <1>3

\* The object that is uploaded, and the one that it is put over.
LEMMA Uploaded ==
  ASSUME TrailTypes, InArchiveInv, NEW r \in Runs, Upload(r)
  PROVE  /\ Fetched(r) \in SUBSET Entries /\ Number(r) \in Nat /\ Which(r) \in 1 .. begun
         /\ Chunk(r) \in SUBSET Fetched(r) /\ Cardinality(Chunk(r)) <= ChunkSize
         /\ archive' = {a \in archive : a[1] # Key(r)} \cup {<<Key(r), Which(r), Chunk(r)>>}
         /\ overwritten' = IF \E a \in archive : a[1] = Key(r) THEN overwritten + 1 ELSE overwritten
<1>1. InRun(r, "upload") /\ run[r] # <<>>
  BY RunsMove DEF InRun
<1>2. /\ Fetched(r) \in SUBSET Entries /\ Number(r) \in Nat
      /\ Chunk(r) \in SUBSET Fetched(r) /\ Cardinality(Chunk(r)) <= ChunkSize
  BY <1>1, AtWork
<1>3. Which(r) \in 1 .. begun
  BY <1>1 DEF InArchiveInv
<1>4. /\ archive' = {a \in archive : a[1] # Key(r)} \cup {<<Key(r), Which(r), Chunk(r)>>}
      /\ overwritten' = overwritten + IF \E a \in archive : a[1] = Key(r) /\ a[2] # Which(r) THEN 1 ELSE 0
  BY DEF Upload
<1>5. ASSUME NEW a \in archive, a[1] = Key(r) PROVE a[2] # Which(r)
  <2>1. a[1][2] = Number(r)
    BY <1>5 DEF Key
  <2>2. ~InRun(r, "delete")
    BY <1>1 DEF InRun
  <2>3. QED
    BY <1>1, <1>2, <2>1, <2>2 DEF InArchiveInv
<1>6. overwritten \in Nat
  BY DEF TrailTypes
<1>7. overwritten' = IF \E a \in archive : a[1] = Key(r) THEN overwritten + 1 ELSE overwritten
  BY <1>4, <1>5, <1>6
<1>8. QED
  BY <1>2, <1>3, <1>4, <1>7

\* One run that ends, or goes on under its number, takes no one else's objects.
LEMMA ObjectsStay ==
  ASSUME TrailTypes, InArchiveInv, NEW r \in Runs, run[r] # <<>>, archive' = archive, begun' = begun,
         \/ run' = [run EXCEPT ![r] = <<>>]
         \/ \E rest : InRun(r, "delete") /\ run' = [run EXCEPT ![r] = <<"upload", rest, Number(r) + 1, Which(r)>>]
  PROVE  InArchiveInv'
<1>1. /\ IsFiniteSet(archive)
      /\ \A a \in archive : /\ a[2] \in 1 .. begun /\ a[3] \in SUBSET Entries /\ Cardinality(a[3]) <= ChunkSize
                            /\ a = <<a[1], a[2], a[3]>> /\ a[1] = <<a[1][1], a[1][2]>> /\ a[1][2] \in Nat
      /\ \A a, b \in archive : a[1] = b[1] => a = b
  BY DEF InArchiveInv
<1>2. /\ \A s \in Runs : run[s] # <<>> => Which(s) \in 1 .. begun
      /\ \A s, t \in Runs : run[s] # <<>> /\ run[t] # <<>> /\ Which(s) = Which(t) => s = t
      /\ \A s \in Runs, a \in archive : run[s] # <<>> /\ a[2] = Which(s) =>
           a[1][2] < Number(s) \/ (InRun(s, "delete") /\ a[1][2] <= Number(s))
  BY DEF InArchiveInv
<1>3. Number(r) \in Nat
  BY AtWork
<1>4. /\ \A s \in Runs \ {r} : run'[s] = run[s]
      /\ run'[r] = <<>> \/ (InRun(r, "delete") /\ Number(r)' = Number(r) + 1 /\ Which(r)' = Which(r))
  <2>1. CASE run' = [run EXCEPT ![r] = <<>>]
    BY <2>1, OtherRunsStay
  <2>2. CASE \E rest : InRun(r, "delete") /\ run' = [run EXCEPT ![r] = <<"upload", rest, Number(r) + 1, Which(r)>>]
    <3>1. PICK rest : InRun(r, "delete") /\ run' = [run EXCEPT ![r] = <<"upload", rest, Number(r) + 1, Which(r)>>]
      BY <2>2
    <3>2. run'[r] = <<"upload", rest, Number(r) + 1, Which(r)>> /\ \A s \in Runs \ {r} : run'[s] = run[s]
      BY <3>1, OtherRunsStay
    <3>3. Number(r)' = Number(r) + 1 /\ Which(r)' = Which(r)
      BY <3>2 DEF Number, Which
    <3>4. QED
      BY <3>1, <3>2, <3>3
  <2>3. QED
    BY <2>1, <2>2
<1>5. \A s \in Runs : run'[s] # <<>> => run[s] # <<>> /\ Which(s)' = Which(s)
  BY <1>4 DEF Which
<1>6. ASSUME NEW s \in Runs, NEW a \in archive, run'[s] # <<>>, a[2] = Which(s)'
      PROVE  a[1][2] < Number(s)' \/ (InRun(s, "delete")' /\ a[1][2] <= Number(s)')
  <2>1. CASE s = r
    <3>1. Number(s)' = Number(s) + 1 /\ a[2] = Which(s) /\ a[1][2] \in Nat /\ run[s] # <<>>
      BY <1>1, <1>4, <1>6, <2>1
    <3>2. a[1][2] < Number(s) \/ a[1][2] <= Number(s)
      BY <1>2, <3>1
    <3>3. QED
      BY <1>3, <2>1, <3>1, <3>2
  <2>2. CASE s # r
    <3>1. run'[s] = run[s] /\ run[s] # <<>> /\ a[2] = Which(s)
      BY <1>4, <1>5, <1>6, <2>2
    <3>2. a[1][2] < Number(s) \/ (InRun(s, "delete") /\ a[1][2] <= Number(s))
      BY <1>2, <3>1
    <3>3. QED
      BY <3>1, <3>2 DEF Number, InRun
  <2>3. QED
    BY <2>1, <2>2
<1>7. \A s \in Runs : run'[s] # <<>> => Which(s)' \in 1 .. begun'
  BY <1>2, <1>5
<1>8. \A s, t \in Runs : run'[s] # <<>> /\ run'[t] # <<>> /\ Which(s)' = Which(t)' => s = t
  BY <1>2, <1>5
<1>9. QED
  BY <1>1, <1>6, <1>7, <1>8 DEF InArchiveInv

LEMMA ObjectsInvStep ==
  ASSUME TrailTypes, InArchiveInv, NEW r \in Runs, Fetch(r) \/ Upload(r) \/ DeleteChunk(r) \/ FailRun(r)
  PROVE  InArchiveInv'
<1>a. /\ IsFiniteSet(archive) /\ begun \in Nat
      /\ \A a \in archive : /\ a[2] \in 1 .. begun /\ a[3] \in SUBSET Entries /\ Cardinality(a[3]) <= ChunkSize
                            /\ a = <<a[1], a[2], a[3]>> /\ a[1] = <<a[1][1], a[1][2]>> /\ a[1][2] \in Nat
      /\ \A a, b \in archive : a[1] = b[1] => a = b
  BY DEF InArchiveInv, TrailTypes
<1>b. /\ \A s \in Runs : run[s] # <<>> => Which(s) \in 1 .. begun
      /\ \A s, t \in Runs : run[s] # <<>> /\ run[t] # <<>> /\ Which(s) = Which(t) => s = t
      /\ \A s \in Runs, a \in archive : run[s] # <<>> /\ a[2] = Which(s) =>
           a[1][2] < Number(s) \/ (InRun(s, "delete") /\ a[1][2] <= Number(s))
  BY DEF InArchiveInv
<1>1. CASE Fetch(r)
  <2>1. /\ archive' = archive /\ begun' = begun + 1 /\ run[r] = <<>>
        /\ \E fetched : run' = [run EXCEPT ![r] = <<"upload", fetched, 1, begun + 1>>]
    BY <1>1, RunsMove
  <2>2. Which(r)' = begun + 1 /\ \A s \in Runs \ {r} : run'[s] = run[s]
    <3>1. PICK fetched : run' = [run EXCEPT ![r] = <<"upload", fetched, 1, begun + 1>>]
      BY <2>1
    <3>2. run'[r] = <<"upload", fetched, 1, begun + 1>> /\ \A s \in Runs \ {r} : run'[s] = run[s]
      BY <3>1, OtherRunsStay
    <3>3. QED
      BY <3>2 DEF Which
  <2>3. \A s \in Runs \ {r} : run'[s] # <<>> => run[s] # <<>> /\ Which(s)' = Which(s) /\ Which(s) \in 1 .. begun
    BY <1>b, <2>2 DEF Which
  <2>4. \A s \in Runs : run'[s] # <<>> => Which(s)' \in 1 .. begun'
    BY <1>a, <2>1, <2>2, <2>3
  <2>5. \A s, t \in Runs : run'[s] # <<>> /\ run'[t] # <<>> /\ Which(s)' = Which(t)' => s = t
    <3>1. ASSUME NEW s \in Runs, NEW t \in Runs, run'[s] # <<>>, run'[t] # <<>>, Which(s)' = Which(t)' PROVE s = t
      <4>1. CASE s # r /\ t # r
        BY <1>b, <2>3, <3>1, <4>1
      <4>2. CASE s = r \/ t = r
        BY <1>a, <2>2, <2>3, <3>1, <4>2
      <4>3. QED
        BY <4>1, <4>2
    <3>2. QED
      BY <3>1
  <2>6. ASSUME NEW s \in Runs, NEW a \in archive, run'[s] # <<>>, a[2] = Which(s)'
        PROVE  a[1][2] < Number(s)' \/ (InRun(s, "delete")' /\ a[1][2] <= Number(s)')
    <3>1. s # r
      BY <1>a, <2>2, <2>6
    <3>2. run'[s] = run[s] /\ run[s] # <<>> /\ a[2] = Which(s)
      BY <2>2, <2>3, <2>6, <3>1
    <3>3. a[1][2] < Number(s) \/ (InRun(s, "delete") /\ a[1][2] <= Number(s))
      BY <1>b, <3>2
    <3>4. QED
      BY <3>2, <3>3 DEF Number, InRun
  <2>7. \A a \in archive : a[2] \in 1 .. begun'
    BY <1>a, <2>1
  <2>8. QED
    BY <1>a, <2>1, <2>4, <2>5, <2>6, <2>7 DEF InArchiveInv
<1>2. CASE Upload(r)
  <2> DEFINE new == <<Key(r), Which(r), Chunk(r)>>
  <2>1. /\ InRun(r, "upload") /\ run[r] # <<>> /\ begun' = begun
        /\ run' = [run EXCEPT ![r] = <<"delete", Fetched(r), Number(r), Which(r)>>]
    BY <1>2, RunsMove DEF InRun
  <2>2. /\ Fetched(r) \in SUBSET Entries /\ Number(r) \in Nat /\ Which(r) \in 1 .. begun
        /\ Chunk(r) \in SUBSET Fetched(r) /\ Cardinality(Chunk(r)) <= ChunkSize
        /\ archive' = {a \in archive : a[1] # Key(r)} \cup {new}
    BY <1>2, Uploaded
  <2>3. /\ new[1] = Key(r) /\ new[2] = Which(r) /\ new[3] = Chunk(r) /\ new = <<new[1], new[2], new[3]>>
        /\ new[1] = <<new[1][1], new[1][2]>> /\ new[1][2] = Number(r)
    BY DEF Key
  <2> HIDE DEF new
  <2>4. \A a \in archive' : (a \in archive /\ a[1] # Key(r)) \/ a = new
    BY <2>2
  <2>5. IsFiniteSet(archive')
    <3>1. IsFiniteSet({a \in archive : a[1] # Key(r)})
      BY <1>a, FS_Subset
    <3>2. QED
      BY <2>2, <3>1, FS_AddElement
  <2>6. \A a \in archive' : /\ a[2] \in 1 .. begun' /\ a[3] \in SUBSET Entries /\ Cardinality(a[3]) <= ChunkSize
                            /\ a = <<a[1], a[2], a[3]>> /\ a[1] = <<a[1][1], a[1][2]>> /\ a[1][2] \in Nat
    <3>1. new[2] \in 1 .. begun /\ new[3] \in SUBSET Entries /\ Cardinality(new[3]) <= ChunkSize /\ new[1][2] \in Nat
      BY <2>2, <2>3
    <3>2. QED
      BY <1>a, <2>1, <2>3, <2>4, <3>1
  <2>7. \A a, b \in archive' : a[1] = b[1] => a = b
    BY <1>a, <2>3, <2>4
  <2>8. /\ \A s \in Runs \ {r} : run'[s] = run[s]
        /\ run'[r] = <<"delete", Fetched(r), Number(r), Which(r)>>
    BY <2>1, OtherRunsStay
  <2>9. Number(r)' = Number(r) /\ Which(r)' = Which(r) /\ InRun(r, "delete")'
    BY <2>8 DEF Number, Which, InRun
  <2>10. \A s \in Runs : run'[s] # <<>> => run[s] # <<>> /\ Which(s)' = Which(s) /\ Number(s)' = Number(s)
    BY <2>1, <2>8, <2>9 DEF Number, Which
  <2>11. ASSUME NEW s \in Runs, NEW a \in archive', run'[s] # <<>>, a[2] = Which(s)'
         PROVE  a[1][2] < Number(s)' \/ (InRun(s, "delete")' /\ a[1][2] <= Number(s)')
    <3>1. CASE a = new
      <4>1. s = r
        BY <1>b, <2>1, <2>3, <2>10, <2>11, <3>1
      <4>2. QED
        BY <2>2, <2>3, <2>9, <3>1, <4>1
    <3>2. CASE a \in archive
      <4>1. a[1][2] < Number(s) \/ (InRun(s, "delete") /\ a[1][2] <= Number(s))
        BY <1>b, <2>10, <2>11, <3>2
      <4>2. InRun(s, "delete") => InRun(s, "delete")'
        BY <2>8, <2>9 DEF InRun
      <4>3. QED
        BY <2>10, <2>11, <4>1, <4>2
    <3>3. QED
      BY <2>4, <2>11, <3>1, <3>2
  <2>12. \A s \in Runs : run'[s] # <<>> => Which(s)' \in 1 .. begun'
    BY <1>b, <2>1, <2>10
  <2>13. \A s, t \in Runs : run'[s] # <<>> /\ run'[t] # <<>> /\ Which(s)' = Which(t)' => s = t
    BY <1>b, <2>10
  <2>14. QED
    BY <2>5, <2>6, <2>7, <2>11, <2>12, <2>13 DEF InArchiveInv
<1>3. CASE DeleteChunk(r)
  <2>1. run[r] # <<>> /\ InRun(r, "delete") /\ archive' = archive /\ begun' = begun
    BY <1>3, DeletesRows DEF InRun
  <2>2. \/ run' = [run EXCEPT ![r] = <<>>]
        \/ run' = [run EXCEPT ![r] = <<"upload", Fetched(r) \ Chunk(r), Number(r) + 1, Which(r)>>]
    BY <1>3, DeletesRows DEF EndRun
  <2>3. QED
    BY <2>1, <2>2, ObjectsStay
<1>4. CASE FailRun(r)
  <2>1. run[r] # <<>> /\ run' = [run EXCEPT ![r] = <<>>] /\ archive' = archive /\ begun' = begun
    BY <1>4, RunsMove
  <2>2. QED
    BY <2>1, ObjectsStay
<1>5. QED
  BY <1>1, <1>2, <1>3, <1>4

\* What is about to be deleted after a step of a run.
LEMMA PendingAfter ==
  ASSUME TrailTypes, NEW r \in Runs
  PROVE  /\ Fetch(r) => Pending' = Pending
         /\ Upload(r) => Pending' \subseteq Pending \cup Chunk(r) /\ Chunk(r) \cup Pending \subseteq Pending'
         /\ DeleteChunk(r) => Chunk(r) \cup Pending' \subseteq Pending
         /\ FailRun(r) => Pending' \subseteq Pending
         /\ FailRun(r) /\ ~InRun(r, "delete") => Pending' = Pending
<1>a. ASSUME NEW s \in Runs, run'[s] = run[s] PROVE (InRun(s, "delete")' <=> InRun(s, "delete")) /\ Chunk(s)' = Chunk(s)
  BY <1>a DEF InRun, Chunk, Fetched
<1>1. ASSUME Fetch(r) PROVE Pending' = Pending
  <2>1. PICK fetched : run' = [run EXCEPT ![r] = <<"upload", fetched, 1, begun + 1>>]
    BY <1>1, RunsMove
  <2>2. run'[r] = <<"upload", fetched, 1, begun + 1>> /\ \A s \in Runs \ {r} : run'[s] = run[s]
    BY <2>1, OtherRunsStay
  <2>3. ~InRun(r, "delete") /\ ~InRun(r, "delete")'
    BY <1>1, <2>2, RunsMove DEF InRun
  <2>4. \A s \in Runs : InRun(s, "delete")' <=> InRun(s, "delete")
    BY <1>a, <2>2, <2>3
  <2>5. \A s \in Runs \ {r} : Chunk(s)' = Chunk(s)
    BY <1>a, <2>2
  <2>6. QED
    BY <2>3, <2>4, <2>5 DEF Pending
<1>2. ASSUME Upload(r) PROVE Pending' \subseteq Pending \cup Chunk(r) /\ Chunk(r) \cup Pending \subseteq Pending'
  <2>1. run[r] # <<>> /\ ~InRun(r, "delete") /\ run' = [run EXCEPT ![r] = <<"delete", Fetched(r), Number(r), Which(r)>>]
    BY <1>2, RunsMove DEF InRun
  <2>2. run'[r] = <<"delete", Fetched(r), Number(r), Which(r)>> /\ \A s \in Runs \ {r} : run'[s] = run[s]
    BY <2>1, OtherRunsStay
  <2>3. InRun(r, "delete")' /\ Chunk(r)' = Chunk(r) /\ Chunk(r) \subseteq Entries
    <3>1. Fetched(r)' = Fetched(r) /\ InRun(r, "delete")'
      BY <2>2 DEF InRun, Fetched
    <3>2. Chunk(r)' = Chunk(r)
      BY <3>1 DEF Chunk
    <3>3. Chunk(r) \subseteq Entries
      BY <2>1, AtWork
    <3>4. QED
      BY <3>1, <3>2, <3>3
  <2>4. \A s \in Runs \ {r} : (InRun(s, "delete")' <=> InRun(s, "delete")) /\ Chunk(s)' = Chunk(s)
    BY <1>a, <2>2
  <2>5. QED
    BY <2>1, <2>3, <2>4 DEF Pending
\* A run that no longer deletes.
<1>b. ASSUME ~InRun(r, "delete")', \A s \in Runs \ {r} : run'[s] = run[s] PROVE Pending' \subseteq Pending
  <2>1. \A s \in Runs \ {r} : (InRun(s, "delete")' <=> InRun(s, "delete")) /\ Chunk(s)' = Chunk(s)
    BY <1>a, <1>b
  <2>2. QED
    BY <1>b, <2>1 DEF Pending
<1>3. ASSUME DeleteChunk(r) PROVE Chunk(r) \cup Pending' \subseteq Pending
  <2>1. InRun(r, "delete") /\ run[r] # <<>>
    BY <1>3, DeletesRows DEF InRun
  <2>2. \/ run' = [run EXCEPT ![r] = <<>>]
        \/ run' = [run EXCEPT ![r] = <<"upload", Fetched(r) \ Chunk(r), Number(r) + 1, Which(r)>>]
    BY <1>3, DeletesRows DEF EndRun
  <2>3. ~InRun(r, "delete")' /\ \A s \in Runs \ {r} : run'[s] = run[s]
    <3>1. CASE run' = [run EXCEPT ![r] = <<>>]
      BY <3>1, OtherRunsStay DEF InRun
    <3>2. CASE run' = [run EXCEPT ![r] = <<"upload", Fetched(r) \ Chunk(r), Number(r) + 1, Which(r)>>]
      <4>1. run'[r] = <<"upload", Fetched(r) \ Chunk(r), Number(r) + 1, Which(r)>> /\ \A s \in Runs \ {r} : run'[s] = run[s]
        BY <3>2, OtherRunsStay
      <4>2. QED
        BY <4>1 DEF InRun
    <3>3. QED
      BY <2>2, <3>1, <3>2
  <2>4. Chunk(r) \subseteq Pending
    BY <2>1, AtWork DEF Pending
  <2>5. QED
    BY <1>b, <2>3, <2>4
<1>4. ASSUME FailRun(r) PROVE Pending' \subseteq Pending /\ (~InRun(r, "delete") => Pending' = Pending)
  <2>1. run' = [run EXCEPT ![r] = <<>>]
    BY <1>4, RunsMove
  <2>2. ~InRun(r, "delete")' /\ \A s \in Runs \ {r} : run'[s] = run[s]
    BY <2>1, OtherRunsStay DEF InRun
  <2>3. \A s \in Runs \ {r} : (InRun(s, "delete")' <=> InRun(s, "delete")) /\ Chunk(s)' = Chunk(s)
    BY <1>a, <2>2
  <2>4. ~InRun(r, "delete") => Pending' = Pending
    BY <2>2, <2>3 DEF Pending
  <2>5. QED
    BY <1>b, <2>2, <2>4
<1>5. QED
  BY <1>1, <1>2, <1>3, <1>4

LEMMA LostInvStep ==
  ASSUME TrailTypes, InArchiveInv, LostInv, NEW r \in Runs, Fetch(r) \/ Upload(r) \/ DeleteChunk(r) \/ FailRun(r)
  PROVE  LostInv'
<1> DEFINE Lost == (deleted \cup Pending) \ InArchive
           Lost1 == (deleted' \cup Pending') \ InArchive'
<1>a. overwritten \in Nat /\ ChunkSize \in Nat /\ deleted \in SUBSET Entries /\ Pending \in SUBSET Entries
  BY AuditAssumption DEF AuditAssumption, TrailTypes, Pending
<1>b. Lost \in SUBSET Entries /\ IsFiniteSet(Lost) /\ Cardinality(Lost) \in Nat /\ Cardinality(Lost) <= ChunkSize * overwritten
  BY <1>a, Logged DEF LostInv
<1>c. ASSUME Cardinality(Lost1) <= ChunkSize * overwritten' PROVE LostInv'
  BY <1>c DEF LostInv
<1> HIDE DEF Lost, Lost1
<1>d. ASSUME deleted' \cup Pending' \subseteq deleted \cup Pending, InArchive \subseteq InArchive', overwritten' = overwritten
      PROVE  LostInv'
  <2>1. Lost1 \in SUBSET Lost
    BY <1>d DEF Lost, Lost1
  <2>2. Cardinality(Lost1) <= Cardinality(Lost) /\ Cardinality(Lost1) \in Nat
    BY <1>b, <2>1, Logged
  <2>3. ChunkSize * overwritten \in Nat
    BY <1>a
  <2>4. Cardinality(Lost1) <= ChunkSize * overwritten
    BY <1>b, <2>2, <2>3
  <2>5. QED
    BY <1>c, <1>d, <2>4
<1>e. ASSUME archive' = archive PROVE InArchive' = InArchive
  BY <1>e DEF InArchive
<1>1. CASE Fetch(r)
  BY <1>1, <1>d, <1>e, RunsMove, PendingAfter
<1>2. CASE DeleteChunk(r)
  <2>1. archive' = archive /\ overwritten' = overwritten /\ deleted' \subseteq deleted \cup Chunk(r)
    BY <1>2, DeletesRows
  <2>2. Chunk(r) \cup Pending' \subseteq Pending
    BY <1>2, PendingAfter
  <2>3. QED
    BY <2>1, <2>2, <1>d, <1>e
<1>3. CASE FailRun(r)
  BY <1>3, <1>d, <1>e, RunsMove, PendingAfter
<1>4. CASE Upload(r)
  <2> DEFINE new == <<Key(r), Which(r), Chunk(r)>>
  <2>1. /\ Chunk(r) \in SUBSET Entries /\ archive' = {a \in archive : a[1] # Key(r)} \cup {new}
        /\ overwritten' = IF \E a \in archive : a[1] = Key(r) THEN overwritten + 1 ELSE overwritten
    BY <1>4, Uploaded
  <2>2. deleted' = deleted /\ Pending' \subseteq Pending \cup Chunk(r)
    BY <1>4, RunsMove, PendingAfter
  <2>3. new \in archive' /\ new[3] = Chunk(r) /\ Chunk(r) \subseteq InArchive'
    <3>1. new \in archive' /\ new[3] = Chunk(r)
      BY <2>1
    <3>2. QED
      BY <2>1, <3>1 DEF InArchive
  <2> HIDE DEF new
  <2>4. CASE \A a \in archive : a[1] # Key(r)
    <3>1. archive \subseteq archive' /\ overwritten' = overwritten
      BY <2>1, <2>4
    <3>2. InArchive \subseteq InArchive'
      BY <3>1 DEF InArchive
    <3>3. Lost1 \in SUBSET Lost
      BY <2>2, <2>3, <3>2 DEF Lost, Lost1
    <3>4. Cardinality(Lost1) <= Cardinality(Lost) /\ Cardinality(Lost1) \in Nat
      BY <1>b, <3>3, Logged
    <3>5. ChunkSize * overwritten \in Nat
      BY <1>a
    <3>6. Cardinality(Lost1) <= ChunkSize * overwritten
      BY <1>b, <3>4, <3>5
    <3>7. QED
      BY <1>c, <3>1, <3>6
  <2>5. CASE \E a \in archive : a[1] = Key(r)
    <3>1. PICK b \in archive : b[1] = Key(r)
      BY <2>5
    <3>2. b[3] \in SUBSET Entries /\ Cardinality(b[3]) <= ChunkSize /\ \A a \in archive : a[1] = Key(r) => a = b
      BY <3>1 DEF InArchiveInv
    <3>3. overwritten' = overwritten + 1
      BY <2>1, <2>5
    <3>4. InArchive \subseteq InArchive' \cup b[3]
      <4>1. ASSUME NEW e \in InArchive, e \notin b[3] PROVE e \in InArchive'
        <5>1. PICK a \in archive : e \in a[3]
          BY <4>1 DEF InArchive
        <5>2. a \in archive'
          BY <2>1, <3>2, <4>1, <5>1
        <5>3. QED
          BY <4>1, <5>1, <5>2 DEF InArchive
      <4>2. QED
        BY <4>1
    <3>5. Lost1 \subseteq Lost \cup b[3]
      BY <2>2, <2>3, <3>4 DEF Lost, Lost1
    <3>6. Lost \cup b[3] \in SUBSET Entries /\ IsFiniteSet(b[3]) /\ Cardinality(b[3]) \in Nat
      BY <1>b, <3>2, Logged
    <3>7. Cardinality(Lost \cup b[3]) \in Nat /\ Cardinality(Lost1) <= Cardinality(Lost \cup b[3]) /\ Cardinality(Lost1) \in Nat
      BY <3>5, <3>6, Logged
    <3>8. Cardinality(Lost \cap b[3]) \in Nat
      BY <3>6, Logged
    <3>9. Cardinality(Lost \cup b[3]) = Cardinality(Lost) + Cardinality(b[3]) - Cardinality(Lost \cap b[3])
      BY <1>b, <3>6, FS_Union
    <3>10. ChunkSize * (overwritten + 1) = ChunkSize * overwritten + ChunkSize /\ ChunkSize * overwritten \in Nat
      BY <1>a
    <3>11. Cardinality(Lost1) <= ChunkSize * (overwritten + 1)
      <4>1. \A x, y, z, u, w, k, m \in Nat : x <= u /\ u = y + z - w /\ y <= k /\ z <= m => x <= k + m
        OBVIOUS
      <4>2. Cardinality(Lost1) <= ChunkSize * overwritten + ChunkSize
        BY <4>1, <1>a, <1>b, <3>2, <3>6, <3>7, <3>8, <3>9, <3>10
      <4>3. QED
        BY <3>10, <4>2
    <3>12. QED
      BY <1>c, <3>3, <3>11
  <2>6. QED
    BY <2>4, <2>5
<1>5. QED
  BY <1>1, <1>2, <1>3, <1>4

LEMMA OnceInvStep ==
  ASSUME TrailTypes, InArchiveInv, OnceInv, NEW r \in Runs, Fetch(r) \/ Upload(r) \/ DeleteChunk(r) \/ FailRun(r),
         overlapping' = 0
  PROVE  OnceInv'
<1>a. /\ table \cap deleted = {} /\ table \in SUBSET Entries /\ failures \in Nat /\ refused \in Nat /\ overlapping \in Nat
      /\ IsFiniteSet(archive) /\ deleted \in SUBSET Entries
  BY DEF TrailTypes, InArchiveInv
<1>b. overlapping = 0
  <2>1. CASE Fetch(r)
    <3>1. overlapping' = overlapping + IF \E s \in Runs : run[s] # <<>> THEN 1 ELSE 0
      BY <2>1, RunsMove
    <3>2. QED
      BY <1>a, <3>1
  <2>2. CASE Upload(r) \/ DeleteChunk(r) \/ FailRun(r)
    BY <2>2, RunsMove, DeletesRows
  <2>3. QED
    BY <2>1, <2>2
<1>c. /\ \A s, t \in Runs : run[s] # <<>> /\ run[t] # <<>> => s = t
      /\ \A s \in Runs : run[s] # <<>> => Fetched(s) \subseteq table
      /\ \A e \in Entries : Cardinality(Copies(e)) <= failures + refused + 1
      /\ \A e \in Entries \ (deleted \cup Pending) : Cardinality(Copies(e)) <= failures + refused
  BY <1>b DEF OnceInv
<1>d. \A e \in Entries : IsFiniteSet(Copies(e)) /\ Cardinality(Copies(e)) \in Nat
  BY <1>a, FS_Subset, FS_CardinalityType DEF Copies
<1>e. ASSUME \A s, t \in Runs : run'[s] # <<>> /\ run'[t] # <<>> => s = t,
             \A s \in Runs : run'[s] # <<>> => Fetched(s)' \subseteq table',
             \A e \in Entries : Cardinality(Copies(e)') <= failures' + refused' + 1,
             \A e \in Entries \ (deleted' \cup Pending') : Cardinality(Copies(e)') <= failures' + refused'
      PROVE  OnceInv'
  BY <1>e DEF OnceInv
\* Once the archive stays, either what was deleted or about to be stays so, or a failure pays.
<1>f. ASSUME archive' = archive, {failures', refused'} \subseteq Nat,
             \/ failures' = failures /\ refused' = refused /\ deleted \cup Pending \subseteq deleted' \cup Pending'
             \/ failures' + refused' = failures + refused + 1
      PROVE  /\ \A e \in Entries : Cardinality(Copies(e)') <= failures' + refused' + 1
             /\ \A e \in Entries \ (deleted' \cup Pending') : Cardinality(Copies(e)') <= failures' + refused'
  <2>1. \A e \in Entries : Copies(e)' = Copies(e)
    BY <1>f DEF Copies
  <2>2. CASE failures' = failures /\ refused' = refused /\ deleted \cup Pending \subseteq deleted' \cup Pending'
    BY <1>c, <2>1, <2>2
  <2>3. CASE failures' + refused' = failures + refused + 1
    <3>1. ASSUME NEW e \in Entries
          PROVE  Cardinality(Copies(e)') <= failures' + refused' /\ Cardinality(Copies(e)') <= failures' + refused' + 1
      <4>1. Cardinality(Copies(e)') \in Nat /\ Cardinality(Copies(e)') <= failures + refused + 1
        BY <1>c, <1>d, <2>1
      <4>2. Cardinality(Copies(e)') <= failures' + refused'
        BY <2>3, <4>1
      <4>3. QED
        BY <1>f, <4>1, <4>2
    <3>2. QED
      BY <3>1
  <2>4. QED
    BY <1>f, <2>2, <2>3
<1>1. CASE Fetch(r)
  <2> DEFINE fetched == (table \cap oldRows) \ LockedByOthers(r)
  <2>1. /\ UNCHANGED <<archive, table, deleted, refused, failures>>
        /\ run' = [run EXCEPT ![r] = <<"upload", fetched, 1, begun + 1>>]
        /\ overlapping' = overlapping + IF \E s \in Runs : run[s] # <<>> THEN 1 ELSE 0
    BY <1>1, RunsMove
  <2>2. \A s \in Runs : run[s] = <<>>
    BY <2>1, <1>b
  <2>3. fetched \subseteq table
    OBVIOUS
  <2> HIDE DEF fetched
  <2>4. run'[r] = <<"upload", fetched, 1, begun + 1>> /\ \A s \in Runs \ {r} : run'[s] = <<>>
    BY <2>1, <2>2, OtherRunsStay
  <2>5. Fetched(r)' \subseteq table'
    BY <2>1, <2>3, <2>4 DEF Fetched
  <2>6. Pending' = Pending
    BY <1>1, PendingAfter
  <2>7. archive' = archive /\ {failures', refused'} \subseteq Nat /\ failures' = failures /\ refused' = refused
        /\ deleted \cup Pending \subseteq deleted' \cup Pending'
    BY <1>a, <2>1, <2>6
  <2>8. /\ \A s, t \in Runs : run'[s] # <<>> /\ run'[t] # <<>> => s = t
        /\ \A s \in Runs : run'[s] # <<>> => Fetched(s)' \subseteq table'
    BY <2>4, <2>5
  <2>9. QED
    BY <1>e, <1>f, <2>7, <2>8
<1>2. CASE Upload(r)
  <2> DEFINE new == <<Key(r), Which(r), Chunk(r)>>
  <2>1. /\ run[r] # <<>> /\ InRun(r, "upload") /\ UNCHANGED <<table, deleted, refused, failures>>
        /\ run' = [run EXCEPT ![r] = <<"delete", Fetched(r), Number(r), Which(r)>>]
    BY <1>2, RunsMove DEF InRun
  <2>2. /\ Chunk(r) \in SUBSET Fetched(r) /\ archive' = {a \in archive : a[1] # Key(r)} \cup {new}
    BY <1>2, Uploaded
  <2>3. new[3] = Chunk(r)
    OBVIOUS
  <2> HIDE DEF new
  <2>4. run'[r] = <<"delete", Fetched(r), Number(r), Which(r)>> /\ \A s \in Runs \ {r} : run'[s] = run[s]
    BY <2>1, OtherRunsStay
  <2>5. \A s \in Runs : run'[s] # <<>> => run[s] # <<>> /\ Fetched(s)' = Fetched(s)
    BY <2>1, <2>4 DEF Fetched
  <2>6. /\ \A s, t \in Runs : run'[s] # <<>> /\ run'[t] # <<>> => s = t
        /\ \A s \in Runs : run'[s] # <<>> => Fetched(s)' \subseteq table'
    BY <1>c, <2>1, <2>5
  <2>7. Chunk(r) \cup Pending \subseteq Pending'
    BY <1>2, PendingAfter
\* The rows are in the table, and nobody else is about to delete any.
  <2>8. Chunk(r) \cap (deleted \cup Pending) = {}
    <3>1. Chunk(r) \subseteq table
      BY <1>c, <2>1, <2>2
    <3>2. Pending = {}
      BY <1>c, <2>1 DEF Pending, InRun
    <3>3. QED
      BY <1>a, <3>1, <3>2
  <2>9. ASSUME NEW e \in Entries
        PROVE  /\ Cardinality(Copies(e)') <= failures + refused + 1
               /\ e \notin deleted' \cup Pending' => Cardinality(Copies(e)') <= failures + refused
    <3>1. CASE e \in Chunk(r)
      <4>1. Copies(e)' \subseteq Copies(e) \cup {new}
        BY <2>2 DEF Copies
      <4>2. Cardinality(Copies(e)) <= failures + refused
        BY <1>c, <2>8, <3>1
      <4>3. IsFiniteSet(Copies(e) \cup {new}) /\ Cardinality(Copies(e) \cup {new}) <= Cardinality(Copies(e)) + 1
            /\ Cardinality(Copies(e) \cup {new}) \in Nat
        <5>1. IsFiniteSet(Copies(e)) /\ Cardinality(Copies(e)) \in Nat
          BY <1>d
        <5>2. /\ IsFiniteSet(Copies(e) \cup {new})
              /\ \/ Cardinality(Copies(e) \cup {new}) = Cardinality(Copies(e))
                 \/ Cardinality(Copies(e) \cup {new}) = Cardinality(Copies(e)) + 1
          BY <5>1, FS_AddElement, Zenon
        <5>3. QED
          BY <5>1, <5>2
      <4>4. Cardinality(Copies(e)') \in Nat /\ Cardinality(Copies(e)') <= Cardinality(Copies(e) \cup {new})
        BY <4>1, <4>3, FS_Subset, FS_CardinalityType
      <4>5. Cardinality(Copies(e)') <= failures + refused + 1
        BY <1>a, <1>d, <4>2, <4>3, <4>4
      <4>6. e \in Pending'
        BY <2>7, <3>1
      <4>7. QED
        BY <4>5, <4>6
    <3>2. CASE e \notin Chunk(r)
      <4>1. Copies(e)' \subseteq Copies(e)
        BY <2>2, <2>3, <3>2 DEF Copies
      <4>2. Cardinality(Copies(e)') \in Nat /\ Cardinality(Copies(e)') <= Cardinality(Copies(e))
        BY <1>d, <4>1, FS_Subset, FS_CardinalityType
      <4>3. deleted' = deleted /\ Pending \subseteq Pending'
        BY <2>1, <2>7
      <4>4. e \notin deleted' \cup Pending' => e \notin deleted \cup Pending
        BY <4>3
      <4>5. Cardinality(Copies(e)) <= failures + refused + 1
            /\ (e \notin deleted' \cup Pending' => Cardinality(Copies(e)) <= failures + refused)
        BY <1>c, <4>4
      <4>6. QED
        BY <1>a, <1>d, <4>2, <4>5
    <3>3. QED
      BY <3>1, <3>2
  <2>10. failures' = failures /\ refused' = refused
    BY <2>1
  <2>11. QED
    BY <1>e, <2>6, <2>9, <2>10
<1>3. CASE DeleteChunk(r)
  <2>1. run[r] # <<>> /\ InRun(r, "delete") /\ archive' = archive /\ failures' = failures
    BY <1>3, DeletesRows DEF InRun
  <2>2. \A s \in Runs \ {r} : run[s] = <<>>
    BY <1>c, <2>1
  <2>3. Pending = Chunk(r) /\ Chunk(r) \subseteq table /\ Fetched(r) \subseteq table
    BY <1>a, <1>c, <2>1, <2>2, AtWork DEF Pending, InRun
  <2>4. CASE EndRun(r) /\ refused' = refused + 1 /\ UNCHANGED <<table, deleted>>
    <3>1. \A s \in Runs : run'[s] = <<>>
      BY <2>2, <2>4, OtherRunsStay DEF EndRun
    <3>2. {failures', refused'} \subseteq Nat /\ failures' + refused' = failures + refused + 1
      BY <1>a, <2>1, <2>4
    <3>3. QED
      BY <1>e, <1>f, <2>1, <3>1, <3>2
  <2>5. CASE /\ table' = table \ Chunk(r) /\ deleted' = deleted \cup (Chunk(r) \cap table)
             /\ refused' = refused
             /\ \/ run' = [run EXCEPT ![r] = <<>>]
                \/ run' = [run EXCEPT ![r] = <<"upload", Fetched(r) \ Chunk(r), Number(r) + 1, Which(r)>>]
    <3>1. \A s \in Runs \ {r} : run'[s] = <<>>
      BY <2>2, <2>5, OtherRunsStay
    <3>2. run'[r] = <<>> \/ Fetched(r)' = Fetched(r) \ Chunk(r)
      <4>1. CASE run' = [run EXCEPT ![r] = <<>>]
        BY <4>1, OtherRunsStay
      <4>2. CASE run' = [run EXCEPT ![r] = <<"upload", Fetched(r) \ Chunk(r), Number(r) + 1, Which(r)>>]
        <5>1. run'[r] = <<"upload", Fetched(r) \ Chunk(r), Number(r) + 1, Which(r)>>
          BY <4>2, OtherRunsStay
        <5>2. QED
          BY <5>1 DEF Fetched
      <4>3. QED
        BY <2>5, <4>1, <4>2
    <3>3. deleted \cup Pending \subseteq deleted'
      BY <2>3, <2>5
    <3>4. \A s \in Runs : run'[s] # <<>> => Fetched(s)' \subseteq table'
      BY <2>3, <2>5, <3>1, <3>2
    <3>5. \A s, t \in Runs : run'[s] # <<>> /\ run'[t] # <<>> => s = t
      BY <3>1
    <3>6. {failures', refused'} \subseteq Nat /\ failures' = failures /\ refused' = refused
          /\ deleted \cup Pending \subseteq deleted' \cup Pending'
      BY <1>a, <2>1, <2>5, <3>3
    <3>7. QED
      BY <1>e, <1>f, <2>1, <3>4, <3>5, <3>6
  <2>6. QED
    BY <1>3, <2>4, <2>5, DeletesRows
<1>4. CASE FailRun(r)
  <2>1. /\ run[r] # <<>> /\ run' = [run EXCEPT ![r] = <<>>] /\ UNCHANGED <<archive, table, deleted, refused>>
        /\ failures' = failures + IF InRun(r, "delete") THEN 1 ELSE 0
    BY <1>4, RunsMove
  <2>2. \A s \in Runs : run'[s] = <<>>
    BY <1>c, <2>1, OtherRunsStay
  <2>3. {failures', refused'} \subseteq Nat
    BY <1>a, <2>1
  <2>4. CASE InRun(r, "delete")
    <3>1. failures' + refused' = failures + refused + 1
      BY <1>a, <2>1, <2>4
    <3>2. QED
      BY <1>e, <1>f, <2>1, <2>2, <2>3, <3>1
  <2>5. CASE ~InRun(r, "delete")
    <3>1. failures' = failures /\ refused' = refused /\ Pending' = Pending /\ deleted' = deleted
      BY <1>4, <1>a, <2>1, <2>5, PendingAfter
    <3>2. deleted \cup Pending \subseteq deleted' \cup Pending'
      BY <3>1
    <3>3. QED
      BY <1>e, <1>f, <2>1, <2>2, <2>3, <3>1, <3>2
  <2>6. QED
    BY <2>4, <2>5
<1>5. QED
  BY <1>1, <1>2, <1>3, <1>4

LEMMA NextTrailInv == TrailInv /\ [AuditNext]_auditVars => TrailInv'
<1> SUFFICES ASSUME TrailInv, [AuditNext]_auditVars PROVE TrailInv'
  OBVIOUS
<1>a. TrailTypes /\ InArchiveInv /\ LostInv /\ OnceInv /\ MissedInv /\ TopicInv
  BY DEF TrailInv
<1>1. CASE AuditNext
  <2>1. TrailTypes' /\ MissedInv' /\ TopicInv'
    BY <1>1, <1>a, TrailTypesStep, MissedInvStep, TopicInvStep
  <2>2. CASE \E r \in Runs : Fetch(r) \/ Upload(r) \/ DeleteChunk(r) \/ FailRun(r)
    <3>1. PICK r \in Runs : Fetch(r) \/ Upload(r) \/ DeleteChunk(r) \/ FailRun(r)
      BY <2>2
    <3>2. InArchiveInv' /\ LostInv'
      BY <1>a, <3>1, ObjectsInvStep, LostInvStep
    <3>3. OnceInv'
      <4>1. CASE overlapping' = 0
        BY <1>a, <3>1, <4>1, OnceInvStep
      <4>2. CASE overlapping' # 0
        BY <4>2 DEF OnceInv
      <4>3. QED
        BY <4>1, <4>2
    <3>4. QED
      BY <2>1, <3>2, <3>3 DEF TrailInv
  <2>3. CASE (\E e \in Entries : Receive(e)) \/ Produce \/ RestartService \/ GrowOldRow \/ PassSecond
             \/ DatabaseDown \/ DatabaseUp
    <3>1. UNCHANGED <<run, begun, archive, deleted, overwritten, refused, failures, overlapping>> /\ table \subseteq table'
      BY <2>3, Zenon DEF Receive, Produce, RestartService, GrowOldRow, PassSecond, DatabaseDown, DatabaseUp, runVars
    <3>2. InArchiveInv' /\ LostInv' /\ OnceInv'
      BY <1>a, <3>1, Elsewhere, NoneRuns
    <3>3. QED
      BY <2>1, <3>2 DEF TrailInv
  <2>4. QED
    BY <1>1, <2>2, <2>3 DEF AuditNext
<1>2. CASE UNCHANGED auditVars
  <2>1. UNCHANGED <<run, begun, archive, deleted, overwritten, refused, failures, overlapping, table>>
        /\ UNCHANGED <<seen, topic, sending, conn, downs, lostSends, locked, oldRows, second>>
    BY <1>2 DEF auditVars, runVars, serviceVars
  <2>2. database' = database
    BY <1>2, Zenon DEF auditVars
  <2>3. InArchiveInv' /\ LostInv' /\ OnceInv'
    BY <1>a, <2>1, Elsewhere, NoneRuns
  <2>4. TrailTypes'
    BY <1>a, <2>1 DEF TrailTypes
  <2>5. TopicInv'
    BY <1>a, <2>1 DEF TopicInv, Stored
  <2>6. MissedInv'
    BY <1>a, <2>1, <2>2 DEF MissedInv, Stored
  <2>7. QED
    BY <2>3, <2>4, <2>5, <2>6 DEF TrailInv
<1>3. QED
  BY <1>1, <1>2

LEMMA TrailPays == TrailInv => TrailIsComplete
<1> SUFFICES ASSUME TrailInv PROVE TrailIsComplete
  OBVIOUS
<1>a. TrailTypes /\ InArchiveInv /\ LostInv /\ OnceInv /\ MissedInv /\ TopicInv
  BY DEF TrailInv
<1>b. /\ overwritten \in Nat /\ failures \in Nat /\ refused \in Nat /\ ChunkSize \in Nat
      /\ deleted \in SUBSET Entries /\ IsFiniteSet(archive)
  BY <1>a, AuditAssumption DEF TrailTypes, InArchiveInv, AuditAssumption
<1>1. AuditTypeOK
  BY <1>a DEF TrailTypes, AuditTypeOK
<1>2. DeletedIsArchived
  <2>1. deleted \ UNION {a[3] : a \in archive} \in SUBSET ((deleted \cup Pending) \ InArchive)
    BY <1>b DEF InArchive
  <2>2. (deleted \cup Pending) \ InArchive \in SUBSET Entries
    BY <1>b DEF Pending
  <2>3. /\ Cardinality(deleted \ UNION {a[3] : a \in archive}) \in Nat
        /\ Cardinality(deleted \ UNION {a[3] : a \in archive}) <= Cardinality((deleted \cup Pending) \ InArchive)
        /\ Cardinality((deleted \cup Pending) \ InArchive) \in Nat
    BY <2>1, <2>2, Logged
  <2>4. Cardinality((deleted \cup Pending) \ InArchive) <= ChunkSize * overwritten /\ ChunkSize * overwritten \in Nat
    BY <1>a, <1>b DEF LostInv
  <2>5. Cardinality(deleted \ UNION {a[3] : a \in archive}) <= ChunkSize * overwritten
    <3>1. \A x, y, z \in Nat : x <= y /\ y <= z => x <= z
      OBVIOUS
    <3>2. QED
      BY <2>3, <2>4, <3>1
  <2>6. QED
    BY <2>5 DEF DeletedIsArchived
<1>3. ArchivedOnce
  <2>1. SUFFICES ASSUME overlapping = 0, NEW e \in Entries
                 PROVE  Cardinality({a \in archive : e \in a[3]}) <= 1 + failures + refused
    BY DEF ArchivedOnce
  <2>2. Cardinality(Copies(e)) <= failures + refused + 1
    BY <1>a, <2>1 DEF OnceInv
  <2>3. Cardinality(Copies(e)) \in Nat
    BY <1>b, FS_Subset, FS_CardinalityType DEF Copies
  <2>4. Cardinality(Copies(e)) <= 1 + failures + refused
    BY <1>b, <2>2, <2>3
  <2>5. QED
    BY <2>4 DEF Copies
<1>4. MissedForCause /\ TopicFollowsTable
  BY <1>a DEF MissedInv, TopicInv, Stored, MissedForCause, TopicFollowsTable
<1>5. QED
  BY <1>1, <1>2, <1>3, <1>4 DEF TrailIsComplete

\* From the middleware to the table, the topic and the archive an audit entry goes missing or is
\* there twice only for its cause, for any chunk, number of runs at a time and of entries: store
\* and handle_log of the service, and archive_chunk_to_s3 before delete_archived_logs of a run.
THEOREM TrailStaysComplete == AuditSpec => []TrailIsComplete
BY InitTrailInv, NextTrailInv, TrailPays, PTL DEF AuditSpec
================================================================================
