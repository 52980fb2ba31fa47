------------------------ MODULE ResilientConsumerProofs ------------------------
(***************************************************************************)
(* Theorems about ResilientConsumer, for any number of processes, names,   *)
(* messages, crashes and faults.                                           *)
(***************************************************************************)
EXTENDS ResilientConsumer, FiniteSetTheorems, TLAPS

\* A full retry count belongs to the message that is being dead-lettered.
RetryInv ==
  \A p \in Procs : \A m \in Msgs :
    retry[p][m] = MaxRetries => pc[p] \in {"dlq", "ack"} /\ Least(m, batch[p])

\* TypeOK alone is not inductive: the bound on the retry counts needs RetryInv.
TypeInv == TypeOK /\ RetryInv

LEMMA LeastUnique ==
  ASSUME NEW S \in SUBSET Msgs, NEW a \in Msgs, NEW b \in Msgs, Least(a, S), Least(b, S)
  PROVE  a = b
BY DEF Least, Msgs

\* The retry counts of a process that has just started.
LEMMA NoRetries == [m \in Msgs |-> 0] \in [Msgs -> 0..MaxRetries]
BY ConsumerAssumption

LEMMA InitTypeInv == Init => TypeInv
<1> SUFFICES ASSUME Init PROVE TypeInv
  OBVIOUS
<1>1. retry \in [Procs -> [Msgs -> 0..MaxRetries]]
  BY NoRetries DEF Init
<1>2. /\ 0 \in 0..MaxMsgs /\ 0 \in 0..MaxCrashes /\ 0 \in 0..MaxFaults
  BY ConsumerAssumption
<1>3. TypeOK
  BY <1>1, <1>2 DEF Init, TypeOK
<1>4. RetryInv
  BY ConsumerAssumption DEF Init, RetryInv
<1>5. QED
  BY <1>3, <1>4 DEF TypeInv

LEMMA FinishType ==
  ASSUME TypeOK, NEW p \in Procs, NEW m \in Msgs, Finish(p, m)
  PROVE  /\ batch' \in [Procs -> SUBSET Msgs] /\ blank' \in [Procs -> SUBSET Msgs]
         /\ pc' \in [Procs -> {"down", "dead", "loop", "claim", "read", "handle", "dlq", "ack"}]
BY DEF Finish, TypeOK

LEMMA DeliverType ==
  ASSUME TypeOK, NEW n \in Names, Deliver(n)
  PROVE  /\ NewEntries \subseteq Msgs
         /\ owner' \in [Msgs -> Names \cup {None}]
         /\ cursor' \in 0..MaxMsgs
<1>1. NewEntries \subseteq Msgs
  BY DEF NewEntries, FirstCount
<1>2. owner' \in [Msgs -> Names \cup {None}]
  BY DEF Deliver, TypeOK
<1>3. cursor' \in 0..MaxMsgs
  BY <1>1, ConsumerAssumption DEF Deliver, Msgs
<1>4. QED
  BY <1>1, <1>2, <1>3

LEMMA StepTypeInv ==
  ASSUME TypeInv, [Next]_vars
  PROVE  TypeInv'
<1> USE ConsumerAssumption
<1>1. CASE Publish
  BY <1>1 DEF Publish, TypeInv, TypeOK, RetryInv, local, history, Least
<1>2. ASSUME NEW m \in Msgs, Age(m) PROVE TypeInv'
  BY <1>2 DEF Age, TypeInv, TypeOK, RetryInv, local, history, Least
<1>3. ASSUME NEW p \in Procs, Step(p) PROVE TypeInv'
  <2>1. CASE Start(p)
    <3>1. TypeOK'
      BY <2>1 DEF Start, TypeInv, TypeOK, history
    <3>2. RetryInv'
      BY <2>1 DEF Start, TypeInv, TypeOK, RetryInv, Least, Alive
    <3>3. QED
      BY <3>1, <3>2 DEF TypeInv
  <2>2. CASE Sweep(p)
    <3>1. found' \in [Procs -> SUBSET Msgs]
      BY <2>2 DEF Sweep, Claimable, FirstCount, Pending, TypeInv, TypeOK
    <3>2. TypeOK'
      BY <2>2, <3>1 DEF Sweep, TypeInv, TypeOK, redis, history
    <3>3. RetryInv'
      BY <2>2 DEF Sweep, TypeInv, TypeOK, RetryInv, Least
    <3>4. QED
      BY <3>2, <3>3 DEF TypeInv
  <2>3. CASE Claim(p)
    <3>1. PICK m \in found[p] :
            /\ XClaim(name[p], m) \/ UNCHANGED <<owner, idle>>
            /\ UNCHANGED faults \/ Fault
            /\ found' = [found EXCEPT ![p] = @ \ {m}]
            /\ pc' = [pc EXCEPT ![p] = IF found[p] = {m} THEN "read" ELSE "claim"]
      BY <2>3 DEF Claim
    <3>2. owner' \in [Msgs -> Names \cup {None}] /\ idle' \subseteq Msgs
      BY <3>1 DEF XClaim, TypeInv, TypeOK
    <3>3. faults' \in 0..MaxFaults
      BY <3>1 DEF Fault, TypeInv, TypeOK
    <3>4. TypeOK'
      BY <2>3, <3>1, <3>2, <3>3 DEF Claim, TypeInv, TypeOK, history
    <3>5. RetryInv'
      BY <2>3, <3>1 DEF Claim, TypeInv, TypeOK, RetryInv, Least
    <3>6. QED
      BY <3>4, <3>5 DEF TypeInv
  <2>4. CASE ReadPending(p)
    <3>1. FirstCount(OwnPending(p)) \subseteq Msgs
      BY DEF FirstCount, OwnPending
    <3>2. TypeOK'
      BY <2>4, <3>1 DEF ReadPending, TypeInv, TypeOK, history
    <3>3. RetryInv'
      BY <2>4 DEF ReadPending, TypeInv, TypeOK, RetryInv, Least
    <3>4. QED
      BY <3>2, <3>3 DEF TypeInv
  <2>5. CASE ReadNew(p)
    <3>1. name[p] \in Names
      BY DEF TypeInv, TypeOK
    <3>2. NewEntries \subseteq Msgs /\ owner' \in [Msgs -> Names \cup {None}]
          /\ cursor' \in 0..MaxMsgs
      BY <2>5, <3>1, DeliverType DEF ReadNew, TypeInv
    <3>3. faults' \in 0..MaxFaults
      BY <2>5 DEF ReadNew, Fault, TypeInv, TypeOK
    <3>4. TypeOK'
      BY <2>5, <3>2, <3>3 DEF ReadNew, TypeInv, TypeOK, history
    <3>5. RetryInv'
      BY <2>5 DEF ReadNew, TypeInv, TypeOK, RetryInv, Least
    <3>6. QED
      BY <3>4, <3>5 DEF TypeInv
  <2>6. CASE ReadNothing(p)
    <3>1. TypeOK'
      BY <2>6 DEF ReadNothing, Fault, TypeInv, TypeOK, redis, history
    <3>2. RetryInv'
      BY <2>6 DEF ReadNothing, TypeInv, TypeOK, RetryInv, Least
    <3>3. QED
      BY <3>1, <3>2 DEF TypeInv
  <2>7. CASE HandleOk(p)
    <3>1. TypeOK'
      BY <2>7 DEF HandleOk, TypeInv, TypeOK, redis
    <3>2. RetryInv'
      BY <2>7 DEF HandleOk, TypeInv, TypeOK, RetryInv, Least
    <3>3. QED
      BY <3>1, <3>2 DEF TypeInv
  <2>8. CASE HandleFails(p)
    <3>1. PICK m \in batch[p] :
            /\ Least(m, batch[p])
            /\ UNCHANGED faults \/ Fault
            /\ retry' = [retry EXCEPT ![p][m] = @ + 1]
            /\ failures' = [failures EXCEPT ![m] = @ + 1]
            /\ \/ /\ Exhausts(p, m) /\ exhausted' = exhausted \cup {m}
                  /\ pc' = [pc EXCEPT ![p] = "dlq"] /\ UNCHANGED <<batch, blank>>
               \/ ~Exhausts(p, m) /\ Finish(p, m) /\ UNCHANGED exhausted
      BY <2>8 DEF HandleFails, Current, LeavePending
    <3>2. m \in Msgs /\ pc[p] = "handle"
      BY <2>8 DEF HandleFails, TypeInv, TypeOK
    <3>3. retry[p][m] < MaxRetries /\ retry[p][m] \in Nat
      <4>1. retry[p][m] \in 0..MaxRetries
        BY <3>2 DEF TypeInv, TypeOK
      <4>2. retry[p][m] # MaxRetries
        BY <3>2 DEF TypeInv, RetryInv
      <4>3. QED
        BY <4>1, <4>2
    <3>4. retry' \in [Procs -> [Msgs -> 0..MaxRetries]]
      BY <3>1, <3>2, <3>3 DEF TypeInv, TypeOK
    <3>5. /\ batch' \in [Procs -> SUBSET Msgs] /\ blank' \in [Procs -> SUBSET Msgs]
          /\ pc' \in [Procs -> {"down", "dead", "loop", "claim", "read", "handle", "dlq", "ack"}]
      BY <3>1, <3>2, FinishType DEF TypeInv, TypeOK
    <3>6. faults' \in 0..MaxFaults
      BY <3>1 DEF Fault, TypeInv, TypeOK
    <3>7. TypeOK'
      BY <2>8, <3>1, <3>2, <3>4, <3>5, <3>6 DEF HandleFails, TypeInv, TypeOK, redis
    <3>8. RetryInv'
      <4> SUFFICES ASSUME NEW q \in Procs, NEW k \in Msgs, retry'[q][k] = MaxRetries
                   PROVE  pc'[q] \in {"dlq", "ack"} /\ Least(k, batch'[q])
        BY DEF RetryInv, Least
      <4>1. CASE q = p /\ k = m
        BY <4>1, <3>1, <3>2, <3>3 DEF Exhausts, TypeInv, TypeOK
      <4>2. CASE q = p /\ k # m
        BY <4>2, <3>1, <3>2 DEF TypeInv, TypeOK, RetryInv
      <4>3. CASE q # p
        BY <4>3, <3>1, <3>2 DEF TypeInv, TypeOK, RetryInv, Finish
      <4>4. QED
        BY <4>1, <4>2, <4>3
    <3>9. QED
      BY <3>7, <3>8 DEF TypeInv
  <2>9. CASE RouteToDlq(p)
    <3>1. TypeOK'
      BY <2>9 DEF RouteToDlq, Fault, TypeInv, TypeOK, history
    <3>2. RetryInv'
      BY <2>9 DEF RouteToDlq, TypeInv, TypeOK, RetryInv, Least
    <3>3. QED
      BY <3>1, <3>2 DEF TypeInv
  <2>10. CASE Ack(p)
    <3>1. PICK m \in batch[p] :
            /\ Least(m, batch[p])
            /\ XAck(p, m) \/ UNCHANGED <<owner, idle>>
            /\ UNCHANGED faults \/ Fault
            /\ retry' = [retry EXCEPT ![p][m] = 0]
            /\ Finish(p, m)
      BY <2>10 DEF Ack, Current
    <3>2. m \in Msgs
      BY DEF TypeInv, TypeOK
    <3>3. /\ batch' \in [Procs -> SUBSET Msgs] /\ blank' \in [Procs -> SUBSET Msgs]
          /\ pc' \in [Procs -> {"down", "dead", "loop", "claim", "read", "handle", "dlq", "ack"}]
      BY <3>1, <3>2, FinishType DEF TypeInv
    <3>4. owner' \in [Msgs -> Names \cup {None}] /\ idle' \subseteq Msgs
      BY <3>1, <3>2 DEF XAck, TypeInv, TypeOK
    <3>5. faults' \in 0..MaxFaults
      BY <3>1 DEF Fault, TypeInv, TypeOK
    <3>6. retry' \in [Procs -> [Msgs -> 0..MaxRetries]]
      BY <3>1, <3>2 DEF TypeInv, TypeOK
    <3>7. TypeOK'
      BY <2>10, <3>1, <3>2, <3>3, <3>4, <3>5, <3>6 DEF Ack, TypeInv, TypeOK, history
    <3>8. RetryInv'
      <4> SUFFICES ASSUME NEW q \in Procs, NEW k \in Msgs, retry'[q][k] = MaxRetries
                   PROVE  pc'[q] \in {"dlq", "ack"} /\ Least(k, batch'[q])
        BY DEF RetryInv, Least
      <4>1. CASE q = p
        BY <4>1, <3>1, <3>2, LeastUnique DEF TypeInv, TypeOK, RetryInv
      <4>2. CASE q # p
        BY <4>2, <3>1, <3>2 DEF TypeInv, TypeOK, RetryInv, Finish
      <4>3. QED
        BY <4>1, <4>2
    <3>9. QED
      BY <3>7, <3>8 DEF TypeInv
  <2>11. CASE Crash(p)
    <3>1. retry' \in [Procs -> [Msgs -> 0..MaxRetries]]
      BY <2>11, NoRetries DEF Crash, TypeInv, TypeOK
    <3>2. TypeOK'
      BY <2>11, <3>1 DEF Crash, TypeInv, TypeOK, redis, history
    <3>3. RetryInv'
      BY <2>11 DEF Crash, TypeInv, TypeOK, RetryInv, Least
    <3>4. QED
      BY <3>2, <3>3 DEF TypeInv
  <2>12. QED
    BY <1>3, <2>1, <2>2, <2>3, <2>4, <2>5, <2>6, <2>7, <2>8, <2>9, <2>10, <2>11
       DEF Step, Work
<1>4. CASE UNCHANGED vars
  BY <1>4 DEF vars, redis, local, history, TypeInv, TypeOK, RetryInv, Least
<1>5. QED
  BY <1>1, <1>2, <1>3, <1>4 DEF Next

\* Every variable keeps its type, whatever the number of processes and faults; in
\* particular no process counts more attempts of a message than MaxRetries.
THEOREM TypeCorrect == Spec => []TypeOK
<1>1. Init => TypeInv
  BY InitTypeInv
<1>2. TypeInv /\ [Next]_vars => TypeInv'
  BY StepTypeInv
<1>3. TypeInv => TypeOK
  BY DEF TypeInv
<1>4. QED
  BY <1>1, <1>2, <1>3, PTL DEF Spec

--------------------------------------------------------------------------------

\* A message is acknowledged for a reason: the process that is about to
\* acknowledge it had it accepted, or used up its attempts.
AckInv ==
  \A p \in Procs : \A m \in Msgs : Least(m, batch[p]) =>
    /\ pc[p] = "ack" => handled[m] > 0 \/ m \in exhausted
    /\ pc[p] = "dlq" => m \in exhausted

IndInv == TypeInv /\ AckInv /\ NoEarlyAck

LEMMA FirstCountIsPrefix ==
  ASSUME NEW S \in SUBSET Msgs, NEW k \in FirstCount(S), NEW m \in S, m < k
  PROVE  m \in FirstCount(S)
<1> DEFINE B(x) == {j \in S : j < x}
<1>1. IsFiniteSet(Msgs)
  BY FS_Interval, ConsumerAssumption DEF Msgs
<1>2. IsFiniteSet(B(k)) /\ k \in Msgs /\ m \in Msgs
  BY <1>1, FS_Subset DEF FirstCount
<1>3. B(m) \subseteq B(k)
  <2>1. \A j \in S : j < m => j < k
    BY <1>2 DEF Msgs
  <2>2. QED
    BY <2>1
<1>4. Cardinality(B(m)) <= Cardinality(B(k)) /\ IsFiniteSet(B(m))
  BY <1>2, <1>3, FS_Subset
<1>5. Cardinality(B(m)) \in Nat /\ Cardinality(B(k)) \in Nat
  BY <1>2, <1>4, FS_CardinalityType
<1>6. Cardinality(B(k)) < Count
  BY DEF FirstCount
<1>7. QED
  BY <1>4, <1>5, <1>6, ConsumerAssumption DEF FirstCount

\* A delivery leaves no gap: what the cursor moves over is pending or was trimmed.
LEMMA DeliverNoGap ==
  ASSUME TypeOK, NEW n \in Names, Deliver(n), NEW m \in Msgs, cursor < m, m <= cursor'
  PROVE  m <= trimmed \/ owner'[m] # None
<1> DEFINE S == {k \in Msgs : cursor < k /\ k <= published /\ trimmed < k}
<1>1. PICK c \in NewEntries : cursor' = c
  BY DEF Deliver
<1>2. c \in S /\ NewEntries = FirstCount(S)
  BY DEF NewEntries, FirstCount
<1>3. CASE m <= trimmed
  BY <1>3
<1>4. CASE ~(m <= trimmed)
  <2>1. m \in S
    BY <1>1, <1>2, <1>4 DEF TypeOK, Msgs
  <2>2. m \in NewEntries
    <3>1. CASE m = c
      BY <3>1
    <3>2. CASE m # c
      <4>1. m < c
        BY <1>1, <1>2, <3>2 DEF Msgs
      <4>2. QED
        BY <1>2, <2>1, <4>1, FirstCountIsPrefix
    <3>3. QED
      BY <3>1, <3>2
  <2>3. owner'[m] = n
    BY <2>2 DEF Deliver
  <2>4. QED
    BY <2>3, ConsumerAssumption
<1>5. QED
  BY <1>3, <1>4

LEMMA InitIndInv == Init => IndInv
<1> SUFFICES ASSUME Init PROVE IndInv
  OBVIOUS
<1>1. AckInv
  BY DEF Init, AckInv
<1>2. NoEarlyAck
  BY ConsumerAssumption DEF Init, NoEarlyAck, Delivered, Msgs
<1>3. QED
  BY <1>1, <1>2, InitTypeInv DEF IndInv

\* A step of the stream or of time.
LEMMA EnvironmentIndInv ==
  ASSUME IndInv, Publish \/ \E m \in Msgs : Age(m)
  PROVE  AckInv' /\ NoEarlyAck'
<1> USE ConsumerAssumption
<1>1. CASE Publish
  <2>1. trimmed <= trimmed' /\ trimmed \in Int /\ trimmed' \in Int
    BY <1>1 DEF Publish, IndInv, TypeInv, TypeOK
  <2>2. AckInv'
    BY <1>1 DEF Publish, IndInv, AckInv, Least, local, history
  <2>3. NoEarlyAck'
    BY <1>1, <2>1 DEF Publish, IndInv, NoEarlyAck, Delivered, Pending, history, Msgs
  <2>4. QED
    BY <2>2, <2>3
<1>2. ASSUME NEW m \in Msgs, Age(m) PROVE AckInv' /\ NoEarlyAck'
  BY <1>2 DEF Age, IndInv, AckInv, Least, local, history, NoEarlyAck, Delivered, Pending
<1>3. QED
  BY <1>1, <1>2

\* The sweep and the reads: no message is settled, and the only entry that can
\* leave the pending list is one the stream has trimmed.
LEMMA ReadingIndInv ==
  ASSUME IndInv, NEW p \in Procs,
         Start(p) \/ Sweep(p) \/ Claim(p) \/ ReadPending(p) \/ ReadNew(p) \/ ReadNothing(p)
  PROVE  AckInv' /\ NoEarlyAck'
<1> USE ConsumerAssumption
<1> USE DEF IndInv, TypeInv
<1>1. CASE Start(p)
  <2>1. AckInv'
    BY <1>1 DEF Start, AckInv, TypeOK, Least, history
  <2>2. NoEarlyAck'
    BY <1>1 DEF Start, NoEarlyAck, Delivered, Pending, history, TypeOK, Msgs
  <2>3. QED
    BY <2>1, <2>2
<1>2. CASE Sweep(p)
  <2>1. AckInv'
    BY <1>2 DEF Sweep, AckInv, TypeOK, Least, history
  <2>2. NoEarlyAck'
    BY <1>2 DEF Sweep, NoEarlyAck, Delivered, Pending, history, redis
  <2>3. QED
    BY <2>1, <2>2
<1>3. CASE Claim(p)
  <2>1. AckInv'
    BY <1>3 DEF Claim, AckInv, TypeOK, Least, history
  <2>2. PICK m \in found[p] : XClaim(name[p], m) \/ UNCHANGED owner
    BY <1>3 DEF Claim
  <2>3. m \in Msgs /\ name[p] \in Names
    BY DEF TypeOK
  <2>4. \A k \in Msgs : owner'[k] = None => owner[k] = None \/ k <= trimmed
    BY <2>2, <2>3 DEF XClaim, TypeOK
  <2>5. NoEarlyAck'
    BY <1>3, <2>4 DEF Claim, NoEarlyAck, Delivered, Pending, history
  <2>6. QED
    BY <2>1, <2>5
<1>4. CASE ReadPending(p)
  <2>1. AckInv'
    BY <1>4 DEF ReadPending, AckInv, TypeOK, Least, history
  <2>2. NoEarlyAck'
    BY <1>4 DEF ReadPending, NoEarlyAck, Delivered, Pending, history
  <2>3. QED
    BY <2>1, <2>2
<1>5. CASE ReadNew(p)
  <2>1. AckInv'
    BY <1>5 DEF ReadNew, AckInv, TypeOK, Least, history
  <2>2. name[p] \in Names /\ Deliver(name[p])
    BY <1>5 DEF ReadNew, TypeOK
  <2>3. \A k \in Msgs : owner'[k] = owner[k] \/ owner'[k] = name[p]
    BY <2>2 DEF Deliver
  <2>4. \A k \in Msgs : cursor < k /\ k <= cursor' => k <= trimmed \/ owner'[k] # None
    BY <2>2, DeliverNoGap
  <2>5. cursor \in Int
    BY DEF TypeOK
  <2>6. NoEarlyAck'
    <3> SUFFICES ASSUME NEW m \in Msgs, start < m, m <= cursor'
                 PROVE  owner'[m] # None \/ handled[m] > 0 \/ m \in exhausted \/ m <= trimmed
      BY <1>5 DEF ReadNew, NoEarlyAck, Delivered, Pending, history
    <3>1. CASE m <= cursor
      BY <2>2, <2>3, <3>1 DEF NoEarlyAck, Delivered, Pending
    <3>2. CASE cursor < m
      BY <2>4, <3>2
    <3>3. QED
      BY <2>5, <3>1, <3>2 DEF Msgs
  <2>7. QED
    BY <2>1, <2>6
<1>6. CASE ReadNothing(p)
  <2>1. AckInv'
    BY <1>6 DEF ReadNothing, AckInv, TypeOK, Least, history
  <2>2. NoEarlyAck'
    BY <1>6 DEF ReadNothing, NoEarlyAck, Delivered, Pending, history, redis
  <2>3. QED
    BY <2>1, <2>2
<1>7. QED
  BY <1>1, <1>2, <1>3, <1>4, <1>5, <1>6

\* Deciding a message and acknowledging it: here AckInv earns NoEarlyAck.
LEMMA WorkingIndInv ==
  ASSUME IndInv, NEW p \in Procs,
         HandleOk(p) \/ HandleFails(p) \/ RouteToDlq(p) \/ Ack(p) \/ Crash(p)
  PROVE  AckInv' /\ NoEarlyAck'
<1> USE ConsumerAssumption
<1> USE DEF IndInv, TypeInv
<1>1. CASE HandleOk(p)
  <2>1. PICK m \in batch[p] : Least(m, batch[p]) /\ handled' = [handled EXCEPT ![m] = @ + 1]
    BY <1>1 DEF HandleOk, Current
  <2>2. m \in Msgs
    BY DEF TypeOK
  <2>3. handled'[m] > 0 /\ \A k \in Msgs : handled[k] > 0 => handled'[k] > 0
    BY <2>1, <2>2 DEF TypeOK
  <2>4. AckInv'
    <3> SUFFICES ASSUME NEW q \in Procs, NEW k \in Msgs, Least(k, batch[q])
                 PROVE  /\ pc'[q] = "ack" => handled'[k] > 0 \/ k \in exhausted
                        /\ pc'[q] = "dlq" => k \in exhausted
      BY <1>1 DEF HandleOk, AckInv, Least
    <3>1. CASE q = p
      BY <1>1, <2>1, <2>2, <2>3, <3>1, LeastUnique DEF HandleOk, TypeOK
    <3>2. CASE q # p
      BY <1>1, <2>3, <3>2 DEF HandleOk, AckInv, TypeOK
    <3>3. QED
      BY <3>1, <3>2
  <2>5. NoEarlyAck'
    BY <1>1, <2>3 DEF HandleOk, NoEarlyAck, Delivered, Pending, redis
  <2>6. QED
    BY <2>4, <2>5
<1>2. CASE HandleFails(p)
  <2>1. PICK m \in batch[p] :
          /\ Least(m, batch[p])
          /\ \/ /\ exhausted' = exhausted \cup {m}
                /\ pc' = [pc EXCEPT ![p] = "dlq"] /\ UNCHANGED batch
             \/ Finish(p, m) /\ UNCHANGED exhausted
    BY <1>2 DEF HandleFails, Current, LeavePending
  <2>2. m \in Msgs /\ UNCHANGED <<redis, handled>>
    BY <1>2 DEF HandleFails, TypeOK
  <2>3. AckInv'
    <3> SUFFICES ASSUME NEW q \in Procs, NEW k \in Msgs, Least(k, batch'[q])
                 PROVE  /\ pc'[q] = "ack" => handled[k] > 0 \/ k \in exhausted'
                        /\ pc'[q] = "dlq" => k \in exhausted'
      BY <2>2 DEF AckInv, Least
    <3>1. CASE q = p
      BY <2>1, <2>2, <3>1, LeastUnique DEF Finish, TypeOK
    <3>2. CASE q # p
      BY <2>1, <2>2, <3>2 DEF Finish, AckInv, TypeOK
    <3>3. QED
      BY <3>1, <3>2
  <2>4. NoEarlyAck'
    BY <2>1, <2>2 DEF NoEarlyAck, Delivered, Pending, redis
  <2>5. QED
    BY <2>3, <2>4
<1>3. CASE RouteToDlq(p)
  <2>1. pc[p] = "dlq" /\ pc' = [pc EXCEPT ![p] = "ack"] /\ UNCHANGED <<batch, history>>
    BY <1>3 DEF RouteToDlq
  <2>2. AckInv'
    BY <2>1 DEF AckInv, TypeOK, Least, history
  <2>3. NoEarlyAck'
    BY <1>3 DEF RouteToDlq, NoEarlyAck, Delivered, Pending, history
  <2>4. QED
    BY <2>2, <2>3
<1>4. CASE Ack(p)
  <2>1. PICK m \in batch[p] :
          /\ Least(m, batch[p])
          /\ XAck(p, m) \/ UNCHANGED owner
          /\ Finish(p, m)
    BY <1>4 DEF Ack, Current
  <2>2. m \in Msgs /\ pc[p] = "ack" /\ UNCHANGED <<trimmed, start, cursor, history>>
    BY <1>4 DEF Ack, TypeOK
  <2>3. handled[m] > 0 \/ m \in exhausted
    BY <2>1, <2>2 DEF AckInv
  <2>4. \A k \in Msgs : k # m => owner'[k] = owner[k]
    BY <2>1, <2>2 DEF XAck, TypeOK
  <2>5. AckInv'
    <3> SUFFICES ASSUME NEW q \in Procs, NEW k \in Msgs, Least(k, batch'[q])
                 PROVE  /\ pc'[q] = "ack" => handled[k] > 0 \/ k \in exhausted
                        /\ pc'[q] = "dlq" => k \in exhausted
      BY <2>2 DEF AckInv, Least, history
    <3>1. CASE q = p
      BY <2>1, <3>1 DEF Finish, TypeOK
    <3>2. CASE q # p
      BY <2>1, <3>2 DEF Finish, AckInv, TypeOK
    <3>3. QED
      BY <3>1, <3>2
  <2>6. NoEarlyAck'
    BY <2>2, <2>3, <2>4 DEF NoEarlyAck, Delivered, Pending, history
  <2>7. QED
    BY <2>5, <2>6
<1>5. CASE Crash(p)
  <2>1. AckInv'
    BY <1>5 DEF Crash, AckInv, TypeOK, Least, history
  <2>2. NoEarlyAck'
    BY <1>5 DEF Crash, NoEarlyAck, Delivered, Pending, redis, history
  <2>3. QED
    BY <2>1, <2>2
<1>6. QED
  BY <1>1, <1>2, <1>3, <1>4, <1>5

LEMMA StepIndInv ==
  ASSUME IndInv, [Next]_vars
  PROVE  IndInv'
<1>1. TypeInv'
  BY StepTypeInv DEF IndInv
<1>2. CASE Publish \/ \E m \in Msgs : Age(m)
  BY <1>1, <1>2, EnvironmentIndInv DEF IndInv
<1>3. ASSUME NEW p \in Procs, Step(p) PROVE AckInv' /\ NoEarlyAck'
  BY <1>3, ReadingIndInv, WorkingIndInv DEF Step, Work
<1>4. CASE UNCHANGED vars
  BY <1>1, <1>4 DEF vars, redis, local, history, IndInv, AckInv, Least, NoEarlyAck,
                    Delivered, Pending
<1>5. QED
  BY <1>1, <1>2, <1>3, <1>4 DEF Next, IndInv

\* At-least-once delivery: a delivered event leaves the pending list only after a
\* handler accepted it, its attempts were used up, or the stream dropped it, for any
\* number of processes, crashes and failing calls, and however slow handlers are.
THEOREM AtLeastOnce == Spec => []NoEarlyAck
<1>1. IndInv => NoEarlyAck
  BY DEF IndInv
<1>2. IndInv /\ [Next]_vars => IndInv'
  BY StepIndInv
<1>3. QED
  BY <1>1, <1>2, InitIndInv, PTL DEF Spec

--------------------------------------------------------------------------------
(* The contract.                                                                *)

\* What the group knows of an event: it has it, or somebody accepted or rejected it.
Known(m) == m \in Pending \/ handled[m] > 0 \/ m \in exhausted

\* The refinement needs the order of the positions in the stream, that all that is known or
\* worked on was delivered, and that only pending entries are idle.
RefInv ==
  /\ trimmed <= published /\ start <= cursor /\ cursor <= published
  /\ ~group => cursor = 0
  /\ \A m \in Msgs : Known(m) => m \in Delivered
  /\ \A p \in Procs : batch[p] \subseteq Delivered
  /\ idle \subseteq Pending

\* A process that runs has made sure that the group exists.
GroupInv == \A p \in Procs : Alive(p) => group

ContractInv == IndInv /\ RefInv /\ GroupInv

LEMMA GroupStep ==
  ASSUME TypeOK, GroupInv, [Next]_vars
  PROVE  GroupInv'
<1>1. CASE Publish \/ (\E m \in Msgs : Age(m)) \/ UNCHANGED vars
  BY <1>1 DEF Publish, Age, vars, redis, local, GroupInv, Alive
<1>2. ASSUME NEW p \in Procs, Start(p) PROVE GroupInv'
  <2>1. group'
    BY <1>2 DEF Start
  <2>2. QED
    BY <2>1 DEF GroupInv
<1>3. ASSUME NEW p \in Procs, Sweep(p) \/ Work(p) \/ Crash(p) PROVE GroupInv'
  <2>1. UNCHANGED group
    BY <1>3 DEF Sweep, Work, Claim, ReadPending, ReadNew, ReadNothing, HandleOk, HandleFails, RouteToDlq, Ack, Crash, redis
  <2>2. \A q \in Procs : Alive(q)' => Alive(q)
    BY <1>3 DEF Sweep, Work, Claim, ReadPending, ReadNew, ReadNothing, HandleOk, HandleFails, RouteToDlq, Ack, Crash,
                LeavePending, Finish, Alive, TypeOK
  <2>3. QED
    BY <2>1, <2>2, Zenon DEF GroupInv
<1>4. QED
  BY <1>1, <1>2, <1>3 DEF Next, Step

\* A step that leaves alone what the contract speaks of.
LEMMA Stutters ==
  ASSUME UNCHANGED <<published, trimmed, owner, handled, exhausted>>
  PROVE  UNCHANGED Contract!vars
BY DEF Contract!vars, Pending

\* An entry that a process works on was decided, dropped or is still pending.
LEMMA BatchIsKnown ==
  ASSUME ContractInv, NEW p \in Procs, NEW m \in batch[p]
  PROVE  m \in Msgs /\ m \in Pending \cup (1 .. trimmed) \cup {k \in Msgs : handled[k] > 0} \cup exhausted
<1>1. m \in Msgs /\ m \in Delivered
  BY DEF ContractInv, RefInv, Delivered
<1>2. m \in Pending \/ handled[m] > 0 \/ m \in exhausted \/ m <= trimmed
  BY <1>1 DEF ContractInv, IndInv, NoEarlyAck
<1>3. m <= trimmed => m \in 1 .. trimmed
  BY <1>1 DEF Msgs, ContractInv, IndInv, TypeInv, TypeOK
<1>4. QED
  BY <1>1, <1>2, <1>3

\* A delivery is one of the contract.
LEMMA DeliverStep ==
  ASSUME ContractInv, NEW n \in Names, Deliver(n), UNCHANGED <<published, trimmed, handled, exhausted>>
  PROVE  /\ Contract!Deliver
         /\ \A m \in NewEntries : cursor < m /\ m <= cursor'
         /\ cursor' \in 0 .. MaxMsgs /\ cursor <= cursor' /\ cursor' <= published
         /\ Pending' = Pending \cup NewEntries
<1> USE ConsumerAssumption
<1>inv. TypeOK /\ RefInv
  BY DEF ContractInv, IndInv, TypeInv
<1>1. \A m \in NewEntries : m \in Msgs /\ cursor < m /\ m <= published /\ trimmed < m
  BY DEF NewEntries, FirstCount
<1>2. PICK c \in NewEntries : (\A k \in NewEntries : k <= c) /\ cursor' = c
  BY DEF Deliver
<1>3. /\ \A m \in NewEntries : cursor < m /\ m <= cursor'
      /\ cursor' \in 0 .. MaxMsgs /\ cursor <= cursor' /\ cursor' <= published
  BY <1>1, <1>2, <1>inv DEF Msgs, TypeOK
<1>4. Pending' = Pending \cup NewEntries
  BY <1>1 DEF Deliver, Pending
<1>5. \A m \in NewEntries : ~Known(m)
  BY <1>1, <1>inv DEF RefInv, Delivered, TypeOK, Msgs
<1>6. NewEntries \subseteq (1 .. published) \ ((1 .. trimmed) \cup Pending \cup {m \in Msgs : handled[m] > 0} \cup exhausted)
  BY <1>1, <1>5, <1>inv DEF Known, Msgs, TypeOK
<1>7. Contract!Deliver
  BY <1>4, <1>6, <1>2 DEF Contract!Deliver
<1>8. QED
  BY <1>3, <1>4, <1>7

\* The steps of the stream, of time, and of a process that joins or looks for idle entries.
LEMMA EnvironmentContract ==
  ASSUME ContractInv,
         \/ Publish \/ \E m \in Msgs : Age(m)
         \/ \E p \in Procs : Start(p) \/ Sweep(p) \/ Claim(p) \/ Crash(p)
  PROVE  RefInv' /\ [Contract!Next]_Contract!vars
<1> USE ConsumerAssumption
<1>inv. TypeOK /\ RefInv
  BY DEF ContractInv, IndInv, TypeInv
<1>1. CASE Publish
  <2>1. /\ trimmed <= trimmed' /\ trimmed' <= published' /\ published' = published + 1
        /\ published \in Nat /\ trimmed \in Nat /\ trimmed' \in Nat /\ cursor \in Nat
    BY <1>1, <1>inv DEF Publish, TypeOK, RefInv
  <2>2. /\ UNCHANGED <<group, start, cursor, owner, idle, batch, handled, exhausted>>
        /\ published + 1 \in Msgs
    BY <1>1, <1>inv DEF Publish, local, history, Msgs, TypeOK
  <2>3. RefInv'
    BY <1>inv, <2>1, <2>2 DEF RefInv, Known, Pending, Delivered
  <2>4. 1 .. published' = (1 .. published) \cup {published + 1} /\ published + 1 \notin 1 .. published
    BY <2>1
  <2>5. 1 .. trimmed' = (1 .. trimmed) \cup ((1 .. trimmed') \cap (1 .. published')) /\ 1 .. trimmed' \subseteq Msgs
    BY <2>1, <2>2 DEF Msgs
  <2>6. Contract!Send
    BY <2>2, <2>4, <2>5 DEF Contract!Send, Pending
  <2>7. QED
    BY <2>3, <2>6 DEF Contract!Next
<1>2. ASSUME NEW m \in Msgs, Age(m)
      PROVE  RefInv' /\ [Contract!Next]_Contract!vars
  <2>1. RefInv'
    BY <1>2, <1>inv DEF Age, local, history, RefInv, Known, Pending, Delivered
  <2>2. QED
    BY <1>2, <2>1, Stutters DEF Age, history
<1>3. ASSUME NEW p \in Procs, Start(p)
      PROVE  RefInv' /\ [Contract!Next]_Contract!vars
  <2>1. CASE group
    BY <1>3, <1>inv, <2>1, Stutters DEF Start, history, RefInv, Known, Pending, Delivered
  <2>2. CASE ~group
    <3>1. \A m \in Msgs : ~Known(m)
      BY <1>inv, <2>2 DEF RefInv, Delivered, Msgs, TypeOK
    <3>2. \A q \in Procs : batch[q] = {}
      BY <1>inv, <2>2 DEF RefInv, Delivered, Msgs, TypeOK
    <3>3. /\ group' /\ start' = published /\ cursor' = published
          /\ UNCHANGED <<published, trimmed, owner, idle, batch, handled, exhausted>>
      BY <1>3, <2>2 DEF Start, history
    <3>4. RefInv'
      BY <1>inv, <3>1, <3>2, <3>3 DEF RefInv, Known, Pending, TypeOK
    <3>5. QED
      BY <3>3, <3>4, Stutters
  <2>3. QED
    BY <2>1, <2>2
<1>4. ASSUME NEW p \in Procs, Sweep(p)
      PROVE  RefInv' /\ [Contract!Next]_Contract!vars
  BY <1>4, <1>inv, Stutters DEF Sweep, redis, history, RefInv, Known, Pending, Delivered
<1>5. ASSUME NEW p \in Procs, Claim(p)
      PROVE  RefInv' /\ [Contract!Next]_Contract!vars
  <2>1. PICK m \in found[p] : XClaim(name[p], m) \/ UNCHANGED <<owner, idle>>
    BY <1>5 DEF Claim
  <2>2. UNCHANGED <<published, trimmed, group, start, cursor, batch, handled, exhausted>>
    BY <1>5 DEF Claim, history
  <2>3. CASE UNCHANGED <<owner, idle>>
    BY <1>inv, <2>2, <2>3, Stutters DEF RefInv, Known, Pending, Delivered
  <2>4. CASE m \in idle /\ XClaim(name[p], m)
    <3>1. m \in Pending /\ m \in Msgs /\ name[p] # None /\ idle' = idle \ {m}
      BY <1>inv, <2>4 DEF RefInv, Pending, TypeOK, XClaim
    <3>2. CASE m <= trimmed
      <4>1. owner' = [owner EXCEPT ![m] = None]
        BY <2>4, <3>2 DEF XClaim
      <4>2. Pending' = Pending \ {m}
        BY <1>inv, <3>1, <4>1 DEF Pending, TypeOK
      <4>3. m \in 1 .. trimmed
        BY <1>inv, <3>1, <3>2 DEF Msgs, TypeOK
      <4>4. Contract!Settle(m)
        BY <2>2, <3>1, <4>2, <4>3 DEF Contract!Settle
      <4>5. RefInv'
        BY <1>inv, <2>2, <3>1, <4>2 DEF RefInv, Known, Delivered
      <4>6. QED
        BY <3>1, <4>4, <4>5 DEF Contract!Next
    <3>3. CASE ~(m <= trimmed)
      <4>1. owner' = [owner EXCEPT ![m] = name[p]]
        BY <2>4, <3>3 DEF XClaim
      <4>2. Pending' = Pending
        BY <1>inv, <3>1, <4>1 DEF Pending, TypeOK
      <4>3. RefInv'
        BY <1>inv, <2>2, <3>1, <4>2 DEF RefInv, Known, Delivered
      <4>4. UNCHANGED Contract!vars
        BY <2>2, <4>2 DEF Contract!vars
      <4>5. QED
        BY <4>3, <4>4
    <3>4. QED
      BY <3>2, <3>3
  <2>5. QED
    BY <2>1, <2>3, <2>4 DEF XClaim
<1>6. ASSUME NEW p \in Procs, Crash(p)
      PROVE  RefInv' /\ [Contract!Next]_Contract!vars
  <2>1. \A q \in Procs : batch'[q] \subseteq batch[q]
    BY <1>6, <1>inv DEF Crash, TypeOK
  <2>2. RefInv'
    BY <1>6, <1>inv, <2>1 DEF Crash, redis, history, RefInv, Known, Pending, Delivered
  <2>3. QED
    BY <1>6, <2>2, Stutters DEF Crash, redis, history
<1>7. QED
  BY <1>1, <1>2, <1>3, <1>4, <1>5, <1>6

\* A process only forgets entries of its batch as it goes on.
LEMMA BatchShrinks ==
  ASSUME TypeOK, NEW p \in Procs, NEW m, Finish(p, m) \/ UNCHANGED batch
  PROVE  \A q \in Procs : batch'[q] \subseteq batch[q]
<1>1. CASE UNCHANGED batch
  BY <1>1
<1>2. CASE Finish(p, m)
  <2>1. batch' = [batch EXCEPT ![p] = @ \ {m}]
    BY <1>2 DEF Finish
  <2>2. QED
    BY <2>1 DEF TypeOK
<1>3. QED
  BY <1>1, <1>2

\* The steps of a process that reads, handles and acknowledges.
LEMMA WorkContract ==
  ASSUME ContractInv, NEW p \in Procs,
         \/ ReadPending(p) \/ ReadNew(p) \/ ReadNothing(p)
         \/ HandleOk(p) \/ HandleFails(p) \/ RouteToDlq(p) \/ Ack(p)
  PROVE  RefInv' /\ [Contract!Next]_Contract!vars
<1> USE ConsumerAssumption
<1>inv. TypeOK /\ RefInv /\ AckInv /\ name[p] \in Names /\ name[p] # None
  BY DEF ContractInv, IndInv, TypeInv, TypeOK
<1>1. CASE ReadPending(p)
  <2>1. batch' = [batch EXCEPT ![p] = FirstCount(OwnPending(p))] /\ idle' \subseteq idle
    BY <1>1 DEF ReadPending
  <2>2. FirstCount(OwnPending(p)) \subseteq Pending
    BY <1>inv DEF FirstCount, OwnPending, Pending
  <2>3. Pending \subseteq Delivered
    BY <1>inv DEF RefInv, Known, Pending
  <2>4. RefInv'
    BY <1>1, <1>inv, <2>1, <2>2, <2>3 DEF ReadPending, history, RefInv, Known, Pending, Delivered, TypeOK
  <2>5. QED
    BY <1>1, <2>4, Stutters DEF ReadPending, history
<1>2. CASE ReadNew(p)
  <2>1. /\ Deliver(name[p]) /\ (batch' = [batch EXCEPT ![p] = NewEntries] \/ UNCHANGED batch)
        /\ UNCHANGED <<published, trimmed, group, start, idle, handled, exhausted>>
    BY <1>2 DEF ReadNew, history
  <2>2. /\ Deliver(name[p]) /\ Contract!Deliver
        /\ \A m \in NewEntries : cursor < m /\ m <= cursor'
        /\ cursor' \in 0 .. MaxMsgs /\ cursor <= cursor' /\ cursor' <= published
        /\ Pending' = Pending \cup NewEntries
    BY <1>2, <1>inv, <2>1, DeliverStep DEF ReadNew
  <2>3. NewEntries # {} /\ NewEntries \subseteq Msgs
    BY <2>2 DEF Deliver, NewEntries, FirstCount
  <2>4. Delivered \subseteq Delivered' /\ NewEntries \subseteq Delivered'
    BY <1>inv, <2>1, <2>2, <2>3 DEF Delivered, RefInv, TypeOK, Msgs
  <2>5. \A m \in Msgs : Known(m)' => m \in Delivered'
    BY <1>inv, <2>1, <2>2, <2>4 DEF RefInv, Known
  <2>6. \A q \in Procs : batch'[q] \subseteq Delivered'
    BY <1>inv, <2>1, <2>4 DEF RefInv, TypeOK
  <2>7. group'
    <3>1. Alive(p)
      BY <1>2 DEF ReadNew, Alive
    <3>2. group /\ group' = group
      BY <2>1, <3>1, Zenon DEF ContractInv, GroupInv
    <3>3. QED
      BY <3>2, Zenon
  <2>8. RefInv'
    BY <1>inv, <2>1, <2>2, <2>5, <2>6, <2>7 DEF RefInv, TypeOK
  <2>9. QED
    BY <2>2, <2>8 DEF Contract!Next
<1>3. CASE ReadNothing(p) \/ RouteToDlq(p)
  BY <1>3, <1>inv, Stutters DEF ReadNothing, RouteToDlq, redis, history, RefInv, Known, Pending, Delivered
<1>4. CASE HandleOk(p)
  <2>1. PICK m \in batch[p] : handled' = [handled EXCEPT ![m] = @ + 1]
    BY <1>4 DEF HandleOk
  <2>2. UNCHANGED <<published, trimmed, group, start, cursor, owner, idle, batch, exhausted>>
    BY <1>4 DEF HandleOk, redis
  <2>3. m \in Msgs /\ m \in Pending \cup (1 .. trimmed) \cup {k \in Msgs : handled[k] > 0} \cup exhausted
    BY BatchIsKnown
  <2>4. {k \in Msgs : handled[k] > 0}' = {k \in Msgs : handled[k] > 0} \cup {m}
    BY <1>inv, <2>1, <2>3 DEF TypeOK
  <2>5. Contract!Decide(m)
    BY <2>2, <2>3, <2>4 DEF Contract!Decide, Pending
  <2>6. m \in Delivered
    BY <1>inv DEF RefInv
  <2>7. \A k \in Msgs : Known(k)' => Known(k) \/ k = m
    BY <2>2, <2>4 DEF Known, Pending
  <2>8. RefInv'
    BY <1>inv, <2>2, <2>6, <2>7 DEF RefInv, Pending, Delivered
  <2>9. QED
    BY <2>3, <2>5, <2>8 DEF Contract!Next
<1>5. CASE HandleFails(p)
  <2>1. PICK m \in batch[p] :
          \/ exhausted' = exhausted \cup {m} /\ UNCHANGED batch
          \/ LeavePending(p, m) /\ UNCHANGED exhausted
    BY <1>5 DEF HandleFails
  <2>2. UNCHANGED <<published, trimmed, group, start, cursor, owner, idle, handled>>
    BY <1>5 DEF HandleFails, redis
  <2>3. \A q \in Procs : batch'[q] \subseteq batch[q]
    BY <1>inv, <2>1, BatchShrinks DEF LeavePending
  <2>4. m \in Msgs /\ m \in Pending \cup (1 .. trimmed) \cup {k \in Msgs : handled[k] > 0} \cup exhausted /\ m \in Delivered
    BY <1>inv, BatchIsKnown DEF RefInv
  <2>5. exhausted' = exhausted \/ exhausted' = exhausted \cup {m}
    BY <2>1
  <2>6. RefInv'
    BY <1>inv, <2>2, <2>3, <2>4, <2>5 DEF RefInv, Known, Pending, Delivered
  <2>7. CASE exhausted' = exhausted
    BY <2>2, <2>6, <2>7, Stutters
  <2>8. CASE exhausted' = exhausted \cup {m}
    <3>1. Contract!Decide(m)
      BY <2>2, <2>4, <2>8 DEF Contract!Decide, Pending
    <3>2. QED
      BY <2>4, <2>6, <3>1 DEF Contract!Next
  <2>9. QED
    BY <2>5, <2>7, <2>8
<1>6. CASE Ack(p)
  <2>1. PICK m \in batch[p] : Least(m, batch[p]) /\ Finish(p, m) /\ (XAck(p, m) \/ UNCHANGED <<owner, idle>>)
    BY <1>6 DEF Ack, Current
  <2>2. UNCHANGED <<published, trimmed, group, start, cursor, handled, exhausted>>
    BY <1>6 DEF Ack, history
  <2>3. \A q \in Procs : batch'[q] \subseteq batch[q]
    BY <1>inv, <2>1, BatchShrinks
  <2>4. m \in Msgs /\ (handled[m] > 0 \/ m \in exhausted)
    BY <1>6, <1>inv, <2>1 DEF Ack, AckInv, TypeOK
  <2>5. CASE UNCHANGED <<owner, idle>>
    <3>1. RefInv'
      BY <1>inv, <2>2, <2>3, <2>5 DEF RefInv, Known, Pending, Delivered
    <3>2. QED
      BY <2>2, <2>5, <3>1, Stutters
  <2>6. CASE XAck(p, m)
    <3>1. Pending' = Pending \ {m} /\ idle' = idle \ {m}
      BY <1>inv, <2>4, <2>6 DEF XAck, Pending, TypeOK
    <3>2. RefInv'
      BY <1>inv, <2>2, <2>3, <3>1 DEF RefInv, Known, Delivered
    <3>3. CASE m \in Pending
      <4>1. Contract!Settle(m)
        BY <2>2, <2>4, <3>1, <3>3 DEF Contract!Settle
      <4>2. QED
        BY <2>4, <3>2, <4>1 DEF Contract!Next
    <3>4. CASE m \notin Pending
      <4>1. UNCHANGED Contract!vars
        BY <2>2, <3>1, <3>4 DEF Contract!vars
      <4>2. QED
        BY <3>2, <4>1
    <3>5. QED
      BY <3>3, <3>4
  <2>7. QED
    BY <2>1, <2>5, <2>6
<1>7. QED
  BY <1>1, <1>2, <1>3, <1>4, <1>5, <1>6

LEMMA InitContract == Init => ContractInv /\ Contract!Init
<1> SUFFICES ASSUME Init PROVE ContractInv /\ Contract!Init
  OBVIOUS
<1>1. /\ published = 0 /\ trimmed = 0 /\ start = 0 /\ cursor = 0 /\ idle = {} /\ exhausted = {}
      /\ Pending = {} /\ {m \in Msgs : handled[m] > 0} = {}
      /\ \A p \in Procs : batch[p] = {}
  BY DEF Init, Pending
<1>2. RefInv
  BY <1>1 DEF RefInv, Known
<1>3. Contract!Init
  BY <1>1 DEF Contract!Init
<1>4. GroupInv
  BY DEF Init, GroupInv, Alive
<1>5. QED
  BY <1>2, <1>3, <1>4, InitIndInv DEF ContractInv

LEMMA StepContract == ContractInv /\ [Next]_vars => ContractInv' /\ [Contract!Next]_Contract!vars
<1> SUFFICES ASSUME ContractInv, [Next]_vars PROVE ContractInv' /\ [Contract!Next]_Contract!vars
  OBVIOUS
<1>1. IndInv' /\ GroupInv'
  BY StepIndInv, GroupStep DEF ContractInv, IndInv, TypeInv
<1>2. CASE UNCHANGED vars
  BY <1>1, <1>2, Stutters DEF vars, redis, local, history, ContractInv, RefInv, Known, Pending, Delivered
<1>3. CASE Next
  BY <1>1, <1>3, EnvironmentContract, WorkContract DEF Next, Step, Work, ContractInv
<1>4. QED
  BY <1>2, <1>3

\* Every step of the workers, of Redis and of time is a step of the contract or none: an event is
\* delivered once, decided only after it was delivered, and settled only when it was decided or
\* dropped by the stream, whatever crashes, is lost or changes hands.
THEOREM ContractIsKept == Spec => Contract!Spec
BY InitContract, StepContract, PTL DEF Spec, Contract!Spec

--------------------------------------------------------------------------------
(* The attempts.                                                                *)

\* Process p will not fail at m again: the event has left the pending list, which it never
\* comes back to, and p has put it away.
Gone(p, m) == m \in Delivered \ Pending /\ m \notin batch[p]

\* The attempts at m that are spent, of MaxRetries for each process.
Spent(m) ==
  {u \in Procs \X (1 .. MaxRetries) : u[2] <= retry[u[1]][m] \/ Gone(u[1], m)}

\* A crash or a failing call grants one process its attempts anew.
Grants == MaxRetries * (crashes + faults)

BudgetInv == \A m \in Msgs : failures[m] <= Cardinality(Spent(m)) + Grants

\* A count of attempts is of failures, and a full one stands behind every dead letter.
EarnedInv ==
  /\ \A p \in Procs : \A m \in Msgs : retry[p][m] <= failures[m]
  /\ \A p \in Procs : \A m \in Msgs : pc[p] = "dlq" /\ Least(m, batch[p]) => failures[m] >= MaxRetries

RetriesInv == ContractInv /\ BudgetInv /\ EarnedInv /\ DeadLetterIsEarned

LEMMA AttemptsFinite ==
  /\ IsFiniteSet(Procs \X (1 .. MaxRetries))
  /\ Cardinality(Procs \X (1 .. MaxRetries)) = Cardinality(Procs) * MaxRetries
  /\ Cardinality(Procs) \in Nat
<1> USE ConsumerAssumption
<1>1. IsFiniteSet(1 .. MaxRetries) /\ Cardinality(1 .. MaxRetries) = MaxRetries
  BY FS_Interval
<1>2. QED
  BY <1>1, FS_Product, FS_CardinalityType

LEMMA SpentIsFinite ==
  ASSUME NEW S, S \subseteq Procs \X (1 .. MaxRetries)
  PROVE  IsFiniteSet(S) /\ Cardinality(S) \in Nat
BY AttemptsFinite, FS_Subset, FS_CardinalityType

\* The attempts of one process are as many as it is allowed.
LEMMA OneProcess ==
  ASSUME NEW p \in Procs
  PROVE  /\ {p} \X (1 .. MaxRetries) \subseteq Procs \X (1 .. MaxRetries)
         /\ Cardinality({p} \X (1 .. MaxRetries)) = MaxRetries
<1> USE ConsumerAssumption
<1>1. IsFiniteSet(1 .. MaxRetries) /\ Cardinality(1 .. MaxRetries) = MaxRetries
  BY FS_Interval
<1>2. IsFiniteSet({p}) /\ Cardinality({p}) = 1
  BY FS_Singleton
<1>3. Cardinality({p} \X (1 .. MaxRetries)) = 1 * MaxRetries
  BY <1>1, <1>2, FS_Product
<1>4. QED
  BY <1>3

LEMMA SpentKept ==
  ASSUME NEW S, NEW T, S \subseteq T, T \subseteq Procs \X (1 .. MaxRetries)
  PROVE  Cardinality(S) <= Cardinality(T)
BY SpentIsFinite, FS_Subset

LEMMA SpentGrows ==
  ASSUME NEW S, NEW T, S \subseteq T, T \subseteq Procs \X (1 .. MaxRetries), NEW u \in T \ S
  PROVE  Cardinality(S) + 1 <= Cardinality(T)
<1>1. IsFiniteSet(S) /\ Cardinality(S \cup {u}) = Cardinality(S) + 1
  BY SpentIsFinite, FS_AddElement
<1>2. Cardinality(S \cup {u}) <= Cardinality(T)
  BY SpentIsFinite, FS_Subset
<1>3. QED
  BY <1>1, <1>2

LEMMA SpentGranted ==
  ASSUME NEW S, NEW T, NEW p \in Procs, S \subseteq T \cup ({p} \X (1 .. MaxRetries)),
         T \subseteq Procs \X (1 .. MaxRetries)
  PROVE  Cardinality(S) <= Cardinality(T) + MaxRetries
<1> DEFINE P == {p} \X (1 .. MaxRetries)
<1>1. IsFiniteSet(T) /\ IsFiniteSet(P) /\ IsFiniteSet(T \cap P) /\ Cardinality(P) = MaxRetries
  BY SpentIsFinite, OneProcess
<1>2. Cardinality(T \cup P) = Cardinality(T) + MaxRetries - Cardinality(T \cap P)
  BY <1>1, FS_Union
<1>3. Cardinality(S) <= Cardinality(T \cup P)
  BY SpentKept, OneProcess
<1>4. Cardinality(T) \in Nat /\ Cardinality(T \cap P) \in Nat /\ Cardinality(S) \in Nat
  BY <1>1, SpentIsFinite, OneProcess
<1>5. QED
  BY <1>2, <1>3, <1>4, ConsumerAssumption

\* What p is done with it stays done with.
LEMMA GoneStays ==
  ASSUME ContractInv, [Next]_vars, NEW p \in Procs, NEW m \in Msgs, Gone(p, m)
  PROVE  Gone(p, m)'
<1> USE ConsumerAssumption
<1>inv. TypeOK /\ RefInv
  BY DEF ContractInv, IndInv, TypeInv
<1>0. start < m /\ m <= cursor /\ owner[m] = None /\ m \notin batch[p] /\ m \notin idle
  BY <1>inv DEF Gone, Delivered, Pending, RefInv
<1>g. group
  BY <1>inv, <1>0 DEF RefInv, TypeOK, Msgs
<1> SUFFICES start' < m /\ m <= cursor' /\ owner'[m] = None /\ m \notin batch'[p]
  BY DEF Gone, Delivered, Pending
<1>1. CASE Publish
  BY <1>0, <1>1 DEF Publish, local
<1>2. ASSUME NEW k \in Msgs, Age(k) PROVE start' < m /\ m <= cursor' /\ owner'[m] = None /\ m \notin batch'[p]
  BY <1>0, <1>2 DEF Age, local
<1>3. ASSUME NEW q \in Procs, Step(q) PROVE start' < m /\ m <= cursor' /\ owner'[m] = None /\ m \notin batch'[p]
  <2>1. CASE Start(q)
    BY <1>0, <1>g, <2>1 DEF Start
  <2>2. CASE Sweep(q) \/ ReadNothing(q) \/ HandleOk(q) \/ RouteToDlq(q)
    BY <1>0, <2>2 DEF Sweep, ReadNothing, HandleOk, RouteToDlq, redis
  <2>3. CASE Claim(q)
    BY <1>0, <1>inv, <2>3 DEF Claim, XClaim, TypeOK
  <2>4. CASE ReadPending(q)
    <3>1. m \notin FirstCount(OwnPending(q))
      BY <1>0, <1>inv DEF FirstCount, OwnPending, TypeOK
    <3>2. QED
      BY <1>0, <1>inv, <2>4, <3>1 DEF ReadPending, TypeOK
  <2>5. CASE ReadNew(q)
    <3>1. /\ Deliver(name[q]) /\ (batch' = [batch EXCEPT ![q] = NewEntries] \/ UNCHANGED batch)
          /\ UNCHANGED <<published, trimmed, start, handled, exhausted>> /\ name[q] \in Names
      BY <1>inv, <2>5 DEF ReadNew, history, TypeOK
    <3>2. (\A k \in NewEntries : cursor < k) /\ cursor <= cursor' /\ cursor' \in 0 .. MaxMsgs
      BY <3>1, DeliverStep
    <3>3. m \notin NewEntries
      BY <1>0, <1>inv, <3>2 DEF NewEntries, FirstCount, TypeOK, Msgs
    <3>4. owner'[m] = None /\ m \notin batch'[p]
      BY <1>0, <1>inv, <3>1, <3>3 DEF Deliver, TypeOK
    <3>5. QED
      BY <1>0, <1>inv, <3>1, <3>2, <3>4 DEF TypeOK, Msgs
  <2>6. CASE HandleFails(q)
    <3>1. PICK k : Finish(q, k) \/ UNCHANGED batch
      BY <2>6 DEF HandleFails, LeavePending
    <3>2. m \notin batch'[p]
      BY <1>0, <1>inv, <3>1, BatchShrinks
    <3>3. QED
      BY <1>0, <2>6, <3>2 DEF HandleFails, redis
  <2>7. CASE Ack(q)
    <3>1. PICK k : Finish(q, k) /\ (XAck(q, k) \/ UNCHANGED owner)
      BY <2>7 DEF Ack
    <3>2. m \notin batch'[p]
      BY <1>0, <1>inv, <3>1, BatchShrinks
    <3>3. owner'[m] = None
      BY <1>0, <1>inv, <3>1 DEF XAck, TypeOK
    <3>4. QED
      BY <1>0, <2>7, <3>2, <3>3 DEF Ack
  <2>8. CASE Crash(q)
    BY <1>0, <1>inv, <2>8 DEF Crash, redis, TypeOK
  <2>9. QED
    BY <1>3, <2>1, <2>2, <2>3, <2>4, <2>5, <2>6, <2>7, <2>8 DEF Step, Work
<1>4. CASE UNCHANGED vars
  BY <1>0, <1>4 DEF vars, redis, local
<1>5. QED
  BY <1>1, <1>2, <1>3, <1>4 DEF Next

LEMMA GrantsGrow ==
  ASSUME TypeOK, NEW c \in Nat, NEW f \in Nat, crashes <= c, faults <= f
  PROVE  /\ Grants \in Nat /\ MaxRetries * (c + f) \in Nat
         /\ Grants <= MaxRetries * (c + f)
         /\ crashes + faults + 1 <= c + f => Grants + MaxRetries <= MaxRetries * (c + f)
<1> USE ConsumerAssumption
<1>1. \A r, i, j \in Nat : r * (i + j) = r * i + r * j /\ r * j \in Nat /\ r * i \in Nat /\ (1 <= j => r <= r * j)
  OBVIOUS
<1>2. crashes \in Nat /\ faults \in Nat /\ MaxRetries \in Nat
  BY DEF TypeOK
<1> DEFINE i == crashes + faults  j == c + f - (crashes + faults)
<1>3. i \in Nat /\ j \in Nat /\ c + f = i + j
  BY <1>2
<1>4. MaxRetries * (i + j) = MaxRetries * i + MaxRetries * j /\ MaxRetries * j \in Nat /\ MaxRetries * i \in Nat
      /\ (1 <= j => MaxRetries <= MaxRetries * j)
  BY <1>1, <1>2, <1>3
<1>5. crashes + faults + 1 <= c + f => 1 <= j
  BY <1>2
<1> HIDE DEF i
<1>6. QED
  BY <1>2, <1>3, <1>4, <1>5 DEF Grants, i

\* The steps in which nobody counts an attempt.
LEMMA BudgetIdle ==
  ASSUME ContractInv, BudgetInv, [Next]_vars, UNCHANGED <<retry, failures>>,
         crashes <= crashes', faults <= faults', crashes' \in Nat, faults' \in Nat
  PROVE  BudgetInv'
<1>inv. TypeOK
  BY DEF ContractInv, IndInv, TypeInv
<1> SUFFICES ASSUME NEW m \in Msgs
             PROVE  failures[m] <= Cardinality(Spent(m)') + MaxRetries * (crashes' + faults')
  BY DEF BudgetInv, Grants
<1>1. Spent(m) \subseteq Spent(m)' /\ Spent(m)' \subseteq Procs \X (1 .. MaxRetries)
  BY GoneStays DEF Spent
<1>2. Cardinality(Spent(m)) <= Cardinality(Spent(m)')
  BY <1>1, SpentKept
<1>3. Cardinality(Spent(m)) \in Nat /\ Cardinality(Spent(m)') \in Nat
  BY <1>1, SpentIsFinite DEF Spent
<1>4. Grants <= MaxRetries * (crashes' + faults') /\ Grants \in Nat /\ MaxRetries * (crashes' + faults') \in Nat
  BY <1>inv, GrantsGrow
<1>5. failures[m] <= Cardinality(Spent(m)) + Grants /\ failures[m] \in Nat
  BY <1>inv DEF BudgetInv, TypeOK
<1>6. QED
  BY <1>2, <1>3, <1>4, <1>5

\* An attempt fails: one more is spent, as the message is still in the batch.
LEMMA BudgetFails ==
  ASSUME ContractInv, BudgetInv, [Next]_vars, NEW p \in Procs, HandleFails(p)
  PROVE  BudgetInv'
<1> USE ConsumerAssumption
<1>inv. TypeOK /\ RetryInv /\ TypeOK'
  BY StepTypeInv DEF ContractInv, IndInv, TypeInv
<1>1. PICK k \in batch[p] : /\ retry' = [retry EXCEPT ![p][k] = @ + 1]
                            /\ failures' = [failures EXCEPT ![k] = @ + 1]
  BY DEF HandleFails
<1>2. k \in Msgs /\ crashes <= crashes' /\ faults <= faults' /\ crashes' \in Nat /\ faults' \in Nat
  BY <1>inv DEF HandleFails, TypeOK, Fault
<1> SUFFICES ASSUME NEW m \in Msgs
             PROVE  failures'[m] <= Cardinality(Spent(m)') + MaxRetries * (crashes' + faults')
  BY DEF BudgetInv, Grants
<1>3. \A q \in Procs : retry'[q][m] = retry[q][m] \/ (q = p /\ m = k /\ retry'[q][m] = retry[q][m] + 1)
  <2>1. retry' = [retry EXCEPT ![p] = [retry[p] EXCEPT ![k] = retry[p][k] + 1]]
    BY <1>1
  <2>2. retry \in [Procs -> [Msgs -> 0 .. MaxRetries]]
    BY <1>inv DEF TypeOK
  <2>3. \A q \in Procs \ {p} : retry'[q] = retry[q]
    BY <2>1, <2>2
  <2>4. retry'[p] = [retry[p] EXCEPT ![k] = retry[p][k] + 1] /\ retry[p] \in [Msgs -> 0 .. MaxRetries]
    BY <2>1, <2>2
  <2>5. retry'[p][m] = retry[p][m] \/ (m = k /\ retry'[p][m] = retry[p][m] + 1)
    BY <1>2, <2>4
  <2>6. ASSUME NEW q \in Procs
        PROVE  retry'[q][m] = retry[q][m] \/ (q = p /\ m = k /\ retry'[q][m] = retry[q][m] + 1)
    <3>1. CASE q = p
      BY <2>5, <3>1
    <3>2. CASE q # p
      BY <2>3, <3>2
    <3>3. QED
      BY <3>1, <3>2
  <2>7. QED
    BY <2>6
<1>4. \A q \in Procs : retry[q][m] \in 0 .. MaxRetries /\ retry'[q][m] \in 0 .. MaxRetries
  BY <1>inv DEF TypeOK
<1>5. Spent(m) \subseteq Spent(m)' /\ Spent(m)' \subseteq Procs \X (1 .. MaxRetries)
  BY <1>3, <1>4, GoneStays DEF Spent
<1>6. Cardinality(Spent(m)) \in Nat /\ Cardinality(Spent(m)') \in Nat
  BY <1>5, SpentIsFinite DEF Spent
<1>7. Grants <= MaxRetries * (crashes' + faults') /\ Grants \in Nat /\ MaxRetries * (crashes' + faults') \in Nat
  BY <1>inv, <1>2, GrantsGrow
<1>8. failures[m] <= Cardinality(Spent(m)) + Grants /\ failures[m] \in Nat
  BY <1>inv DEF BudgetInv, TypeOK
<1>9. CASE m = k
  <2>1. failures'[m] = failures[m] + 1
    BY <1>1, <1>9, <1>inv DEF TypeOK
  <2>2. retry'[p][m] = retry[p][m] + 1
    BY <1>1, <1>2, <1>9, <1>inv DEF TypeOK
  <2> DEFINE u == <<p, retry[p][m] + 1>>
  <2>3. u \in Spent(m)'
    BY <1>4, <2>2 DEF Spent
  <2>4. u \notin Spent(m)
    BY <1>4, <1>9 DEF Spent, Gone
  <2>5. Cardinality(Spent(m)) + 1 <= Cardinality(Spent(m)')
    BY <1>5, <2>3, <2>4, SpentGrows
  <2>6. QED
    BY <1>6, <1>7, <1>8, <2>1, <2>5
<1>10. CASE m # k
  <2>1. failures'[m] = failures[m]
    BY <1>1, <1>10, <1>inv DEF TypeOK
  <2>2. Cardinality(Spent(m)) <= Cardinality(Spent(m)')
    BY <1>5, SpentKept
  <2>3. QED
    BY <1>6, <1>7, <1>8, <2>1, <2>2
<1>11. QED
  BY <1>9, <1>10

\* The count of a process is dropped: for one message that it acknowledged, which is gone then,
\* or else for a failure or a crash that grants as much.
LEMMA BudgetDropped ==
  ASSUME ContractInv, BudgetInv, [Next]_vars, NEW p \in Procs, UNCHANGED failures,
         crashes <= crashes', faults <= faults', crashes' \in Nat, faults' \in Nat,
         \A q \in Procs \ {p} : retry'[q] = retry[q],
         \/ crashes + faults + 1 <= crashes' + faults'
         \/ \A m \in Msgs : retry'[p][m] = retry[p][m] \/ Gone(p, m)'
  PROVE  BudgetInv'
<1>inv. TypeOK
  BY DEF ContractInv, IndInv, TypeInv
<1> SUFFICES ASSUME NEW m \in Msgs
             PROVE  failures[m] <= Cardinality(Spent(m)') + MaxRetries * (crashes' + faults')
  BY DEF BudgetInv, Grants
<1>1. /\ Grants <= MaxRetries * (crashes' + faults') /\ Grants \in Nat /\ MaxRetries * (crashes' + faults') \in Nat
      /\ crashes + faults + 1 <= crashes' + faults' => Grants + MaxRetries <= MaxRetries * (crashes' + faults')
  BY <1>inv, GrantsGrow
<1>2. failures[m] <= Cardinality(Spent(m)) + Grants /\ failures[m] \in Nat
  BY <1>inv DEF BudgetInv, TypeOK
<1>3. Spent(m)' \subseteq Procs \X (1 .. MaxRetries) /\ Cardinality(Spent(m)) \in Nat /\ Cardinality(Spent(m)') \in Nat
  BY SpentIsFinite DEF Spent
<1>4. CASE crashes + faults + 1 <= crashes' + faults'
  <2>1. Spent(m) \subseteq Spent(m)' \cup ({p} \X (1 .. MaxRetries))
    BY GoneStays DEF Spent
  <2>2. Cardinality(Spent(m)) <= Cardinality(Spent(m)') + MaxRetries
    BY <1>3, <2>1, SpentGranted
  <2>3. MaxRetries \in Nat
    BY ConsumerAssumption
  <2> DEFINE price == MaxRetries * (crashes' + faults')
  <2>4. Grants + MaxRetries <= price /\ Grants \in Nat /\ price \in Nat
    BY <1>1, <1>4
  <2> HIDE DEF price
  <2>5. failures[m] <= Cardinality(Spent(m)') + price
    BY <1>2, <1>3, <2>2, <2>3, <2>4
  <2>6. QED
    BY <2>5 DEF price
<1>5. CASE retry'[p][m] = retry[p][m] \/ Gone(p, m)'
  <2>1. Spent(m) \subseteq Spent(m)'
    BY <1>5, GoneStays DEF Spent
  <2>2. Cardinality(Spent(m)) <= Cardinality(Spent(m)')
    BY <1>3, <2>1, SpentKept
  <2>3. QED
    BY <1>1, <1>2, <1>3, <2>2
<1>6. QED
  BY <1>4, <1>5

LEMMA StepBudgetInv ==
  ASSUME ContractInv, BudgetInv, [Next]_vars
  PROVE  BudgetInv'
<1> USE ConsumerAssumption
<1>inv. TypeOK /\ TypeOK' /\ RefInv
  BY StepTypeInv DEF ContractInv, IndInv, TypeInv
<1>0. crashes \in Nat /\ faults \in Nat /\ crashes' \in Nat /\ faults' \in Nat
  BY <1>inv DEF TypeOK
<1>1. CASE Publish \/ (\E m \in Msgs : Age(m)) \/ UNCHANGED vars
  <2>1. UNCHANGED <<retry, failures, crashes, faults>>
    BY <1>1 DEF Publish, Age, vars, local, history
  <2>2. QED
    BY <1>0, <2>1, BudgetIdle
<1>2. ASSUME NEW p \in Procs, Start(p) \/ Sweep(p) \/ Claim(p) \/ ReadPending(p) \/ ReadNew(p)
                              \/ ReadNothing(p) \/ HandleOk(p) \/ RouteToDlq(p)
      PROVE  BudgetInv'
  <2>1. UNCHANGED <<retry, failures>> /\ crashes <= crashes' /\ faults <= faults'
    BY <1>0, <1>2 DEF Start, Sweep, Claim, ReadPending, ReadNew, ReadNothing, HandleOk, RouteToDlq, history, Fault
  <2>2. QED
    BY <1>0, <2>1, BudgetIdle
<1>3. ASSUME NEW p \in Procs, HandleFails(p) PROVE BudgetInv'
  BY <1>3, BudgetFails
<1>4. ASSUME NEW p \in Procs, Ack(p) PROVE BudgetInv'
  <2>1. PICK k \in batch[p] : /\ (XAck(p, k) /\ UNCHANGED faults) \/ Fault
                              /\ retry' = [retry EXCEPT ![p][k] = 0] /\ Finish(p, k)
    BY <1>4 DEF Ack
  <2>2. UNCHANGED <<start, cursor, failures, crashes>> /\ k \in Msgs /\ k \in Delivered
    BY <1>4, <1>inv DEF Ack, history, RefInv, Delivered
  <2>3. (\A q \in Procs \ {p} : retry'[q] = retry[q]) /\ (\A m \in Msgs \ {k} : retry'[p][m] = retry[p][m])
    BY <2>1, <2>2, <1>inv DEF TypeOK
  <2>4. CASE XAck(p, k) /\ UNCHANGED faults
    <3>1. k \notin batch'[p] /\ owner'[k] = None
      BY <2>1, <2>2, <2>4, <1>inv DEF Finish, XAck, TypeOK
    <3>2. Gone(p, k)'
      BY <2>2, <3>1 DEF Gone, Delivered, Pending
    <3>3. QED
      BY <1>0, <2>2, <2>3, <2>4, <3>2, BudgetDropped
  <2>5. CASE Fault
    BY <1>0, <2>2, <2>3, <2>5, BudgetDropped DEF Fault
  <2>6. QED
    BY <2>1, <2>4, <2>5
<1>5. ASSUME NEW p \in Procs, Crash(p) PROVE BudgetInv'
  <2>1. /\ crashes' = crashes + 1 /\ UNCHANGED <<faults, failures>>
        /\ \A q \in Procs \ {p} : retry'[q] = retry[q]
    BY <1>5, <1>inv DEF Crash, history, TypeOK
  <2>2. QED
    BY <1>0, <2>1, BudgetDropped
<1>6. QED
  BY <1>1, <1>2, <1>3, <1>4, <1>5 DEF Next, Step, Work

LEMMA StepEarnedInv ==
  ASSUME ContractInv, EarnedInv, DeadLetterIsEarned, [Next]_vars
  PROVE  EarnedInv' /\ DeadLetterIsEarned'
<1> USE ConsumerAssumption
<1>inv. TypeOK /\ TypeOK'
  BY StepTypeInv DEF ContractInv, IndInv, TypeInv
<1>1. CASE Publish \/ (\E m \in Msgs : Age(m)) \/ UNCHANGED vars
  <2>1. UNCHANGED <<retry, failures, pc, batch, dlq>>
    BY <1>1 DEF Publish, Age, vars, redis, local, history
  <2>2. QED
    BY <2>1 DEF EarnedInv, DeadLetterIsEarned, Least
<1>2. ASSUME NEW p \in Procs, Start(p) \/ Sweep(p) \/ Claim(p) \/ ReadPending(p) \/ ReadNew(p)
                              \/ ReadNothing(p) \/ HandleOk(p)
      PROVE  EarnedInv' /\ DeadLetterIsEarned'
  <2>1. UNCHANGED <<retry, failures, dlq>>
    BY <1>2 DEF Start, Sweep, Claim, ReadPending, ReadNew, ReadNothing, HandleOk, redis, history
  <2>2. pc'[p] # "dlq" /\ \A q \in Procs \ {p} : pc'[q] = pc[q] /\ batch'[q] = batch[q]
    BY <1>2, <1>inv DEF Start, Sweep, Claim, ReadPending, ReadNew, ReadNothing, HandleOk, TypeOK
  <2>3. QED
    BY <2>1, <2>2 DEF EarnedInv, DeadLetterIsEarned, Least
<1>3. ASSUME NEW p \in Procs, HandleFails(p) PROVE EarnedInv' /\ DeadLetterIsEarned'
  <2>1. PICK k \in batch[p] :
          /\ Least(k, batch[p]) /\ retry' = [retry EXCEPT ![p][k] = @ + 1]
          /\ failures' = [failures EXCEPT ![k] = @ + 1]
          /\ \/ Exhausts(p, k) /\ UNCHANGED batch /\ pc' = [pc EXCEPT ![p] = "dlq"]
             \/ Finish(p, k)
    BY <1>3 DEF HandleFails, Current, LeavePending
  <2>2. k \in Msgs /\ UNCHANGED dlq
    BY <1>3, <1>inv DEF HandleFails, redis, TypeOK
  <2>3. /\ \A m \in Msgs : failures'[m] >= failures[m]
        /\ failures'[k] = failures[k] + 1
    BY <1>inv, <2>1, <2>2 DEF TypeOK
  <2>4. \A q \in Procs, m \in Msgs : retry'[q][m] = retry[q][m] \/ (m = k /\ retry'[q][m] = retry[q][m] + 1)
    BY <1>inv, <2>1, <2>2 DEF TypeOK
  <2>5. \A q \in Procs, m \in Msgs : retry[q][m] \in Nat /\ failures[m] \in Nat /\ retry[q][m] <= failures[m]
    BY <1>inv DEF EarnedInv, TypeOK
  <2>0. \A m \in Msgs : failures'[m] \in Nat
    BY <1>inv DEF TypeOK
  <2>6. \A q \in Procs, m \in Msgs : retry'[q][m] <= failures'[m]
    BY <2>2, <2>3, <2>4, <2>5, <2>0
  <2>7. \A q \in Procs, m \in Msgs : pc'[q] = "dlq" /\ Least(m, batch'[q]) => failures'[m] >= MaxRetries
    <3> SUFFICES ASSUME NEW q \in Procs, NEW m \in Msgs, pc'[q] = "dlq", Least(m, batch'[q])
                 PROVE  failures'[m] >= MaxRetries
      OBVIOUS
    <3>1. CASE q = p
      <4>1. Exhausts(p, k) /\ UNCHANGED batch
        BY <1>inv, <2>1, <3>1 DEF Finish, TypeOK
      <4>2. m = k
        BY <1>inv, <2>1, <2>2, <3>1, <4>1, LeastUnique DEF TypeOK
      <4>3. QED
        BY <2>2, <2>3, <2>5, <4>1, <4>2 DEF Exhausts
    <3>2. CASE q # p
      <4>1. pc[q] = "dlq" /\ batch'[q] = batch[q]
        BY <1>inv, <2>1, <3>2 DEF Finish, TypeOK
      <4>2. failures[m] >= MaxRetries
        BY <4>1 DEF EarnedInv
      <4>3. QED
        BY <2>3, <2>5, <4>2, <1>inv DEF TypeOK
    <3>3. QED
      BY <3>1, <3>2
  <2>8. DeadLetterIsEarned'
    BY <1>inv, <2>2, <2>3 DEF DeadLetterIsEarned, TypeOK
  <2>9. QED
    BY <2>6, <2>7, <2>8 DEF EarnedInv
<1>4. ASSUME NEW p \in Procs, RouteToDlq(p) PROVE EarnedInv' /\ DeadLetterIsEarned'
  <2>1. PICK k \in batch[p] : Least(k, batch[p]) /\ (dlq' = dlq \cup {k} \/ dlq' = dlq)
    BY <1>4 DEF RouteToDlq, Current
  <2>2. UNCHANGED <<retry, failures, batch>> /\ pc[p] = "dlq" /\ pc' = [pc EXCEPT ![p] = "ack"] /\ k \in Msgs
    BY <1>4, <1>inv DEF RouteToDlq, history, TypeOK
  <2>3. failures[k] >= MaxRetries
    BY <2>1, <2>2 DEF EarnedInv
  <2>4. DeadLetterIsEarned'
    BY <2>1, <2>2, <2>3 DEF DeadLetterIsEarned
  <2>5. EarnedInv'
    BY <1>inv, <2>2 DEF EarnedInv, TypeOK, Least
  <2>6. QED
    BY <2>4, <2>5
<1>5. ASSUME NEW p \in Procs, Ack(p) \/ Crash(p) PROVE EarnedInv' /\ DeadLetterIsEarned'
  <2>1. UNCHANGED <<failures, dlq>>
    BY <1>5 DEF Ack, Crash, redis, history
  <2>2. \A q \in Procs, m \in Msgs : retry'[q][m] = retry[q][m] \/ retry'[q][m] = 0
    BY <1>5, <1>inv DEF Ack, Crash, TypeOK
  <2>3. pc'[p] # "dlq" /\ \A q \in Procs \ {p} : pc'[q] = pc[q] /\ batch'[q] = batch[q]
    BY <1>5, <1>inv DEF Ack, Crash, Finish, TypeOK
  <2>4. \A q \in Procs, m \in Msgs : failures'[m] = failures[m] /\ failures[m] \in Nat /\ retry'[q][m] <= failures'[m]
    <3>1. \A m \in Msgs : failures[m] \in Nat
      BY <1>inv DEF TypeOK
    <3>2. \A q \in Procs, m \in Msgs : retry[q][m] <= failures[m]
      BY DEF EarnedInv
    <3>3. QED
      BY <2>1, <2>2, <3>1, <3>2
  <2>5. EarnedInv'
    BY <2>1, <2>3, <2>4 DEF EarnedInv, Least
  <2>6. QED
    BY <2>1, <2>5 DEF DeadLetterIsEarned
<1>6. QED
  BY <1>1, <1>2, <1>3, <1>4, <1>5 DEF Next, Step, Work

\* A dead letter has had all its attempts, and no event has more attempts than each process is
\* allowed, and as many again for each crash and each failing call: whoever takes entries over
\* from whom, and however slow handlers are.
THEOREM RetriesBudgeted == Spec => []RetriesAreBudgeted
<1>1. Init => BudgetInv /\ EarnedInv /\ DeadLetterIsEarned
  <2> SUFFICES ASSUME Init PROVE BudgetInv /\ EarnedInv /\ DeadLetterIsEarned
    OBVIOUS
  <2>1. TypeOK
    BY InitTypeInv DEF TypeInv
  <2>2. Grants \in Nat
    BY <2>1, GrantsGrow DEF Init
  <2>3. \A m \in Msgs : failures[m] = 0 /\ Cardinality(Spent(m)) \in Nat
    BY SpentIsFinite DEF Init, Spent
  <2>4. BudgetInv
    BY <2>2, <2>3 DEF BudgetInv
  <2>5. QED
    BY <2>4 DEF Init, EarnedInv, DeadLetterIsEarned
<1>2. RetriesInv /\ [Next]_vars => RetriesInv'
  BY StepContract, StepBudgetInv, StepEarnedInv DEF RetriesInv
<1>3. RetriesInv => RetriesAreBudgeted
  <2> SUFFICES ASSUME RetriesInv, NEW m \in Msgs
               PROVE  failures[m] <= MaxRetries * (Cardinality(Procs) + crashes + faults)
    BY DEF RetriesInv, RetriesAreBudgeted, AttemptsBounded
  <2>1. TypeOK
    BY DEF RetriesInv, ContractInv, IndInv, TypeInv
  <2>2. Cardinality(Spent(m)) <= Cardinality(Procs) * MaxRetries /\ Cardinality(Spent(m)) \in Nat
    BY AttemptsFinite, SpentKept, SpentIsFinite DEF Spent
  <2>3. failures[m] <= Cardinality(Spent(m)) + Grants
    BY DEF RetriesInv, BudgetInv
  <2>5. \A r, i, j \in Nat : r * (i + j) = i * r + r * j /\ i * r \in Nat
    OBVIOUS
  <2>0. crashes \in Nat /\ faults \in Nat /\ failures[m] \in Nat /\ MaxRetries \in Nat
    BY <2>1, ConsumerAssumption DEF TypeOK
  <2>4. /\ crashes + faults \in Nat /\ MaxRetries \in Nat /\ Cardinality(Procs) \in Nat /\ failures[m] \in Nat
        /\ Grants \in Nat /\ Cardinality(Procs) * MaxRetries \in Nat
    <3>1. Grants \in Nat
      BY <2>0, <2>5 DEF Grants
    <3>2. Cardinality(Procs) \in Nat
      BY AttemptsFinite
    <3>3. QED
      BY <2>5, <2>0, <3>1, <3>2
  <2>6. MaxRetries * (Cardinality(Procs) + (crashes + faults)) = Cardinality(Procs) * MaxRetries + Grants
    BY <2>4, <2>5 DEF Grants
  <2>7. Cardinality(Procs) + (crashes + faults) = Cardinality(Procs) + crashes + faults
    BY <2>1, <2>4 DEF TypeOK
  <2>8. QED
    BY <2>2, <2>3, <2>4, <2>6, <2>7
<1>4. QED
  BY <1>1, <1>2, <1>3, InitContract, PTL DEF Spec, RetriesInv

--------------------------------------------------------------------------------
(* Prompt processes with names of their own.                                    *)

\* No two processes ever run under the same name.
NamesDiffer == \A p, q \in Procs : p # q => NameChoices[p] \cap NameChoices[q] = {}

\* What a process works on is pending for it or for nobody, and not idle unless it was trimmed,
\* in which case a claim drops it; and a process that does not run works on nothing.
HoldsOwn ==
  \A p \in Procs :
    /\ name[p] \in NameChoices[p]
    /\ ~Alive(p) => batch[p] = {}
    /\ \A m \in batch[p] : owner[m] \in {name[p], None} /\ (m \in idle => m <= trimmed)

LEMMA StepExclusive ==
  ASSUME Prompt, NamesDiffer, ContractInv, HoldsOwn, ExclusiveBatches, [Next]_vars
  PROVE  HoldsOwn' /\ ExclusiveBatches'
<1> USE ConsumerAssumption
<1>inv. TypeOK /\ RefInv
  BY DEF ContractInv, IndInv, TypeInv
<1>own. \A p \in Procs : \A m \in batch[p] :
          m \in Msgs /\ m \in Delivered /\ owner[m] \in {name[p], None} /\ (m \in idle => m <= trimmed)
  BY <1>inv DEF HoldsOwn, RefInv, TypeOK
<1>differ. \A p, q \in Procs : p # q => name[p] # name[q] /\ name[p] # None /\ name[p] \in Names
  BY <1>inv DEF HoldsOwn, NamesDiffer, TypeOK
<1>1. CASE Publish
  <2>1. UNCHANGED <<owner, idle, pc, name, batch>> /\ trimmed <= trimmed' /\ trimmed \in Nat /\ trimmed' \in Nat
    BY <1>1, <1>inv DEF Publish, local, TypeOK
  <2>2. \A m \in Msgs : m <= trimmed => m <= trimmed'
    BY <2>1 DEF Msgs
  <2>3. QED
    BY <1>own, <2>1, <2>2 DEF HoldsOwn, ExclusiveBatches, Alive
<1>2. ASSUME NEW k \in Msgs, Age(k) PROVE HoldsOwn' /\ ExclusiveBatches'
  <2>1. UNCHANGED <<owner, pc, name, batch, trimmed>> /\ idle' = idle \cup {k} /\ \A p \in Procs : k \notin batch[p]
    BY <1>2 DEF Age, local, Busy
  <2>2. QED
    BY <2>1 DEF HoldsOwn, ExclusiveBatches, Alive
<1>3. ASSUME NEW q \in Procs, Start(q) PROVE HoldsOwn' /\ ExclusiveBatches'
  <2>1. /\ UNCHANGED <<owner, idle, batch, trimmed>> /\ batch[q] = {} /\ name'[q] \in NameChoices[q]
        /\ \A p \in Procs \ {q} : pc'[p] = pc[p] /\ name'[p] = name[p]
    BY <1>3, <1>inv DEF Start, HoldsOwn, TypeOK
  <2>2. QED
    BY <2>1 DEF HoldsOwn, ExclusiveBatches, Alive
<1>4. ASSUME NEW q \in Procs, Sweep(q) \/ ReadNothing(q) \/ HandleOk(q) \/ RouteToDlq(q)
      PROVE  HoldsOwn' /\ ExclusiveBatches'
  <2>1. UNCHANGED <<owner, idle, batch, trimmed, name>> /\ \A p \in Procs : Alive(p)' = Alive(p)
    BY <1>4, <1>inv DEF Sweep, ReadNothing, HandleOk, RouteToDlq, redis, Alive, TypeOK
  <2>2. QED
    BY <2>1 DEF HoldsOwn, ExclusiveBatches
<1>5. ASSUME NEW q \in Procs, Claim(q) PROVE HoldsOwn' /\ ExclusiveBatches'
  <2>1. UNCHANGED <<batch, trimmed, name>> /\ \A p \in Procs : Alive(p)' = Alive(p)
    BY <1>5, <1>inv DEF Claim, Alive, TypeOK
  <2>2. \E k : XClaim(name[q], k) \/ UNCHANGED <<owner, idle>>
    BY <1>5 DEF Claim
  <2>3. \A p \in Procs : \A m \in batch[p] : owner'[m] \in {name[p], None} /\ (m \in idle' => m <= trimmed)
    BY <1>own, <1>inv, <2>2 DEF XClaim, TypeOK
  <2>4. QED
    BY <2>1, <2>3 DEF HoldsOwn, ExclusiveBatches
<1>6. ASSUME NEW q \in Procs, ReadPending(q) PROVE HoldsOwn' /\ ExclusiveBatches'
  <2>1. UNCHANGED <<owner, trimmed, name>> /\ \A p \in Procs : Alive(p)' = Alive(p)
    BY <1>6, <1>inv DEF ReadPending, Alive, TypeOK
  <2>2. Alive(q)
    BY <1>6 DEF ReadPending, Alive
  <2>3. /\ batch' = [batch EXCEPT ![q] = FirstCount(OwnPending(q))]
        /\ idle' = idle \ {m \in FirstCount(OwnPending(q)) : m > trimmed}
    BY <1>6 DEF ReadPending
  <2>4. \A m \in FirstCount(OwnPending(q)) : m \in Msgs /\ owner[m] = name[q]
    BY DEF FirstCount, OwnPending
  <2>5. batch'[q] = FirstCount(OwnPending(q)) /\ \A p \in Procs \ {q} : batch'[p] = batch[p]
    BY <1>inv, <2>3 DEF TypeOK
  <2>6. \A m \in batch'[q] : owner'[m] \in {name'[q], None} /\ (m \in idle' => m <= trimmed')
    BY <1>inv, <2>1, <2>3, <2>4, <2>5 DEF TypeOK, Msgs
  <2>7. \A p \in Procs \ {q} : batch'[p] \cap batch'[q] = {}
    BY <1>own, <1>differ, <2>4, <2>5
  <2>8. ExclusiveBatches'
    BY <2>5, <2>7 DEF ExclusiveBatches
  <2>9. HoldsOwn'
    BY <2>1, <2>2, <2>3, <2>5, <2>6 DEF HoldsOwn
  <2>10. QED
    BY <2>8, <2>9
<1>7. ASSUME NEW q \in Procs, ReadNew(q) PROVE HoldsOwn' /\ ExclusiveBatches'
  <2>1. /\ Deliver(name[q]) /\ (batch' = [batch EXCEPT ![q] = NewEntries] \/ UNCHANGED batch)
        /\ UNCHANGED <<published, trimmed, idle, name, handled, exhausted>>
        /\ Alive(q) /\ \A p \in Procs : Alive(p)' = Alive(p)
    BY <1>7, <1>inv DEF ReadNew, history, Alive, TypeOK
  <2>2. \A m \in NewEntries : cursor < m /\ m \in Msgs
    BY DEF NewEntries, FirstCount
  <2>3. \A m \in NewEntries : m \notin Delivered /\ m \notin idle
    BY <1>inv, <2>2 DEF Delivered, RefInv, Known, TypeOK, Msgs
  <2>4. \A p \in Procs : batch[p] \cap NewEntries = {}
    BY <1>own, <2>3
  <2>5. /\ \A p \in Procs \ {q} : batch'[p] = batch[p]
        /\ batch'[q] = NewEntries \/ batch'[q] = batch[q]
    BY <1>inv, <2>1 DEF TypeOK
  <2>6. \A m \in Msgs : owner'[m] = IF m \in NewEntries THEN name[q] ELSE owner[m]
    BY <2>1 DEF Deliver
  <2>7. \A p \in Procs : \A m \in batch'[p] : owner'[m] \in {name[p], None} /\ (m \in idle => m <= trimmed)
    BY <1>own, <2>2, <2>3, <2>4, <2>5, <2>6
  <2>8. HoldsOwn'
    BY <2>1, <2>5, <2>7 DEF HoldsOwn
  <2>9. ExclusiveBatches'
    BY <2>4, <2>5 DEF ExclusiveBatches
  <2>10. QED
    BY <2>8, <2>9
<1>8. ASSUME NEW q \in Procs, HandleFails(q) PROVE HoldsOwn' /\ ExclusiveBatches'
  <2>1. UNCHANGED <<owner, idle, trimmed, name>> /\ \A p \in Procs : Alive(p)' = Alive(p)
    BY <1>8, <1>inv DEF HandleFails, LeavePending, Finish, redis, Alive, TypeOK
  <2>2. PICK k : Finish(q, k) \/ UNCHANGED batch
    BY <1>8 DEF HandleFails, LeavePending
  <2>3. \A p \in Procs : batch'[p] \subseteq batch[p]
    BY <1>inv, <2>2, BatchShrinks
  <2>4. QED
    BY <2>1, <2>3 DEF HoldsOwn, ExclusiveBatches
<1>9. ASSUME NEW q \in Procs, Ack(q) PROVE HoldsOwn' /\ ExclusiveBatches'
  <2>1. UNCHANGED <<trimmed, name>> /\ \A p \in Procs : Alive(p)' = Alive(p)
    BY <1>9, <1>inv DEF Ack, Finish, Alive, TypeOK
  <2>2. PICK k : Finish(q, k) /\ (XAck(q, k) \/ UNCHANGED <<owner, idle>>)
    BY <1>9 DEF Ack
  <2>3. \A p \in Procs : batch'[p] \subseteq batch[p]
    BY <1>inv, <2>2, BatchShrinks
  <2>4. idle' \subseteq idle /\ \A m \in Msgs : owner'[m] \in {owner[m], None}
    BY <1>inv, <2>2 DEF XAck, TypeOK
  <2>5. \A p \in Procs : \A m \in batch'[p] : owner'[m] \in {name[p], None} /\ (m \in idle' => m <= trimmed)
    BY <1>own, <2>3, <2>4
  <2>6. QED
    BY <2>1, <2>3, <2>5 DEF HoldsOwn, ExclusiveBatches
<1>10. ASSUME NEW q \in Procs, Crash(q) PROVE HoldsOwn' /\ ExclusiveBatches'
  <2>1. UNCHANGED <<owner, idle, trimmed, name>> /\ batch'[q] = {}
        /\ \A p \in Procs \ {q} : batch'[p] = batch[p] /\ pc'[p] = pc[p]
    BY <1>10, <1>inv DEF Crash, redis, TypeOK
  <2>2. QED
    BY <2>1 DEF HoldsOwn, ExclusiveBatches, Alive
<1>11. CASE UNCHANGED vars
  BY <1>11 DEF vars, redis, local, HoldsOwn, ExclusiveBatches, Alive
<1>12. QED
  BY <1>1, <1>2, <1>3, <1>4, <1>5, <1>6, <1>7, <1>8, <1>9, <1>10, <1>11 DEF Next, Step, Work

\* Prompt processes with names of their own are never at the same event: a sweep that goes by a
\* stale reply of XPENDING takes nothing that another process has claimed, read or been given.
THEOREM NobodyTwice ==
  ASSUME Prompt, NamesDiffer
  PROVE  Spec => []ExclusiveBatches
<1>1. Init => HoldsOwn /\ ExclusiveBatches
  BY DEF Init, HoldsOwn, ExclusiveBatches
<1>2. ContractInv /\ HoldsOwn /\ ExclusiveBatches /\ [Next]_vars => (ContractInv /\ HoldsOwn /\ ExclusiveBatches)'
  BY StepExclusive, StepContract
<1>3. QED
  BY <1>1, <1>2, InitContract, PTL DEF Spec

\* What every event was handled for: some process is about to acknowledge it, or it has gone for
\* all of them.  A process that dies before the XACK, or whose XACK fails, leaves it to be handled
\* again, and pays for that.
AtAck(p, m) == pc[p] = "ack" /\ Least(m, batch[p])

Through(m) == (\E p \in Procs : AtAck(p, m)) \/ (\A p \in Procs : Gone(p, m))

RepeatInv == \A m \in Msgs : handled[m] <= crashes + faults + (IF Through(m) THEN 1 ELSE 0)

LEMMA ThroughStays ==
  ASSUME ContractInv, ExclusiveBatches, [Next]_vars, crashes' = crashes, faults' = faults,
         NEW m \in Msgs, Through(m)
  PROVE  Through(m)'
<1> USE ConsumerAssumption
<1>inv. TypeOK /\ RefInv
  BY DEF ContractInv, IndInv, TypeInv
<1>1. CASE \A p \in Procs : Gone(p, m)
  BY <1>1, GoneStays DEF Through
<1>2. ASSUME NEW p \in Procs, AtAck(p, m) PROVE Through(m)'
  <2>1. pc[p] = "ack" /\ m \in batch[p] /\ m \in Delivered
    BY <1>2, <1>inv DEF AtAck, Least, RefInv
  <2>2. CASE pc'[p] = pc[p] /\ batch'[p] = batch[p]
    BY <1>2, <2>2 DEF AtAck, Least, Through
  <2>3. CASE Ack(p)
    <3>1. PICK k \in batch[p] : /\ Current(p, k) /\ Finish(p, k)
                                /\ (XAck(p, k) /\ UNCHANGED faults) \/ Fault
      BY <2>3 DEF Ack
    <3>2. k = m
      BY <1>2, <1>inv, <3>1, LeastUnique DEF AtAck, Current, TypeOK
    <3>3. XAck(p, m)
      BY <1>inv, <3>1, <3>2 DEF Fault, TypeOK
    <3>4. \A q \in Procs : m \notin batch'[q]
      BY <1>inv, <2>1, <3>1, <3>2 DEF Finish, ExclusiveBatches, TypeOK
    <3>5. m \in Delivered' /\ m \notin Pending'
      BY <1>inv, <2>1, <2>3, <3>3 DEF Ack, XAck, Delivered, Pending, TypeOK
    <3>6. QED
      BY <3>4, <3>5 DEF Through, Gone
  <2>4. CASE UNCHANGED vars
    BY <2>2, <2>4 DEF vars, local
  <2>5. CASE Publish \/ (\E k \in Msgs : Age(k))
    BY <2>2, <2>5 DEF Publish, Age, local
  <2>6. ASSUME NEW q \in Procs, Step(q), q # p PROVE Through(m)'
    <3>1. pc'[p] = pc[p] /\ batch'[p] = batch[p]
      BY <2>6, <1>inv DEF Step, Work, Start, Sweep, Claim, ReadPending, ReadNew, ReadNothing, HandleOk,
                          HandleFails, LeavePending, Finish, RouteToDlq, Ack, Crash, TypeOK
    <3>2. QED
      BY <2>2, <3>1
  <2>7. CASE Step(p)
    <3>1. Ack(p)
      BY <2>1, <2>7, <1>inv DEF Step, Work, Start, Sweep, Claim, ReadPending, ReadNew, ReadNothing, HandleOk,
                          HandleFails, RouteToDlq, Crash, Alive, TypeOK
    <3>2. QED
      BY <2>3, <3>1
  <2>8. QED
    BY <2>4, <2>5, <2>6, <2>7 DEF Next
<1>3. QED
  BY <1>1, <1>2 DEF Through

LEMMA StepRepeats ==
  ASSUME ContractInv, ExclusiveBatches, RepeatInv, [Next]_vars
  PROVE  RepeatInv'
<1> USE ConsumerAssumption
<1>inv. TypeOK /\ RefInv
  BY DEF ContractInv, IndInv, TypeInv
<1>nat. /\ handled \in [Msgs -> Nat] /\ crashes \in Nat /\ faults \in Nat
  BY <1>inv DEF TypeOK
<1>1. ASSUME NEW p \in Procs, HandleOk(p) PROVE RepeatInv'
  <2>1. PICK k \in batch[p] : Current(p, k) /\ handled' = [handled EXCEPT ![k] = @ + 1]
    BY <1>1 DEF HandleOk
  <2>2. UNCHANGED <<batch, crashes, faults>> /\ pc[p] = "handle" /\ pc'[p] = "ack" /\ k \in Msgs
    BY <1>1, <1>inv, <2>1 DEF HandleOk, TypeOK
  <2>3. ~Through(k)
    BY <1>inv, <2>1, <2>2 DEF Through, AtAck, Gone, Least, ExclusiveBatches, TypeOK
  <2>4. Through(k)'
    BY <2>1, <2>2 DEF Through, AtAck, Current, Least
  <2>5. ASSUME NEW m \in Msgs
        PROVE  handled'[m] <= crashes' + faults' + (IF Through(m)' THEN 1 ELSE 0)
    <3>1. CASE m = k
      <4>1. handled[k] <= crashes + faults /\ handled'[k] = handled[k] + 1
        BY <1>nat, <2>1, <2>2, <2>3 DEF RepeatInv
      <4>2. QED
        BY <1>nat, <2>2, <2>4, <3>1, <4>1
    <3>2. CASE m # k
      <4>1. handled'[m] = handled[m] /\ (Through(m) => Through(m)')
        BY <2>1, <2>2, <3>2, <1>nat, ThroughStays
      <4>2. QED
        BY <1>nat, <2>2, <4>1 DEF RepeatInv
    <3>3. QED
      BY <3>1, <3>2
  <2>6. QED
    BY <2>5 DEF RepeatInv
<1>2. CASE ~\E p \in Procs : HandleOk(p)
  <2>1. /\ handled' = handled
        /\ \/ crashes' = crashes /\ faults' = faults
           \/ crashes' = crashes + 1 /\ faults' = faults
           \/ crashes' = crashes /\ faults' = faults + 1
    BY <1>2, <1>nat DEF Next, Step, Work, Publish, Age, Start, Sweep, Claim, ReadPending, ReadNew, ReadNothing,
           HandleFails, RouteToDlq, Ack, Crash, Fault, history, vars
  <2>2. ASSUME NEW m \in Msgs
        PROVE  handled'[m] <= crashes' + faults' + (IF Through(m)' THEN 1 ELSE 0)
    <3>1. CASE crashes' = crashes /\ faults' = faults
      <4>1. Through(m) => Through(m)'
        BY <3>1, ThroughStays
      <4>2. QED
        BY <1>nat, <2>1, <3>1, <4>1 DEF RepeatInv
    <3>2. CASE crashes' + faults' = crashes + faults + 1
      BY <1>nat, <2>1, <3>2 DEF RepeatInv
    <3>3. QED
      BY <1>nat, <2>1, <3>1, <3>2
  <2>3. QED
    BY <2>2 DEF RepeatInv
<1>3. QED
  BY <1>1, <1>2

\* Prompt processes with names of their own handle an event again only as the price of a crash or
\* of a failing call.
THEOREM RepeatsPaid ==
  ASSUME Prompt, NamesDiffer
  PROVE  Spec => []RepeatsArePaidFor
<1>1. Init => RepeatInv
  BY DEF Init, RepeatInv
<1>2. ContractInv /\ ExclusiveBatches /\ RepeatInv /\ [Next]_vars => RepeatInv'
  BY StepRepeats
<1>3. ContractInv /\ RepeatInv => RepeatsArePaidFor
  <2> SUFFICES ASSUME ContractInv, RepeatInv, NEW m \in Msgs PROVE handled[m] <= 1 + crashes + faults
    BY DEF RepeatsArePaidFor
  <2>1. handled \in [Msgs -> Nat] /\ crashes \in Nat /\ faults \in Nat
    BY ConsumerAssumption DEF ContractInv, IndInv, TypeInv, TypeOK
  <2>2. QED
    BY <2>1 DEF RepeatInv
<1>4. ContractInv /\ [Next]_vars => ContractInv'
  BY StepContract
<1>5. QED
  BY <1>1, <1>2, <1>3, <1>4, InitContract, NobodyTwice, PTL DEF Spec

================================================================================
