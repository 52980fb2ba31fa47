------------------------------- MODULE EdgeIngest -------------------------------
(***************************************************************************)
(* Push-path ingestion: edge devices submit embedding events, and submit   *)
(* them again until they are told that they were stored.  Worker processes *)
(* claim the event's key in Redis, write the event to Milvus under a fresh *)
(* random primary key, and turn the claim into the cached result.          *)
(***************************************************************************)
EXTENDS Integers, FiniteSets

CONSTANTS
  Workers,      \* worker processes; a request blocks its worker
  Events,       \* event ids
  Malformed,    \* events that normalization rejects
  None,         \* not an event
  MaxCrashes,   \* bound: worker crashes
  MaxFaults     \* bound: failing Redis and Milvus calls, requests slower than the claim's TTL

ASSUME IngestAssumption ==
  /\ Malformed \subseteq Events /\ None \notin Events
  /\ MaxCrashes \in Nat /\ MaxFaults \in Nat /\ IsFiniteSet(Workers)

VARIABLES
  key,          \* dedup key of an event: "none", "in_progress" or "result"
  expiring,     \* keys set with the claim's TTL (the result's 24 h outlast the retries)
  rows,         \* Milvus rows per event
  deadLetters,  \* events normalization sent to the dead letter stream
  announced,    \* events published on events:edge_ingest
  pc, req,      \* per worker: where it is, and the event of its request
  inBatch,      \* per worker: its event is an item of a batch
  owns,         \* per worker: its SET NX was the one that set the key
  confirmed,    \* events whose device was told "success"
  guessed,      \* history: of these, events without a result when it was told so
  crashes, faults

worker == <<pc, req, inBatch, owns>>
devices == <<confirmed, guessed>>
vars == <<key, expiring, rows, deadLetters, announced, worker, devices, crashes, faults>>

Init ==
  /\ key = [e \in Events |-> "none"] /\ expiring = {}
  /\ rows = [e \in Events |-> 0] /\ deadLetters = {} /\ announced = {}
  /\ pc = [w \in Workers |-> "idle"] /\ req = [w \in Workers |-> None]
  /\ inBatch = [w \in Workers |-> FALSE] /\ owns = [w \in Workers |-> FALSE]
  /\ confirmed = {} /\ guessed = {} /\ crashes = 0 /\ faults = 0

Fault == faults < MaxFaults /\ faults' = faults + 1

Goto(w, l) == pc' = [pc EXCEPT ![w] = l] /\ UNCHANGED <<req, inBatch, owns>>

\* The answer is sent, and the worker is free.
Answer(w) ==
  /\ pc' = [pc EXCEPT ![w] = "idle"]
  /\ req' = [req EXCEPT ![w] = None]
  /\ inBatch' = [inBatch EXCEPT ![w] = FALSE]
  /\ owns' = [owns EXCEPT ![w] = FALSE]

AnswerError(w) == Answer(w) /\ UNCHANGED devices

\* The result is there.
AnswerSuccess(w) ==
  /\ Answer(w)
  /\ confirmed' = confirmed \cup {req[w]} /\ guessed' = guessed \ {req[w]}

\* A success nothing backs.
AnswerUnbacked(w) ==
  /\ Answer(w)
  /\ confirmed' = confirmed \cup {req[w]}
  /\ guessed' = guessed \cup ({req[w]} \ confirmed)

\* Status "in_progress"; the batch endpoint counts every item without an exception
\* as a success.
AnswerInProgress(w) ==
  \/ inBatch[w] /\ AnswerUnbacked(w)
  \/ ~inBatch[w] /\ AnswerError(w)

--------------------------------------------------------------------------------
\* A device submits an event it has no confirmation for, possibly while an
\* earlier submission is still being worked on.
Submit(w, e) ==
  /\ pc[w] = "idle" /\ e \notin confirmed
  /\ pc' = [pc EXCEPT ![w] = "claim"] /\ req' = [req EXCEPT ![w] = e]
  /\ \E b \in BOOLEAN : inBatch' = [inBatch EXCEPT ![w] = b]
  /\ UNCHANGED <<key, expiring, rows, deadLetters, announced, owns, devices, crashes, faults>>

SetClaimForEver(e) == key' = [key EXCEPT ![e] = "in_progress"] /\ UNCHANGED expiring

\* SET key in_progress EX 60.
SetClaim(e) == key' = [key EXCEPT ![e] = "in_progress"] /\ expiring' = expiring \cup {e}

VacantAssumed(w) == TRUE

\* The NX of that SET.
Vacant(w) == key[req[w]] = "none"

\* SET NX: claim the key, or go and look at who has it; a call that fails, even
\* after Redis has set the key, is answered with 503.
Claim(w) ==
  /\ pc[w] = "claim"
  /\ \/ /\ Vacant(w) /\ SetClaim(req[w])
        /\ pc' = [pc EXCEPT ![w] = "insert"] /\ owns' = [owns EXCEPT ![w] = TRUE]
        /\ UNCHANGED <<req, inBatch, devices, faults>>
     \/ /\ ~Vacant(w) /\ Goto(w, "get")
        /\ UNCHANGED <<key, expiring, devices, faults>>
     \/ /\ Fault /\ AnswerError(w)
        /\ \/ Vacant(w) /\ SetClaim(req[w])
           \/ UNCHANGED <<key, expiring>>
  /\ UNCHANGED <<rows, deadLetters, announced, crashes>>

AnyAnswer(e) == key[e] # "none"

\* The cached value is a result, and not the mark of a request in progress.
HasResult(e) == key[e] = "result"

\* GET: wait for a request in progress, answer a cached result, and go ahead without
\* a claim when the key has vanished since.
Get(w) ==
  /\ pc[w] = "get"
  /\ \/ /\ key[req[w]] = "none" /\ Goto(w, "insert") /\ UNCHANGED <<devices, faults>>
     \/ /\ key[req[w]] = "in_progress" /\ ~HasResult(req[w]) /\ Goto(w, "wait")
        /\ UNCHANGED <<devices, faults>>
     \/ HasResult(req[w]) /\ AnswerSuccess(w) /\ UNCHANGED faults
     \/ Fault /\ AnswerError(w)
  /\ UNCHANGED <<key, expiring, rows, deadLetters, announced, crashes>>

\* Poll for two seconds: a result, or "in_progress"; an exception while polling is
\* answered with a success.
Wait(w) ==
  /\ pc[w] = "wait"
  /\ \/ HasResult(req[w]) /\ AnswerSuccess(w) /\ UNCHANGED faults
     \/ AnswerInProgress(w) /\ UNCHANGED faults
     \/ Fault /\ AnswerUnbacked(w)
  /\ UNCHANGED <<key, expiring, rows, deadLetters, announced, crashes>>

\* No tenant, no camera or no embedding, or no canonical record can be made of it.
Rejected(e) == e \in Malformed

\* Normalize and write: a rejected event goes to the dead letter stream; a failing write
\* may have stored the row (the flush comes after the insert).
Insert(w) ==
  LET e == req[w] IN
  /\ pc[w] = "insert"
  /\ \/ /\ Rejected(e) /\ Goto(w, "release")
        /\ \/ deadLetters' = deadLetters \cup {e} /\ UNCHANGED faults
           \/ Fault /\ UNCHANGED deadLetters
        /\ UNCHANGED rows
     \/ /\ ~Rejected(e) /\ Goto(w, "publish")
        /\ rows' = [rows EXCEPT ![e] = @ + 1] /\ UNCHANGED <<deadLetters, faults>>
     \/ /\ ~Rejected(e) /\ Fault /\ Goto(w, "release")
        /\ rows' \in {rows, [rows EXCEPT ![e] = @ + 1]} /\ UNCHANGED deadLetters
  /\ UNCHANGED <<key, expiring, announced, devices, crashes>>

\* Tell search and alerting about the row; a failure is only logged.
Publish(w) ==
  /\ pc[w] = "publish" /\ Goto(w, "mark")
  /\ \/ announced' = announced \cup {req[w]} /\ UNCHANGED faults
     \/ Fault /\ UNCHANGED announced
  /\ UNCHANGED <<key, expiring, rows, deadLetters, devices, crashes>>

\* Cache the result with its own TTL; a failing SET is only logged, a failure to
\* reach Redis at all makes the request fail although the row is stored.
Mark(w) ==
  LET e == req[w] IN
  /\ pc[w] = "mark"
  /\ \/ /\ key' = [key EXCEPT ![e] = "result"] /\ expiring' = expiring \ {e}
        /\ AnswerSuccess(w) /\ UNCHANGED faults
     \/ Fault /\ AnswerSuccess(w) /\ UNCHANGED <<key, expiring>>
     \/ Fault /\ Goto(w, "release") /\ UNCHANGED <<key, expiring, devices>>
  /\ UNCHANGED <<rows, deadLetters, announced, crashes>>

\* The GET of the release: only a claim in progress is deleted, whoever set it.
Releasable(e) == key[e] = "in_progress"

Release(w) ==
  /\ pc[w] = "release"
  /\ \/ Releasable(req[w]) /\ Goto(w, "delete") /\ UNCHANGED <<devices, faults>>
     \/ ~Releasable(req[w]) /\ AnswerError(w) /\ UNCHANGED faults
     \/ Fault /\ AnswerError(w)
  /\ UNCHANGED <<key, expiring, rows, deadLetters, announced, crashes>>

\* The DELETE that follows it, whatever the key holds by then.
Delete(w) ==
  LET e == req[w] IN
  /\ pc[w] = "delete"
  /\ AnswerError(w)
  /\ \/ /\ key' = [key EXCEPT ![e] = "none"] /\ expiring' = expiring \ {e}
        /\ UNCHANGED faults
     \/ Fault /\ UNCHANGED <<key, expiring>>
  /\ UNCHANGED <<rows, deadLetters, announced, crashes>>

Lapse(e) ==
  /\ e \in expiring
  /\ key' = [key EXCEPT ![e] = "none"] /\ expiring' = expiring \ {e}
  /\ UNCHANGED <<rows, deadLetters, announced, worker, devices, crashes>>

Claimed(e) == \E w \in Workers : owns[w] /\ req[w] = e

\* The TTL of a claim runs out after the request that made it is over, or, when that
\* takes longer than 60 s, before.
Expire(e) == ~Claimed(e) /\ Lapse(e) /\ UNCHANGED faults
Overrun(e) == Claimed(e) /\ Lapse(e) /\ Fault

Crash(w) ==
  /\ pc[w] # "idle"
  /\ crashes < MaxCrashes /\ crashes' = crashes + 1
  /\ Answer(w)
  /\ UNCHANGED <<key, expiring, rows, deadLetters, announced, devices, faults>>

\* Every event is confirmed, and no device has more to send.
Quiet == confirmed = Events /\ (\A w \in Workers : pc[w] = "idle") /\ UNCHANGED vars

Handle(w) ==
  \/ Claim(w) \/ Get(w) \/ Wait(w) \/ Insert(w) \/ Publish(w) \/ Mark(w)
  \/ Release(w) \/ Delete(w)

Next ==
  \/ \E w \in Workers : Handle(w) \/ Crash(w) \/ \E e \in Events : Submit(w, e)
  \/ \E e \in Events : Expire(e) \/ Overrun(e)
  \/ Quiet

Spec == Init /\ [][Next]_vars

\* A worker finishes its request, devices keep submitting, and TTLs run out.
FairSpec ==
  /\ Spec
  /\ \A w \in Workers : WF_vars(Handle(w))
  /\ \A e \in Events : WF_vars(Expire(e)) /\ SF_vars(\E w \in Workers : Submit(w, e))

--------------------------------------------------------------------------------
TypeOK ==
  /\ key \in [Events -> {"none", "in_progress", "result"}]
  /\ expiring = {e \in Events : key[e] = "in_progress"}
  /\ rows \in [Events -> Nat]
  /\ deadLetters \subseteq Malformed /\ announced \subseteq Events \ Malformed
  /\ pc \in [Workers -> {"idle", "claim", "get", "wait", "insert", "publish", "mark",
                         "release", "delete"}]
  /\ req \in [Workers -> Events \cup {None}]
  /\ \A w \in Workers : req[w] = None <=> pc[w] = "idle"
  /\ owns \in [Workers -> BOOLEAN]
  /\ inBatch \in [Workers -> BOOLEAN]
  /\ confirmed \subseteq Events /\ guessed \subseteq confirmed
  /\ crashes \in 0 .. MaxCrashes /\ faults \in 0 .. MaxFaults

\* A device that was told "success" on the strength of a result has its event in Milvus,
\* however many requests for the event were in flight and whichever of them failed.
ConfirmedIsStored == \A e \in confirmed \ guessed : rows[e] > 0

\* Every device that was told "success" has its event in Milvus, or a request still
\* works on the event: the device will not send it again.
AllConfirmedStored ==
  \A e \in confirmed : rows[e] > 0 \/ \E w \in Workers : req[w] = e

\* Rows beyond the first are paid for: an event has one row, and each failing call,
\* crash, or request that outlasts its claim costs at most one more per worker.
RepeatsArePaidFor ==
  \A e \in Events : rows[e] <= 1 + Cardinality(Workers) * (faults + crashes)

\* No two requests write the same event at a time: the claim is atomic.
OneWriter ==
  \A v, w \in Workers : pc[v] = "insert" /\ pc[w] = "insert" /\ v # w => req[v] # req[w]

\* Releasing a claim gives up a claim in progress, never a result: what was recorded
\* as processed stays so.
ResultIsKept == [][\A e \in Events : key[e] = "result" => key'[e] = "result"]_vars

\* A device that keeps submitting a valid event gets it confirmed in the end: no crash
\* leaves a claim behind that blocks the event for good.
EventuallyConfirmed == \A e \in Events \ Malformed : <>(e \in confirmed)
================================================================================
