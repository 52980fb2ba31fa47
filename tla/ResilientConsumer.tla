--------------------------- MODULE ResilientConsumer ---------------------------
(***************************************************************************)
(* One Redis stream, one consumer group on it and the worker processes     *)
(* that run the loop  sweep idle entries -> read own pending entries, else *)
(* new ones -> handle each -> acknowledge, retry or dead-letter.           *)
(*                                                                         *)
(* The loop is the one of the vision processing service, which hands every *)
(* message to the shared ResilientStreamConsumer.  Message m is the m-th   *)
(* entry ever added to the stream; what it carries matters only through    *)
(* whether the handler can ever accept it (Poison).                        *)
(***************************************************************************)
EXTENDS Integers, FiniteSets

CONSTANTS
  Procs,          \* worker processes
  Names,          \* consumer names known to the group
  None,           \* not a name: the entry is not pending
  NameChoices,    \* names a process may run under: f"vps-{os.getpid()}"
  MaxMsgs,        \* bound: entries ever added to the stream
  Poison,         \* messages the handler always rejects
  StreamLen,      \* MAXLEN of the stream
  Count,          \* entries per read and per sweep
  MaxRetries,     \* failed attempts before the dead letter queue
  Prompt,         \* TRUE: a batch is finished within the idle threshold
  MaxCrashes,     \* bound: process crashes
  MaxFaults       \* bound: failing Redis calls and transient handler errors

Msgs == 1..MaxMsgs

ASSUME ConsumerAssumption ==
  /\ MaxMsgs \in Nat /\ StreamLen \in Nat \ {0} /\ Count \in Nat \ {0}
  /\ MaxRetries \in Nat \ {0} /\ MaxCrashes \in Nat /\ MaxFaults \in Nat
  /\ Poison \subseteq Msgs /\ Prompt \in BOOLEAN /\ IsFiniteSet(Procs)
  /\ None \notin Names
  /\ NameChoices \in [Procs -> (SUBSET Names) \ {{}}]

VARIABLES
  published,      \* last entry added
  trimmed,        \* entries up to this one were trimmed from the stream
  group,          \* the consumer group exists
  start,          \* last entry when the group was created with id '$'
  cursor,         \* last entry delivered to the group
  owner,          \* pending entries list: the consumer an entry is pending for
  idle,           \* pending entries idle for at least dsai_idle_reclaim_ms
  dlq,            \* messages added to the dead letter stream
  pc, name,       \* per process: where its loop is, its consumer name
  found,          \* per process: idle entries its sweep still has to claim
  batch,          \* per process: entries read and not yet dealt with
  blank,          \* per process: entries of batch read without a payload
  retry,          \* per process: dsai_retry_counts
  handled,        \* history: how often a handler accepted a message
  exhausted,      \* history: messages whose retries some process used up
  failures,       \* history: failed attempts per message
  crashes, faults

redis == <<published, trimmed, group, start, cursor, owner, idle, dlq>>
local == <<pc, name, found, batch, blank, retry>>
history == <<handled, exhausted, failures>>
vars == <<redis, local, history, crashes, faults>>

--------------------------------------------------------------------------------
(* Helpers *)

Pending == {m \in Msgs : owner[m] # None}

Least(m, S) == m \in S /\ \A k \in S : m <= k

\* The first Count elements of S in stream order.
FirstCount(S) == {m \in S : Cardinality({k \in S : k < m}) < Count}

Fault == faults < MaxFaults /\ faults' = faults + 1

Alive(p) == pc[p] \notin {"down", "dead"}

--------------------------------------------------------------------------------
(* The stream *)

Init ==
  /\ published = 0 /\ trimmed = 0 /\ group = FALSE /\ start = 0 /\ cursor = 0
  /\ owner = [m \in Msgs |-> None] /\ idle = {} /\ dlq = {}
  /\ pc = [p \in Procs |-> "down"]
  /\ name \in [Procs -> Names]
  /\ \A p \in Procs : name[p] \in NameChoices[p]
  /\ found = [p \in Procs |-> {}]
  /\ batch = [p \in Procs |-> {}] /\ blank = [p \in Procs |-> {}]
  /\ retry = [p \in Procs |-> [m \in Msgs |-> 0]]
  /\ handled = [m \in Msgs |-> 0] /\ failures = [m \in Msgs |-> 0]
  /\ exhausted = {}
  /\ crashes = 0 /\ faults = 0

\* XADD with an approximate MAXLEN: any surplus beyond StreamLen may go.
Publish ==
  /\ published < MaxMsgs
  /\ published' = published + 1
  /\ \E t \in 0..MaxMsgs :
       /\ t = trimmed \/ (t > trimmed /\ published + 1 - t >= StreamLen)
       /\ trimmed' = t
  /\ UNCHANGED <<group, start, cursor, owner, idle, dlq, local, history, crashes, faults>>

\* Process p works on entry m, or has claimed it and reads it next.
Busy(p, m) == m \in batch[p] \/ (pc[p] \in {"claim", "read"} /\ owner[m] = name[p])

\* A pending entry reaches the idle threshold.  When processes are prompt that
\* cannot happen to an entry a live one is busy with.
Age(m) ==
  /\ m \in Pending \ idle
  /\ Prompt => \A p \in Procs : ~Busy(p, m)
  /\ idle' = idle \cup {m}
  /\ UNCHANGED <<published, trimmed, group, start, cursor, owner, dlq, local,
                 history, crashes, faults>>

--------------------------------------------------------------------------------
(* The loop of a process *)

\* Start of dsai_run_loop: ensure the group, created at '$' when it is new.
Start(p) ==
  /\ ~Alive(p)
  /\ pc' = [pc EXCEPT ![p] = "loop"]
  /\ \E n \in NameChoices[p] : name' = [name EXCEPT ![p] = n]
  /\ IF group THEN UNCHANGED <<group, start, cursor>>
              ELSE group' = TRUE /\ start' = published /\ cursor' = published
  /\ UNCHANGED <<published, trimmed, owner, idle, dlq, found, batch, blank, retry,
                 history, crashes, faults>>

ClaimableMutant(p) == {m \in FirstCount(Pending) : m \in idle /\ owner[m] = name[p]}

\* XPENDING over the first Count entries of the whole group, keeping the idle
\* ones of other consumers.
Claimable(p) == {m \in FirstCount(Pending) : m \in idle /\ owner[m] # name[p]}

\* The sweep of dead or unresponsive consumers' entries.
Sweep(p) ==
  /\ pc[p] = "loop"
  /\ found' = [found EXCEPT ![p] = Claimable(p)]
  /\ pc' = [pc EXCEPT ![p] = IF found'[p] = {} THEN "read" ELSE "claim"]
  /\ UNCHANGED <<redis, name, batch, blank, retry, history, crashes, faults>>

XClaimMutant(n, m) == owner' = [owner EXCEPT ![m] = n] /\ idle' = idle \ {m}

\* XCLAIM of entry m under name n: only if it is still pending and still idle; an
\* entry that was trimmed meanwhile leaves the pending list instead.
XClaim(n, m) ==
  IF m \in idle
  THEN /\ owner' = [owner EXCEPT ![m] = IF m <= trimmed THEN None ELSE n]
       /\ idle' = idle \ {m}
  ELSE UNCHANGED <<owner, idle>>

\* One XCLAIM of the sweep; a failing call is logged and the entry skipped.  The
\* claimed messages are picked up by the next read of the pending entries.
Claim(p) ==
  /\ pc[p] = "claim"
  /\ \E m \in found[p] :
       /\ Least(m, found[p])
       /\ \/ XClaim(name[p], m) /\ UNCHANGED faults
          \/ Fault /\ UNCHANGED <<owner, idle>>
       /\ found' = [found EXCEPT ![p] = @ \ {m}]
       /\ pc' = [pc EXCEPT ![p] = IF found[p] = {m} THEN "read" ELSE "claim"]
  /\ UNCHANGED <<published, trimmed, group, start, cursor, dlq, name, batch, blank,
                 retry, history, crashes>>

OwnPending(p) == {m \in Msgs : owner[m] = name[p]}

\* XREADGROUP with id '0': the process's own pending entries, oldest first.  The
\* entries still in the stream are re-delivered, which resets their idle time; a
\* trimmed one comes back without a payload.
ReadPending(p) ==
  /\ pc[p] \in {"loop", "read"}
  /\ LET own == FirstCount(OwnPending(p)) IN
       /\ own # {}
       /\ batch' = [batch EXCEPT ![p] = own]
       /\ blank' = [blank EXCEPT ![p] = {m \in own : m <= trimmed}]
       /\ idle' = idle \ {m \in own : m > trimmed}
  /\ pc' = [pc EXCEPT ![p] = "handle"]
  /\ UNCHANGED <<published, trimmed, group, start, cursor, owner, dlq, name, found,
                 retry, history, crashes, faults>>

\* The entries an XREADGROUP with id '>' delivers: the first ones that were never
\* delivered to the group and are still in the stream.
NewEntries == FirstCount({m \in Msgs : cursor < m /\ m <= published /\ trimmed < m})

\* Redis makes them pending for consumer n.
Deliver(n) ==
  /\ NewEntries # {}
  /\ owner' = [m \in Msgs |-> IF m \in NewEntries THEN n ELSE owner[m]]
  /\ \E m \in NewEntries : (\A k \in NewEntries : k <= m) /\ cursor' = m

\* XREADGROUP with id '>', when the process has nothing pending or the read of its
\* pending entries failed.  When the reply is lost (a socket timeout) the entries
\* are pending for a process that does not know of them.
ReadNew(p) ==
  /\ pc[p] \in {"loop", "read"}
  /\ Deliver(name[p])
  /\ \/ /\ batch' = [batch EXCEPT ![p] = NewEntries]
        /\ pc' = [pc EXCEPT ![p] = "handle"]
        /\ IF OwnPending(p) = {} THEN UNCHANGED faults ELSE Fault
     \/ /\ OwnPending(p) = {} /\ Fault
        /\ pc' = [pc EXCEPT ![p] = "loop"]
        /\ UNCHANGED batch
  /\ UNCHANGED <<published, trimmed, group, start, idle, dlq, name, found, blank, retry,
                 history, crashes>>

\* A read that blocks until its timeout, or fails, returns nothing; the loop starts over.
ReadNothing(p) ==
  /\ pc[p] = "read"
  /\ \/ OwnPending(p) = {} /\ NewEntries = {} /\ UNCHANGED faults
     \/ Fault
  /\ pc' = [pc EXCEPT ![p] = "loop"]
  /\ UNCHANGED <<redis, name, found, batch, blank, retry, history, crashes>>

\* The message of the batch a process is working on.
Current(p, m) == Least(m, batch[p])

\* The process is done with m: on to the next message, or around the loop.
Finish(p, m) ==
  /\ batch' = [batch EXCEPT ![p] = @ \ {m}]
  /\ blank' = [blank EXCEPT ![p] = @ \ {m}]
  /\ pc' = [pc EXCEPT ![p] = IF batch[p] = {m} THEN "loop" ELSE "handle"]

\* The handler returns: the event went all the way to Milvus and to the
\* object-detected stream.
HandleOk(p) ==
  /\ pc[p] = "handle"
  /\ \E m \in batch[p] :
       /\ Current(p, m)
       /\ m \notin Poison \cup blank[p]
       /\ handled' = [handled EXCEPT ![m] = @ + 1]
  /\ pc' = [pc EXCEPT ![p] = "ack"]
  /\ UNCHANGED <<redis, name, found, batch, blank, retry, exhausted, failures, crashes, faults>>

ExhaustsLate(p, m) == retry[p][m] + 1 > MaxRetries
ExhaustsEarly(p, m) == retry[p][m] + 2 >= MaxRetries
\* The attempt that fails now is the last one.
Exhausts(p, m) == retry[p][m] + 1 >= MaxRetries

LeavePendingMutant(p, m) == pc' = [pc EXCEPT ![p] = "ack"] /\ UNCHANGED <<batch, blank>>

\* Not acknowledged: the message stays pending for another attempt.
LeavePending(p, m) == Finish(p, m)

\* The handler raises: count the attempt; after MaxRetries of them the message
\* goes to the dead letter queue, before that it stays pending.
HandleFails(p) ==
  /\ pc[p] = "handle"
  /\ \E m \in batch[p] :
       /\ Current(p, m)
       /\ IF m \in Poison \cup blank[p] THEN UNCHANGED faults ELSE Fault
       /\ retry' = [retry EXCEPT ![p][m] = @ + 1]
       /\ failures' = [failures EXCEPT ![m] = @ + 1]
       /\ IF Exhausts(p, m)
          THEN /\ exhausted' = exhausted \cup {m}
               /\ pc' = [pc EXCEPT ![p] = "dlq"]
               /\ UNCHANGED <<batch, blank>>
          ELSE LeavePending(p, m) /\ UNCHANGED exhausted
  /\ UNCHANGED <<redis, name, found, handled, crashes>>

\* dsai_route_to_dlq: publish a copy, or fail both ways of publishing it; either
\* way the message is acknowledged next.
RouteToDlq(p) ==
  /\ pc[p] = "dlq"
  /\ \E m \in batch[p] :
       /\ Current(p, m)
       /\ \/ dlq' = dlq \cup {m} /\ UNCHANGED faults
          \/ Fault /\ UNCHANGED dlq
  /\ pc' = [pc EXCEPT ![p] = "ack"]
  /\ UNCHANGED <<published, trimmed, group, start, cursor, owner, idle, name, found,
                 batch, blank, retry, history, crashes>>

XAckNothing(p, m) == UNCHANGED <<owner, idle>>

\* XACK, which does not ask who owns the entry.
XAck(p, m) == owner' = [owner EXCEPT ![m] = None] /\ idle' = idle \ {m}

\* dsai_ack: a failing XACK is logged, and the retry count is dropped all the same.
Ack(p) ==
  /\ pc[p] = "ack"
  /\ \E m \in batch[p] :
       /\ Current(p, m)
       /\ \/ XAck(p, m) /\ UNCHANGED faults
          \/ Fault /\ UNCHANGED <<owner, idle>>
       /\ retry' = [retry EXCEPT ![p][m] = 0]
       /\ Finish(p, m)
  /\ UNCHANGED <<published, trimmed, group, start, cursor, dlq, name, found, history, crashes>>

\* The process dies and loses what it held in memory; Redis keeps the rest.
Crash(p) ==
  /\ Alive(p)
  /\ crashes < MaxCrashes /\ crashes' = crashes + 1
  /\ pc' = [pc EXCEPT ![p] = "dead"]
  /\ found' = [found EXCEPT ![p] = {}]
  /\ batch' = [batch EXCEPT ![p] = {}] /\ blank' = [blank EXCEPT ![p] = {}]
  /\ retry' = [retry EXCEPT ![p] = [m \in Msgs |-> 0]]
  /\ UNCHANGED <<redis, name, history, faults>>

Work(p) ==
  \/ Claim(p) \/ ReadPending(p) \/ ReadNew(p) \/ ReadNothing(p)
  \/ HandleOk(p) \/ HandleFails(p) \/ RouteToDlq(p) \/ Ack(p)

Step(p) == Start(p) \/ Sweep(p) \/ Work(p) \/ Crash(p)

Next == Publish \/ (\E m \in Msgs : Age(m)) \/ (\E p \in Procs : Step(p))

Spec == Init /\ [][Next]_vars

\* A process that was launched starts and keeps working; its loop compares the
\* clock with the time of the last sweep on every round, so that it sweeps again and
\* again; time passes.  Nobody has to restart a process that died.
Fairness ==
  /\ \A m \in Msgs : WF_vars(Age(m))
  /\ \A p \in Procs : /\ WF_vars(pc[p] = "down" /\ Start(p))
                      /\ WF_vars(Work(p))
                      /\ SF_vars(Sweep(p))

FairSpec == Spec /\ Fairness

--------------------------------------------------------------------------------
(* Properties *)

\* Every variable has its type.
TypeOK ==
  /\ published \in 0..MaxMsgs /\ trimmed \in 0..MaxMsgs
  /\ group \in BOOLEAN /\ start \in 0..MaxMsgs /\ cursor \in 0..MaxMsgs
  /\ owner \in [Msgs -> Names \cup {None}]
  /\ idle \subseteq Msgs /\ dlq \subseteq Msgs
  /\ pc \in [Procs -> {"down", "dead", "loop", "claim", "read", "handle", "dlq", "ack"}]
  /\ name \in [Procs -> Names]
  /\ found \in [Procs -> SUBSET Msgs]
  /\ batch \in [Procs -> SUBSET Msgs] /\ blank \in [Procs -> SUBSET Msgs]
  /\ retry \in [Procs -> [Msgs -> 0..MaxRetries]]
  /\ handled \in [Msgs -> Nat] /\ failures \in [Msgs -> Nat]
  /\ exhausted \subseteq Msgs
  /\ crashes \in 0..MaxCrashes /\ faults \in 0..MaxFaults

\* The entries Redis has delivered to the group.
Delivered == {m \in Msgs : start < m /\ m <= cursor}

\* An entry leaves the pending list only after a handler accepted it, or some
\* process used up its retries, or the stream dropped it: neither a crash, a lost
\* reply, a hand-over nor another worker's XACK makes the group forget an event
\* ("Acknowledge ONLY after handler returns successfully").
NoEarlyAck ==
  \A m \in Delivered :
    m \in Pending \/ handled[m] > 0 \/ m \in exhausted \/ m <= trimmed

\* With a name of its own for every process and batches that finish within the idle
\* threshold, no two live processes ever work on the same event: a sweep that read
\* a stale XPENDING cannot take an entry another process has claimed or re-read.
ExclusiveBatches ==
  \A p, q \in Procs : p # q => batch[p] \cap batch[q] = {}

\* Under the same conditions an event is handled again only as the price of a crash
\* or of a failing Redis call.
RepeatsArePaidFor == \A m \in Msgs : handled[m] <= 1 + crashes + faults

\* A message in the dead letter queue has had its full number of attempts.
DeadLetterIsEarned == \A m \in dlq : failures[m] >= MaxRetries

\* No message is retried without end: every process has one budget of attempts,
\* and only a crash or a failing call can grant another.
AttemptsBounded ==
  \A m \in Msgs :
    failures[m] <= MaxRetries * (Cardinality(Procs) + crashes + faults)

\* The two together: an event gets its budget of attempts, no fewer and, but for failures
\* of the processes or of Redis, no more.
RetriesAreBudgeted == DeadLetterIsEarned /\ AttemptsBounded

\* Every pending event leaves the pending list: it is retried, handed over from a
\* dead process to a live one by the sweep, or dead-lettered, but never stuck.
EverySettles == \A m \in Msgs : m \in Pending ~> m \notin Pending

\* The contract the consumer group implements.
Contract == INSTANCE DeliveryContract WITH
  Events <- Msgs,
  sent <- 1..published,
  gone <- 1..trimmed,
  pending <- Pending,
  accepted <- {m \in Msgs : handled[m] > 0},
  rejected <- exhausted

\* Whatever crashes, is lost or handed over, the group only ever does what the
\* delivery contract allows, and under fairness it settles every delivered event.
ImplementsContract == Contract!FairSpec

(* What the documents say and the code does not do *)

\* "After 3 retries, event lands in events:dlq".
DeadLetterIsKept ==
  \A m \in Delivered :
    m \in Pending \/ handled[m] > 0 \/ m \in dlq \/ m <= trimmed

\* "the existing 3-retry limit".
AttemptsWithinLimit == \A m \in Msgs : failures[m] <= MaxRetries

\* "no event is lost or double-processed".
NotDoubleProcessed == \A m \in Msgs : handled[m] <= 1

\* "No data loss": an event is not dropped from the stream before it was delivered.
TrimmedOnlyAfterDelivery == \A m \in Msgs : m <= trimmed => m <= cursor
================================================================================
