------------------------------- MODULE AlertFeed -------------------------------
(***************************************************************************)
(* How alerts reach operators.  Matchers insert alerts, whose ids the      *)
(* database hands out before the commit, and broadcast them: to the event  *)
(* streams of their own process, and to those of other processes through   *)
(* Redis pub/sub.  An event stream drops what it has shown, as far as it   *)
(* remembers.  A client may also poll for alerts by id, and operators      *)
(* acknowledge them.  An alert is its id.                                  *)
(***************************************************************************)
EXTENDS Naturals, FiniteSets, Sequences

CONSTANTS
  Processes,     \* processes with one matcher thread and an API each
  Streams,       \* event streams of operators
  Host,          \* the process an event stream is connected to
  Operators,     \* who acknowledge
  Nobody,        \* nobody, nothing
  N,             \* bound: alert ids
  Limit,         \* limit of a poll
  Memory,        \* ids an event stream remembers, 500 in the code
  MaxAgain,      \* bound: detections processed a second time
  MaxLosses      \* bound: pub/sub messages lost, disconnects

Alerts == 1 .. N

ASSUME FeedAssumption ==
  /\ Host \in [Streams -> Processes] /\ Nobody \notin Operators \cup Alerts
  /\ N \in Nat /\ Limit \in Nat \ {0} /\ Memory \in Nat \ {0}
  /\ MaxAgain \in Nat /\ MaxLosses \in Nat

VARIABLES
  row,           \* per id: free, open (uncommitted), committed or void
  overtaken,     \* history: the alerts committed after one with a higher id
  by,            \* acknowledged_by
  raising,       \* per process: the alert its matcher is at
  step,          \* per process: idle, insert, local or remote
  again,         \* detections processed a second time
  live,          \* event streams: connected
  queue,         \* per event stream: its queue
  seen,          \* per event stream: dsai_seen_ids
  shown,         \* per event stream: the alerts it showed since it connected
  repeats,       \* per event stream: how often it showed one again
  forgot,        \* per event stream: ids it forgot since it connected
  since,         \* the polling client: its since_id
  polled,        \* the polling client: the alerts it got
  losses

alerts == <<row, overtaken, by>>
matching == <<raising, step, again>>
streams == <<live, queue, seen, shown, repeats, forgot>>
polling == <<since, polled>>
feedVars == <<alerts, matching, streams, polling, losses>>

FeedInit ==
  /\ row = [i \in Alerts |-> "free"] /\ overtaken = {} /\ by = [i \in Alerts |-> Nobody]
  /\ raising = [p \in Processes |-> Nobody] /\ step = [p \in Processes |-> "idle"]
  /\ again = 0
  /\ live = {} /\ queue = [s \in Streams |-> <<>>] /\ seen = [s \in Streams |-> {}]
  /\ shown = [s \in Streams |-> {}] /\ repeats = [s \in Streams |-> 0]
  /\ forgot = [s \in Streams |-> 0]
  /\ since = 0 /\ polled = {} /\ losses = 0

Goto(p, where) == step' = [step EXCEPT ![p] = where]

Visible == {i \in Alerts : row[i] = "committed"}

--------------------------------------------------------------------------------
(* Raising an alert.                                                            *)

\* INSERT takes the next id; the row is visible to nobody.
InsertRow(p) ==
  /\ step[p] = "idle" /\ Goto(p, "insert")
  /\ \E i \in Alerts :
       /\ row[i] = "free" /\ \A j \in Alerts : j < i => row[j] # "free"
       /\ raising' = [raising EXCEPT ![p] = i] /\ row' = [row EXCEPT ![i] = "open"]
  /\ UNCHANGED <<overtaken, by, again, streams, polling, losses>>

Commit(p) ==
  /\ step[p] = "insert" /\ Goto(p, "local")
  /\ row' = [row EXCEPT ![raising[p]] = "committed"]
  /\ overtaken' = overtaken \cup {i \in {raising[p]} : \E j \in Visible : j > i}
  /\ UNCHANGED <<by, raising, again, streams, polling, losses>>

\* Another process has committed the same alert: the id is lost, its row is used.
Conflict(p) ==
  /\ step[p] = "insert"
  /\ \E i \in Visible :
       /\ Goto(p, "local") /\ raising' = [raising EXCEPT ![p] = i]
       /\ row' = [row EXCEPT ![raising[p]] = "void"]
  /\ UNCHANGED <<overtaken, by, again, streams, polling, losses>>

\* The detection was processed before: dsai_create finds the row, at most raises its score,
\* and the alert is broadcast again.
Revive(p) ==
  /\ step[p] = "idle" /\ again < MaxAgain /\ again' = again + 1
  /\ \E i \in Visible : raising' = [raising EXCEPT ![p] = i] /\ Goto(p, "local")
  /\ UNCHANGED <<alerts, streams, polling, losses>>

Put(S, i) == queue' = [s \in Streams |-> IF s \in S THEN Append(queue[s], i) ELSE queue[s]]

\* The queues of this process's event streams.
BroadcastLocal(p) ==
  /\ step[p] = "local" /\ Goto(p, "remote")
  /\ Put({s \in live : Host[s] = p}, raising[p])
  /\ UNCHANGED <<alerts, raising, again, live, seen, shown, repeats, forgot, polling, losses>>

\* PUBLISH reaches the event streams of all processes, this one included, or is lost.
BroadcastRemote(p) ==
  /\ step[p] = "remote" /\ Goto(p, "idle") /\ raising' = [raising EXCEPT ![p] = Nobody]
  /\ \/ Put(live, raising[p]) /\ UNCHANGED losses
     \/ \E s \in live : /\ losses < MaxLosses /\ losses' = losses + 1
                        /\ Put(live \ {s}, raising[p])
  /\ UNCHANGED <<alerts, again, live, seen, shown, repeats, forgot, polling>>

--------------------------------------------------------------------------------
(* Event streams.                                                               *)

Fresh(s) ==
  /\ queue' = [queue EXCEPT ![s] = <<>>] /\ seen' = [seen EXCEPT ![s] = {}]
  /\ shown' = [shown EXCEPT ![s] = {}] /\ repeats' = [repeats EXCEPT ![s] = 0]
  /\ forgot' = [forgot EXCEPT ![s] = 0]

Connect(s) ==
  /\ s \notin live /\ live' = live \cup {s} /\ Fresh(s)
  /\ UNCHANGED <<alerts, matching, polling, losses>>

Disconnect(s) ==
  /\ s \in live /\ live' = live \ {s} /\ Fresh(s)
  /\ losses < MaxLosses /\ losses' = losses + 1
  /\ UNCHANGED <<alerts, matching, polling>>

New(s, i) == i \notin seen[s]

Remembers(S) == Cardinality(S) <= Memory

Show(s) ==
  /\ s \in live /\ queue[s] # <<>>
  /\ LET i == Head(queue[s]) known == seen[s] \cup {i} IN
     /\ queue' = [queue EXCEPT ![s] = Tail(@)]
     /\ IF ~New(s, i)
        THEN UNCHANGED <<seen, shown, repeats, forgot>>
        ELSE /\ shown' = [shown EXCEPT ![s] = @ \cup {i}]
             /\ repeats' = IF i \in shown[s] THEN [repeats EXCEPT ![s] = @ + 1] ELSE repeats
             /\ IF Remembers(known)
                THEN seen' = [seen EXCEPT ![s] = known] /\ UNCHANGED forgot
                ELSE \* set.pop() forgets any of them, the new one not excepted
                     /\ \E x \in known : seen' = [seen EXCEPT ![s] = known \ {x}]
                     /\ forgot' = [forgot EXCEPT ![s] = @ + 1]
  /\ UNCHANGED <<alerts, matching, live, polling, losses>>

--------------------------------------------------------------------------------
(* Polling and acknowledging.                                                   *)

\* Mutant: the latest alerts first, as in the list of unacknowledged ones.
Latest(S) == {i \in S : Cardinality({j \in S : j > i}) < Limit}

\* ORDER BY id LIMIT.
Page(S) == {i \in S : Cardinality({j \in S : j < i}) < Limit}

\* Mutant: the client asks for ids from the one after the next.
PollFromNext ==
  LET page == Page({i \in Visible : i > since + 1}) IN
  /\ polled' = polled \cup page
  /\ \E m \in page : (\A j \in page : j <= m) /\ since' = m
  /\ UNCHANGED <<alerts, matching, streams, losses>>

\* The client asks for ids above the highest it knows.
Poll ==
  LET page == Page({i \in Visible : i > since}) IN
  /\ polled' = polled \cup page
  /\ \E m \in page : (\A j \in page : j <= m) /\ since' = m
  /\ UNCHANGED <<alerts, matching, streams, losses>>

AcknowledgeAlert(o, i) ==
  /\ i \in Visible /\ by[i] # o /\ by' = [by EXCEPT ![i] = o]
  /\ UNCHANGED <<row, overtaken, matching, streams, polling, losses>>

Raise(p) == Commit(p) \/ Conflict(p) \/ BroadcastLocal(p) \/ BroadcastRemote(p)

FeedNext ==
  \/ \E p \in Processes : InsertRow(p) \/ Revive(p) \/ Raise(p)
  \/ \E s \in Streams : Connect(s) \/ Disconnect(s) \/ Show(s)
  \/ Poll
  \/ \E o \in Operators, i \in Alerts : AcknowledgeAlert(o, i)

FeedSpec == FeedInit /\ [][FeedNext]_feedVars

\* Matchers finish what they raise, event streams drain their queues, the client keeps
\* polling.
FeedFairness ==
  /\ \A p \in Processes : WF_feedVars(Raise(p))
  /\ \A s \in Streams : WF_feedVars(Show(s))
  /\ WF_feedVars(Poll)

--------------------------------------------------------------------------------
FeedTypeOK ==
  /\ row \in [Alerts -> {"free", "open", "committed", "void"}]
  /\ overtaken \subseteq Visible /\ by \in [Alerts -> Operators \cup {Nobody}]
  /\ \A p \in Processes : (raising[p] \in Alerts) = (step[p] # "idle")
  /\ live \subseteq Streams /\ queue \in [Streams -> Seq(Alerts)]
  /\ \A s \in Streams : seen[s] \subseteq Alerts /\ Cardinality(seen[s]) <= Memory
  /\ since \in 0 .. N /\ polled \subseteq Visible /\ losses \in 0 .. MaxLosses

\* An alert committed before every higher id that was committed when it was.
InOrder(i) == i \notin overtaken

\* A polling client only misses alerts that were committed after one with a higher id.
PollMissesOvertaken == \A i \in Visible : i <= since /\ i \notin polled => ~InOrder(i)

\* Two copies of each broadcast reach the event streams of its own process; a stream shows
\* an alert again only for an id it forgot.
ShownPaidFor == \A s \in Streams : repeats[s] <= forgot[s]

\* An alert once acknowledged stays so, whoever matches the detection again.
AcknowledgedForGood == [][\A i \in Alerts : by[i] # Nobody => by'[i] # Nobody]_feedVars

\* What the alert feed promises to a client and to an operator.
FeedHolds == [](FeedTypeOK /\ PollMissesOvertaken /\ ShownPaidFor) /\ AcknowledgedForGood

\* An alert that was not overtaken comes up in the polls.
PollCatchesUp == \A i \in Alerts : (i \in Visible /\ InOrder(i)) ~> (i \in polled)

\* "record audit trail with user and timestamp": who acknowledged first stays on record.
AuditKept == [][\A i \in Alerts : by[i] # Nobody => by'[i] = by[i]]_feedVars
================================================================================
