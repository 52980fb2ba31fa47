------------------------------- MODULE AuditTrail -------------------------------
(***************************************************************************)
(* The audit trail: entries come to the audit service, which inserts each  *)
(* into a table over one connection and sends it to a topic; every night a *)
(* run moves the old rows to an archive.  A run fetches and locks all of   *)
(* them at once, then uploads and deletes them chunk by chunk; the commit  *)
(* of the first chunk lets go of every lock.  An object's key is the       *)
(* second and the number of the chunk.  The table may be the one whose     *)
(* triggers refuse deletions.  Entries are numbered by their timestamps.   *)
(***************************************************************************)
EXTENDS Naturals, FiniteSets

CONSTANTS
  MaxEntries,    \* bound: entries
  Runs,          \* archive runs that may overlap: the nightly one, one by hand
  ChunkSize,
  Immutable,     \* which tables there are: with the triggers (TRUE), without
  MaxSeconds,    \* bound: the clock
  MaxRuns,       \* bound: runs begun
  MaxTroubles    \* bound: runs that die or fail to upload; failures of the topic, of the
                 \* service or of the database

Entries == 1 .. MaxEntries

ASSUME AuditAssumption == ChunkSize \in Nat \ {0} /\ Immutable \subseteq BOOLEAN /\ MaxEntries \in Nat

VARIABLES
  seen,          \* entries that came
  table,         \* rows
  topic,
  sending,       \* the entry that is stored and not yet sent
  database,      \* the database is up
  conn,          \* the service's connection: none, open or closed
  producer,      \* it has one for the topic
  oldRows,       \* rows past the cutoff
  immutable,
  run,           \* per slot: <<>>, or <<stage, entries fetched and left, number of the chunk, which run>>
  begun,         \* runs begun
  locked,        \* per slot: rows
  cut,           \* slots whose run has lost its connection
  archive,       \* objects: <<key, which run, entries>>
  second,
  troubles,
  deleted,       \* history: rows that were deleted
  downs,       \* history: the database went down, or a start of the service found it so
  lostSends,     \* history: entries not sent for a failure
  overwritten,   \* history: objects that another run put over
  refused,       \* history: deletions that the triggers refused
  failures,      \* history: runs that died or failed between an upload and its commit
  overlapping    \* history: runs that began while another was at it

serviceVars == <<seen, topic, sending, conn, producer, downs, lostSends>>
runVars == <<run, begun, locked, cut, archive, deleted, overwritten, refused, failures, overlapping>>
auditVars == <<serviceVars, runVars, table, database, oldRows, immutable, second, troubles>>

AuditInit ==
  /\ seen = {} /\ table = {} /\ topic = {} /\ sending = {} /\ database = TRUE /\ conn = "open"
  /\ producer \in BOOLEAN /\ oldRows = {} /\ immutable \in Immutable
  /\ run = [r \in Runs |-> <<>>] /\ begun = 0
  /\ locked = [r \in Runs |-> {}] /\ cut = {} /\ archive = {} /\ second = 0
  /\ troubles = 0 /\ deleted = {} /\ downs = 0 /\ lostSends = 0 /\ overwritten = 0 /\ refused = 0
  /\ failures = 0 /\ overlapping = 0

Trouble == troubles < MaxTroubles /\ troubles' = troubles + 1

Stores == conn = "open" /\ database

\* A connection that broke is noticed here and not replaced; the middleware goes on.
Receive(e) ==
  /\ sending = {} /\ e \in Entries \ seen /\ seen' = seen \cup {e}
  /\ IF Stores THEN table' = table \cup {e} /\ sending' = {e} ELSE UNCHANGED <<table, sending>>
  /\ conn' = IF conn = "open" /\ ~database THEN "closed" ELSE conn
  /\ UNCHANGED <<runVars, topic, producer, downs, lostSends, database, oldRows, immutable, second, troubles>>

\* produce_to_kafka; a failure is logged.
Send ==
  /\ sending # {} /\ sending' = {}
  /\ \/ producer /\ topic' = topic \cup sending /\ UNCHANGED <<lostSends, troubles>>
     \/ ~producer /\ lostSends' = lostSends + 1 /\ UNCHANGED <<topic, troubles>>
     \/ producer /\ Trouble /\ lostSends' = lostSends + 1 /\ UNCHANGED topic

Produce ==
  /\ Send
  /\ UNCHANGED <<runVars, seen, conn, producer, downs, table, database, oldRows, immutable, second>>

\* connect_db and connect_kafka, once per process.
RestartService ==
  /\ Trouble /\ sending' = {} /\ lostSends' = lostSends + Cardinality(sending)
  /\ conn' = IF database THEN "open" ELSE "none"
  /\ downs' = IF database THEN downs ELSE downs + 1
  /\ producer' \in BOOLEAN
  /\ UNCHANGED <<runVars, seen, topic, table, database, oldRows, immutable, second>>

GrowOldRow ==
  /\ \E e \in table \ oldRows : oldRows' = oldRows \cup {e}
  /\ UNCHANGED <<serviceVars, runVars, table, database, immutable, second, troubles>>

PassSecond ==
  /\ second < MaxSeconds /\ second' = second + 1
  /\ UNCHANGED <<serviceVars, runVars, table, database, oldRows, immutable, troubles>>

--------------------------------------------------------------------------------
InRun(r, stage) == run[r] # <<>> /\ run[r][1] = stage
Fetched(r) == run[r][2]
Number(r) == run[r][3]
Which(r) == run[r][4]
Chunk(r) == {e \in Fetched(r) : Cardinality({f \in Fetched(r) : f < e}) < ChunkSize}
EndRun(r) ==
  run' = [run EXCEPT ![r] = <<>>] /\ locked' = [locked EXCEPT ![r] = {}] /\ cut' = cut \ {r}
LockedByOthers(r) == UNION {locked[s] : s \in Runs \ {r}}

\* FOR UPDATE SKIP LOCKED.
Fetch(r) ==
  LET rows == (table \cap oldRows) \ LockedByOthers(r) IN
  /\ run[r] = <<>> /\ database /\ rows # {} /\ begun < MaxRuns /\ begun' = begun + 1
  /\ run' = [run EXCEPT ![r] = <<"upload", rows, 1, begun'>>]
  /\ locked' = [locked EXCEPT ![r] = rows]
  /\ overlapping' = overlapping + IF \E s \in Runs : run[s] # <<>> THEN 1 ELSE 0
  /\ UNCHANGED <<serviceVars, cut, archive, deleted, overwritten, refused, failures,
                 table, database, oldRows, immutable, second, troubles>>

\* Mutant: the chunk is not in the key.
SecondOnly(r) == <<second, 0>>

Key(r) == <<second, Number(r)>>

Upload(r) ==
  /\ InRun(r, "upload") /\ run' = [run EXCEPT ![r][1] = "delete"]
  /\ archive' = {a \in archive : a[1] # Key(r)} \cup {<<Key(r), Which(r), Chunk(r)>>}
  /\ overwritten' = overwritten + IF \E a \in archive : a[1] = Key(r) /\ a[2] # Which(r) THEN 1 ELSE 0
  /\ UNCHANGED <<serviceVars, begun, locked, cut, deleted, refused, failures, overlapping,
                 table, database, oldRows, immutable, second, troubles>>

Deletes(r) == Chunk(r)

\* Waits for rows that another has locked; rolls back, and ends, if the triggers refuse.
DeleteChunk(r) ==
  LET gone == Deletes(r) left == Fetched(r) \ Deletes(r) IN
  /\ InRun(r, "delete") /\ r \notin cut /\ gone \cap LockedByOthers(r) = {}
  /\ IF immutable /\ gone \cap table # {}
     THEN EndRun(r) /\ refused' = refused + 1 /\ UNCHANGED <<table, deleted>>
     ELSE /\ table' = table \ gone /\ deleted' = deleted \cup (gone \cap table)
          /\ locked' = [locked EXCEPT ![r] = {}] /\ UNCHANGED <<cut, refused>>
          /\ run' = [run EXCEPT ![r] = IF left = {} THEN <<>> ELSE <<"upload", left, Number(r) + 1, Which(r)>>]
  /\ UNCHANGED <<serviceVars, begun, archive, overwritten, failures, overlapping, database, oldRows, immutable, second, troubles>>

\* It dies, or its upload fails, or its connection is lost; its chunk stays.
FailRun(r) ==
  /\ run[r] # <<>> /\ EndRun(r)
  /\ \/ Trouble
     \/ r \in cut /\ InRun(r, "delete") /\ UNCHANGED troubles
  /\ failures' = failures + IF InRun(r, "delete") THEN 1 ELSE 0
  /\ UNCHANGED <<serviceVars, begun, archive, deleted, overwritten, refused, overlapping,
                 table, database, oldRows, immutable, second>>

\* Every transaction is rolled back.
DatabaseDown ==
  /\ database /\ Trouble /\ database' = FALSE /\ downs' = downs + 1
  /\ cut' = {r \in Runs : run[r] # <<>>} /\ locked' = [r \in Runs |-> {}]
  /\ UNCHANGED <<seen, topic, sending, conn, producer, lostSends, run, begun, archive, deleted, overwritten,
                 refused, failures, overlapping, table, oldRows, immutable, second>>

DatabaseUp ==
  /\ ~database /\ database' = TRUE
  /\ UNCHANGED <<serviceVars, runVars, table, oldRows, immutable, second, troubles>>

AuditNext ==
  \/ \E e \in Entries : Receive(e)
  \/ Produce \/ RestartService \/ GrowOldRow \/ PassSecond \/ DatabaseDown \/ DatabaseUp
  \/ \E r \in Runs : Fetch(r) \/ Upload(r) \/ DeleteChunk(r) \/ FailRun(r)

AuditSpec == AuditInit /\ [][AuditNext]_auditVars

--------------------------------------------------------------------------------
AuditTypeOK ==
  /\ {table, topic, sending, oldRows, deleted} \subseteq SUBSET seen /\ table \cap deleted = {}
  /\ conn \in {"none", "open", "closed"} /\ locked \in [Runs -> SUBSET seen]

\* A row that was deleted is in an object of the archive, however runs overlap and die: except
\* one chunk for every object that another run put over in the same second.
DeletedIsArchived ==
  Cardinality(deleted \ UNION {a[3] : a \in archive}) <= ChunkSize * overwritten

\* A row is in several objects only for a run that died or was refused between an upload and
\* its commit, one chunk each, or for runs that overlapped.
ArchivedOnce ==
  overlapping = 0 =>
    \A e \in Entries : Cardinality({a \in archive : e \in a[3]}) <= 1 + failures + refused

\* An entry that came is missing from the table only if the database was out of reach once:
\* the trouble of the topic, of the service or of a run costs none.
MissedForCause == seen \subseteq table \cup deleted \/ downs > 0

\* The topic gets every entry that was stored, except one for each failure to send.
TopicFollowsTable ==
  /\ topic \subseteq table \cup deleted
  /\ Cardinality((table \cup deleted) \ (topic \cup sending)) <= lostSends

\* From the service to the table, the topic and the archive no entry goes missing, or is there
\* twice, but for its cause.
TrailIsComplete ==
  AuditTypeOK /\ DeletedIsArchived /\ ArchivedOnce /\ MissedForCause /\ TopicFollowsTable

\* "Automatically log all API requests": an entry is missing only while the database is down.
MissedOnlyWhileDown == database /\ conn # "open" => downs = 0
================================================================================
