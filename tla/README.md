# Trinetra: a verification project in TLA+

Trinetra (`src/deepSightAI/Trinetra`) is a multi-tenant video analytics system: cameras and
video files are cut into frames, frames are turned into detections and embeddings, and detections
are searched, matched against watchlists and alerted on. It runs as a dozen Python processes
around Redis (streams, claims, registry), Milvus, MinIO and a relational database. What makes it
hard is not any single handler, it is that no two of these stores change together: every
operation is a row of calls, each of which may fail, be answered too late, or be interrupted by a
crash, while other processes make calls of their own.

This directory models the protocols between those calls in TLA+, checks them with TLC on small
instances, and proves theorems about them with TLAPS for all instances. `PROJECT.json` maps every
definition to the lines it stands for.

## 1. Inventory

Paths are relative to `src/deepSightAI/Trinetra`.

| Component | State it keeps | Operations | Talks to | Status |
|---|---|---|---|---|
| Resilient stream consumer (`Shared/Streaming/*`, `VisionProcessingService/dsai_consumer.py`) | Redis stream, consumer group, pending list, dead letter stream; per process: retry counts, last sweep | start, publish, sweep and claim idle entries, read pending, read new, handle, dead-letter, acknowledge | Redis; every streaming service inherits it | modelled, proved |
| Watchlist matcher (`WatchlistMatcherService/dsai_consumer.py`, `dsai_matcher.py`, `Shared/Repositories/WatchlistRepository.py`) | alerts table; per process: cooldowns, flood window, disabled entries | match, suppress, insert, publish, acknowledge | consumer, database, alert stream | modelled but for the scores, safety proved |
| Watchlist cache (`WatchlistMatcherService/dsai_cache.py`) | a tenant's entries, refresh time, background loop | refresh, invalidate, expire | database, matcher, API | modelled, proved |
| Watchlist API, alert stream (`dsai_api.py`) | SSE queues, ids seen, acknowledgements | CRUD, poll, stream, broadcast, acknowledge | database, Redis pub/sub | modelled but for listings, safety proved |
| Edge ingest (`ServerAndExtractor/dsai_edge_ingest.py`, `Shared/dsai_normalization.py`) | dedup key per event in Redis, Milvus rows, dead letters, last-seen times | claim, poll, normalize and insert, publish, record result, release, heartbeat | Redis, Milvus, devices | modelled but for request checks, safety proved |
| Stream placement (`ServerAndExtractor/registry.py`, `extractor.py`, `main_api.py`) | registry: leases, spare capacity, assignments; extractor: active streams, streams by camera | lookup, open, assign, stop, heartbeat, drain, failover | registry, extractors, routers | RTSP part modelled, safety proved |
| File jobs (same files) | registry: availability, round-robin index; extractor: job slots | claim, send, run, report, reclaim | registry, extractors, main API | modelled, availability proved |
| Extractor media pipeline (`extractor.py`) | frames on disk, sequence number, failure streak, back-off | upload, announce, restart a pipeline, give up, stop | MinIO behind a breaker, Redis | uploads and camera jobs modelled, not decoding; safety proved |
| Embedder (`Embedder/embedder.py`) | pending events, breakers, dead letters | read, reclaim, download, encode, insert, acknowledge | Redis, MinIO, Milvus | event loop modelled, not the models; safety proved |
| Circuit breaker (`Shared/dsai_circuit_breaker.py`) | state, counters, time it opened | ask, record success or failure, reset | callers of MinIO, Milvus, registry | modelled, proved as part of what calls through it |
| Stream replay (`Shared/Streaming/Replay.py`, `main_api.py`) | none of its own | read the stream, publish a video's entries again | Redis | modelled, safety proved |
| Vision handlers and plugins (`VisionProcessingService/*`) | plugins loaded, crops, plate rows, vectors | load, detect, decode a plate, store, publish | consumer, MinIO, Milvus, database | modelled but for the networks, safety proved |
| Search (`SearchService/main.py`) | none | text, person, vehicle and plate searches | Milvus, database | collections and plates modelled, proved |
| Auth service and RBAC (`AuthService/auth_service.py`) | users, memberships, roles, keys, devices, tenants | provision, login, register, reset, verify devices, administer and delete tenants | database, Redis, Milvus, MinIO | modelled but for listings, proved |
| Audit service (`AuditService/audit_service.py`, `Shared/dsai_middleware.py`, `src/scripts/retention/archive_audit_logs.py`) | table, connection, topic, archive | receive, insert, send, archive | database, Redis, object store | modelled but for queries, proved |
| Retention and legal holds (`Shared/dsai_retention.py`) | holds in memory and in Redis | set, remove, ask, clean | Redis, storage | modelled but for periods, proved |
| Milvus clients (`Shared/Milvus.py`, ...) | collections, indexes | look up, create, index | Milvus | look-ups modelled |
| Ingest service, repositories, storage clients, configuration, UIs, deployment, task script | rows of a database or none | | | not modelled, section 7 |

How they interact: a router (`main_api`) places camera streams and file segments on extractors
through the registry; extractors upload frames and publish `FrameReadyEvent`; the vision service
and the embedder consume these events, store vectors and publish detections; edge devices push
detections directly (edge ingest); the watchlist matcher consumes detections and raises alerts,
which reach operators by polls and event streams. Tenants, users and devices are administered by
the auth service over a database of its own; a tenant's deletion reaches into Milvus and MinIO.
Every arrow is an HTTP call without a retry or a Redis stream read by a consumer group.

What is hard, per component, and what makes it correct:

- **Consumer.** Entries change hands when a worker dies or is slow; the sweep reads `XPENDING`
  and claims later; XACK does not ask who owns an entry. Correct: an event leaves the pending list
  only when it was accepted, given up after all its attempts, or trimmed; it always leaves it in
  the end; two workers are not at the same event; each repeat has a cause.
- **Matcher.** The safeguard is asked before the commit and told after it; the commit's answer
  may be lost; the publish follows the commit. Correct: one row per match, no alert announced
  before it is durable, no match dropped without another alert standing for it, cooldown and flood
  limits hold per process.
- **Watchlist cache and alert feed.** A refresh reads before it takes the lock; entries change
  through an API that tells nobody; alert ids are handed out before the commit. Correct: matching
  is never further behind than a TTL and a refresh; what a poll or an event stream misses or
  repeats was overtaken or forgotten; an acknowledged alert does not come back.
- **Edge ingest.** The claim has a TTL and no owner; waiting is a poll; releasing is GET and
  DELETE. Correct: what a device was told is stored is stored; a repeated row has a cause; a claim
  left behind never blocks an event for good.
- **Placement.** The registry's numbers are as old as the last heartbeat, its assignments are
  written after the stream runs, and an extractor without heartbeats may well be running. Correct:
  hard limits hold, surplus copies and untracked streams have a cause, orphans for which there is
  no capacity become pending and none of them is starved by the others.
- **File jobs and replays.** Availability is written by claim, job and registration; a replay
  appends to the stream it reads, which is the extractors' or another one by configuration. Correct: one job at a time per extractor, no extractor busy with
  nothing, unless a fault paid for it; every job and every replay ends; entries multiply no faster
  than replays.
- **Extractor and embedder.** Uploads go on when the breaker refuses one; vectors are zipped with
  the paths of all frames, read or not; an insert the breaker refuses counts as an attempt.
  Correct: a lost frame has a failure to account for it, a row has its own vector, every announced
  event settles; a camera's frames keep their order over reconnects.
- **Vision handlers.** An event fails after some of its detections were stored and published, and
  all of them are done again, possibly by two workers. Correct: the keys come out the same, what is
  published is stored, one plate read has one row.
- **Tenants and accounts.** Rows are looked for and then added without a constraint; a deletion
  cleans several stores, of what it finds there by name, while others write; counters are read and
  written back. Correct: what is double, or left behind of what a clean-up looks for, or counted
  wrongly was overlapped by another request.
- **Holds and audit.** A hold may be set while the cleaner decides; archive runs overlap.
  Correct: no object under hold goes but in that window, no entry goes unarchived or twice.

`PROJECT.json` lists 40 hazards at their lines, with the properties that cover them. Some more
were met whose absence no passing property could state, because the code has them without any
race: two containers whose worker has the same pid share a consumer name
(`VisionProcessingService/dsai_consumer.py:61`); a stream set pending is never retried
(`registry.py:348`); a restart quicker than the lease hides the loss of an extractor's streams
(`registry.py:357`); the failover loop calls extractors without a token and is answered 401
(`registry.py:370`); a replay reads another stream than the one extractors publish to
(`Replay.py:36`); a tenant's deletion scans Redis for names no key has (`auth_service.py:1499`); a
stopped stream keeps its assignment and a later failover starts it again
(`registry.py:321`); a 503 for lack of capacity is recorded as a failure of the registry and opens
its breaker (`main_api.py:203`); the segments of a video beyond the claimable extractors are
dropped (`main_api.py:156`). Section 3 shows most of them as counterexamples.

## 2. Modules

| Module | What it is | Composes with |
|---|---|---|
| `ResilientConsumer` | one stream, one group, the workers' loop | instantiates `DeliveryContract` |
| `DeliveryContract` | abstract: sent, delivered, decided, settled | refined by `ResilientConsumer` |
| `WatchlistMatcher` | matching, safeguard, alert rows, alert events | reading and acknowledging are one step each, as `ResilientConsumer` shows they may be taken |
| `WatchlistCache` | the entries of a tenant, refreshes, invalidation, the age of what is matched | |
| `AlertFeed` | ids, commits, broadcasts, event streams, polls, acknowledgement | |
| `EdgeIngest` | claims, waiting, inserting, results of edge events | |
| `EdgeLiveness` | last-seen times of a camera stored by several threads | |
| `StreamPlacement` | routers, registry, extractors and the failover loop, composed | |
| `FileJobs` | main API, claim script and job slots, composed | |
| `StreamReplay` | replays that append to the stream they read, and the stream of extractors and embedder, which may be another | beside `FileJobs` |
| `CircuitBreaker` | operators on breaker values | `FrameUpload`, `FrameIndexing` |
| `FrameUpload` | a file job's uploads and its event | extends `CircuitBreaker` |
| `FrameIndexing` | embedders on the events of `FrameUpload`, Milvus behind a breaker | extends `FrameUpload` |
| `RtspJob` | a camera's job over all its pipelines | |
| `DetectionHandler` | two workers on one event: plugins, crops, plates, vectors, events | |
| `PlateDecode`, `PlateSearch` | CTC decoding step by step against its definition by runs; the ranking of plate searches | `PlateSearch` extends `PlateDecode` |
| `TenantData` | collections, searches, writers and the deletion of a tenant | |
| `TenantAccounts`, `Membership`, `Credentials` | a tenant's row; users, memberships, roles, tokens and keys; registration and resets | |
| `EdgeLockout` | devices that are verified by several processes, counted and locked out | |
| `LegalHold` | holds, the cleaner, the lifecycle rule | |
| `AuditTrail` | entries to table, topic and archive | |
| `Tenancy` | `TenantData` to `AuditTrail` side by side; a behaviour runs one of them | extends all eight |
| `IngestProofs` | theorems about `EdgeIngest`, `RtspJob`, `DetectionHandler`, `PlateDecode` and `PlateSearch` | extends them |
| `WatchlistProofs` | theorems about `WatchlistMatcher`, `WatchlistCache` and `AlertFeed` | extends them |
| `FileJobsProofs` | theorems about `FileJobs` and `StreamReplay` | extends them |
| `FrameIndexingProofs` | theorems about `FrameIndexing`, with its uploads and breakers | extends it |
| `RecordsProofs` | theorems about `EdgeLockout`, `EdgeLiveness`, `LegalHold` and `AuditTrail` | extends them |
| `TenancyProofs` | theorems about the other tenant modules and about `Tenancy` | extends `Tenancy`, `RecordsProofs` |
| other `...Proofs` | theorems about the module they are named for | extend it |
| `MC...` | instances for TLC: model values, value tables, symmetry, modules side by side | extend their modules |

State and actions follow the code. Each action is the code between two calls that another actor
can observe: a Redis command, a registry call, a commit, an acquisition of a lock or slot. What a
process does in its own memory between two such points belongs to the action. Errors are disjuncts
of the action whose call fails: *before* taking effect and, where the code cannot tell, *after* it.
Examples:

- `ResilientConsumer!Sweep` reads `XPENDING` (`found`), `Claim` issues `XCLAIM` for one entry of
  it on what may be a stale list; `ReadPending`, `ReadNew` are `XREADGROUP` from `0` and `>`;
  `HandleFails` includes the retry count and the decision to dead-letter; `RouteToDlq` and `Ack`
  are two steps because the worker may die between them.
- `WatchlistMatcher!Check` is `dsai_should_suppress` with its pruning and auto-disabling;
  `Lookup`, `Insert` are the query and the commit of `dsai_create`; the safeguard is told in the
  step in which the commit succeeds (`Committed`); `Publish` comes next and may fail.
- `WatchlistCache!Fetch` is the query before the lock, `Install` what is done under it; `Look`
  is the check for a missing or expired list, `Match` the comparison with what is cached *then*.
- `EdgeIngest!Claim` is `SET NX EX`, `Get` and `Wait` what a duplicate does, `Insert` normalizing
  and writing, `Mark` caching the result, `Release` and `Delete` the two calls of a release.
- `StreamPlacement!Dispatch` is the call of `/extract_stream` with the extractor's admission under
  its lock (`Open`), `Assign` the separate call that records the assignment; `Tick` and the
  `Failover...` actions are the loop's calls in order.
- `FileJobs!ClaimNext` is one run of the Lua script, which Redis executes atomically; `Send` is one
  of the calls that are gathered after all claims were made; `Finish` the `finally` block.
- `Membership` has one action for each look-up and one for each of the transactions that follow
  it, since each look-up opens a session of its own.

Histories are kept as sets, or as what a property asks of them, and not as logs: `AlertFeed` has
the alerts that were overtaken at their commit and counts what a stream repeated, the matcher's
safeguard has the times of alerts in its window, `DetectionHandler` the places of what was found in
a frame. A similarity in `PlateSearch` is a whole number of units, `Scale` of which are 1.0; `Scale`
is divisible by every number of trigrams there may be, so that no two shares that differ are equal.

Data is abstract: a message is a number or a model value, what it carries matters through sets
such as `Poison`, `Malformed` or `Matches`, and model inference, image files and embeddings do not
appear. A vector is the frame it was made from, which is all that `RowsAreRight` asks.

What the models show of the code that a reader of the code may not expect:

- `VisionProcessingService/dsai_vps.py:31` builds the consumer without a MinIO client: no crop is
  ever stored there, and the crop paths it publishes dangle (`MinioClient`, `CropsPaidFor`).
  `load_plugins` does not pass the sector on, so a configured `sectors` list decides nothing; one
  plugin that cannot be instantiated fails every event; a camera's `camera_overrides`
  hide its entry under `cameras`; default plugins run even when they are switched off for the tenant.
- A Milvus insert is not an upsert: a detection that is done again has a second row under the same
  key, which is why `KeysIdentify` is about keys and not about rows.
- Extractors, the embedder and (unless `FRAME_STREAM` is set) the vision service use the stream that
  `FRAME_EVENTS_STREAM` names, by default `frames` (`extractor.py:340`, `embedder.py:869`); a replay
  reads and appends to `events:frame_ready` (`Replay.py:36`, called without a stream at
  `main_api.py:442`). No deployment file sets the variable. So by default a replay finds nothing, and
  if anything were in its stream nobody would read what it publishes, against `main_api.py:419-423`.
  `StreamReplay` has both streams, and both values of the variable (`Configured`, `named`).
- The failover loop posts to `/extract_stream` without an `Authorization` header
  (`registry.py:370-378`). An extractor requires a token for it (`extractor.py:708-711`),
  so the answer is 401 on every tick: no orphan is ever moved, and as the batch is always the first
  orphans, later ones are not even tried while capacity lasts. Only where no extractor has capacity
  does a tick change anything: its orphans become `failover_pending`, for good. The `preStop` hook
  (`src/helm/extractor/templates/deployment.yaml:51`) calls `/drain` without a token as well, and
  ignores the refusal.
- The auth service never connects to Milvus, and its image installs neither `redis`, `minio` nor
  `pymilvus`; `Installed` in `TenantData` covers it without clients and with all of them. Where it
  cleans up at all, it drops `video_frames_*` and no other collection; removes the objects whose
  names begin with the tenant's id, as those of frames, crops and presigned uploads do, and not the
  videos that the user interface uploads (`UI/ui.py:176-181`); and deletes from Redis the keys that
  begin with the tenant's id and a colon (`auth_service.py:1495-1501`), of which there are none: the
  services write `dsai:legal_hold:<tenant>` (`dsai_retention.py:123`) and
  `push:liveness:<tenant>:<camera>` (`dsai_edge_ingest.py:194`, which expires after a day). All
  three stay, and no error is printed, against `auth_service.py:1181-1187`; `Matched` in
  `TenantData` says what a clean-up finds. A search creates the
  collections again that a deletion dropped. A deleted tenant cannot be deleted again (404).
- An update of a tenant whose values equal those that were read writes nothing (SQLAlchemy), so of
  two crossing updates the one that read what it asks for is lost. Replacing the plugins replaces
  the whole `plugin_config`, the sector included. A suspension is recorded; the login does not
  read it.
- A bucket's lifecycle rule (`extractor.py:26`) expires objects whatever is under hold.
- The expiry of a device's lock does not reset its count, so the next wrong key locks it again.
- The audit service's connection, once broken, is replaced at no time but a restart: `/ready`
  answers 503, `/health` 200. No service in `src` installs `AuditMiddleware`. An archive run
  against the table with triggers uploads its first chunk, fails to delete it, and does so again
  every night. The CronJob forbids overlapping runs; a run by hand is not stopped.
- The embedder writes its availability; nobody claims embedders.

## 3. Runs

All instances are small enough to be explored completely. Bounds are constants and named `Max...`.
Where modules share no state, one run explores them side by side: a variable `side`, picked at the
start, says which of them a behaviour runs, and the others stand still. A property that is a
conjunction of named parts is listed with its parts.

| Run | Instance | Properties |
|---|---|---|
| `consumer_slow` | 2 workers, 2 messages, one poisonous; handlers may outlast the idle threshold; 1 crash, 1 fault | `NoEarlyAck`; `RetriesAreBudgeted` (`DeadLetterIsEarned`, `AttemptsBounded`) |
| `consumer_live` | 2 workers with names of their own, prompt handlers | `TypeOK`, `ExclusiveBatches`, `RepeatsArePaidFor`; `EverySettles`; `ImplementsContract` (refinement of `DeliveryContract!FairSpec`) |
| `matcher_guard` | 1 matcher, 3 detections of an entry on 2 cameras, clock to 4, crash and fault | `SafeguardHolds` (`CooldownSpacing`, `FloodBound`, `DisabledForCause`); `EverySettles` |
| `matcher_alerts` | 2 matchers that may hold the same event, 2 entries, 2 faults | `MatchesAccountedFor`, `OneAlertRow` |
| `edge_ingest` | 2 workers, a valid and a malformed event, crash, 2 faults | `ConfirmedIsStored`, `RepeatsArePaidFor`; `EventuallyConfirmed` |
| `placement_copies` | 2 extractors, 1 router, failover loop, restarts, throttling, drain | `CapacityRespected`, `LatestStoppable`, `StraysPaidFor` (`CopiesPaidFor`, `UntrackedPaidFor`), `TrackedWhereItRuns` |
| `placement_live` | 2 extractors that die, with restarts, 1 router, 2 streams, failover batch of 1 whose calls are refused, 1 fault | `UnplacedIsPending` |
| `file_jobs` | 2 videos of 2 segments, 2 extractors with 2 slots, crash and fault; or 2 replays of an event among others, streams of 2 entries, under either value of `FRAME_EVENTS_STREAM` | `AvailabilityIsTrue` (`JobsPaidFor`, `BusyForCause`, `TypeOK`), `CopiesPaidFor`; `EveryRequestEnds` (`EveryJobEnds`, `EveryReplayEnds`) |
| `frame_indexing` | a segment of 3 frames, one unreadable, 2 embedders, chunks of 2, breakers that open at 2; crash, 3 faults | `FramesAccountedFor` (`UploadsOnRecord`, `LossPaidFor`, `DeadLetterPaidFor`), `RowsAreRight` (`RowsMatch`, `RowsPaidFor`); `EverySettles` |
| `watchlists` | an entry that changes twice, here or elsewhere, under an API thread, the loop and the matcher; or 2 processes, 2 alerts, one raised again, an event stream that remembers 1, a poll and 2 operators | `FreshEnough` (with `BlanksPaidFor`), `Converges`; `FeedHolds` (`PollMissesOvertaken`, `ShownPaidFor`, `AcknowledgedForGood`), `PollCatchesUp` |
| `detections` | 2 workers on an event of 2 frames under 4 plugin configurations; or a camera's job; or the plate decoder; or 2 plates and a query | `DetectionsIdentified` (`OneReadPerKey`, `KeysIdentify`), `DetectionsAccountedFor` (`PublishedIsStored`, `SettledIsPublished`, `CropsPaidFor`); `JobHolds` (`NumbersInOrder`, `GivesUpForCause`); `PlatesAreFound` (`TextIsRuns`, `ExactComesFirst`, `ConfusedIsFound`); `Ends` (`FrameSettles`, `StopEndsJob`) |
| `tenancy` | 8 sides: provisioning by 2 requests; 2 callers at a tenant's collections; 3 administrators; registrations and resets; a device and 2 processes; a camera and 2 threads; 2 objects under holds; 2 archive runs | `MembershipsAreWhole` (`RowsPaidFor`, `TokenIsWhole`, `KeyHasMember`), `TenantDataHolds` (`BarePaidFor`, `LeftBehindIsLate`, `EmptyIsEmpty`), `ProvisionedOnce` (`AccountsHold`, `OnceOnly`), `DevicesHold` (`LockoutHolds`, `LivenessHolds`), `HeldIsKept`, `TrailIsComplete` (`DeletedIsArchived`, `ArchivedOnce`, `MissedForCause`, `TopicFollowsTable`) |

What they show, in a sentence each:

- `consumer_slow`: even when entries are taken from live workers, no event is forgotten early and
  none is retried without end. `consumer_live`: with names of their own and prompt handlers no two
  workers are at an event, repeats are paid for, everything delivered settles, that of a crashed
  worker included, and the group implements the delivery contract.
- `matcher_guard`: cooldown and flood limit hold for the alerts of one running process at both
  edges of the window. `matcher_alerts`: matchers that race leave one row for each match, before it
  is announced, and drop none.
- `edge_ingest`: a confirmation that rests on a result is true, and a claim left behind is got over.
- `placement_copies`: the hard limit and the books hold however stale the registry is; a copy or an
  untracked stream has a cause. `placement_live`: while there is no capacity, every orphan
  becomes pending, unless its extractor comes back; the batch of one starves none. With capacity
  the code starves all of them (`OrphansSettle`, below).
- `file_jobs`: an extractor is busy for nothing, or has two jobs, only after a fault; jobs end; a
  replay that appends to the stream it reads ends, entries multiply no faster than replays, and only
  in that stream. It does not show that a replay finds the events of its video; by default it does
  not (`ReplaysAll`, below).
- `frame_indexing`: from the disk of the extractor to Milvus a frame is missing only for a failure
  that is on record, and never under another frame's vector.
- `watchlists`: however refreshes overtake invalidations, matching uses entries no older than TTL
  and one refresh, and settles on the table; a poll misses only what was overtaken.
- `detections`: repeated work has the same keys, what is published is stored first, and a camera's
  frames are numbered in order over reconnects.
- `tenancy`: whatever is double or miscounted has an overlapping request as its cause, and so has
  what a deletion leaves of the frames' collection and of the objects under the tenant's prefix. What
  no clean-up looks for by its name, among it every key in Redis, stays without any cause
  (`DeletedIsGone`, below).

*Paid for* properties have one form: the code does not promise "at most once", but a repeat, a
copy or a stale entry must have a cause, so its number is bounded by the crashes and faults (or
overlaps) so far. A protocol error, which needs no failure, breaks such a bound, as would one
failure with unlimited effect.

Each property has a mutant, a change of one definition that a plausible bug would make and under
which TLC finds it violated. A property of several parts has a mutant for the whole; the operators
commented "Mutant:" beside other definitions break its other parts.

Bounds and why they are enough for the question asked: two actors are the fewest that race, and
nearly all the protocols here are between two of them (owner and sweeper, claimer and waiter,
router and failover loop, refresh and invalidation); the cache has three threads, since a refresh
may be overtaken by another and by an invalidation. Two messages give the order of a batch and a
neighbour that must not be touched; three frames in chunks of two give a chunk that is full and
one that is not; retry limits are 2, the least with both a first and a last attempt. One crash and
one or two faults are what a property allows as a price; more raise both sides of its bound; three
in `frame_indexing`, since the breaker opens at the second. `MaxTime` exceeds the flood window by
one. `MaxStreams` of `placement_copies` leaves room for a copy of each of the two streams; in
`placement_live`, whose failovers open none, it is the two streams.

### Disagreements between the code and what it says

The modules also state sentences of the repository that the code does not keep. No run checks
them; TLC refutes each. Two have an instance of their own (`tlc -config <name>.cfg MC<Module>.tla`):
`consumer_shared_name` (`NotDoubleProcessed`) and `placement_pending` (`PendingResumes`). The others fail in the instance of a run above, when the
property is added to its `.cfg`, as an invariant or, where marked (P), as a property.

| Property | In the instance | What happens |
|---|---|---|
| `NotDoubleProcessed` | `consumer_shared_name` | two containers whose worker has the same pid share the name `vps-<pid>` and one pending list |
| `DeadLetterIsKept` | `consumer_slow` | publishing to the dead letter stream fails, the message is acknowledged all the same |
| `AttemptsWithinLimit` | `consumer_slow` | retry counts are per process; a hand-over grants a new budget |
| `TrimmedOnlyAfterDelivery` | `consumer_slow` | MAXLEN drops what was never delivered |
| `CommittedIsEmitted` | `matcher_guard` | the publish fails after the commit; the retry is suppressed by the cooldown its own first attempt started: the alert is never emitted |
| `CooldownHolds` | `matcher_guard`, `matcher_alerts` | a restart forgets the cooldown, and two processes have one each |
| `AllConfirmedStored` | `edge_ingest` | the batch endpoint counts "in progress" as success; the request in progress then fails |
| `OneWriter` | `edge_ingest` | a request slower than the claim's 60 s and a resubmission both write |
| `ResultIsKept` (P) | `edge_ingest` | the DELETE of a release hits a result recorded since its GET |
| `OrphansSettle` (P) | `placement_live` | the failover loop calls the extractor without a token, the extractor answers 401, every tick: no orphan is moved, and those past the batch are not tried |
| `PendingResumes` (P) | `placement_pending` | a stream set pending is skipped by all later ticks |
| `DeadStreamsNoticed` (P) | `placement_live` | a restart quicker than the lease hides the loss of all streams |
| `StoppedStaysStopped` (P) | `placement_copies` | stopping removes no assignment, a later failover starts the camera again |
| `Stoppable` | `placement_copies` | a second stream of a camera overwrites the entry of the first |
| `EverySegmentClaimed` | `file_jobs` | more segments than claimable extractors: the rest is dropped, the answer is a success |
| `ZombiesReclaimed` (P) | `file_jobs` | a claim whose job is never delivered keeps the extractor busy: its heartbeats go on, so the timeout of the script never applies |
| `OriginalsOnly` | `file_jobs` | a second replay publishes the first one's copies again |
| `ReplaysAll` (P) | `file_jobs` | extractors publish to `frames`, a replay reads `events:frame_ready`: it finds nothing of what it is to publish again |
| `AckedIsIndexed` | `frame_indexing` | a frame whose download fails is left out and the event acknowledged |
| `AuditKept` (P) | `watchlists` | a second acknowledgement overwrites who made the first |
| `DisabledIsSilent` | `detections` | with every plugin disabled the defaults run |
| `ConfusedIsAlwaysFound` (P) | `detections` | a database with pg_trgm scores by itself and raises no confused characters |
| `DeletedIsGone` | `tenancy` | no key in Redis has the prefix that the clean-up scans for; uploads of the user interface have none either; only one of a tenant's collections is dropped, and no plate rows are |
| `SectorIsKept` (P) | `tenancy` | replacing the plugin configuration drops the sector in it |
| `TokenIsAlwaysWhole` | `tenancy` | a user with two memberships logs in with the one that lacks the role |
| `HeldIsNeverDeleted` | `tenancy` | a hold comes between the cleaner's answer and its removal, or Redis fails, or the lifecycle rule acts |
| `MissedOnlyWhileDown` | `tenancy` | after a failure of the database entries go missing until a restart |

The passing runs are to be read with these in mind: `consumer_live` assumes distinct names and
prompt handlers. `placement_copies` sets `Trusted`: extractors may then take the failover's calls,
lose them or refuse them, so its safety properties hold of the code, which refuses them all, and of
the same code with a token added. `placement_live` and `placement_pending` have the code's refusals
only.

## 4. Fairness

Liveness is checked under the `FairSpec` of each module or instance, which assumes only:

- *Consumer*: a launched process starts and its loop goes on (`while` with every exception
  caught), weak fairness of `Work`; idle times grow, weak fairness of `Age`; sweeping has **strong**
  fairness, since the loop compares the clock on every round and so sweeps in any interval however
  often the loop is elsewhere. No process must come back after a crash: `EverySettles` shows that
  the other one takes its entries over.
- *Matcher*: weak fairness of one matcher's steps, the same loop.
- *Edge ingest*: a request that was received is worked off; a TTL runs out once nothing renews it;
  a device without confirmation submits again (strong fairness, as a worker may be taken by other
  requests whenever it wants to). `EventuallyConfirmed` is about such devices.
- *Placement*: heartbeats, the loop of 20 s and requests go on; a dead extractor's lease runs out;
  a stream that was told to stop stops. Nothing obliges anybody to start, stop or repair anything.
- *File jobs and replays*: requests and jobs go on, heartbeats are sent, a dead extractor falls
  silent. A job gets a slot although slots may leak (`Leak`), as long as fewer leak than there
  are. A replay that was begun goes on; that it outruns what is appended is to be shown, not
  assumed.
- *Frame indexing*: the extractor's upload and the loop of a running embedder go on, and a
  pending entry becomes idle enough to be taken over.
- *Watchlists*: the threads of the cache are scheduled, time goes on however busy they are (strong
  fairness of `TimePasses`), events keep coming; a client keeps polling.
- *Detections*: the workers' loop, the streaming thread and the job's thread go on; a pipeline
  that was told to quit ends (strong fairness: its main loop is looked at between the frames).
- *Tenancy*: none; its properties are about safety, and the requests of every side may end
  (`CHECK_DEADLOCK FALSE`).

Where instances run side by side, every fairness condition is on the action of its side, so that
the sides which stand still are owed nothing. Faults are bounded in number, so that liveness is
claimed for a system whose failures cease.

## 5. Proofs

Eight modules hold the theorems. They hold for all values of the constants that satisfy the
modules' named assumptions (`ConsumerAssumption`, `PlacementAssumption`, ...: types of the
constants, and that a value such as `None` or `NoList` is not one of the things it stands beside;
processes, requests and objects are finite in number where they are counted). TLC evaluates the
assumptions in every run.

The *paid for* bounds share an argument. A state does not remember what its faults have done, so
each invariant counts, beside what the property counts, what may still come of the state without
another fault: the requests under way, the claims that will run out, the room there is for one more
job. Normal steps move things from one such set to the other, and every fault, which adds to both
sides, is seen to add no more than it pays for.

`ResilientConsumerProofs`, for any number of processes, names, messages, crashes and faults, any
retry limit, stream length and batch size, and any poisonous messages:

- `TypeCorrect`: `Spec => []TypeOK`. `TypeOK` alone is not inductive, because a failing handler
  increments a retry count: `TypeInv` adds `RetryInv`, that a full count belongs to the message
  which is being dead-lettered.
- `AtLeastOnce`: `Spec => []NoEarlyAck`. The property speaks of events that left the pending list,
  the step that removes them is the XACK, and whether the event was decided then is known two steps
  earlier, to one process. `IndInv` therefore adds `AckInv`: a process that is about to acknowledge
  the least message of its batch has had it accepted or exhausted its attempts. The proof has one
  lemma for the stream and time, one for sweep and reads, one for handling; reads may only drop
  entries of the pending list that the stream trimmed. `DeliverNoGap` shows that a read delivers
  without leaving out an entry that was not trimmed, from `FirstCountIsPrefix`.
- `ContractIsKept`: `Spec => Contract!Spec`, the safety part of the refinement. Every step maps to
  a step of `DeliveryContract` or to a stutter. `RefInv` says what the mapping needs: no more was
  trimmed than published, the group's cursor is between its start and the end of the stream, what
  a process has in its batch or is known of at all was delivered, and only pending entries are
  idle; `GroupInv` that a running process has created the group.
- `RetriesBudgeted`: `Spec => []RetriesAreBudgeted`, for any finite number of processes. Retry
  counts are kept by each process and dropped when it acknowledges or dies, so nothing in a state
  adds up to the number of failures. `BudgetInv` counts what is *spent*, as a set of pairs of a
  process and an attempt: those a process has counted, and all of them once the event has left the
  pending list and the process its batch, for then it never comes back (`GoneStays`). A count
  dropped otherwise is the work of a crash or of a failing XACK, which grants as much (`Grants`).
- `NobodyTwice` and `RepeatsPaid`: `Spec => []ExclusiveBatches` and `Spec => []RepeatsArePaidFor`,
  assuming `Prompt` and names that differ (`NamesDiffer`), as `consumer_live` has them. The sweep
  goes by a reply of XPENDING that may be out of date; `HoldsOwn` says why that does no harm: what
  a process works on is pending for it and not idle, so that a claim by another one finds it busy,
  or was trimmed, so that a claim only drops it. `RepeatInv` then counts for every event the one
  handling that has led, or is about to lead, to an acknowledgement (`Through`); any other was lost
  to a crash or a failing XACK.

`StreamPlacementProofs`, for any number of extractors, cameras and routers, any limits, batches,
crashes and faults, with or without accepted failover calls:

- `CapacityHolds`: `Spec => []CapacityRespected`. The numbers the registry hands out are never
  used in the argument: a stream is admitted under the extractor's lock, one at a time (`Opening`),
  and every other step leaves its table alone or shrinks it (`Shrinking`).
- `TypeCorrect`: `Spec => []TypeOK`, in three parts: `NodeTypes`, `TableTypes`, `BookTypes`.
- `TrackedTruly`: `Spec => []TrackedWhereItRuns`. An assignment is written long after the stream
  was opened, from what a router or the loop remembers of the answer. `IndInv` adds that a stream
  runs on one extractor at most (`Solo`), and that what is remembered (`JobInv`, `LoopInv`) and
  recorded (`BooksInv`) names that extractor, or a stream that is over. `Grows` says what a step of
  a router or of the loop may do to the extractors; with it one lemma (`Kept`) covers all that a
  step leaves alone.
- `StoppedByCamera`: `Spec => []LatestStoppable`. Inductive beside `IndInv` (`EntryInv`): a stream
  that ends takes its camera's entry along only if the entry is its own.
- `StraysCounted`: `Spec => []StraysPaidFor`, both bounds for every camera, and for all its running
  streams, those that are being stopped included. What makes it hard is that no stream knows which
  call of a user it goes back to: a failover replaces it, an answer is lost, a second failover acts
  on what is left. `BudgetInv` keeps two accounts of a camera. What a start has become (a recorded
  assignment, a request of a router, the stream the loop is moving: `Recorded`, `Requests`,
  `Moved`) is no more than the starts. What may run beside these (`Stray`: running on no book, or
  on an extractor without a lease; `Risky`, `Moving`: requests and failovers that may put a stream
  there) is no more than starts times faults, since a missed heartbeat makes doubtful at most what
  is recorded on one extractor, which the first account bounds, and any other fault one stream.
  `PathInv` says what the loop and the routers hold in hand; one lemma for each of the extractors,
  the routers and the loop (`BudgetExtracting`, `BudgetRouting`, `BudgetReconciling`).

`FileJobsProofs`:

- `JobsCorrect`: `Spec => []AvailabilityIsTrue`, for any number of videos, segments, extractors and
  slots. The jobs of an extractor (`Load`) are counted from the claim to the report at their end.
  `LoadInv` adds the `Room` for another job; `WasteInv` counts the extractors that are busy for
  nothing and those that are down together.
- `CopiesBounded`: `ReplaySpec => []CopiesPaidFor`, for any number of processes and replays that
  overlap. A replay appends to the stream that others are reading, so what is in the stream does not
  bound what will be. Extractors publish once more for each lost answer, so of an event there are
  `(1 + lost) * 2^replays` entries at most where replays read, and `1 + lost` of any other and in
  the other stream, whichever of the two is the extractors'. `CopiesInv` charges what the replays under way have left of an event to the
  subsets of the replays begun, of which each new one doubles the number (`SubsetsDouble`).

`FrameIndexingProofs`, for any number of segments, frames, embedders, chunks, attempts, breaker
thresholds, crashes and failing calls:

- `RowsStayRight`: `Spec => []RowsAreRight`. The embedder zips vectors with the paths of all frames,
  and leaves unreadable images out of the vectors only; `Apt` says which pairs that can produce, and
  `MatchInv` that all in buffers and rows are such pairs as long as no download failed. That a row
  has no second copy but for a cause is `CopiesInv`: workers at an event, and a row together with the
  workers that are about to add it (`Holding`), are no more than one and the faults.
- `FramesAreAccountedFor`: `Spec => []FramesAccountedFor`. `BaseInv` has the uploads: a frame given
  up without a word cost its attempts (`Untold`, `UnderWay`), unless a breaker refused it, which
  opens after as many faults as its threshold (`Sound`). `DeliveryInv` counts every delivery of an
  event but the first against crashes, faults and refusals, also while it waits in a worker.
  `LossInv` is about frames: those a worker went past and that have no row and no pair in its buffer
  are no more than the failed downloads and the unreadable images, by an injection from the former
  to the latter. Which frame loses its row is not said by the code: when one image of a chunk is
  unreadable, the later vectors move up, and the last frame goes without.

`WatchlistProofs`, about the matcher, for any number of matchers, entries, cameras and detections,
any cooldown, window and threshold, and events that several matchers are at:

- `OneRowPerMatch`: `Spec => []OneAlertRow`. A row is added where the key has none in the step that
  commits; that the alert is announced only with a row needs `AtWork`: a matcher that is about to
  publish left a row behind.
- `SafeguardIsKept`: `Spec => []SafeguardHolds`. The verdict and the commit are apart, and time
  passes between them. `Recalls` says that the safeguard has all of its matcher's alerts of the window
  and nothing else; `VerdictStands`, that a matcher which is to raise an alert would still be let to:
  nobody else adds to its memory, and time only takes away from it. With that the two limits are
  inductive, over any window and not only those that end at an alert (`Around`).
- `NoMatchIsLost`: `Spec => []MatchesAccountedFor`. A suppressed match has no row of its own: an entry
  that is cooling down, flooded or disabled was alerted before, by `Recalls`, and what was recorded
  has a row (`MatchInv`), which nobody removes.

`IngestProofs`, about edge events for any number of workers and events, about a camera's job,
about detections, and about plates:

- `TypeCorrect` and `StoredWhenConfirmed`, `Spec => []ConfirmedIsStored`. A device is confirmed by
  what some request *read* of a result that another *wrote*: `Backed` says that a result in Redis
  has a row, and so has the event of a worker that is about to announce or record one. Rows are
  never removed, so it does not matter how stale the result is.
- `RepeatsPaid`, `Spec => []RepeatsArePaidFor`, for any finite number of workers. Each time a key
  becomes vacant every worker may add a row, since a claim that ran out is deleted by the one that
  held it while another holds it. `PaidInv` bounds the rows there are and will be (`RowsToCome`) and
  for each vacancy that is certain to come (`Vacancies`) a row of each worker.
- `CameraIsFollowed`, `RtspSpec => []JobHolds`: `SampleInv` says that a pipeline starts
  from the number at which the last one left off, `NumberInv` that numbers go up by one but for
  frames that were stored and not announced, and `StreakInv` that the failures in a row are the
  short pipelines and at most one more.
- `KeysStay` and `DetectionsAreKept`: `HandlerSpec => []DetectionsIdentified` and
  `HandlerSpec => []DetectionsAccountedFor`, for any plugins, configurations, frames and workers that
  take the event over from each other, with or without a MinIO client. What makes a second attempt
  harmless is that it comes to the same keys. A key has the ordinal of the detection among those
  found; `RankTells` says that places tell ordinals apart, so that keys identify as long as the same
  plugins answer (`Usual`, `Steady`). `DetectionInv` says where a worker is (`AtHand`: what it has
  done of its detection is in the stores), what it has behind it (`BehindIt`: published, by it or by
  another), and what holds of every published event and of the one a worker remembers (`Sound`),
  because a detection of unknown class publishes the remembered one again.
- `PlatesFound`: `DecodeSpec /\ SearchSpec => PlatesAreFound`, for any vocabulary, plates of any
  length, any page and threshold. Of the decoder: the text is the letters of the runs, as the decoder
  needs only the last token to see a run begin (`OriginsGrow`). Of the search: the rows before a row
  are counted by their rank, ranks are a bijection (`BestAreBefore`), so that a row is left
  out only by a full page of rows before it; and the share of trigrams is full for the same trigrams only
  (`SharedFull`). A request may ask for more than OCR-confused plates are raised to; the property
  excepts it.

`WatchlistProofs`, about the cache and the alert feed:

- `MatchedFresh`, `CacheSpec => FreshEnough`, for any number of entries and API threads. What is
  matched is as old as the list, the list as old as its query, and neither is known to the other.
  `CacheInv` therefore says of each entry that whoever holds a copy that is older than the entry's
  last change has the entry right: of a thread between query and lock (`GotInv`, by the age of the
  query), and of the list (`ListInv`, by the age of the list and the delay of a thread);
  `CompareInv` says what the matcher knew when it looked. That the ages are capped is no loss: at the
  cap `ListInv` says nothing, and the matcher refreshes.
- `FeedIsKept`, `FeedSpec => FeedHolds`, for any number of processes, event streams, operators and
  alerts. Ids are handed out before the commit: `OpenInv` says that what a matcher has inserted is
  nobody else's, `PollInv` that below the client's highest id it has all but what was committed
  after an alert with a higher id, since a page holds everything up to its last alert (`PageHasBelow`).
  `StreamInv` counts the repeats of a stream together with what it showed and no longer remembers:
  each forgotten id pays for one.

`RecordsProofs`, for any number of processes, requests, threads, objects, entries and archive runs:

- `LocksOut`: `LockoutSpec => LockoutHolds`, invariants and step properties of the lockout. A
  process counts a wrong key in memory, and in the row from what it read of it. `WrongsInv` says
  that every count, read or written, was a wrong key, with those still to be written; `PassedInv`
  that a process lets fewer than the limit pass; `AloneInv` that until requests overlap the one
  under way knows the row; `EarlyInv` that a request
  which is about to be admitted read the row before it was revoked.
- `CamerasAreHeard`: `LivenessSpec => []LivenessHolds`. `LatestInv`: unless a write was
  refused or one thread overtook another, what is stored is the latest that was heard, but for the
  part of a second that is cut off, or it has expired.
- `HoldsAreHonoured`: `LegalSpec => []HeldIsKept`. `Charged` matches every object under hold that
  the cleaner is about to remove to a hold that was set while it looked at it.
- `TrailStaysComplete`: `AuditSpec => []TrailIsComplete`. A run knows its chunk, not whether another
  has put an object over the chunk it uploaded: `InArchiveInv` says where what a run is about to
  delete is, `LostInv` charges each lost chunk to an object that was overwritten, `OnceInv` allows
  copies of an entry only to runs that overlapped or failed, `MissedInv` and `TopicInv` follow an
  entry to the table and to the topic.

`TenancyProofs`, for any number of callers, administrators, requests and clients:

- `DeletedWithCause`: `TenantSpec => TenantDataHolds`. Its claim about leftovers (`LeftBehindIsLate`)
  is about what a clean-up matches (`Matched`), which is nothing in Redis. `OrphansInv` counts collections without an
  index that nobody is about to index; `ErasingInv` says which places the deletion has dealt with.
  That an answer is empty for cause is a property of steps (`EmptyAnswers`).
- `AccountsAreHeld`: `AccountSpec => []AccountsHold`. `HeedInv` counts the requests under way
  as if they were lost already; the first of those that overlap is not, as long as all of them
  have read the row as it is.
- `WholeMemberships`: `MemberSpec => []MembershipsAreWhole`, for any number of requests and roles.
  The property counts rows, and the rows of requests that have looked and not yet added are not
  there to be counted; the invariant counts both: rows that say the same, and requests that have
  seen that row missing, are together no more than one and the overlaps. The lemmas `FewerCount`,
  `NoneCount` and `TurnedCount` say what a step does to such a count; `OnlyMember`, that without
  overlaps a login has nothing to choose from.
- `OnceEach`: `CredentialSpec => []OnceOnly`; `UsesInv` counts the confirmations of a token that
  have used it or have found it unused.
- `EachSide`: `Spec => TenantSpec /\ ... /\ AuditSpec`. `Tenancy` takes the steps of one side and
  leaves the variables of the others unchanged, so it implements each side's specification; what
  is proved of a side holds of the whole. `Provisioned` and `DevicesAreHeld` are the two properties
  of the run that span sides.

Every invariant and action property that a run checks is stated by a theorem. Only model-checked
are the liveness properties (`EverySettles`, `EventuallyConfirmed`, `UnplacedIsPending`,
`EveryRequestEnds`, `Converges`, `PollCatchesUp`, `Ends`) and the liveness part of
`ImplementsContract`: fairness is out of the prover's reach.

## 6. Plan

What is left, in this order:

1. `WatchlistMatcher` over the entries of `WatchlistCache` instead of fixed ones, with what the
   cache proves of their age as the assumption.
2. The registry's breaker in front of `StreamPlacement`, where a 503 for lack of capacity counts as
   a failure; assignments that name their tenants, `/unassign_stream`, the manual reconcile.

## 7. Not modelled

- *Models and media*: inference, embeddings, decoding, hardware detection; a step that succeeds or
  fails, or a constant that says what is found.
- *Ingest service and its adapters*: posts to one configured extractor a payload that `/extract`
  rejects, so nothing of it reaches `FileJobs`.
- *Listings and single reads*: list endpoints of all services, presigned uploads, `get_rtsp_frames`
  and the status endpoints of `main_api`, searches of the audit table, `rbac.py`, the checks of
  tokens; they keep no state, and what they answer is one statement's result.
- *Manual reconcile and unassign* of the registry, which no service calls.
- *Request checks of edge ingest* (authentication, tenant, camera path, sizes) and the clamping of
  clocks; `EdgeLiveness` leaves differences of clocks out.
- *Repositories, configuration, feature flags, metrics, logging, error handlers, start-up
  validation*: single statements or values that do not change.
- *Object storage client*: its calls are steps of the modules that make them, and may fail there.
- *Retention periods*: objects grow old in `LegalHold`; the number of days is left out.
- *Task tracking script, user interfaces, deployment files*: tools, clients and configuration; the
  last's numbers appear as constants. That the database enforces its foreign keys (cascades in
  `Membership`) assumes PostgreSQL, as deployed.
- *Times*: clocks are abstracted to what they decide (idle, expired, silent), except where windows
  of time are what the properties are about: the matcher's safeguard, the ages of the watchlist
  cache, lockouts, liveness of cameras. That a claim or lease outlasts a prompt request is an
  assumption whose breach costs a fault (`Overrun`, `FallSilent`).
- *A replay's handler* blocks the process that serves it, so a process serves one at a time.
