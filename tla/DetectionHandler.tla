---------------------------- MODULE DetectionHandler ----------------------------
(***************************************************************************)
(* Vision processing of one FrameReadyEvent.  A worker downloads each      *)
(* frame, runs the plugins that are active for the camera, and takes their *)
(* detections one by one: a crop goes to MinIO, a plate to the database,   *)
(* the vector to Milvus, and then the detection's event is published.  Any *)
(* exception ends the attempt, and the whole event is tried again, by the  *)
(* same worker or by one that claims it, possibly while the first is still *)
(* at it.  A detection is keyed by its frame, its class and its position   *)
(* among the frame's detections.                                           *)
(***************************************************************************)
EXTENDS Naturals, FiniteSets, Sequences

CONSTANTS
  Consumers,     \* the workers
  NFrames,       \* frames of the event
  Plugins,       \* the plugins in the search directories
  Supports,      \* per plugin: supported_sectors
  Sees,          \* per frame: what the plugins together detect there, plugin after plugin
  Finder,        \* per object: the plugin that detects it
  Class,         \* per object: person, vehicle, plate, or unknown (no class at all)
  Plated,        \* objects whose plate was read
  Defaults,      \* the plugins taken when none is active
  Configurations, \* what the service may be configured as
  Guessing,      \* plugins that detect something without an image
  MinioClient,   \* the consumer was given a MinIO client
  Nothing,       \* no worker, no event
  MaxRetries,
  MaxClaims,     \* bound: claims of an event that is being worked on
  MaxErrors      \* bound: calls that fail, downloads and plugins that fail, crashes

Objects == DOMAIN Class

\* An object is one detection of one plugin in one frame.  The plate plugin returns no plate
\* that it did not read.
ASSUME HandlerAssumption ==
  /\ NFrames \in Nat /\ MaxRetries \in Nat \ {0} /\ MaxClaims \in Nat /\ MaxErrors \in Nat
  /\ Defaults \subseteq Plugins /\ Guessing \subseteq Plugins /\ Finder \in [Objects -> Plugins]
  /\ \A o \in Objects : Class[o] \in {"person", "vehicle", "plate", "unknown"}
  /\ Plated \subseteq Objects
  /\ \A o \in Objects : /\ Class[o] = "plate" => o \in Plated
                        /\ o \in Plated => Class[o] \in {"vehicle", "plate"}
  /\ Sees \in [1 .. NFrames -> Seq(Objects)]
  /\ \A f, g \in 1 .. NFrames : \A i \in DOMAIN Sees[f], j \in DOMAIN Sees[g] :
       Sees[f][i] = Sees[g][j] => f = g /\ i = j
  /\ MinioClient \in BOOLEAN /\ Nothing \notin Consumers

VARIABLES
  config,        \* dsai_config, as far as the camera's plugins go
  holder,        \* whose pending list the event is in
  tries,         \* per worker: dsai_retry_counts
  phase,         \* per worker: idle, load, frame, object, look, write, insert or publish
  frame,         \* per worker: the frame it is at
  found, place,  \* per worker: where in Sees of the frame its detections are, and the one at hand
  local,         \* per worker: the frame is on its disk
  crop,          \* per worker: dsai_crop_path is set
  last,          \* per worker: dsai_obj_event
  crops,         \* keys of the crops in MinIO
  plates,        \* plate_reads: key, object, who inserted it
  vectors,       \* Milvus: key and object
  events,        \* published events
  settled, dead, \* the event is acknowledged, is dead-lettered
  claims, errors,
  blind, missed  \* history: frames not downloaded; some plugin failed

progress == <<tries, phase, frame, found, place, local, crop, last>>
stores == <<crops, plates, vectors, events>>
handlerHistory == <<blind, missed>>
handlerVars == <<config, holder, progress, stores, settled, dead, claims, errors, handlerHistory>>

HandlerInit ==
  /\ config \in Configurations /\ holder = Nothing
  /\ tries = [w \in Consumers |-> 0] /\ phase = [w \in Consumers |-> "idle"]
  /\ frame = [w \in Consumers |-> 1] /\ found = [w \in Consumers |-> {}]
  /\ place = [w \in Consumers |-> 0] /\ local = [w \in Consumers |-> FALSE]
  /\ crop = [w \in Consumers |-> FALSE] /\ last = [w \in Consumers |-> Nothing]
  /\ crops = {} /\ plates = {} /\ vectors = {} /\ events = {}
  /\ settled = FALSE /\ dead = FALSE /\ claims = 0 /\ errors = 0
  /\ blind = {} /\ missed = FALSE

\* An error is one of a bounded number.
Error == errors < MaxErrors /\ errors' = errors + 1

--------------------------------------------------------------------------------
(* Which plugins run.                                                           *)

\* A module that cannot be imported, for want of a library, is passed over.
Discovered(c) == Plugins \ c.missing

\* camera_overrides, or else cameras: the first that says anything about the camera.
CameraOff(c) == LET said == c.cameraOverrides \o c.cameras IN IF said = <<>> THEN {} ELSE Head(said)

\* A plugin runs unless something says that it does not, whatever else says that it does.
Enabled(c, p) == p \notin c.off \cup c.tenantOff \cup CameraOff(c)

\* What a configuration loads.  The sectors are those of the plugin's class; those that are
\* configured are not passed on.
Loaded ==
  [c \in Configurations |->
     {p \in Discovered(c) : Enabled(c, p) /\ Supports[p] \cap {c.sector, "*"} # {}}]

\* The defaults stand in for none.
ActiveUnder == [c \in Configurations |-> IF Loaded[c] = {} THEN Defaults ELSE Loaded[c]]

Active == ActiveUnder[config]

--------------------------------------------------------------------------------
(* Attempts.                                                                    *)

\* Every attempt loads the plugins anew.
Loads == Loaded[config] \cap config.broken = {}

Begin(w) ==
  /\ phase' = [phase EXCEPT ![w] = IF Loads THEN "frame" ELSE "load"] /\ frame' = [frame EXCEPT ![w] = 1]
  /\ last' = [last EXCEPT ![w] = Nothing]
  /\ UNCHANGED <<config, tries, found, place, local, crop, stores, settled, dead, errors,
                 handlerHistory>>

\* The event is new, or still in the worker's pending list.
Take(w) ==
  /\ phase[w] = "idle" /\ ~settled /\ holder \in {Nothing, w} /\ holder' = w /\ Begin(w)
  /\ UNCHANGED claims

\* The idle sweep takes the event over; its holder may be at it all the same.
TakeOver(w) ==
  /\ phase[w] = "idle" /\ ~settled /\ holder \notin {Nothing, w} /\ holder' = w /\ Begin(w)
  /\ IF phase[holder] = "idle" THEN UNCHANGED claims
                               ELSE claims < MaxClaims /\ claims' = claims + 1

Rest(w) ==
  /\ phase' = [phase EXCEPT ![w] = "idle"] /\ found' = [found EXCEPT ![w] = {}]
  /\ place' = [place EXCEPT ![w] = 0] /\ local' = [local EXCEPT ![w] = FALSE]
  /\ crop' = [crop EXCEPT ![w] = FALSE] /\ last' = [last EXCEPT ![w] = Nothing]
  /\ frame' = [frame EXCEPT ![w] = 1]

\* Mutant: the event is never given up.
RaisesAgain(w) ==
  /\ Rest(w) /\ UNCHANGED <<config, holder, tries, settled, dead, claims, handlerHistory>>

\* An exception: one more try, or a dead letter and the acknowledgement.
Raises(w) ==
  /\ Rest(w) /\ tries' = [tries EXCEPT ![w] = IF @ + 1 < MaxRetries THEN @ + 1 ELSE 0]
  /\ IF tries[w] + 1 < MaxRetries THEN UNCHANGED <<settled, dead>>
                                  ELSE settled' = TRUE /\ dead' = TRUE
  /\ UNCHANGED <<config, holder, claims, handlerHistory>>

\* A plugin that cannot be instantiated fails the event.
LoadFails(w) == phase[w] = "load" /\ Raises(w) /\ UNCHANGED <<stores, errors>>

Finish(w) ==
  /\ phase[w] = "frame" /\ frame[w] > NFrames /\ Rest(w)
  /\ settled' = TRUE /\ tries' = [tries EXCEPT ![w] = 0]
  /\ UNCHANGED <<config, holder, stores, dead, claims, errors, handlerHistory>>

\* The worker dies; its pending list stays.
WorkerCrash(w) ==
  /\ phase[w] # "idle" /\ Error /\ Rest(w) /\ tries' = [tries EXCEPT ![w] = 0]
  /\ UNCHANGED <<config, holder, stores, settled, dead, claims, handlerHistory>>

--------------------------------------------------------------------------------
(* Detections.                                                                  *)

\* The position of i among those of S, from 1: dsai_det_idx.
Rank(S, i) == Cardinality({j \in S : j <= i})

Object(w) == Sees[frame[w]][place[w]]

\* Mutant: bounding boxes and positions play no part.
KeyOfClass(f, o, i) == [frame |-> f, class |-> Class[o], ordinal |-> 0]

\* dsai_generate_video_object_pk with a det_idx, for frames with timestamps of their own.
KeyOf(f, o, i) == [frame |-> f, class |-> Class[o], ordinal |-> i]

Key(w) == KeyOf(frame[w], Object(w), Rank(found[w], place[w]))

Event(w) == [key |-> Key(w), object |-> Object(w), crop |-> crop[w]]

\* Where the plugins of a set that detect something in the frame, with an image or without,
\* have their detections.
Found(f, plugins, here) ==
  {i \in DOMAIN Sees[f] : Finder[Sees[f][i]] \in plugins /\ (here \/ Finder[Sees[f][i]] \in Guessing)}

\* On to the first of the detections ahead, or else to the next frame.
Onto(w, all, ahead) ==
  \/ /\ ahead = {}
     /\ phase' = [phase EXCEPT ![w] = "frame"] /\ frame' = [frame EXCEPT ![w] = @ + 1]
     /\ found' = [found EXCEPT ![w] = {}] /\ place' = [place EXCEPT ![w] = 0]
  \/ \E i \in ahead :
       /\ \A j \in ahead : i <= j
       /\ phase' = [phase EXCEPT ![w] = "object"] /\ place' = [place EXCEPT ![w] = i]
       /\ found' = [found EXCEPT ![w] = all] /\ UNCHANGED frame

\* The frame is downloaded or not, and each active plugin detects or fails.  Without an
\* image some find nothing and some what they always find.
Detect(w) ==
  /\ phase[w] = "frame" /\ frame[w] <= NFrames
  /\ \E here \in BOOLEAN, failing \in SUBSET Active :
       LET all == Found(frame[w], Active \ failing, here) IN
       /\ here => MinioClient
       /\ IF failing # {} \/ (MinioClient /\ ~here) THEN Error ELSE UNCHANGED errors
       /\ local' = [local EXCEPT ![w] = here]
       /\ Onto(w, all, all)
       /\ blind' = IF here THEN blind ELSE blind \cup {frame[w]}
       /\ missed' = (missed \/ failing # {})
  /\ UNCHANGED <<config, holder, tries, crop, last, stores, settled, dead, claims>>

\* Where a detection goes after its crop.
Route(o) ==
  CASE o \in Plated /\ Class[o] \in {"vehicle", "plate"} -> "look"
    [] Class[o] = "person" \/ (Class[o] = "vehicle" /\ o \notin Plated) -> "insert"
    [] OTHER -> "publish"

\* The crops of persons and vehicles are kept; a failed upload leaves no path, but without
\* a client or a downloaded frame there is a path and no upload.
Crop(w) ==
  /\ phase[w] = "object" /\ phase' = [phase EXCEPT ![w] = Route(Object(w))]
  /\ IF Class[Object(w)] \notin {"person", "vehicle"}
     THEN crop' = [crop EXCEPT ![w] = FALSE] /\ UNCHANGED <<crops, errors>>
     ELSE \/ /\ crop' = [crop EXCEPT ![w] = TRUE] /\ UNCHANGED errors
             /\ crops' = IF local[w] THEN crops \cup {Key(w)} ELSE crops
          \/ /\ local[w] /\ Error
             /\ crop' = [crop EXCEPT ![w] = FALSE] /\ UNCHANGED crops
  /\ UNCHANGED <<config, holder, tries, frame, found, place, local, last, plates, vectors,
                 events, settled, dead, claims, handlerHistory>>

\* What follows once the plate's row is there.  A plate of its own has no vector.
Onward(w) ==
  IF Class[Object(w)] = "vehicle" THEN phase' = [phase EXCEPT ![w] = "insert"] /\ UNCHANGED last
  ELSE phase' = [phase EXCEPT ![w] = "publish"] /\ last' = [last EXCEPT ![w] = Event(w)]

ReadOf(k) == {r \in plates : r[1] = k}

\* PlateRepository.create: the row of the key is there, and is overwritten if this read is
\* the better one; or it is not there yet.
LookUpPlate(w) ==
  /\ phase[w] = "look"
  /\ IF ReadOf(Key(w)) # {}
     THEN /\ Onward(w)
          /\ \/ UNCHANGED plates
             \/ plates' = {IF r[1] = Key(w) THEN <<r[1], Object(w), r[3]>> ELSE r : r \in plates}
     ELSE phase' = [phase EXCEPT ![w] = "write"] /\ UNCHANGED <<last, plates>>
  /\ UNCHANGED <<config, holder, tries, frame, found, place, local, crop, crops, vectors,
                 events, settled, dead, claims, errors, handlerHistory>>

Taken(k) == ReadOf(k) # {}

\* INSERT: the unique constraint, or the database, may refuse.
WritePlate(w) ==
  /\ phase[w] = "write"
  /\ \/ /\ ~Taken(Key(w)) /\ plates' = plates \cup {<<Key(w), Object(w), w>>} /\ Onward(w)
        /\ UNCHANGED <<config, holder, tries, frame, found, place, local, crop, settled, dead,
                       claims, errors, handlerHistory>>
     \/ /\ IF Taken(Key(w)) THEN UNCHANGED errors ELSE Error
        /\ Raises(w) /\ UNCHANGED plates
  /\ UNCHANGED <<crops, vectors, events>>

\* insert and flush; either may fail, after which the row is there or not.
InsertVector(w) ==
  /\ phase[w] = "insert"
  /\ LET stored == vectors' = vectors \cup {<<Key(w), Object(w)>>} IN
     \/ /\ stored /\ phase' = [phase EXCEPT ![w] = "publish"]
        /\ last' = [last EXCEPT ![w] = Event(w)]
        /\ UNCHANGED <<config, holder, tries, frame, found, place, local, crop, settled, dead,
                       claims, errors, handlerHistory>>
     \/ Error /\ Raises(w) /\ (stored \/ UNCHANGED vectors)
  /\ UNCHANGED <<crops, plates, events>>

NextDetection(w) ==
  Onto(w, found[w], {j \in found[w] : j > place[w]}) /\ crop' = [crop EXCEPT ![w] = FALSE]

\* Mutant: a failing publish is logged.
PublishLogged(w) ==
  /\ phase[w] = "publish" /\ NextDetection(w)
  /\ \/ last[w] # Nothing /\ events' = events \cup {last[w]} /\ UNCHANGED errors
     \/ (IF last[w] = Nothing THEN UNCHANGED errors ELSE Error) /\ UNCHANGED events
  /\ UNCHANGED <<config, holder, tries, local, last, crops, plates, vectors, settled, dead,
                 claims, handlerHistory>>

\* dsai_obj_event is that of the detection or, if it has no class, that of the one before;
\* if there was none, reading it raises, as a failing XADD does.
PublishDetection(w) ==
  /\ phase[w] = "publish"
  /\ LET sent == events' = events \cup {last[w]} IN
     \/ /\ last[w] # Nothing /\ sent /\ NextDetection(w)
        /\ UNCHANGED <<config, holder, tries, local, last, settled, dead, claims, errors,
                       handlerHistory>>
     \/ /\ last[w] # Nothing /\ Error /\ Raises(w) /\ (sent \/ UNCHANGED events)
     \/ last[w] = Nothing /\ Raises(w) /\ UNCHANGED <<events, errors>>
  /\ UNCHANGED <<crops, plates, vectors>>

Process(w) ==
  \/ LoadFails(w) \/ Detect(w) \/ Crop(w) \/ LookUpPlate(w) \/ WritePlate(w) \/ InsertVector(w) \/ PublishDetection(w)
  \/ Finish(w)

HandlerNext == \E w \in Consumers : Take(w) \/ TakeOver(w) \/ Process(w) \/ WorkerCrash(w)

HandlerSpec == HandlerInit /\ [][HandlerNext]_handlerVars

\* Consumers go on, and look for idle events.
HandlerFairness ==
  \A w \in Consumers : WF_handlerVars(Take(w) \/ Process(w)) /\ WF_handlerVars(TakeOver(w))

--------------------------------------------------------------------------------
Phases == {"idle", "load", "frame", "object", "look", "write", "insert", "publish"}

Known == {o \in Objects : Class[o] # "unknown"}

HandlerTypeOK ==
  /\ holder \in Consumers \cup {Nothing} /\ tries \in [Consumers -> 0 .. MaxRetries - 1]
  /\ phase \in [Consumers -> Phases] /\ frame \in [Consumers -> 1 .. NFrames + 1]
  /\ \A w \in Consumers : phase[w] \notin {"idle", "load", "frame"} => place[w] \in found[w]
  /\ \A w \in Consumers : phase[w] \in {"look", "write"} => Object(w) \in Plated
  /\ \A e \in events : e.object \in Known /\ e.key.class = Class[e.object]
  /\ dead => settled
  /\ claims \in 0 .. MaxClaims /\ errors \in 0 .. MaxErrors

\* What the matcher and the search are told of is in the stores by then: the vector of a
\* person or vehicle, and the row of a plate.
PublishedIsStored ==
  \A e \in events :
    /\ Class[e.object] \in {"person", "vehicle"} => <<e.key, e.object>> \in vectors
    /\ e.object \in Plated => ReadOf(e.key) # {}

\* However often and by however many workers an event is processed, a detection has one
\* plate row.
OneReadPerKey == \A r, q \in plates : r[1] = q[1] => r = q

\* Whatever is done again is done on the same: no plugin failed, and no download, unless for
\* want of a client none was tried.
Steady == ~missed /\ (blind = {} \/ ~MinioClient)

\* "Generate deterministic video_object_pk": retries give a detection the key it had, and no
\* other detection that key, unless a download or a plugin failed and moved positions.
KeysIdentify ==
  Steady =>
    /\ \A e, d \in events : (e.key = d.key) = (e.object = d.object)
    /\ \A r \in plates, e \in events : r[1] = e.key => r[2] = e.object

\* Under repeats of an event its detections keep their identity in all the stores.
DetectionsIdentified == HandlerTypeOK /\ OneReadPerKey /\ KeysIdentify

\* What an attempt finds in a frame if nothing fails.
Usual(f) == Found(f, Active, MinioClient)

\* An event acknowledged as processed has every one of its detections published, unless
\* some download or plugin failed.
SettledIsPublished ==
  settled /\ ~dead /\ Steady =>
    \A f \in 1 .. NFrames : \A i \in Usual(f) :
      Sees[f][i] \in Known => \E e \in events : e.object = Sees[f][i]

\* An event names a crop that is not in MinIO only for a frame that was not downloaded.
CropsPaidFor == \A e \in events : e.crop /\ e.key \notin crops => e.key.frame \in blind

\* The stores, the events and the acknowledgement of a frame agree on what was detected, but
\* for failures that account for the difference.
DetectionsAccountedFor == PublishedIsStored /\ SettledIsPublished /\ CropsPaidFor

\* The event is acknowledged at last.
FrameSettles == <>settled

\* "respecting sector, global, per-tenant, and per-camera overrides": what a disabled
\* plugin would have seen is not published.
DisabledIsSilent ==
  \A e \in events : Enabled(config, Finder[e.object])
================================================================================
