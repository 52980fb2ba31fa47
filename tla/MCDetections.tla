------------------------------ MODULE MCDetections ------------------------------
(* Vision processing, a camera's job, the plate decoder and the plate search share no state: *)
(* TLC explores one or another.                                                             *)
EXTENDS DetectionHandler, RtspJob, PlateSearch, TLC

CONSTANTS w1, w2, p1, v1, v2, l1, u1, human, vehicle, attr, lpr, o, zero

VARIABLE side

vars == <<handlerVars, rtspVars, decodeVars, searchVars, side>>

MCClass == (p1 :> "person") @@ (v1 :> "vehicle") @@ (v2 :> "vehicle") @@ (l1 :> "plate") @@ (u1 :> "unknown")

\* The attribute plugin is discovered with the detectors; what it returns has no class.
MCFinder == (p1 :> human) @@ (v1 :> vehicle) @@ (v2 :> vehicle) @@ (l1 :> lpr) @@ (u1 :> attr)

MCSees == << <<p1, u1, v1, v2>>, <<l1>> >>

\* What the built-in classes say.
MCSupports == [p \in {human, attr, vehicle, lpr} |-> {"law_enf", "commercial", "logistics", "default"}]

Plain ==
  [sector |-> "default", off |-> {}, tenantOff |-> {}, cameraOverrides |-> <<>>, cameras |-> <<>>,
   missing |-> {}, broken |-> {}]

\* As it comes; the tenant without persons and one list for the camera hiding the other; a
\* sector that no plugin knows, for a tenant without persons; a plugin that is off for the
\* camera, one that is not installed and another that is broken.
MCConfigurations ==
  {Plain,
   [Plain EXCEPT !.tenantOff = {human}, !.cameraOverrides = <<{}>>, !.cameras = <<{lpr}>>],
   [Plain EXCEPT !.sector = "retail", !.tenantOff = {human}],
   [Plain EXCEPT !.off = {attr}, !.cameras = <<{human}>>, !.missing = {lpr}, !.broken = {vehicle}]}

MCConfused == (o :> zero) @@ (zero :> zero)

Init ==
  /\ HandlerInit /\ RtspInit /\ DecodeInit /\ SearchInit
  /\ \/ side = "handler" /\ native
     \/ side \in {"stream", "decode"} /\ native /\ config = Plain
     \/ side = "search" /\ config = Plain

Next ==
  /\ UNCHANGED side
  /\ \/ side = "handler" /\ HandlerNext /\ UNCHANGED <<rtspVars, decodeVars, searchVars>>
     \/ side = "stream" /\ RtspNext /\ UNCHANGED <<handlerVars, decodeVars, searchVars>>
     \/ side = "decode" /\ DecodeNext /\ UNCHANGED <<handlerVars, rtspVars, searchVars>>
     \/ side = "search" /\ SearchNext /\ UNCHANGED <<handlerVars, rtspVars, decodeVars>>

\* HandlerFairness and RtspFairness, of the side that runs.
FairSpec ==
  /\ Init /\ [][Next]_vars
  /\ \A w \in Consumers : /\ WF_handlerVars(side = "handler" /\ (Take(w) \/ Process(w)))
                        /\ WF_handlerVars(side = "handler" /\ TakeOver(w))
  /\ WF_rtspVars(side = "stream" /\ (StartPipeline \/ Reassess \/ Waited))
  /\ WF_rtspVars(side = "stream" /\ (UploadSample \/ AnnounceSample))
  /\ SF_rtspVars(side = "stream" /\ stop /\ PipelineEnds)

\* Of whatever side runs: an event settles, and a camera's job ends once it is told to.
Ends == (side = "handler" => FrameSettles) /\ StopEndsJob
================================================================================
