--------------------------- MODULE ObstaclePipeline ---------------------------
(***************************************************************************)
(* From the sensors to the obstacles the controller avoids, RViz shows and  *)
(* the trace log records, in five of the ways the nodes are started:        *)
(*   merge    cloud bridge on /obstacles, the proximity bridge feeding it   *)
(*   relay    cloud bridge alone, the camera's own markers passed to RViz   *)
(*   feature  the depth feature node on /obstacles by itself                *)
(*   pose     the MediaPipe node, for RViz                                  *)
(*   log      the trace logger and the controller's data topics             *)
(***************************************************************************)
EXTENDS CameraBodySphereCloudBridge, ProximityObstacleBridge, CameraObstacleFeature,
        MediapipePoseObstacle, TraceLogger

CONSTANTS
    Setups,         \* [kind, gate, publishEmpty, observed]
    Clouds,         \* clouds the camera sends: [usable, points]
    Depths,         \* depth images as the pose node sees them
    Colors,         \* colour images: [visible, segmented, recent, decodes]
    Lifetime        \* marker lifetime in RViz, in timer periods

ASSUME PipelineAssumption ==
    /\ Setups \subseteq [kind: {"merge", "relay", "feature", "pose", "log"},
                         gate: BOOLEAN, publishEmpty: BOOLEAN, observed: BOOLEAN]
    /\ \A msg \in Clouds : msg.usable \in BOOLEAN /\ msg.points \in Seq({"finite", "nan", "infinite"})

VARIABLES
    setup,          \* how the nodes were started; "observed" by RViz and the trace logger
    alive,          \* the camera and the sensors still send
    fired,          \* the cloud bridge's timer has fired in this period
    raw,            \* on its way to the cloud bridge: the proximity bridge's message
    obstacles,      \* on its way to the controller
    controller,     \* obstacles the controller holds
    viewer,         \* markers RViz shows
    sinceDown,      \* periods since the proximity bridge last heard flag 1
    processed       \* history: what the last processed image was found to show

linkVars == <<setup, alive, fired, raw, obstacles, controller, viewer, sinceDown, processed>>
vars == <<linkVars, cloudVars, proximityVars, featureVars, poseVars, loggerVars>>

TypeOK ==
    /\ CloudTypeOK /\ ProximityTypeOK /\ FeatureTypeOK /\ PoseTypeOK /\ LoggerTypeOK
    /\ {Len(raw), Len(obstacles)} \subseteq {0, 1}
    /\ \A held \in controller : held.act = "ADD" /\ held.age \in 0 .. Stale + 3
    /\ sinceDown \in 0 .. Stale + 2

Init ==
    /\ CloudInit /\ ProximityInit /\ FeatureInit /\ PoseInit /\ LoggerInit
    /\ setup \in Setups
    /\ alive = TRUE /\ fired = FALSE /\ raw = <<>> /\ obstacles = <<>>
    /\ controller = {} /\ viewer = {} /\ sinceDown = 0 /\ processed = "none"

In(kind) == setup.kind = kind
InMerge == setup.kind \in {"merge", "relay"}

-----------------------------------------------------------------------------
(* merge *)

CameraSends ==
    /\ InMerge /\ alive
    /\ \/ \E msg \in Clouds : OnCloud(msg)
       \/ In("relay") /\ \E count \in 0 .. MaxSpheres : OnCameraRvizMarkers(count)
    /\ UNCHANGED <<linkVars, proximityVars, featureVars, poseVars, loggerVars>>

SensorsSend ==
    /\ In("merge") /\ alive
    /\ OnRange
    /\ UNCHANGED <<linkVars, cloudVars, featureVars, poseVars, loggerVars>>

Reconfigure ==
    /\ In("merge") /\ ~setup.gate
    /\ OnSetParameters
    /\ UNCHANGED <<linkVars, cloudVars, featureVars, poseVars, loggerVars>>

FlagArrives ==
    /\ In("merge") /\ setup.gate
    /\ \E active \in BOOLEAN : OnRmpFlag(active) /\ (active => alive)
    /\ sinceDown' = IF rmpActive' THEN 0 ELSE sinceDown
    /\ UNCHANGED <<setup, alive, fired, raw, obstacles, controller, viewer, processed>>
    /\ UNCHANGED <<cloudVars, featureVars, poseVars, loggerVars>>

\* BEST_EFFORT on the reader's side: the message may be lost.
PublishObstacles ==
    /\ In("merge") /\ alive
    /\ \E ignored, lost \in SUBSET Sensors :
          LET sent == ObstacleMessages(setup.gate, ignored, lost)
          IN raw' \in {raw, IF sent = <<>> THEN raw ELSE sent}
    /\ Clear(setup.gate)
    /\ UNCHANGED <<setup, alive, fired, obstacles, controller, viewer, sinceDown, processed>>
    /\ UNCHANGED <<ranges, enabled, rmpActive, cloudVars, featureVars, poseVars, loggerVars>>

RawArrives ==
    /\ raw # <<>>
    /\ OnAdditionalMarkers(Head(raw))
    /\ raw' = <<>>
    /\ UNCHANGED <<setup, alive, fired, obstacles, controller, viewer, sinceDown, processed>>
    /\ UNCHANGED <<proximityVars, featureVars, poseVars, loggerVars>>

BridgeTimer ==
    /\ InMerge /\ ~fired
    /\ PublishOutputs(setup.publishEmpty, In("relay"))
    /\ obstacles' = IF Publishes(setup.publishEmpty) THEN <<CollisionMarkers>> ELSE obstacles
    /\ viewer' = IF setup.observed THEN Shown(viewer, RvizMarkers(In("relay"))) ELSE viewer
    /\ fired' = TRUE
    /\ UNCHANGED <<setup, alive, raw, controller, sinceDown, processed>>
    /\ UNCHANGED <<proximityVars, featureVars, poseVars, loggerVars>>

\* One period later.  The subscriptions have been served and, in "merge", the
\* timer has fired: the periods are longer than the callbacks.
Tick ==
    /\ raw = <<>> /\ obstacles = <<>>
    /\ InMerge => fired
    /\ fired' = FALSE
    /\ CloudTick
    /\ controller' = {[held EXCEPT !.age = Min({@ + 1, Stale + 3})] : held \in controller}
    /\ viewer' = Expire(viewer, Lifetime)
    /\ sinceDown' = IF rmpActive \/ ~setup.gate THEN 0 ELSE Min({sinceDown + 1, Stale + 2})
    /\ UNCHANGED <<setup, alive, raw, obstacles, processed>>
    /\ UNCHANGED <<proximityVars, featureVars, poseVars, loggerVars>>

\* The camera and the proximity bridge stop; like a change of the sensors, tried
\* without the gate, which has no part in what follows.
SourcesStop ==
    /\ InMerge /\ ~setup.gate /\ alive
    /\ alive' = FALSE
    /\ UNCHANGED <<setup, fired, raw, obstacles, controller, viewer, sinceDown, processed>>
    /\ UNCHANGED <<cloudVars, proximityVars, featureVars, poseVars, loggerVars>>

\* The controller and the logger each get the array.
ObstaclesArrive ==
    /\ obstacles # <<>>
    /\ controller' = OnObstacles(controller, Head(obstacles))
    /\ IF setup.observed THEN LoggerOnObstacles(Head(obstacles)) ELSE UNCHANGED loggerVars
    /\ obstacles' = <<>>
    /\ UNCHANGED <<setup, alive, fired, raw, viewer, sinceDown, processed>>
    /\ UNCHANGED <<cloudVars, proximityVars, featureVars, poseVars>>

-----------------------------------------------------------------------------
(* feature and pose: one image *)

DepthImage ==
    /\ In("feature") /\ obstacles = <<>> /\ ProcessesImage
    /\ \E image \in Images, transformed \in BOOLEAN :
          LET detection == ExtractObstacle(image)
          IN /\ OnDepthImage(detection, image.framed, transformed)
             /\ obstacles' = CollisionMessages(detection, image.framed, transformed)
             /\ viewer' = Shown(viewer, NearestMarkers(detection) \o BodyMarkers(detection))
             /\ processed' = IF detection = "body" /\ image.framed /\ transformed
                               THEN "obstacle" ELSE detection
    /\ UNCHANGED <<setup, alive, fired, raw, controller, sinceDown>>
    /\ UNCHANGED <<cloudVars, proximityVars, poseVars, loggerVars>>

ColorImage ==
    /\ In("pose")
    /\ \E color \in Colors :
          /\ OnColorImage(color)
          /\ viewer' = IF PoseMessages(color) = <<>> THEN viewer
                       ELSE Shown(viewer, Head(PoseMessages(color)))
          /\ processed' = IF ~ProcessesColor(color) THEN processed
                          ELSE IF MarkersOf(color) = {} THEN "none" ELSE "body"
    /\ UNCHANGED <<setup, alive, fired, raw, obstacles, controller, sinceDown>>
    /\ UNCHANGED <<cloudVars, proximityVars, featureVars, loggerVars>>

CameraSetup ==
    /\ \/ In("feature") /\ OnCameraInfo /\ UNCHANGED poseVars
       \/ In("pose") /\ OnPoseCameraInfo /\ UNCHANGED featureVars
       \/ In("pose") /\ (\E image \in Depths : OnPoseDepth(image)) /\ UNCHANGED featureVars
    /\ UNCHANGED <<linkVars, cloudVars, proximityVars, loggerVars>>

-----------------------------------------------------------------------------
(* log *)

\* The controller's markers: metrics, cleared with one DELETEALL, and the arrow.
Metrics == {<<>>, <<DeleteAll>>, <<Add(<<"metric", 0>>, 0)>>}

LoggerHears ==
    /\ In("log") /\ logging
    /\ \/ \E array \in Arrays : Store(array)
       \/ \E msg \in Metrics : OnRepulsionMetrics(msg)
       \/ \E marker \in {"none", "point", "arrow"} : OnTcpAccelMarker(marker)
    /\ UNCHANGED <<linkVars, cloudVars, proximityVars, featureVars, poseVars>>

LoggerTimer ==
    /\ In("log") /\ WriteSnapshot
    /\ UNCHANGED <<linkVars, cloudVars, proximityVars, featureVars, poseVars>>

Next ==
    \/ CameraSends \/ SensorsSend \/ Reconfigure \/ FlagArrives \/ PublishObstacles
    \/ RawArrives \/ BridgeTimer \/ ObstaclesArrive \/ Tick \/ SourcesStop
    \/ DepthImage \/ ColorImage \/ CameraSetup
    \/ LoggerHears \/ LoggerTimer

\* The cloud bridge's executor and the controller's serve what is ready, and time passes.
Executors == RawArrives \/ BridgeTimer \/ ObstaclesArrive \/ (InMerge /\ Tick)
Spec == Init /\ [][Next]_vars /\ WF_vars(Executors)

-----------------------------------------------------------------------------
(* Properties *)

\* No obstacle the controller avoids is older, since the cloud bridge got it, than
\* the stale time and the two periods of its way, also when the sources stop and
\* with publish_empty_when_stale off: the last array is then emptied once.
ControllerFresh == InMerge => \A held \in controller : held.age <= Stale + 1

\* A cloud that is still fresh is with the controller after every timer, whatever
\* the proximity bridge deletes or clears behind it in the same array.
CameraSurvivesClear ==
    InMerge /\ fired /\ obstacles = <<>> /\ cloudAge \in 1 .. Stale =>
        \A i \in 1 .. cloud : <<"cloud", i>> \in KeysOf(controller)

\* With the gate on and the flag down the proximity obstacles leave the controller
\* within the stale time and its way, also when the one clear message is lost.
GateClears ==
    setup.gate /\ sinceDown > Stale + 1 => \A held \in controller : held.key[1] # "prox"

\* An image in which nothing is found, or whose obstacle cannot be placed, leaves
\* nothing of earlier images with the controller or in RViz.
NoGhosts ==
    /\ In("feature") /\ obstacles = <<>> /\ processed # "obstacle" => controller = {}
    /\ In("feature") /\ processed = "none" => viewer = {}
    /\ In("feature") /\ processed = "point" => BodyKey \notin KeysOf(viewer)
    /\ In("pose") /\ processed = "none" => viewer = {}

\* Without the gate's DELETEALLs the log has every obstacle the controller has.
LogCoversController ==
    setup.observed /\ ~setup.gate => KeysOf(controller) \subseteq KeysOf(activeObstacles)

\* No array its publishers can send ends the logger: every column of a row is in
\* the header, whatever the groups and however short the arrays.
LoggerSurvives == logging

\* The obstacles of sources that have stopped leave the controller for good.
ObstaclesExpire == ~alive ~> controller = {}
================================================================================
