------------------------- MODULE CameraObstacleFeature -------------------------
(***************************************************************************)
(* camera_obstacle_feature_node.py: one depth image gives the nearest point *)
(* and, when enough points lie close to it, a body cylinder that is also    *)
(* published as a collision obstacle.  An image is seen as its frame id and *)
(* encoding, the pixels of the region of interest that have a valid depth,  *)
(* and those of them in the cluster around the nearest.                     *)
(***************************************************************************)
EXTENDS MarkerConsumers

CONSTANTS
    MinCluster,       \* min_cluster_points
    Images            \* depth images: [decodes, roi, valid, cluster, framed]

ASSUME FeatureAssumption ==
    /\ MinCluster \in Nat
    /\ Images \subseteq [decodes: BOOLEAN, roi: Nat, valid: Nat, cluster: Nat, framed: BOOLEAN]

VARIABLES
    cameraInfo,       \* "none", "ok" or "zero" (no focal length)
    lastDetection,    \* last_detection
    lastBody,         \* last_body_detection
    lastCollision     \* last_collision_detection

featureVars == <<cameraInfo, lastDetection, lastBody, lastCollision>>

FeatureTypeOK ==
    /\ cameraInfo \in {"none", "ok", "zero"}
    /\ {lastDetection, lastBody, lastCollision} \subseteq BOOLEAN

FeatureInit ==
    /\ cameraInfo = "none"
    /\ lastDetection = FALSE /\ lastBody = FALSE /\ lastCollision = FALSE

OnCameraInfo ==
    /\ cameraInfo' \in {"ok", "zero"}
    /\ UNCHANGED <<lastDetection, lastBody, lastCollision>>

\* Nothing, the nearest point alone, or with the body around it.
ExtractObstacle(image) ==
    LET none == ~image.decodes \/ image.roi = 0 \/ image.valid = 0 \/ cameraInfo = "zero"
    IN CASE none -> "none"
         [] ~none /\ image.cluster < MinCluster -> "point"
         [] ~none /\ image.cluster >= MinCluster -> "body"

NearestKey == <<"nearest", 0>>
BodyKey == <<"body", 0>>

\* The two marker topics, as one sequence of what is published on them.
NearestMarkers(detection) ==
    IF detection # "none" THEN <<Add(NearestKey, 0)>>
    ELSE IF lastDetection THEN <<Delete(NearestKey)>> ELSE <<>>

BodyMarkers(detection) ==
    IF detection = "body" THEN <<Add(BodyKey, 0)>>
    ELSE IF lastBody THEN <<Delete(BodyKey)>> ELSE <<>>

CollisionOnlyFromBody(detection, framed, transformed) ==
    IF detection = "body" /\ framed /\ transformed THEN << <<Add(BodyKey, 0)>> >>
    ELSE IF lastCollision /\ detection # "body" THEN << <<>> >> ELSE <<>>

\* A body without frame id or transform, like no body, empties /obstacles once.
CollisionMessages(detection, framed, transformed) ==
    IF detection = "body" /\ framed /\ transformed THEN << <<Add(BodyKey, 0)>> >>
    ELSE IF lastCollision THEN << <<>> >> ELSE <<>>

\* An image before any camera_info is dropped.
ProcessesImage == cameraInfo # "none"

OnDepthImage(detection, framed, transformed) ==
    /\ lastDetection' = (detection # "none")
    /\ lastBody' = (detection = "body")
    /\ lastCollision' = (detection = "body" /\ framed /\ transformed)
    /\ UNCHANGED cameraInfo

================================================================================
