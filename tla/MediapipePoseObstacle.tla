------------------------- MODULE MediapipePoseObstacle -------------------------
(***************************************************************************)
(* mediapipe_pose_obstacle_node.py: a colour image with the last depth image *)
(* gives markers for the joints, limbs and body of a person and for the     *)
(* segmentation of the image.  A colour image is seen as the set of         *)
(* landmarks that are visible and inside it; depth as the landmarks it has  *)
(* a depth for and those of them far from the median.                       *)
(***************************************************************************)
EXTENDS MarkerConsumers, FiniteSetsExt

CONSTANTS
    Landmarks,        \* allowed landmarks
    Core,             \* core_landmark_indices
    Limbs,            \* limb_connections: a sequence of pairs of landmarks
    MinJoints,        \* min_valid_joints
    MinCore,          \* min_core_joints
    BodyMinJoints,    \* body_min_joints
    ProcessEveryN     \* process_every_n

VARIABLES
    depth,            \* depth_image: [seen, far, size] or NoDepth
    poseInfo,         \* camera_info: "none", "ok" or "zero"
    frameCount,       \* frame_count modulo ProcessEveryN
    hadMarkers        \* had_markers

poseVars == <<depth, poseInfo, frameCount, hadMarkers>>

NoDepth == [seen |-> {}, far |-> {}, size |-> "none"]

PoseTypeOK ==
    /\ depth \in [seen: SUBSET Landmarks, far: SUBSET Landmarks, size: {"none", "color", "other"}]
    /\ poseInfo \in {"none", "ok", "zero"}
    /\ frameCount \in 0 .. ProcessEveryN - 1
    /\ hadMarkers \in BOOLEAN

PoseInit == depth = NoDepth /\ poseInfo = "none" /\ frameCount = 0 /\ hadMarkers = FALSE

OnPoseCameraInfo ==
    /\ poseInfo' \in {"ok", "zero"}
    /\ UNCHANGED <<depth, frameCount, hadMarkers>>

\* An image whose encoding is unknown leaves the last depth in place.
OnPoseDepth(image) ==
    /\ depth' = image
    /\ UNCHANGED <<poseInfo, frameCount, hadMarkers>>

\* Visible landmarks with a depth near the median; none of them unless there
\* are enough.
LandmarksTo3d(visible) ==
    LET near == (visible \cap depth.seen) \ depth.far
    IN IF /\ poseInfo # "zero"
          /\ Cardinality(near) >= MinJoints
          /\ Cardinality(near \cap Core) >= MinCore
       THEN near ELSE {}

LimbMarkers(points) ==
    {<<"limb", i>> : i \in {k \in DOMAIN Limbs : Limbs[k][1] \in points /\ Limbs[k][2] \in points}}

\* The body is placed on two core points or more, else on all of them.
BodyMarker(points) ==
    LET core == points \cap Core
        placed == IF Cardinality(core) >= 2 THEN core ELSE points
    IN IF points # {} /\ Cardinality(points) >= BodyMinJoints
          /\ Cardinality(placed) >= BodyMinJoints
       THEN {<<"torso", 1>>} ELSE {}

JointMarkers(points) == {<<"joint", p>> : p \in points}

\* The image must have the size of the depth image, and pixels with a depth.
SegmentationMarkers(segmented) ==
    IF segmented /\ depth.size = "color" /\ depth.seen # {} /\ poseInfo # "zero"
    THEN {<<"segment", 1>>} ELSE {}

MarkersOf(color) ==
    LET points == LandmarksTo3d(color.visible)
    IN JointMarkers(points) \cup LimbMarkers(points) \cup BodyMarker(points)
           \cup SegmentationMarkers(color.segmented)

\* One colour image in ProcessEveryN is processed, with a depth and a camera_info,
\* the depth not too old, in an encoding that decodes.
ProcessesColor(color) ==
    /\ (frameCount + 1) % ProcessEveryN = 0
    /\ depth # NoDepth /\ poseInfo # "none"
    /\ color.recent /\ color.decodes

\* _clear_markers: one DELETEALL after the last markers.
ClearMarkers == IF hadMarkers THEN << <<DeleteAll>> >> ELSE <<>>

\* Joints, limbs, body and segmentation as ADDs in one message, or the clear.
PoseMessages(color) ==
    LET markers == MarkersOf(color)
    IN IF ~ProcessesColor(color) THEN <<>>
       ELSE IF markers = {} THEN ClearMarkers
       ELSE << SetToSeq({Add(key, 0) : key \in markers}) >>

OnColorImage(color) ==
    /\ frameCount' = (frameCount + 1) % ProcessEveryN
    /\ hadMarkers' = (IF ProcessesColor(color) THEN MarkersOf(color) # {} ELSE hadMarkers)
    /\ UNCHANGED <<depth, poseInfo>>

================================================================================
