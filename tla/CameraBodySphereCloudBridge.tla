---------------------- MODULE CameraBodySphereCloudBridge ----------------------
(***************************************************************************)
(* camera_body_sphere_cloud_bridge.py: the camera's sphere cloud and the    *)
(* arrays of other obstacle publishers are kept with the time they came and *)
(* merged into one array on every timer.  Times are ages in timer periods.  *)
(***************************************************************************)
EXTENDS MarkerConsumers, FiniteSetsExt

CONSTANTS
    Stale,          \* stale_timeout_sec, in timer periods
    Stride,         \* cloud_stride
    MaxSpheres      \* max_cloud_spheres

ASSUME CloudAssumption == Stale \in Nat /\ Stride \in Nat \ {0} /\ MaxSpheres \in Nat \ {0}

VARIABLES
    cloud,          \* number of markers in latest_cloud_markers
    cloudAge,       \* age of latest_cloud_time_s; Old when none or beyond Stale
    extra,          \* latest_additional_markers of the one topic, last message
    extraAge,       \* its age; Old when there is no entry
    relayed,        \* latest_camera_rviz_markers: number of markers
    relayedAge,     \* latest_camera_rviz_time_s
    hadCollision,   \* last_collision_had_markers
    hadRviz         \* last_rviz_had_markers

cloudVars == <<cloud, cloudAge, extra, extraAge, relayed, relayedAge,
               hadCollision, hadRviz>>

Old == Stale + 1
Ages == 0 .. Old

CloudTypeOK ==
    /\ cloud \in 0 .. MaxSpheres /\ cloudAge \in Ages
    /\ extra \in Seq([act: {"ADD", "DELETE", "DELETEALL"}, key: {"prox", "all"} \X Nat, age: {0}])
    /\ extraAge \in Ages
    /\ relayed \in 0 .. MaxSpheres /\ relayedAge \in Ages
    /\ hadCollision \in BOOLEAN /\ hadRviz \in BOOLEAN

CloudInit ==
    /\ cloud = 0 /\ relayed = 0 /\ extra = <<>>
    /\ cloudAge = Old /\ relayedAge = Old /\ extraAge = Old
    /\ hadCollision = FALSE /\ hadRviz = FALSE

\* skip_nans=True drops points with a NaN before they are counted: the number
\* of points before the i-th that are left, its index in the loop.
IndexOf(points, i) == Cardinality({j \in 1 .. (i - 1) : points[j] # "nan"})

\* The points of a cloud that become markers: every Stride-th that is left, if
\* finite, until there are MaxSpheres; markers are numbered as they are made.
CloudToMarkers(points) ==
    Min({MaxSpheres,
         Cardinality({i \in DOMAIN points :
                         points[i] = "finite" /\ IndexOf(points, i) % Stride = 0})})

\* A cloud without frame, transform or x/y/z fields leaves the last one in place.
OnCloud(msg) ==
    /\ IF msg.usable
         THEN cloud' = CloudToMarkers(msg.points) /\ cloudAge' = 0
         ELSE UNCHANGED <<cloud, cloudAge>>
    /\ UNCHANGED <<extra, extraAge, relayed, relayedAge, hadCollision, hadRviz>>

OnCameraRvizMarkers(count) ==
    /\ relayed' = count /\ relayedAge' = 0
    /\ UNCHANGED <<cloud, cloudAge, extra, extraAge, hadCollision, hadRviz>>

OnAdditionalMarkers(msg) ==
    /\ extra' = msg /\ extraAge' = 0
    /\ UNCHANGED <<cloud, cloudAge, relayed, relayedAge, hadCollision, hadRviz>>

Fresh(age) == age <= Stale
Spheres(namespace, count, age) == [i \in 1 .. count |-> Add(<<namespace, i>>, age)]

LatestMarkers ==
    (IF Fresh(cloudAge) THEN Spheres("cloud", cloud, cloudAge) ELSE <<>>)
    \o [i \in DOMAIN extra |-> [extra[i] EXCEPT !.age = extraAge]]

\* The merged array: cloud first, so a DELETEALL of the other topic follows it.
CollisionMarkers ==
    (IF Fresh(cloudAge) THEN Spheres("cloud", cloud, cloudAge) ELSE <<>>)
    \o (IF Fresh(extraAge) THEN [i \in DOMAIN extra |-> [extra[i] EXCEPT !.age = extraAge]]
        ELSE <<>>)

RvizMarkers(relay) ==
    CASE relay /\ Fresh(relayedAge) -> Spheres("camera", relayed, relayedAge)
      [] ~(relay /\ Fresh(relayedAge)) /\ Fresh(cloudAge) -> Spheres("cloud", cloud, cloudAge)
      [] ~(relay /\ Fresh(relayedAge)) /\ ~Fresh(cloudAge) -> <<>>

PublishesWhenFull(publishEmpty) == CollisionMarkers # <<>> \/ publishEmpty

\* One empty array follows the last full one, even without publish_empty_when_stale.
Publishes(publishEmpty) == CollisionMarkers # <<>> \/ hadCollision \/ publishEmpty
PublishesRviz(relay) == RvizMarkers(relay) # <<>> \/ hadRviz

PublishOutputs(publishEmpty, relay) ==
    /\ extra' = IF Fresh(extraAge) THEN extra ELSE <<>>
    /\ hadCollision' = (IF Publishes(publishEmpty) THEN CollisionMarkers # <<>> ELSE hadCollision)
    /\ hadRviz' = (IF PublishesRviz(relay) THEN RvizMarkers(relay) # <<>> ELSE hadRviz)
    /\ UNCHANGED <<cloud, cloudAge, extraAge, relayed, relayedAge>>

Older(age) == Min({age + 1, Old})
CloudTick ==
    /\ cloudAge' = Older(cloudAge)
    /\ extraAge' = Older(extraAge)
    /\ relayedAge' = Older(relayedAge)
    /\ UNCHANGED <<cloud, extra, relayed, hadCollision, hadRviz>>

================================================================================
