-------------------------- MODULE MCObstaclePipeline --------------------------
(***************************************************************************)
(* Instance of the obstacle pipeline for TLC: one proximity sensor, clouds  *)
(* of up to four points, two landmarks.                                   *)
(***************************************************************************)
EXTENDS ObstaclePipeline

Started(kind, gate, empty) ==
    [kind |-> kind, gate |-> gate, publishEmpty |-> empty, observed |-> ~gate]

MCSetups ==
    {Started("merge", TRUE, TRUE), Started("merge", FALSE, FALSE)}
        \cup {Started(kind, FALSE, TRUE) : kind \in {"relay", "feature", "pose", "log"}}

Cloud(usable, points) == [usable |-> usable, points |-> points]
MCClouds ==
    {Cloud(FALSE, <<>>), Cloud(TRUE, <<>>),
     Cloud(TRUE, <<"nan", "finite", "infinite", "finite">>)}

Image(decodes, roi, valid, cluster, framed) ==
    [decodes |-> decodes, roi |-> roi, valid |-> valid, cluster |-> cluster, framed |-> framed]
MCImages ==
    {Image(FALSE, 0, 0, 0, TRUE), Image(TRUE, 2, 0, 0, TRUE), Image(TRUE, 2, 1, 1, TRUE),
     Image(TRUE, 2, 2, 2, TRUE), Image(TRUE, 2, 2, 2, FALSE)}

MCLandmarks == {11, 23}    \* a shoulder and a hip
MCCore == {11, 23}
MCLimbs == <<<<11, 23>>>>
MCDepths ==
    [seen: {{}, {11}, MCLandmarks}, far: {{}, {23}}, size: {"color", "other"}]
MCColors ==
    [visible: SUBSET MCLandmarks, segmented: BOOLEAN, recent: BOOLEAN, decodes: BOOLEAN]

\* A message edits a store like its markers one after the other.
ShortMessages ==
    UNION {[1 .. n -> [act: {"ADD", "DELETE", "DELETEALL"},
                       key: {"cloud", "prox"} \X {1}, age: {0}]] : n \in 0 .. 3}
ASSUME EditedInOrder ==
    \A msg \in ShortMessages :
        \A store \in SUBSET [act: {"ADD"}, key: {"cloud", "prox"} \X {1}, age: {1}] :
            Edited(store, msg) = FoldLeft(Edit, store, msg)

MCGroups == [g1 |-> "cspace_target", g4 |-> "target", g99 |-> "other"]
Tangent(schema, count, room) ==
    [topic |-> "rmp", schema |-> schema, count |-> count, room |-> room]
Leaf(whole, count, groups) ==
    [topic |-> "leaf", whole |-> whole, count |-> count, groups |-> groups]
Whole(topic, whole) == [topic |-> topic, whole |-> whole]
Vector(topic, count) == [topic |-> topic, count |-> count]
Geometry(count, sensor) == [topic |-> "geometry", count |-> count, sensor |-> sensor]
Joints(fields) == [topic |-> "joint_state", fields |-> fields]
Pose(topic) == [topic |-> topic]
MCArrays ==
    {Tangent("idle", 0, 0), Tangent("unknown", 1, 1), Tangent("canonical", 2, 1),
     Tangent("risk", 1, 2), Leaf(FALSE, 0, <<>>), Leaf(TRUE, 2, <<"g1", "g4">>),
     Leaf(TRUE, 3, <<"g99", "g14">>), Whole("certificate", FALSE), Whole("certificate", TRUE),
     Vector("dual", 0), Vector("dual", 1), Vector("dual", 43),
     Geometry(0, 0), Geometry(35, 3), Geometry(35, 99),
     Pose("rmp_ee_pose"), Pose("controller_goal"), Joints({}), Joints({"name", "position"}),
     Joints({"name", "position", "velocity"}), Vector("target_q", 0), Vector("target_q", 6),
     Vector("target_metric", 4), Vector("target_metric", 9), Vector("debug_state", 12),
     Pose("range_a")}
================================================================================
