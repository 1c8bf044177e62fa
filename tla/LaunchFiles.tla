------------------------------ MODULE LaunchFiles ------------------------------
(***************************************************************************)
(* launch/*.launch.py: which processes a launch file starts for which       *)
(* arguments, and what each of them writes to or serves:                    *)
(*   robot       motion commands on the robot's socket                      *)
(*   obstacles   /obstacles, from which the controller takes its obstacles  *)
(*   joints      the topic of joint states the controller reads             *)
(*   recorder    the services of the data recorder                          *)
(*   flag        /RMP_flag                                                  *)
(*   goal        /goal_pose                                                 *)
(* An argument that switches something is a word.  A PythonExpression       *)
(* compares it with "true"; IfCondition strips it and lowers its case,      *)
(* takes "1" as well, and raises on what is no word of truth at all:        *)
(*   "true"      exactly that                                               *)
(*   "truthy"    what else IfCondition takes as true: 1, True, TRUE         *)
(*   "false"     what IfCondition takes as false: false, 0, False           *)
(*   "neither"   anything else: yes, on, the empty string                   *)
(* Switches of processes that write to no channel are left out.             *)
(***************************************************************************)
EXTENDS Integers, FiniteSets

Words == {"true", "truthy", "false", "neither"}

LaunchArguments ==
    [file : {"rmpflow", "test", "position", "camera", "record", "fake", "canonical", "gds",
             "leaf", "scenario", "replay", "model"},
     direct : Words, api : Words, obstacles : Words, proximity : Words, surface : Words,
     record : Words, camera : Words, fake : Words, runner : Words,
     raw : STRING, normalized : STRING]    \* the joint states' topics

Process(name, writes) == [name |-> name, writes |-> writes]
When(condition, process) == IF condition THEN {process} ELSE {}

Equals(value) == value = "true"                    \* PythonExpression
IfCondition(value) == value \in {"true", "truthy"}
Raises(value) == value = "neither"

\* backend_mode, publish_joint_states
Controller(args) ==
    Process("rmpflow_controller", IF Equals(args.direct) THEN {"robot", "joints"} ELSE {})

ObstacleManager(args) ==
    When(Equals(args.obstacles) /\ args.proximity # "true", Process("obstacle_manager", {"obstacles"}))

Recorder(args) == When(IfCondition(args.record), Process("rmp_data_recorder", {"recorder"}))
\* It publishes on /joint_states whatever the others are told to read.
ApiBridge(read) ==
    Process("rb10_api_bridge", {"robot"} \cup (IF read = "/joint_states" THEN {"joints"} ELSE {}))
RobotStatePublisher == Process("robot_state_publisher", {})

\* rb10_rmpflow.launch.py: the API bridge only on request, the adapter when joint
\* states come under another name than the controller reads.
ApiBridgeUnasked(args) == When(Equals(args.api), ApiBridge(args.normalized))
ApiBridgeOf(args) == When(args.direct # "true" /\ Equals(args.api), ApiBridge(args.normalized))
Adapter(args) ==
    When(args.direct # "true" /\ args.raw # args.normalized,
         Process("joint_state_adapter", {"joints"}))

\* With the surface shown the bridge runs also when it publishes no obstacles.
ProximityBridge(args, topic) ==
    When(Equals(args.proximity) \/ Equals(args.surface),
         Process("proximity_obstacle_bridge", IF Equals(args.proximity) THEN {topic} ELSE {}))

RmpflowLaunch(args) ==
    {Controller(args), RobotStatePublisher}
    \cup ApiBridgeOf(args) \cup Adapter(args)
    \cup ObstacleManager(args) \cup ProximityBridge(args, "obstacles")
    \cup Recorder(args) \cup {Process("rmpflow_bridge", {"goal"})}

\* rb10_rmpflow_test.launch.py: the API bridge whenever the backend is not direct.
TestLaunch(args, topic) ==
    {Controller(args), RobotStatePublisher}
    \cup When(args.direct # "true", ApiBridge("/joint_states"))
    \cup ObstacleManager(args) \cup ProximityBridge(args, topic)
    \cup Recorder(args)

\* rb10_rmpflow_real_target_position_p45d45.launch.py
PositionLaunch(args) ==
    {Controller(args), RobotStatePublisher}
    \cup When(args.direct # "true", ApiBridge("/joint_states"))
    \cup ObstacleManager(args)
    \cup When(IfCondition(args.proximity), Process("proximity_obstacle_bridge", {"obstacles"}))
    \cup Recorder(args)

\* rb10_rmpflow_camera_proximity.launch.py: the test launch with the proximity
\* obstacles sent through the camera's bridge.
CameraLaunch(args) ==
    TestLaunch([args EXCEPT !.obstacles = "false", !.proximity = "true", !.surface = "false"],
               "obstacles_raw")
    \cup When(IfCondition(args.camera), Process("camera_body_sphere_cloud_bridge", {"obstacles"}))

\* rb10_rmpflow_real_proximity_record.launch.py: a recorder of its own.
RecordLaunch(args) ==
    RmpflowLaunch([args EXCEPT !.proximity = "true", !.surface = "false", !.record = "false"])
    \cup {Process("distance_recorder", {"recorder"})}

-----------------------------------------------------------------------------
(* Simulations *)

\* fake_proximity_scenario.launch.py, fake_proximity_scenario_v2.launch.py
ScenarioLaunch == {Process("fake_proximity_scenario", {"flag"})}
ReplayLaunch == {Process("fake_proximity_scenario_v2", {"flag"})}

\* rb10_rmpflow_fake_proximity.launch.py
SimulationController == Process("rmpflow_controller", {"joints"})
FakeScenario(args) == IF IfCondition(args.fake) THEN ScenarioLaunch ELSE {}
FakeLaunch(args) ==
    {SimulationController, RobotStatePublisher}
    \cup ObstacleManager(args)
    \cup When(IfCondition(args.proximity), Process("proximity_obstacle_bridge", {"obstacles"}))
    \cup FakeScenario(args)
    \cup {Process("rmpflow_trace_logger", {})}

\* rb10_rmpflow_canonical_validation.launch.py: sets none of the arguments above.
CanonicalLaunch(args) == FakeLaunch(args)

\* rb10_rmpflow_gds_stability_validation.launch.py: a runner after RunnerDelay,
\* at whose exit nothing happens.
GdsLaunch(args) == CanonicalLaunch(args) \cup {Process("stability_certificate_visualizer", {})}

\* rb10_rmpflow_leaf_ablation_fixed.launch.py: recorded ranges instead of a
\* scenario, and a runner whose exit shuts everything down.
LeafLaunch(args) ==
    FakeLaunch([args EXCEPT !.obstacles = "false", !.proximity = "true", !.fake = "false"])
    \cup ReplayLaunch

\* rb10_model_only.launch.py
ModelLaunch ==
    {RobotStatePublisher, Process("joint_state_publisher", {"joints"}), Process("rviz2", {})}

Launched(args) ==
    CASE args.file = "rmpflow" -> RmpflowLaunch(args)
      [] args.file = "test" -> TestLaunch(args, "obstacles")
      [] args.file = "position" -> PositionLaunch(args)
      [] args.file = "camera" -> CameraLaunch(args)
      [] args.file = "record" -> RecordLaunch(args)
      [] args.file = "fake" -> FakeLaunch(args)
      [] args.file = "canonical" -> CanonicalLaunch(args)
      [] args.file = "gds" -> GdsLaunch(args)
      [] args.file = "leaf" -> LeafLaunch(args)
      [] args.file = "scenario" -> ScenarioLaunch
      [] args.file = "replay" -> ReplayLaunch
      [] args.file = "model" -> ModelLaunch

\* The arguments that reach an IfCondition as they are when the file is launched; the
\* including files set the others.
LeftToIfCondition(args) ==
    CASE args.file \in {"rmpflow", "test"} -> {args.record}
      [] args.file = "position" -> {args.record, args.proximity}
      [] args.file = "camera" -> {args.record, args.camera}
      [] args.file \in {"fake", "canonical", "gds"} -> {args.fake, args.proximity}
      [] OTHER -> {}
LaunchRaises(args) == \E value \in LeftToIfCondition(args) : Raises(value)

\* The runner a timer of the launch file starts, when it has one; its condition is
\* evaluated when the timer fires.
TimedRunner(args) ==
    CASE args.file = "leaf" -> TRUE
      [] args.file = "gds" -> IfCondition(args.runner)
      [] OTHER -> FALSE
TimerRaises(args) == args.file = "gds" /\ Raises(args.runner)

\* OnProcessExit of that runner.
NoHandler(args) == FALSE
ExitShutsDown(args) == args.file = "leaf"

================================================================================
