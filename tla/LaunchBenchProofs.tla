--------------------------- MODULE LaunchBenchProofs ---------------------------
(***************************************************************************)
(* The benches, for every set of arguments, scenario and recording.        *)
(* Rivals: but for the named cases what a launch file starts writes to     *)
(* each channel once, and the only process started later writes to the     *)
(* flag alone of them.  Draws: they come in rounds of the bag, in which    *)
(* each entry is drawn once.  Replays: what was sent last is what the file *)
(* and the trigger say for some time, and the trigger does not move; that  *)
(* a row found by position is the latest one in time rests on times having *)
(* one increasing order.                                                   *)
(***************************************************************************)
EXTENDS LaunchBench, TLAPS, SequenceTheorems, FiniteSetTheorems

-----------------------------------------------------------------------------
(* Who writes where *)

\* No two processes of a launch write to one of the channels.
Unrivalled(launched, channels) ==
    \A channel \in channels : \A p, q \in launched :
        channel \in p.writes /\ channel \in q.writes => p = q

\* A process that writes only to channels no other process writes to makes no rival.
LEMMA Joined ==
  ASSUME NEW launched, NEW channels, NEW p, Unrivalled(launched, channels),
         \A q \in launched : p.writes \cap q.writes \cap channels = {}
  PROVE  Unrivalled(launched \cup {p}, channels)
  <1> SUFFICES ASSUME NEW channel \in channels, NEW q \in launched \cup {p},
                      NEW r \in launched \cup {p},
                      channel \in q.writes, channel \in r.writes
               PROVE  q = r
    BY Zenon DEF Unrivalled
  <1>1. CASE q \in launched /\ r \in launched
    BY <1>1 DEF Unrivalled
  <1>2. CASE q = p \/ r = p
    BY <1>2
  <1> QED
    BY <1>1, <1>2

\* Of the controller with the direct backend and the API bridge one is started, of the
\* obstacle manager and the proximity bridge one publishes obstacles, and the adapter
\* rivals the API bridge when it writes to that one's topic.
LEMMA RmpflowSole ==
  ASSUME NEW a, NEW channels \in SUBSET Channels,
         "joints" \in channels =>
            ~(/\ a.direct # "true" /\ a.api = "true"
              /\ a.normalized = "/joint_states" /\ a.raw # "/joint_states")
  PROVE  Unrivalled(RmpflowLaunch(a), channels)
  <1> DEFINE adapter == Process("joint_state_adapter", {"joints"})
  <1> USE DEF RmpflowLaunch, Controller, ApiBridge, ApiBridgeOf, Adapter, ObstacleManager,
       ProximityBridge, Recorder, When, RobotStatePublisher, Equals, Process
  <1>1. \A p \in RmpflowLaunch(a) : "robot" \in p.writes =>
            p = IF a.direct = "true" THEN Controller(a) ELSE ApiBridge(a.normalized)
    OBVIOUS
  <1>2. \A p \in RmpflowLaunch(a) : "obstacles" \in p.writes =>
            p = IF a.proximity = "true" THEN Process("proximity_obstacle_bridge", {"obstacles"})
                ELSE Process("obstacle_manager", {"obstacles"})
    OBVIOUS
  <1>3. \A p \in RmpflowLaunch(a) : "recorder" \in p.writes =>
            p = Process("rmp_data_recorder", {"recorder"})
    OBVIOUS
  <1>4. "joints" \in channels => \A p \in RmpflowLaunch(a) : "joints" \in p.writes =>
            p = IF a.direct = "true" THEN Controller(a)
                ELSE IF a.raw # a.normalized THEN adapter ELSE ApiBridge(a.normalized)
    OBVIOUS
  <1>5. \A p \in RmpflowLaunch(a) : "flag" \notin p.writes
    OBVIOUS
  <1> HIDE DEF RmpflowLaunch, Controller, ApiBridge, ApiBridgeOf, Adapter, ObstacleManager,
       ProximityBridge, Recorder, When, RobotStatePublisher, Equals, Process
  <1> QED
    BY <1>1, <1>2, <1>3, <1>4, <1>5 DEF Unrivalled, Channels

\* In the test launch too, whether the proximity bridge publishes obstacles or sends
\* them on to another process.
LEMMA TestSole ==
  ASSUME NEW a, NEW topic \in {"obstacles", "obstacles_raw"}, NEW channels \in SUBSET Channels
  PROVE  Unrivalled(TestLaunch(a, topic), channels)
  <1> USE DEF TestLaunch, Controller, ApiBridge, ObstacleManager, ProximityBridge, Recorder,
       When, RobotStatePublisher, Equals, IfCondition, Process
  <1>1. \A p \in TestLaunch(a, topic) : "robot" \in p.writes \/ "joints" \in p.writes =>
            p = IF a.direct = "true" THEN Controller(a) ELSE ApiBridge("/joint_states")
    OBVIOUS
  <1>2. \A p \in TestLaunch(a, topic) : "obstacles" \in p.writes =>
            p = IF a.proximity = "true" THEN Process("proximity_obstacle_bridge", {topic})
                ELSE Process("obstacle_manager", {"obstacles"})
    OBVIOUS
  <1>3. \A p \in TestLaunch(a, topic) : "recorder" \in p.writes =>
            p = Process("rmp_data_recorder", {"recorder"})
    OBVIOUS
  <1>4. \A p \in TestLaunch(a, topic) : "flag" \notin p.writes
    OBVIOUS
  <1> HIDE DEF TestLaunch, Controller, ApiBridge, ObstacleManager, ProximityBridge, Recorder,
       When, RobotStatePublisher, Equals, IfCondition, Process
  <1> QED
    BY <1>1, <1>2, <1>3, <1>4 DEF Unrivalled, Channels

\* The position launch leaves the proximity bridge to IfCondition, which takes more words
\* as true than the condition of the obstacle manager.
LEMMA PositionSole ==
  ASSUME NEW a, NEW channels \in SUBSET Channels,
         "obstacles" \in channels => ~(a.obstacles = "true" /\ a.proximity = "truthy")
  PROVE  Unrivalled(PositionLaunch(a), channels)
  <1> USE DEF PositionLaunch, Controller, ApiBridge, ObstacleManager, Recorder,
       When, RobotStatePublisher, Equals, IfCondition, Process
  <1>1. \A p \in PositionLaunch(a) : "robot" \in p.writes \/ "joints" \in p.writes =>
            p = IF a.direct = "true" THEN Controller(a) ELSE ApiBridge("/joint_states")
    OBVIOUS
  <1>2. "obstacles" \in channels => \A p \in PositionLaunch(a) : "obstacles" \in p.writes =>
            p = IF a.proximity \in {"true", "truthy"}
                THEN Process("proximity_obstacle_bridge", {"obstacles"})
                ELSE Process("obstacle_manager", {"obstacles"})
    OBVIOUS
  <1>3. \A p \in PositionLaunch(a) : "recorder" \in p.writes =>
            p = Process("rmp_data_recorder", {"recorder"})
    OBVIOUS
  <1>4. \A p \in PositionLaunch(a) : "flag" \notin p.writes
    OBVIOUS
  <1> HIDE DEF PositionLaunch, Controller, ApiBridge, ObstacleManager, Recorder,
       When, RobotStatePublisher, Equals, IfCondition, Process
  <1> QED
    BY <1>1, <1>2, <1>3, <1>4 DEF Unrivalled, Channels

\* The camera launch forces the proximity bridge onto a topic of its own, so that the
\* camera's bridge is the only one to publish obstacles.
LEMMA CameraSole ==
  ASSUME NEW a \in LaunchArguments, NEW channels \in SUBSET Channels
  PROVE  Unrivalled(CameraLaunch(a), channels)
  <1> DEFINE b == [a EXCEPT !.obstacles = "false", !.proximity = "true", !.surface = "false"]
             bridge == Process("camera_body_sphere_cloud_bridge", {"obstacles"})
  <1>1. b.proximity = "true" /\ b.obstacles = "false"
    BY DEF LaunchArguments
  <1>2. \/ CameraLaunch(a) = TestLaunch(b, "obstacles_raw")
        \/ CameraLaunch(a) = TestLaunch(b, "obstacles_raw") \cup {bridge}
    BY DEF CameraLaunch, When
  <1> HIDE DEF b
  <1>3. Unrivalled(TestLaunch(b, "obstacles_raw"), channels)
    BY TestSole
  <1>4. \A p \in TestLaunch(b, "obstacles_raw") : "obstacles" \notin p.writes
    BY <1>1 DEF TestLaunch, Controller, ApiBridge, ObstacleManager, ProximityBridge, Recorder,
       When, RobotStatePublisher, Equals, IfCondition, Process
  <1>5. bridge.writes = {"obstacles"}
    BY DEF Process
  <1> HIDE DEF bridge
  <1>6. \A q \in TestLaunch(b, "obstacles_raw") : bridge.writes \cap q.writes \cap channels = {}
    BY <1>4, <1>5
  <1> QED
    BY <1>2, <1>3, <1>6, Joined

\* The recording launch replaces the recorder of the launch it includes.
LEMMA RecordSole ==
  ASSUME NEW a \in LaunchArguments, NEW channels \in SUBSET Channels,
         "joints" \in channels =>
            ~(/\ a.direct # "true" /\ a.api = "true"
              /\ a.normalized = "/joint_states" /\ a.raw # "/joint_states")
  PROVE  Unrivalled(RecordLaunch(a), channels)
  <1> DEFINE b == [a EXCEPT !.proximity = "true", !.surface = "false", !.record = "false"]
             recorder == Process("distance_recorder", {"recorder"})
  <1>1. /\ b.record = "false" /\ b.direct = a.direct /\ b.api = a.api
        /\ b.normalized = a.normalized /\ b.raw = a.raw
    BY DEF LaunchArguments
  <1>2. RecordLaunch(a) = RmpflowLaunch(b) \cup {recorder}
    BY DEF RecordLaunch
  <1> HIDE DEF b
  <1>3. Unrivalled(RmpflowLaunch(b), channels)
    BY <1>1, RmpflowSole
  <1>4. \A p \in RmpflowLaunch(b) : "recorder" \notin p.writes
    BY <1>1 DEF RmpflowLaunch, Controller, ApiBridge, ApiBridgeOf, Adapter, ObstacleManager,
       ProximityBridge, Recorder, When, RobotStatePublisher, Equals, IfCondition, Process
  <1>5. recorder.writes = {"recorder"}
    BY DEF Process
  <1> HIDE DEF recorder
  <1>6. \A q \in RmpflowLaunch(b) : recorder.writes \cap q.writes \cap channels = {}
    BY <1>4, <1>5
  <1> QED
    BY <1>2, <1>3, <1>6, Joined

\* Nothing commands a robot in the simulations, their controller is the only one to
\* publish joint states, and the scenario, when there is one, to raise the flag.
LEMMA FakeSole ==
  ASSUME NEW a, NEW channels \in SUBSET Channels,
         "obstacles" \in channels => ~(a.obstacles = "true" /\ a.proximity = "truthy")
  PROVE  /\ Unrivalled(FakeLaunch(a), channels)
         /\ a.fake \notin {"true", "truthy"} => \A p \in FakeLaunch(a) : "flag" \notin p.writes
  <1> USE DEF FakeLaunch, SimulationController, ObstacleManager, FakeScenario, ScenarioLaunch,
       When, RobotStatePublisher, Equals, IfCondition, Process
  <1>1. \A p \in FakeLaunch(a) : "robot" \notin p.writes /\ "recorder" \notin p.writes
    OBVIOUS
  <1>2. "obstacles" \in channels => \A p \in FakeLaunch(a) : "obstacles" \in p.writes =>
            p = IF a.proximity \in {"true", "truthy"}
                THEN Process("proximity_obstacle_bridge", {"obstacles"})
                ELSE Process("obstacle_manager", {"obstacles"})
    OBVIOUS
  <1>3. \A p \in FakeLaunch(a) : "joints" \in p.writes => p = SimulationController
    OBVIOUS
  <1>4. \A p \in FakeLaunch(a) : "flag" \in p.writes =>
            /\ p = Process("fake_proximity_scenario", {"flag"})
            /\ a.fake \in {"true", "truthy"}
    OBVIOUS
  <1> HIDE DEF FakeLaunch, SimulationController, ObstacleManager, FakeScenario, ScenarioLaunch,
       When, RobotStatePublisher, Equals, IfCondition, Process
  <1> QED
    BY <1>1, <1>2, <1>3, <1>4 DEF Unrivalled, Channels

\* The channels no two processes started with a launch file write to.
Calm(a) ==
    {channel \in Channels :
        /\ ~(/\ channel = "obstacles" /\ a.file \in {"position", "fake", "canonical", "gds"}
             /\ a.obstacles = "true" /\ a.proximity = "truthy")
        /\ ~(/\ channel = "joints" /\ a.file \in {"rmpflow", "record"}
             /\ a.direct # "true" /\ a.api = "true"
             /\ a.normalized = "/joint_states" /\ a.raw # "/joint_states")}

LEMMA LaunchedSole ==
  ASSUME NEW a \in LaunchArguments
  PROVE  /\ Unrivalled(Launched(a), Calm(a))
         /\ a.file = "gds" /\ a.fake \notin {"true", "truthy"} =>
               \A p \in Launched(a) : "flag" \notin p.writes
  <1>0. /\ Calm(a) \in SUBSET Channels
        /\ a.file \in {"position", "fake", "canonical", "gds"} /\ "obstacles" \in Calm(a) =>
              ~(a.obstacles = "true" /\ a.proximity = "truthy")
        /\ a.file \in {"rmpflow", "record"} /\ "joints" \in Calm(a) =>
              ~(/\ a.direct # "true" /\ a.api = "true"
                /\ a.normalized = "/joint_states" /\ a.raw # "/joint_states")
    BY DEF Calm
  <1>1. CASE a.file = "rmpflow"
    BY <1>0, <1>1, RmpflowSole DEF Launched
  <1>2. CASE a.file = "test"
    BY <1>0, <1>2, TestSole DEF Launched
  <1>3. CASE a.file = "position"
    BY <1>0, <1>3, PositionSole DEF Launched
  <1>4. CASE a.file = "camera"
    BY <1>0, <1>4, CameraSole DEF Launched
  <1>5. CASE a.file = "record"
    BY <1>0, <1>5, RecordSole DEF Launched
  <1>6. CASE a.file \in {"fake", "canonical"}
    BY <1>0, <1>6, FakeSole DEF Launched, CanonicalLaunch
  <1>7. CASE a.file = "gds"
    <2> DEFINE p == Process("stability_certificate_visualizer", {})
    <2>1. Launched(a) = FakeLaunch(a) \cup {p}
      BY <1>7 DEF Launched, GdsLaunch, CanonicalLaunch
    <2>2. p.writes = {}
      BY DEF Process
    <2> HIDE DEF p
    <2>3. Unrivalled(FakeLaunch(a), Calm(a))
          /\ (a.fake \notin {"true", "truthy"} => \A q \in FakeLaunch(a) : "flag" \notin q.writes)
      BY <1>0, <1>7, FakeSole
    <2>4. Unrivalled(Launched(a), Calm(a))
      BY <2>1, <2>2, <2>3, Joined
    <2> QED
      BY <2>1, <2>2, <2>3, <2>4
  <1>8. CASE a.file = "leaf"
    <2> DEFINE b == [a EXCEPT !.obstacles = "false", !.proximity = "true", !.fake = "false"]
               p == Process("fake_proximity_scenario_v2", {"flag"})
    <2>1. b.proximity = "true" /\ b.fake = "false"
      BY DEF LaunchArguments
    <2>2. Launched(a) = FakeLaunch(b) \cup {p}
      BY <1>8 DEF Launched, LeafLaunch, ReplayLaunch
    <2>3. p.writes = {"flag"}
      BY DEF Process
    <2> HIDE DEF b, p
    <2>4. Unrivalled(FakeLaunch(b), Calm(a)) /\ \A q \in FakeLaunch(b) : "flag" \notin q.writes
      BY <1>0, <2>1, FakeSole
    <2> QED
      BY <1>8, <2>2, <2>3, <2>4, Joined
  <1>9. CASE a.file \in {"scenario", "replay", "model"}
    BY <1>0, <1>9 DEF Launched, ScenarioLaunch, ReplayLaunch, ModelLaunch, RobotStatePublisher,
       Process, Unrivalled, Channels
  <1> QED
    BY <1>1, <1>2, <1>3, <1>4, <1>5, <1>6, <1>7, <1>8, <1>9 DEF LaunchArguments

\* Where the conditions disagree both processes are started.
LEMMA LaunchedBoth ==
  ASSUME args \in LaunchArguments
  PROVE  /\ ObstaclesContested =>
               /\ Process("proximity_obstacle_bridge", {"obstacles"}) \in Launched(args)
               /\ Process("obstacle_manager", {"obstacles"}) \in Launched(args)
         /\ JointsContested =>
               /\ Process("joint_state_adapter", {"joints"}) \in Launched(args)
               /\ Process("rb10_api_bridge", {"robot", "joints"}) \in Launched(args)
  <1>1. ASSUME ObstaclesContested
        PROVE  /\ Process("proximity_obstacle_bridge", {"obstacles"}) \in Launched(args)
               /\ Process("obstacle_manager", {"obstacles"}) \in Launched(args)
    <2>1. ObstacleManager(args) = {Process("obstacle_manager", {"obstacles"})}
      BY <1>1 DEF ObstaclesContested, ObstacleManager, When, Equals
    <2>2. When(IfCondition(args.proximity), Process("proximity_obstacle_bridge", {"obstacles"}))
             = {Process("proximity_obstacle_bridge", {"obstacles"})}
      BY <1>1 DEF ObstaclesContested, IfCondition, When
    <2>3. \/ args.file = "position" /\ Launched(args) = PositionLaunch(args)
          \/ Launched(args) = FakeLaunch(args)
          \/ FakeLaunch(args) \subseteq Launched(args)
      BY <1>1 DEF ObstaclesContested, Launched, GdsLaunch, CanonicalLaunch
    <2>4. Process("proximity_obstacle_bridge", {"obstacles"}) \in FakeLaunch(args)
          /\ Process("obstacle_manager", {"obstacles"}) \in FakeLaunch(args)
      BY <2>1, <2>2 DEF FakeLaunch
    <2>5. Process("proximity_obstacle_bridge", {"obstacles"}) \in PositionLaunch(args)
          /\ Process("obstacle_manager", {"obstacles"}) \in PositionLaunch(args)
      BY <2>1, <2>2 DEF PositionLaunch
    <2> QED
      BY <2>3, <2>4, <2>5
  <1>2. ASSUME JointsContested
        PROVE  /\ Process("joint_state_adapter", {"joints"}) \in Launched(args)
               /\ Process("rb10_api_bridge", {"robot", "joints"}) \in Launched(args)
    <2> DEFINE b == [args EXCEPT !.proximity = "true", !.surface = "false", !.record = "false"]
    <2>1. ASSUME NEW c, c.direct # "true", c.api = "true",
                 c.normalized = "/joint_states", c.raw # "/joint_states"
          PROVE  /\ Process("joint_state_adapter", {"joints"}) \in RmpflowLaunch(c)
                 /\ Process("rb10_api_bridge", {"robot", "joints"}) \in RmpflowLaunch(c)
      <3>1. Adapter(c) = {Process("joint_state_adapter", {"joints"})}
        BY <2>1 DEF Adapter, When
      <3>2. ApiBridge("/joint_states") = Process("rb10_api_bridge", {"robot", "joints"})
        <4>1. {"robot"} \cup {"joints"} = {"robot", "joints"}
          OBVIOUS
        <4> QED
          BY <4>1 DEF ApiBridge
      <3>3. ApiBridgeOf(c) = {Process("rb10_api_bridge", {"robot", "joints"})}
        BY <2>1, <3>2 DEF ApiBridgeOf, When, Equals
      <3> QED
        BY <3>1, <3>3 DEF RmpflowLaunch
    <2>2. /\ b.direct = args.direct /\ b.api = args.api
          /\ b.normalized = args.normalized /\ b.raw = args.raw
      BY DEF LaunchArguments
    <2>3. \/ Launched(args) = RmpflowLaunch(args)
          \/ RmpflowLaunch(b) \subseteq Launched(args)
      BY <1>2 DEF JointsContested, Launched, RecordLaunch
    <2> HIDE DEF b
    <2> QED
      BY <1>2, <2>1, <2>2, <2>3 DEF JointsContested
  <1> QED
    BY <1>1, <1>2

-----------------------------------------------------------------------------
(* Rivals *)

Runner == Process("experiment_goal_runner", {"goal", "flag"})
Passing == {"fake_proximity_scenario_v2", "experiment_goal_runner"}

\* The processes running are some of those launched, and a timed runner; while the launch
\* is up only the replay and the runner have gone.
LaunchInv ==
    /\ args \in LaunchArguments
    /\ up \subseteq Launched(args) \cup (IF runner = "absent" THEN {} ELSE {Runner})
    /\ runner # "absent" => args.file \in {"leaf", "gds"}
    /\ ~stopping => \A p \in Launched(args) : p.name \notin Passing => p \in up

LEMMA LaunchStarts == Init => LaunchInv
  <1> SUFFICES ASSUME Init PROVE LaunchInv
    OBVIOUS
  <1>1. args \in LaunchArguments
    BY BenchAssumption DEF Init
  <1>2. up \subseteq Launched(args) /\ (~stopping => up = Launched(args)) /\ runner = "absent"
    BY DEF Init
  <1> QED
    BY <1>1, <1>2 DEF LaunchInv

\* No step changes the arguments, only the timer adds a process: the runner, and only the
\* replay's constructor and the runner's end take one away while the launch is up.
LEMMA LaunchStep == LaunchInv /\ [Next]_vars => LaunchInv'
  <1> SUFFICES ASSUME LaunchInv, [Next]_vars PROVE LaunchInv'
    OBVIOUS
  <1> USE DEF LaunchInv
  <1>1. ASSUME UNCHANGED <<args, runner>>, up' \subseteq up, stopping' = FALSE => stopping = FALSE,
               stopping' \in BOOLEAN \/ stopping' = stopping,
               ~stopping' => ~stopping /\ \A p \in up : p.name \notin Passing => p \in up'
        PROVE  LaunchInv'
    BY <1>1
  <1>2. CASE Tick \/ DrawEvents \/ ScenarioTimer \/ ReplayTimer \/ ReplayMatched \/ RunnerPublishes
    BY <1>1, <1>2 DEF Tick, DrawEvents, ScenarioTimer, ReplayTimer, ReplayMatched, RunnerPublishes,
       benchVars
  <1>3. CASE ReplayConstructed
    BY <1>1, <1>3 DEF ReplayConstructed, Passing
  <1>4. CASE TimerFires
    <2>1. /\ args' = args /\ stopping' = stopping /\ runner' = "started"
          /\ up' = up \cup {Runner} /\ args.file \in {"leaf", "gds"}
      BY <1>4 DEF TimerFires, TimedRunner, Runner
    <2> QED
      BY <2>1
  <1>5. CASE RunnerBegins
    <2>1. UNCHANGED <<args, stopping, up>> /\ runner # "absent" /\ runner' # "absent"
      BY <1>5 DEF RunnerBegins
    <2> QED
      BY <2>1
  <1>6. CASE RunnerExits
    <2>1. /\ args' = args /\ runner # "absent" /\ runner' # "absent"
          /\ up' = {p \in up : p.name # "experiment_goal_runner"}
          /\ ~stopping' => ~stopping
      BY <1>6 DEF RunnerExits
    <2> QED
      BY <2>1 DEF Passing
  <1>7. CASE Interrupted \/ RunnerConditionRaises
    BY <1>7 DEF Interrupted, RunnerConditionRaises
  <1>8. CASE ProcessesStop
    <2>1. /\ args' = args /\ stopping' = stopping /\ stopping /\ up' = {}
          /\ (runner' # "absent" => runner # "absent")
      BY <1>8 DEF ProcessesStop
    <2> QED
      BY <2>1
  <1>9. CASE UNCHANGED vars
    BY <1>1, <1>9 DEF vars, benchVars
  <1> QED
    BY <1>2, <1>3, <1>4, <1>5, <1>6, <1>7, <1>8, <1>9 DEF Next

\* Rivals are launched rivals, or the timed runner and a stimulus that raises the flag.
LEMMA InvRivals == LaunchInv => RivalsKnown
  <1> SUFFICES ASSUME LaunchInv PROVE RivalsKnown
    OBVIOUS
  <1>1. args \in LaunchArguments
    BY DEF LaunchInv
  <1>2. ASSUME NEW channel \in Channels, Rivals(channel), channel \notin Contested
        PROVE  FALSE
    <2>1. PICK one \in up, other \in up :
             one # other /\ channel \in one.writes /\ channel \in other.writes
      BY <1>2 DEF Rivals
    <2>2. channel \in Calm(args)
      BY <1>2 DEF Calm, Contested, ObstaclesContested, JointsContested
    <2>3. \A p, q \in Launched(args) : channel \in p.writes /\ channel \in q.writes => p = q
      BY <1>1, <2>2, LaunchedSole, Zenon DEF Unrivalled
    <2>4. runner # "absent" /\ (one = Runner \/ other = Runner)
      BY <2>1, <2>3 DEF LaunchInv
    <2>5. channel = "flag"
      BY <1>2, <2>1, <2>4 DEF Runner, Process, Channels
    <2>6. args.file = "gds" /\ args.fake \notin {"true", "truthy"}
      BY <1>2, <2>4, <2>5 DEF LaunchInv, Contested, FlagShared
    <2>7. \A p \in Launched(args) : "flag" \notin p.writes
      BY <1>1, <2>6, LaunchedSole
    <2> QED
      BY <2>1, <2>5, <2>7 DEF LaunchInv
  <1>3. ASSUME ~stopping, NEW p, NEW q, p \in Launched(args), q \in Launched(args),
               p.name # q.name, p.name \notin Passing, q.name \notin Passing, NEW channel,
               channel \in p.writes, channel \in q.writes
        PROVE  Rivals(channel)
    BY <1>3 DEF LaunchInv, Rivals
  <1>4. ASSUME ~stopping, ObstaclesContested PROVE Rivals("obstacles")
    <2> DEFINE p == Process("proximity_obstacle_bridge", {"obstacles"})
               q == Process("obstacle_manager", {"obstacles"})
    <2>1. p.name # q.name /\ p.name \notin Passing /\ q.name \notin Passing
          /\ "obstacles" \in p.writes /\ "obstacles" \in q.writes
      BY DEF Process, Passing
    <2>2. p \in Launched(args) /\ q \in Launched(args)
      BY <1>1, <1>4, LaunchedBoth
    <2> HIDE DEF p, q
    <2> QED
      BY <1>3, <1>4, <2>1, <2>2
  <1>5. ASSUME ~stopping, JointsContested PROVE Rivals("joints")
    <2> DEFINE p == Process("joint_state_adapter", {"joints"})
               q == Process("rb10_api_bridge", {"robot", "joints"})
    <2>1. p.name # q.name /\ p.name \notin Passing /\ q.name \notin Passing
          /\ "joints" \in p.writes /\ "joints" \in q.writes
      BY DEF Process, Passing
    <2>2. p \in Launched(args) /\ q \in Launched(args)
      BY <1>1, <1>5, LaunchedBoth
    <2> HIDE DEF p, q
    <2> QED
      BY <1>3, <1>5, <2>1, <2>2
  <1>6. ASSUME ~stopping, NEW channel \in Contested \ {"flag"} PROVE Rivals(channel)
    <2>1. \/ channel = "obstacles" /\ ObstaclesContested
          \/ channel = "joints" /\ JointsContested
      BY <1>6 DEF Contested
    <2> QED
      BY <1>4, <1>5, <1>6, <2>1
  <1> QED
    BY <1>2, <1>6 DEF RivalsKnown

\* Whatever arguments a launch file is given, its processes rival each other on a channel
\* exactly where two conditions take one argument differently or the adapter writes to
\* the API bridge's topic, and on the flag only when a timed runner shares it.
THEOREM RivalsKnownRun == Spec => []RivalsKnown
  BY LaunchStarts, LaunchStep, InvRivals, PTL DEF Spec

-----------------------------------------------------------------------------
(* Even draws *)

\* The events drawn without repeats.
DrawnEvents == [start : Int, end : Int, entries : Seq(Nat)]

DrawTypes ==
    /\ bag \subseteq Entries
    /\ selected \in Seq(Nat) /\ events \in Seq(DrawnEvents)

\* In every round each entry is drawn once: those still in the bag have been drawn once
\* less than the others.
Rounds ==
    \E round \in Int : \A entry \in Entries :
        /\ IsFiniteSet(Draws(entry))
        /\ TimesDrawn(entry) = IF entry \in bag THEN round ELSE round + 1

DrawInv == scenario \in Scenarios /\ (~scenario.repeats => DrawTypes /\ Rounds)

\* An occurrence is the number of an event and a place in it.
LEMMA Occurrence ==
  ASSUME NEW entry, NEW x
  PROVE  x \in Draws(entry) <=>
            \E i \in 1 .. Len(events) + 1 : \E k \in DOMAIN DrawnIn(i) :
                DrawnIn(i)[k] = entry /\ x = <<i, k>>
  BY DEF Draws

\* The larger of two numbers is one of them.
LEMMA LargerOf ==
  ASSUME NEW a \in Int, NEW b \in Int
  PROVE  Max({a, b}) \in Int /\ Max({a, b}) >= a /\ Max({a, b}) >= b
  <1> DEFINE larger == IF a >= b THEN a ELSE b
  <1>1. larger \in {a, b} /\ \A y \in {a, b} : larger >= y
    OBVIOUS
  <1>2. Max({a, b}) \in {a, b} /\ \A y \in {a, b} : Max({a, b}) >= y
    BY <1>1 DEF Max
  <1> QED
    BY <1>2

\* An entry drawn makes one occurrence more of it, and none of another entry.
LEMMA DrawCounts ==
  ASSUME DrawTypes, NEW drawn \in Nat, events' = events,
         selected' = Append(selected, drawn), NEW entry
  PROVE  LET place == <<Len(events) + 1, Len(selected) + 1>>
         IN /\ place \notin Draws(entry)
            /\ Draws(entry)' = IF entry = drawn THEN Draws(entry) \cup {place} ELSE Draws(entry)
  <1> DEFINE n == Len(events)
             m == Len(selected)
             place == <<n + 1, m + 1>>
  <1>1. n \in Nat /\ m \in Nat /\ DOMAIN events = 1 .. n /\ DOMAIN selected = 1 .. m
    BY LenProperties DEF DrawTypes
  <1>2. /\ DOMAIN selected' = 1 .. m + 1 /\ selected'[m + 1] = drawn
        /\ \A k \in 1 .. m : selected'[k] = selected[k]
    BY <1>1, AppendProperties DEF DrawTypes
  <1>3. /\ \A i \in 1 .. n : DrawnIn(i)' = DrawnIn(i)
        /\ DrawnIn(n + 1) = selected /\ DrawnIn(n + 1)' = selected'
    BY <1>1 DEF DrawnIn
  <1>4. Len(events)' = n
    OBVIOUS
  <1> HIDE DEF n, m
  <1>5. place \notin Draws(entry)
    BY <1>1, <1>3, Occurrence DEF n
  <1>6. \A x : x \in Draws(entry)' <=>
            \E i \in 1 .. n + 1 : \E k \in DOMAIN DrawnIn(i)' :
                DrawnIn(i)'[k] = entry /\ x = <<i, k>>
    BY <1>4 DEF Draws
  <1>7. \A x : x \in Draws(entry)' <=> x \in Draws(entry) \/ (entry = drawn /\ x = place)
    <2> TAKE x
    <2>1. ASSUME NEW i \in 1 .. n, NEW k
          PROVE  (k \in DOMAIN DrawnIn(i)' /\ DrawnIn(i)'[k] = entry) <=>
                 (k \in DOMAIN DrawnIn(i) /\ DrawnIn(i)[k] = entry)
      BY <1>3
    <2>2. ASSUME NEW k
          PROVE  (k \in DOMAIN DrawnIn(n + 1)' /\ DrawnIn(n + 1)'[k] = entry) <=>
                 \/ k \in DOMAIN DrawnIn(n + 1) /\ DrawnIn(n + 1)[k] = entry
                 \/ k = m + 1 /\ entry = drawn
      <3>1. /\ k \in 1 .. m + 1 <=> k \in 1 .. m \/ k = m + 1
            /\ k \in 1 .. m => k # m + 1
        BY <1>1
      <3>2. k \in 1 .. m => selected'[k] = selected[k]
        BY <1>2
      <3>3. DOMAIN DrawnIn(n + 1)' = 1 .. m + 1 /\ DOMAIN DrawnIn(n + 1) = 1 .. m
        BY <1>1, <1>2, <1>3
      <3>4. /\ k \in 1 .. m => DrawnIn(n + 1)'[k] = DrawnIn(n + 1)[k]
            /\ DrawnIn(n + 1)'[m + 1] = drawn
        BY <1>2, <1>3, <3>2
      <3> QED
        BY <3>1, <3>3, <3>4
    <2>3. \A i : i \in 1 .. n + 1 <=> i \in 1 .. n \/ i = n + 1
      BY <1>1
    <2>4. x \in Draws(entry) <=>
             \E i \in 1 .. n + 1 : \E k \in DOMAIN DrawnIn(i) :
                 DrawnIn(i)[k] = entry /\ x = <<i, k>>
      BY Occurrence DEF n
    <2> DEFINE At(i, k) == k \in DOMAIN DrawnIn(i) /\ DrawnIn(i)[k] = entry
               After(i, k) == k \in DOMAIN DrawnIn(i)' /\ DrawnIn(i)'[k] = entry
    <2>5. x \in Draws(entry) <=> \E i \in 1 .. n + 1 : \E k : At(i, k) /\ x = <<i, k>>
      BY <2>4
    <2>6. x \in Draws(entry)' <=> \E i \in 1 .. n + 1 : \E k : After(i, k) /\ x = <<i, k>>
      BY <1>6
    <2>7. \A i \in 1 .. n : \A k : After(i, k) <=> At(i, k)
      BY <2>1
    <2>8. \A k : After(n + 1, k) <=> At(n + 1, k) \/ (k = m + 1 /\ entry = drawn)
      BY <2>2
    <2> HIDE DEF At, After
    <2>9. n + 1 \in 1 .. n + 1
      BY <1>1
    <2> QED
      BY <2>3, <2>5, <2>6, <2>7, <2>8, <2>9
  <1> QED
    BY <1>5, <1>7 DEF n, m

\* An event added keeps the occurrences: they were those of the event being drawn.
LEMMA EventKeepsDraws ==
  ASSUME DrawTypes, NEW event \in DrawnEvents, event.entries = selected,
         events' = Append(events, event), selected' = <<>>, NEW entry
  PROVE  Draws(entry)' = Draws(entry)
  <1>0. PICK n \in Nat : n = Len(events)
    BY LenProperties DEF DrawTypes
  <1>1. n \in Nat /\ n = Len(events) /\ DOMAIN events = 1 .. n
    BY <1>0, LenProperties DEF DrawTypes
  <1>2. /\ Len(events') = n + 1 /\ DOMAIN events' = 1 .. n + 1 /\ events'[n + 1] = event
        /\ \A i \in 1 .. n : events'[i] = events[i]
    <2>1. events' \in Seq(DrawnEvents) /\ Len(events') = n + 1
      BY <1>1, AppendProperties DEF DrawTypes
    <2> QED
      BY <1>1, <2>1, AppendProperties, LenProperties DEF DrawTypes
  <1>3. \A i \in 1 .. n : DrawnIn(i)' = DrawnIn(i)
    BY <1>1, <1>2 DEF DrawnIn
  <1>4. DrawnIn(n + 1)' = DrawnIn(n + 1) /\ DrawnIn(n + 2)' = <<>>
    <2>1. n + 1 \notin DOMAIN events /\ n + 1 \in DOMAIN events' /\ n + 2 \notin DOMAIN events'
      BY <1>1, <1>2
    <2>2. DrawnIn(n + 1) = selected /\ DrawnIn(n + 1)' = events'[n + 1].entries
      BY <2>1 DEF DrawnIn
    <2>3. DrawnIn(n + 2)' = <<>>
      BY <2>1 DEF DrawnIn
    <2> QED
      BY <1>2, <2>2, <2>3
  <1>5. \A i \in 1 .. n + 1 : DrawnIn(i)' = DrawnIn(i)
    <2>1. \A i \in 1 .. n + 1 : i \in 1 .. n \/ i = n + 1
      BY <1>1
    <2> QED
      BY <1>3, <1>4, <2>1
  <1>6. DOMAIN DrawnIn(n + 2)' = {}
    BY <1>4
  <1>7. ASSUME NEW x
        PROVE  x \in Draws(entry)' <=> x \in Draws(entry)
    <2>1. x \in Draws(entry)' <=>
             \E i \in 1 .. n + 2 : \E k \in DOMAIN DrawnIn(i)' :
                 DrawnIn(i)'[k] = entry /\ x = <<i, k>>
      <3>1. Len(events)' + 1 = n + 2
        BY <1>1, <1>2
      <3> QED
        BY <3>1 DEF Draws
    <2>2. x \in Draws(entry) <=>
             \E i \in 1 .. n + 1 : \E k \in DOMAIN DrawnIn(i) :
                 DrawnIn(i)[k] = entry /\ x = <<i, k>>
      BY <1>1, Occurrence
    <2>3. \A i : i \in 1 .. n + 2 <=> i \in 1 .. n + 1 \/ i = n + 2
      BY <1>1
    <2> DEFINE At(i, k) == k \in DOMAIN DrawnIn(i) /\ DrawnIn(i)[k] = entry
               After(i, k) == k \in DOMAIN DrawnIn(i)' /\ DrawnIn(i)'[k] = entry
    <2>4. x \in Draws(entry)' <=> \E i \in 1 .. n + 2 : \E k : After(i, k) /\ x = <<i, k>>
      BY <2>1
    <2>5. x \in Draws(entry) <=> \E i \in 1 .. n + 1 : \E k : At(i, k) /\ x = <<i, k>>
      BY <2>2
    <2>6. \A i \in 1 .. n + 1 : \A k : After(i, k) <=> At(i, k)
      BY <1>5
    <2>7. \A k : ~After(n + 2, k)
      BY <1>6
    <2> HIDE DEF At, After
    <2> QED
      BY <2>3, <2>4, <2>5, <2>6, <2>7
  <1> QED
    BY <1>7

\* An entry drawn from the bag, filled again when it was empty, keeps the rounds.
LEMMA DrawNameEven == DrawInv /\ DrawName => DrawInv'
  <1> SUFFICES ASSUME DrawInv, DrawName PROVE DrawInv'
    OBVIOUS
  <1>1. /\ scenario' = scenario /\ scenario \in Scenarios /\ ~scenario.repeats
        /\ DrawTypes /\ Rounds /\ events' = events
    BY DEF DrawInv, DrawName
  <1>2. PICK drawn \in Refill : bag' = Refill \ {drawn} /\ selected' = Append(selected, drawn)
    BY DEF DrawName
  <1>3. Refill \subseteq Entries /\ Entries \subseteq Nat /\ Entries' = Entries
    <2>1. scenario.names \in Seq(SensorNames)
      BY <1>1 DEF Scenarios
    <2> QED
      BY <1>1, <2>1, LenProperties DEF Refill, DrawTypes, Entries
  <1>4. DrawTypes'
    <2>1. selected' \in Seq(Nat)
      BY <1>1, <1>2, <1>3, AppendProperties DEF DrawTypes
    <2> QED
      BY <1>1, <1>2, <1>3, <2>1 DEF DrawTypes
  <1>5. PICK round \in Int : \A entry \in Entries :
            /\ IsFiniteSet(Draws(entry))
            /\ TimesDrawn(entry) = IF entry \in Refill THEN round ELSE round + 1
    <2>1. PICK r \in Int : \A entry \in Entries :
              IsFiniteSet(Draws(entry)) /\ TimesDrawn(entry) = IF entry \in bag THEN r ELSE r + 1
      BY <1>1 DEF Rounds
    <2>2. CASE bag = {}
      <3>1. \A entry \in Entries : TimesDrawn(entry) = r + 1 /\ entry \in Refill
        BY <2>1, <2>2 DEF Refill
      <3>2. r + 1 \in Int
        OBVIOUS
      <3> QED
        BY <2>1, <3>1, <3>2
    <2>3. CASE bag # {}
      BY <2>1, <2>3 DEF Refill
    <2> QED
      BY <2>2, <2>3
  <1>6. ASSUME NEW entry \in Entries
        PROVE  /\ IsFiniteSet(Draws(entry)')
               /\ TimesDrawn(entry)' = IF entry \in bag' THEN round ELSE round + 1
    <2> DEFINE place == <<Len(events) + 1, Len(selected) + 1>>
    <2>1. /\ place \notin Draws(entry)
          /\ Draws(entry)' = IF entry = drawn THEN Draws(entry) \cup {place} ELSE Draws(entry)
      BY <1>1, <1>2, <1>3, DrawCounts
    <2>2. /\ IsFiniteSet(Draws(entry) \cup {place})
          /\ Cardinality(Draws(entry) \cup {place}) = Cardinality(Draws(entry)) + 1
      BY <1>5, <2>1, FS_AddElement
    <2>3. TimesDrawn(entry)' = Cardinality(Draws(entry)') /\ TimesDrawn(entry) = Cardinality(Draws(entry))
      BY DEF TimesDrawn
    <2> HIDE DEF place
    <2>4. CASE entry = drawn
      BY <1>2, <1>5, <2>1, <2>2, <2>3, <2>4
    <2>5. CASE entry # drawn
      BY <1>2, <1>5, <2>1, <2>3, <2>5
    <2> QED
      BY <2>4, <2>5
  <1>7. Rounds'
    BY <1>1, <1>3, <1>6 DEF Rounds
  <1> QED
    BY <1>1, <1>4, <1>7 DEF DrawInv

\* An event drawn completely is added.
LEMMA AddEventEven == DrawInv /\ AddEvent => DrawInv'
  <1> SUFFICES ASSUME DrawInv, AddEvent PROVE DrawInv'
    OBVIOUS
  <1> DEFINE event == EventOf(selected)
  <1>1. /\ scenario' = scenario /\ scenario \in Scenarios /\ ~scenario.repeats
        /\ DrawTypes /\ Rounds /\ bag' = bag
        /\ events' = Append(events, event) /\ selected' = <<>>
    BY DEF DrawInv, AddEvent
  <1>2. event \in DrawnEvents /\ event.entries = selected
    <2>1. scenario.start \in Int /\ scenario.period \in Int /\ scenario.hold \in Int
      BY <1>1 DEF Scenarios
    <2>2. Len(events) \in Int
      BY <1>1, LenProperties DEF DrawTypes
    <2>3. Max({scenario.hold, 1}) \in Int
      BY <2>1, LargerOf, 1 \in Int
    <2>4. scenario.start + Len(events) * scenario.period \in Int
      BY <2>1, <2>2
    <2> QED
      BY <1>1, <2>3, <2>4 DEF EventOf, DrawnEvents, DrawTypes
  <1> HIDE DEF event
  <1>3. DrawTypes'
    <2>1. events' \in Seq(DrawnEvents)
      BY <1>1, <1>2, AppendProperties DEF DrawTypes
    <2> QED
      BY <1>1, <2>1 DEF DrawTypes, Entries
  <1>4. \A entry : Draws(entry)' = Draws(entry)
    BY <1>1, <1>2, EventKeepsDraws
  <1>5. \A entry : TimesDrawn(entry)' = TimesDrawn(entry)
    BY <1>4 DEF TimesDrawn
  <1>6. Rounds'
    BY <1>1, <1>4, <1>5 DEF Rounds, Entries
  <1> QED
    BY <1>1, <1>3, <1>6 DEF DrawInv

\* Whatever the bench does, the draws stay even.
LEMMA DrawStep == DrawInv /\ [Next]_vars => DrawInv'
  <1> SUFFICES ASSUME DrawInv, [Next]_vars PROVE DrawInv'
    OBVIOUS
  <1>1. ASSUME scenario' = scenario, UNCHANGED <<bag, selected, events>>
        PROVE  DrawInv'
    <2>1. \A entry : Draws(entry)' = Draws(entry)
      BY <1>1 DEF Draws, DrawnIn
    <2>2. Rounds' <=> Rounds
      BY <1>1, <2>1 DEF Rounds, TimesDrawn, Entries
    <2> QED
      BY <1>1, <2>2 DEF DrawInv, DrawTypes, Entries
  <1>2. CASE DrawEvents
    <2>1. CASE SampleEvent
      BY <2>1 DEF SampleEvent, DrawInv
    <2> QED
      BY <1>2, <2>1, DrawNameEven, AddEventEven DEF DrawEvents
  <1>3. CASE ScenarioTimer
    BY <1>1, <1>3 DEF ScenarioTimer, PublishScenario
  <1>4. CASE UNCHANGED scenarioVars
    BY <1>1, <1>4 DEF scenarioVars
  <1> QED
    BY <1>2, <1>3, <1>4 DEF Next, Tick, ReplayConstructed, ReplayTimer, TimerFires,
       RunnerConditionRaises, RunnerBegins, ReplayMatched, RunnerPublishes, RunnerExits,
       Interrupted, ProcessesStop, vars

\* Nothing has been drawn at the start.
LEMMA DrawStarts == Init => DrawInv
  <1> SUFFICES ASSUME Init PROVE DrawInv
    OBVIOUS
  <1>1. scenario \in Scenarios /\ bag = {} /\ selected = <<>> /\ events = <<>>
    BY BenchAssumption DEF Init, ScenarioInit
  <1>2. \A entry : Draws(entry) = {}
    <2>1. \A i : DrawnIn(i) = <<>>
      BY <1>1 DEF DrawnIn
    <2> QED
      BY <2>1, Occurrence
  <1>3. \A entry : IsFiniteSet(Draws(entry)) /\ TimesDrawn(entry) = 0
    BY <1>2, FS_EmptySet DEF TimesDrawn
  <1>4. -1 \in Int /\ -1 + 1 = 0
    OBVIOUS
  <1>5. Rounds
    BY <1>1, <1>3, <1>4 DEF Rounds
  <1> QED
    BY <1>1, <1>5 DEF DrawInv, DrawTypes

\* Without repeats, for every list of sensors, number of events and sensors an event, no
\* entry of a random scenario's list has at any time been drawn twice more than another.
THEOREM DrawsEven == Spec => []DrawsAreEven
  <1>1. DrawInv => DrawsAreEven
    <2> SUFFICES ASSUME DrawInv, ~scenario.repeats, NEW one \in Entries,
                        NEW other \in Entries
                 PROVE  TimesDrawn(one) <= TimesDrawn(other) + 1
      BY DEF DrawsAreEven
    <2>1. PICK round \in Int : \A entry \in Entries :
              TimesDrawn(entry) = IF entry \in bag THEN round ELSE round + 1
      BY DEF DrawInv, Rounds
    <2> QED
      BY <2>1
  <1> QED
    BY <1>1, DrawStarts, DrawStep, PTL DEF Spec

-----------------------------------------------------------------------------
(* Sorted recordings *)

Increasing(order, n) == \A i, j \in 1 .. n : i < j => order[i] < order[j]

\* A finite set of integers has an increasing order: that of the ranks, where the rank
\* of a member is how many members are not above it.
LEMMA OrderExists ==
  ASSUME NEW S, S \subseteq Int, IsFiniteSet(S)
  PROVE  \E order \in [1 .. Cardinality(S) -> S] : Increasing(order, Cardinality(S))
  <1> DEFINE n == Cardinality(S)
             below(x) == {y \in S : y <= x}
             rank == [x \in S |-> Cardinality(below(x))]
  <1>1. n \in Nat
    BY FS_CardinalityType
  <1>2. ASSUME NEW x \in S
        PROVE  IsFiniteSet(below(x)) /\ rank[x] \in Nat /\ rank[x] <= n
    <2>1. IsFiniteSet(below(x)) /\ Cardinality(below(x)) <= n
      BY FS_Subset
    <2> QED
      BY <2>1, FS_CardinalityType
  <1>3. ASSUME NEW x \in S, NEW y \in S, x < y
        PROVE  rank[x] < rank[y]
    <2>1. below(x) \in SUBSET below(y) /\ y \in below(y) /\ y \notin below(x)
      <3>1. x \in Int /\ y \in Int /\ \A z \in S : z \in Int
        OBVIOUS
      <3>2. \A z \in S : z <= x => z <= y
        BY <1>3, <3>1
      <3>3. y <= y /\ ~(y <= x)
        BY <1>3, <3>1
      <3> QED
        BY <3>2, <3>3
    <2>2. Cardinality(below(x)) <= Cardinality(below(y)) /\ Cardinality(below(y)) # Cardinality(below(x))
      BY <1>2, <2>1, FS_Subset
    <2> QED
      BY <1>2, <2>2
  <1>4. ASSUME NEW x \in S
        PROVE  rank[x] \in 1 .. n
    <2>1. below(x) # {}
      BY <1>4
    <2>2. Cardinality(below(x)) # 0
      BY <1>2, <2>1, FS_EmptySet
    <2> QED
      BY <1>1, <1>2, <2>2
  <1>5. rank \in Injection(S, 1 .. n)
    <2>1. rank \in [S -> 1 .. n]
      BY <1>4
    <2>2. \A x, y \in S : rank[x] = rank[y] => x = y
      <3> TAKE x, y \in S
      <3>1. x \in Int /\ y \in Int /\ rank[x] \in Nat /\ rank[y] \in Nat
        BY <1>2
      <3> HIDE DEF rank
      <3> QED
        BY <1>3, <3>1
    <2> HIDE DEF rank
    <2> QED
      BY <2>1, <2>2 DEF Injection, IsInjective
  <1> HIDE DEF rank
  <1>6. rank \in Surjection(S, 1 .. n)
    <2>1. IsFiniteSet(1 .. n) /\ Cardinality(1 .. n) = n
      BY <1>1, FS_Interval
    <2> QED
      BY <1>5, <2>1, FS_Injection
  <1>7. \A i \in 1 .. n : \E x \in S : rank[x] = i
    BY <1>6 DEF Surjection
  <1> DEFINE order == [i \in 1 .. n |-> CHOOSE x \in S : rank[x] = i]
  <1>8. \A i \in 1 .. n : order[i] \in S /\ rank[order[i]] = i
    BY <1>7
  <1>9. order \in [1 .. n -> S]
    BY <1>7
  <1>10. Increasing(order, n)
    <2> SUFFICES ASSUME NEW i \in 1 .. n, NEW j \in 1 .. n, i < j
                 PROVE  order[i] < order[j]
      BY DEF Increasing
    <2>1. /\ order[i] \in S /\ order[j] \in S
          /\ rank[order[i]] = i /\ rank[order[j]] = j
      BY <1>8
    <2> HIDE DEF order
    <2>2. i \in Int /\ j \in Int
      BY <1>1
    <2>3. order[i] # order[j] /\ ~(order[j] < order[i])
      <3>1. order[j] < order[i] => rank[order[j]] < rank[order[i]]
        BY <1>3, <2>1, Zenon
      <3>2. order[i] = order[j] => i = j
        BY <2>1
      <3> QED
        BY <2>1, <2>2, <3>1, <3>2
    <2>4. order[i] \in Int /\ order[j] \in Int
      BY <2>1
    <2> QED
      BY <2>3, <2>4
  <1> QED
    BY <1>9, <1>10

\* InOrder lists every member once, from the least to the greatest.
LEMMA Ordered ==
  ASSUME NEW S, S \subseteq Int, IsFiniteSet(S), NEW n, n = Cardinality(S)
  PROVE  /\ n \in Nat /\ InOrder(S) \in [1 .. n -> S] /\ Increasing(InOrder(S), n)
         /\ \A x \in S : \E i \in 1 .. n : InOrder(S)[i] = x
  <1> DEFINE order == InOrder(S)
  <1>1. n \in Nat
    BY FS_CardinalityType
  <1>2. order \in [1 .. n -> S] /\ Increasing(order, n)
    BY OrderExists DEF InOrder, Increasing
  <1> HIDE DEF order
  <1>3. order \in Injection(1 .. n, S)
    <2>1. \A i, j \in 1 .. n : order[i] = order[j] => i = j
      <3> TAKE i, j \in 1 .. n
      <3>1. i \in Int /\ j \in Int /\ order[i] \in S /\ order[j] \in S
        BY <1>1, <1>2
      <3>2. order[i] \in Int /\ order[j] \in Int
        BY <3>1
      <3>3. (i < j => order[i] < order[j]) /\ (j < i => order[j] < order[i])
        BY <1>2 DEF Increasing
      <3> QED
        BY <3>1, <3>2, <3>3
    <2> QED
      BY <1>2, <2>1 DEF Injection, IsInjective
  <1>4. IsFiniteSet(1 .. n) /\ Cardinality(1 .. n) = n
    BY <1>1, FS_Interval
  <1>5. order \in Surjection(1 .. n, S)
    BY <1>3, <1>4, FS_Injection
  <1> QED
    BY <1>1, <1>2, <1>5 DEF Surjection, order

\* A finite set of integers that has a member has a least and a greatest one.
LEMMA Extremes ==
  ASSUME NEW S, S \subseteq Int, IsFiniteSet(S), S # {}
  PROVE  /\ Min(S) \in S /\ \A x \in S : Min(S) <= x
         /\ Max(S) \in S /\ \A x \in S : Max(S) >= x
  <1> DEFINE n == Cardinality(S)
             order == InOrder(S)
  <1>1. /\ n \in Nat /\ order \in [1 .. n -> S] /\ Increasing(order, n)
        /\ \A x \in S : \E i \in 1 .. n : order[i] = x
    BY Ordered
  <1> HIDE DEF n, order
  <1>2. n >= 1 /\ 1 \in 1 .. n /\ n \in 1 .. n
    <2>1. PICK x : x \in S
      OBVIOUS
    <2>2. PICK i \in 1 .. n : order[i] = x
      BY <1>1, <2>1
    <2> QED
      BY <1>1, <2>2
  <1>3. order[1] \in S /\ order[n] \in S
    BY <1>1, <1>2
  <1>4. \A x \in S : order[1] <= x /\ x <= order[n]
    <2> TAKE x \in S
    <2>1. PICK i \in 1 .. n : order[i] = x
      BY <1>1
    <2>2. (1 < i => order[1] < order[i]) /\ (i < n => order[i] < order[n])
      BY <1>1, <1>2 DEF Increasing
    <2>3. order[1] \in Int /\ order[n] \in Int /\ x \in Int
      BY <1>3
    <2> QED
      BY <1>2, <2>1, <2>2, <2>3
  <1>5. \E x \in S : \A y \in S : x <= y
    BY <1>3, <1>4
  <1>6. \E x \in S : \A y \in S : x >= y
    <2>1. \A y \in S : order[n] >= y
      BY <1>3, <1>4
    <2> QED
      BY <1>3, <2>1
  <1> QED
    BY <1>5, <1>6 DEF Min, Max

-----------------------------------------------------------------------------
(* Replays *)

Rows == Seq([time : Nat \cup {NoTime}, range : Int])

\* The times of a recording are finitely many numbers.
LEMMA TimesFinite ==
  ASSUME NEW rows \in Rows
  PROVE  TimesOf(rows) \subseteq Nat /\ IsFiniteSet(TimesOf(rows))
  <1> DEFINE times == {row.time : row \in ToSet(rows)}
             time == [i \in 1 .. Len(rows) |-> rows[i].time]
  <1>1. /\ Len(rows) \in Nat /\ DOMAIN rows = 1 .. Len(rows)
        /\ \A i \in 1 .. Len(rows) : rows[i].time \in Nat \cup {NoTime}
    <2>1. /\ Len(rows) \in Nat /\ DOMAIN rows = 1 .. Len(rows)
          /\ rows \in [1 .. Len(rows) -> [time : Nat \cup {NoTime}, range : Int]]
      BY LenProperties DEF Rows
    <2>2. \A i \in 1 .. Len(rows) : rows[i] \in [time : Nat \cup {NoTime}, range : Int]
      BY <2>1
    <2> QED
      BY <2>1, <2>2
  <1>2. times = {rows[i].time : i \in 1 .. Len(rows)}
    BY <1>1 DEF ToSet
  <1>3. time \in Surjection(1 .. Len(rows), times)
    <2> HIDE DEF times
    <2> QED
      BY <1>2 DEF Surjection
  <1>4. IsFiniteSet(1 .. Len(rows))
    BY <1>1, FS_Interval
  <1>5. times \subseteq Nat \cup {NoTime}
    BY <1>1, <1>2
  <1>6. IsFiniteSet(times)
    <2> HIDE DEF times, time
    <2> QED
      BY <1>3, <1>4, FS_Surjection
  <1>7. TimesOf(rows) = times \ {NoTime}
    BY DEF TimesOf
  <1> HIDE DEF times
  <1>8. TimesOf(rows) \in SUBSET times
    BY <1>7
  <1>9. IsFiniteSet(TimesOf(rows))
    BY <1>6, <1>8, FS_Subset
  <1> QED
    BY <1>5, <1>7, <1>9

\* The table of a recording starts at time zero and has a row for every time.
LEMMA Table ==
  ASSUME NEW rows \in Rows, TimesOf(rows) # {},
         NEW n, n = Cardinality(TimesOf(rows)), NEW order, order = InOrder(TimesOf(rows))
  PROVE  /\ n \in Nat /\ n >= 1 /\ DOMAIN LoadReplay(rows) = 1 .. n /\ Len(LoadReplay(rows)) = n
         /\ order \in [1 .. n -> TimesOf(rows)] /\ Increasing(order, n)
         /\ \A x \in TimesOf(rows) : \E i \in 1 .. n : order[i] = x
         /\ \A i \in 1 .. n :
               /\ LoadReplay(rows)[i].time = order[i] - order[1]
               /\ LoadReplay(rows)[i].range = ReadingOf(rows[LastAt(rows, order[i])])
  <1> DEFINE S == TimesOf(rows)
  <1>1. S \subseteq Int /\ IsFiniteSet(S)
    BY TimesFinite
  <1>2. /\ n \in Nat /\ order \in [1 .. n -> S] /\ Increasing(order, n)
        /\ \A x \in S : \E i \in 1 .. n : order[i] = x
    BY <1>1, Ordered
  <1>3. n >= 1
    BY <1>2
  <1>4. LoadReplay(rows) = [i \in 1 .. n |->
            [time |-> order[i] - order[1], range |-> ReadingOf(rows[LastAt(rows, order[i])])]]
    BY DEF LoadReplay
  <1>5. DOMAIN LoadReplay(rows) = 1 .. n
    BY <1>4
  <1>6. Len(LoadReplay(rows)) = n
    BY <1>2, <1>5
  <1> QED
    BY <1>2, <1>3, <1>4, <1>5, <1>6

\* The row of a replay's table whose turn it is at a time, and the row after it.
RowAt(rows, table, k, at) ==
  /\ Len(table) \in Nat /\ k \in 1 .. Len(table)
  /\ table[k].time \in Int /\ table[k].time <= at
  /\ table[k].range = ReadingOf(rows[LastAt(rows, Max(Earlier(at)))])
  /\ k = Len(table) => Later(at) = {}
  /\ k < Len(table) =>
        /\ Later(at) # {} /\ k + 1 \in 1 .. Len(table)
        /\ table[k + 1].time \in Int /\ table[k + 1].time > at
        /\ table[k + 1].range = ReadingOf(rows[LastAt(rows, Min(Later(at)))])

\* The row a replay plays at a time since the first row: the last with the latest time
\* not after it, and after it, if there is one, the first with a later time.
LEMMA RowPlayed ==
  ASSUME NEW rows, rows = source.rows, rows \in Rows, TimesOf(rows) # {}, NEW at \in Nat,
         NEW table, table = LoadReplay(rows), NEW k,
         k = Max({1} \cup {j \in DOMAIN table : table[j].time <= at})
  PROVE  RowAt(rows, table, k, at)
  <1> DEFINE S == TimesOf(rows)
             order == InOrder(S)
             n == Cardinality(S)
             first == Min(S)
             times == {time \in S : time - first <= at}
             past == {1} \cup {j \in DOMAIN table : table[j].time <= at}
  <1>1. /\ n \in Nat /\ n >= 1 /\ DOMAIN table = 1 .. n /\ Len(table) = n
        /\ order \in [1 .. n -> S] /\ Increasing(order, n)
        /\ \A x \in S : \E i \in 1 .. n : order[i] = x
        /\ \A i \in 1 .. n : /\ table[i].time = order[i] - order[1]
                             /\ table[i].range = ReadingOf(rows[LastAt(rows, order[i])])
    BY Table
  <1>2. S \subseteq Nat /\ IsFiniteSet(S)
    BY TimesFinite
  <1>3. times = Earlier(at) /\ S \ times = Later(at)
    BY DEF Earlier, Later
  <1> HIDE DEF order, n
  <1>4. \A i \in 1 .. n : order[i] \in S /\ order[i] \in Nat
    BY <1>1, <1>2
  <1>5. 1 \in 1 .. n /\ \A i \in 1 .. n : order[1] <= order[i]
    <2> SUFFICES ASSUME NEW i \in 1 .. n PROVE 1 \in 1 .. n /\ order[1] <= order[i]
      BY <1>1
    <2>1. 1 < i => order[1] < order[i]
      BY <1>1 DEF Increasing
    <2>2. 1 \in 1 .. n /\ order[1] \in Nat /\ order[i] \in Nat
      BY <1>1, <1>4
    <2> QED
      BY <2>1, <2>2
  <1>6. first = order[1]
    <2>1. first \in S /\ \A x \in S : first <= x
      BY <1>2, <1>4, <1>5, Extremes
    <2> HIDE DEF first
    <2>2. PICK i \in 1 .. n : order[i] = first
      BY <1>1, <2>1
    <2>3. first <= order[1] /\ order[1] <= first /\ first \in Nat /\ order[1] \in Nat
      BY <1>2, <1>4, <1>5, <2>1, <2>2
    <2> QED
      BY <2>3
  <1>7. past = {j \in 1 .. n : order[j] - order[1] <= at}
    <2>1. order[1] - order[1] <= at
      BY <1>4, <1>5
    <2> QED
      BY <1>1, <1>5, <2>1
  <1> HIDE DEF first
  <1>8. k \in past /\ \A j \in past : k >= j
    <2>1. past \subseteq Int /\ past # {} /\ past \in SUBSET (1 .. n)
      BY <1>1, <1>5, <1>7
    <2>3. k = Max(past)
      OBVIOUS
    <2> HIDE DEF past
    <2>2. IsFiniteSet(past)
      <3>1. n \in Nat
        BY <1>1
      <3>2. IsFiniteSet(1 .. n)
        BY <3>1, FS_Interval
      <3> QED
        BY <2>1, <3>2, FS_Subset
    <2>4. Max(past) \in past /\ \A j \in past : Max(past) >= j
      BY <2>1, <2>2, Extremes
    <2> QED
      BY <2>3, <2>4
  <1> HIDE DEF past
  <1>9. k \in 1 .. n /\ order[k] - order[1] <= at /\ order[k] \in S
    BY <1>4, <1>7, <1>8
  <1>10. order[k] \in times
    BY <1>6, <1>9
  <1>11. \A x \in times : x <= order[k]
    <2> TAKE x \in times
    <2>1. PICK j \in 1 .. n : order[j] = x
      BY <1>1
    <2>2. j \in past
      BY <1>6, <1>7, <2>1
    <2>3. j <= k /\ j \in Int /\ k \in Int
      BY <1>1, <1>8, <1>9, <2>2
    <2>4. j < k => order[j] < order[k]
      BY <1>1, <1>9 DEF Increasing
    <2>5. order[j] \in Nat /\ order[k] \in Nat
      BY <1>4, <1>9
    <2> QED
      BY <2>1, <2>3, <2>4, <2>5
  <1>12. Max(times) = order[k]
    <2>1. times \subseteq Int /\ times \in SUBSET S /\ times # {}
      BY <1>2, <1>10
    <2>2. IsFiniteSet(times)
      BY <1>2, <2>1, FS_Subset
    <2> HIDE DEF times
    <2>3. Max(times) \in times /\ \A x \in times : Max(times) >= x
      BY <2>1, <2>2, Extremes
    <2>4. Max(times) >= order[k] /\ Max(times) <= order[k] /\ Max(times) \in Int /\ order[k] \in Int
      BY <1>10, <1>11, <2>1, <2>3
    <2> QED
      BY <2>4
  <1>13. ASSUME k < n
         PROVE  k + 1 \in 1 .. n /\ order[k + 1] \in S \ times /\ \A x \in S \ times : order[k + 1] <= x
    <2>1. k + 1 \in 1 .. n /\ k \in Int
      BY <1>1, <1>9, <1>13
    <2>2. k + 1 \notin past
      BY <1>8, <2>1
    <2>3. order[k + 1] \in S \ times
      BY <1>4, <1>6, <1>7, <2>1, <2>2
    <2>4. ASSUME NEW x \in S \ times
          PROVE  order[k + 1] <= x
      <3>1. PICK j \in 1 .. n : order[j] = x
        BY <1>1
      <3>2. ~(order[j] - order[1] <= at)
        BY <1>6, <2>4, <3>1
      <3>3. /\ order[j] \in Nat /\ order[k] \in Nat /\ order[1] \in Nat /\ order[k + 1] \in Nat
            /\ j \in Int /\ k \in Int
        <4>1. order[k + 1] \in Nat
          BY <1>2, <2>3
        <4>2. order[j] \in Nat /\ order[1] \in Nat
          BY <1>4, <1>5
        <4>3. order[k] \in Nat
          BY <1>4, <1>9
        <4>4. j \in Int /\ k \in Int
          BY <1>1, <1>9
        <4> QED
          BY <4>1, <4>2, <4>3, <4>4
      <3>4. j < k => order[j] < order[k]
        BY <1>1, <1>9 DEF Increasing
      <3>5. ~(j < k) /\ j # k
        BY <1>9, <3>2, <3>3, <3>4
      <3>6. k + 1 < j => order[k + 1] < order[j]
        BY <1>1, <2>1 DEF Increasing
      <3> QED
        BY <3>1, <3>3, <3>5, <3>6
    <2> QED
      BY <2>1, <2>3, <2>4
  <1>14. k = n => S \ times = {}
    <2> SUFFICES ASSUME k = n, NEW x \in S PROVE x \in times
      OBVIOUS
    <2>1. PICK j \in 1 .. n : order[j] = x
      BY <1>1
    <2>2. j < k => order[j] < order[k]
      BY <1>1, <1>9 DEF Increasing
    <2>3. /\ order[j] \in Nat /\ order[k] \in Nat /\ order[1] \in Nat
          /\ j \in Int /\ k \in Int /\ j <= k
      BY <1>1, <1>4, <1>5, <1>9
    <2>4. order[j] - order[1] <= at
      <3>1. order[j] <= order[k]
        <4>1. j = k => order[j] = order[k]
          OBVIOUS
        <4>2. j < k \/ j = k
          BY <2>3
        <4> QED
          BY <2>2, <2>3, <4>1, <4>2
      <3> HIDE DEF past
      <3> QED
        BY <1>9, <2>3, <3>1
    <2> QED
      BY <1>6, <2>1, <2>4
  <1>15. k < n => Min(S \ times) = order[k + 1]
    <2> SUFFICES ASSUME k < n PROVE Min(S \ times) = order[k + 1]
      OBVIOUS
    <2>1. S \ times \subseteq Int /\ S \ times \in SUBSET S /\ S \ times # {}
      BY <1>2, <1>13
    <2>2. IsFiniteSet(S \ times)
      BY <1>2, <2>1, FS_Subset
    <2> HIDE DEF times
    <2>3. Min(S \ times) \in S \ times /\ \A x \in S \ times : Min(S \ times) <= x
      BY <2>1, <2>2, Extremes
    <2>4. Min(S \ times) <= order[k + 1] /\ Min(S \ times) >= order[k + 1]
          /\ Min(S \ times) \in Int /\ order[k + 1] \in Int
      BY <1>13, <2>1, <2>3
    <2> QED
      BY <2>4
  <1>16. k < n => table[k + 1].time \in Int /\ table[k + 1].time > at
    <2> SUFFICES ASSUME k < n PROVE table[k + 1].time \in Int /\ table[k + 1].time > at
      OBVIOUS
    <2>1. k + 1 \in 1 .. n /\ ~(order[k + 1] - order[1] <= at)
      BY <1>6, <1>13
    <2>2. table[k + 1].time = order[k + 1] - order[1]
      BY <1>1, <2>1
    <2>3. order[k + 1] \in Nat /\ order[1] \in Nat
      BY <1>4, <1>5, <2>1
    <2> QED
      BY <2>1, <2>2, <2>3
  <1>17. table[k].time \in Int /\ table[k].time <= at
    BY <1>1, <1>4, <1>5, <1>9
  <1> HIDE DEF times
  <1> USE DEF RowAt
  <1> QED
    <2>1. Len(table) \in Nat /\ Len(table) = n /\ k \in 1 .. Len(table)
      BY <1>1, <1>9
    <2>2. table[k].range = ReadingOf(rows[LastAt(rows, Max(Earlier(at)))])
      <3>1. table[k].range = ReadingOf(rows[LastAt(rows, order[k])])
        BY <1>1, <1>9
      <3>2. Max(Earlier(at)) = order[k]
        BY <1>3, <1>12
      <3> QED
        BY <3>1, <3>2
    <2>3. k = Len(table) => Later(at) = {}
      BY <1>3, <1>14, <2>1
    <2>4. k < n => Later(at) # {} /\ k + 1 \in 1 .. n
      BY <1>3, <1>13
    <2>5. k < n => table[k + 1].range = ReadingOf(rows[LastAt(rows, Min(Later(at)))])
      <3> SUFFICES ASSUME k < n
                   PROVE  table[k + 1].range = ReadingOf(rows[LastAt(rows, Min(Later(at)))])
        OBVIOUS
      <3>1. table[k + 1].range = ReadingOf(rows[LastAt(rows, order[k + 1])])
        BY <1>1, <2>4
      <3>2. Min(Later(at)) = order[k + 1]
        BY <1>3, <1>15
      <3> QED
        BY <3>1, <3>2
    <2> QED
      BY <1>16, <1>17, <2>1, <2>2, <2>3, <2>4, <2>5

\* Between two readings lies what is on the line between them.
LEMMA OnTheLine ==
  ASSUME NEW l \in Int, NEW r \in Int, NEW x \in Int, NEW t \in Int, 0 <= x, x < t
  PROVE  LET value == l + (x * (r - l)) \div t
         IN value \in Int /\ (l <= value \/ r <= value) /\ (value <= l \/ value <= r)
  <1> DEFINE d == r - l
             q == (x * d) \div t
  <1>1. d \in Int /\ x * d \in Int /\ t > 0
    OBVIOUS
  <1>2. q \in Int /\ t * q <= x * d /\ x * d < t * q + t
    BY <1>1
  <1> HIDE DEF q, d
  <1>3. CASE d >= 0
    <2>1. 0 <= x * d /\ x * d <= t * d
      BY <1>1, <1>3
    <2>2. q >= 0
      BY <1>1, <1>2, <2>1
    <2>3. q <= d
      BY <1>1, <1>2, <2>1
    <2> QED
      BY <1>1, <1>2, <2>2, <2>3 DEF d, q
  <1>4. CASE d < 0
    <2>1. x * d <= 0 /\ t * d <= x * d
      BY <1>1, <1>4
    <2>2. q <= 0
      BY <1>1, <1>2, <2>1
    <2>3. q >= d
      BY <1>1, <1>2, <2>1
    <2> QED
      BY <1>1, <1>2, <2>2, <2>3 DEF d, q
  <1> QED
    BY <1>1, <1>3, <1>4

\* What lies between two bounded numbers is bounded by the same.
LEMMA Enclosed ==
  ASSUME NEW l \in Int, NEW r \in Int, NEW value \in Int, NEW lo \in Int, NEW hi \in Int,
         l <= value \/ r <= value, value <= l \/ value <= r,
         lo <= l, lo <= r, hi >= l, hi >= r
  PROVE  value \in lo .. hi
  OBVIOUS

\* A replay plays a reading among those the recording has about the time, none when
\* none of them is valid.
LEMMA AboutReading ==
  ASSUME NEW rows, rows = source.rows, rows \in Rows, TimesOf(rows) # {}, NEW at \in Nat,
         source.interpolate \in BOOLEAN, NEW valid, valid = About(at) \cap MinimumValid .. MaximumValid,
         NEW played, played = RangeAt(LoadReplay(rows), at)
  PROVE  IF valid = {} THEN played = NoReading
         ELSE played # NoReading /\ played \in Min(valid) .. Max(valid)
  <1>a. PICK table : table = LoadReplay(rows)
    OBVIOUS
  <1>b. PICK k : k = Max({1} \cup {j \in DOMAIN table : table[j].time <= at})
    OBVIOUS
  <1>c. RowAt(rows, table, k, at)
    BY <1>a, <1>b, RowPlayed
  <1> DEFINE here == RangeOf(Max(Earlier(at)))
             next == RangeOf(Min(Later(at)))
             Valid == MinimumValid .. MaximumValid
             left == table[k]
             right == table[k + 1]
  <1>1. /\ Len(table) \in Nat /\ k \in 1 .. Len(table)
        /\ left.time \in Int /\ left.time <= at
        /\ left.range = ReadingOf(rows[LastAt(rows, Max(Earlier(at)))])
        /\ k = Len(table) => Later(at) = {}
        /\ k < Len(table) =>
              /\ Later(at) # {} /\ right.time \in Int /\ right.time > at
              /\ right.range = ReadingOf(rows[LastAt(rows, Min(Later(at)))])
    BY <1>c DEF RowAt
  <1>2. played = IF source.interpolate /\ k < Len(table) THEN Between(left, right, at) ELSE left.range
    BY <1>a, <1>b DEF RangeAt
  <1>3. /\ left.range = (IF here \in Valid THEN here ELSE NoReading)
        /\ k < Len(table) => right.range = IF next \in Valid THEN next ELSE NoReading
    BY <1>1 DEF ReadingOf, RangeOf
  <1>4. valid = ({here} \cup (IF source.interpolate /\ k < Len(table) THEN {next} ELSE {})) \cap Valid
    BY <1>1 DEF About
  <1> HIDE DEF here, next
  <1>5. NoReading \notin Valid /\ Valid \subseteq Int
    BY ValidAssumption DEF NoReading
  <1>6. ASSUME NEW x \in valid
        PROVE  Min(valid) \in valid /\ Min(valid) <= x /\ Max(valid) \in valid /\ Max(valid) >= x
    <2>1. IsFiniteSet({here, next})
      <3>1. IsFiniteSet({here} \cup {next})
        BY FS_Singleton, FS_AddElement
      <3>2. {here, next} = {here} \cup {next}
        OBVIOUS
      <3> QED
        BY <3>1, <3>2
    <2>2. valid \in SUBSET {here, next}
      BY <1>4
    <2>3. IsFiniteSet(valid)
      BY <2>1, <2>2, FS_Subset
    <2>4. valid \subseteq Int
      BY <1>4, <1>5
    <2> QED
      BY <1>6, <2>3, <2>4, Extremes
  <1>7. ASSUME played \in valid
        PROVE  valid # {} /\ played # NoReading /\ played \in Min(valid) .. Max(valid)
    <2>1. valid \subseteq Int /\ NoReading \notin valid
      BY <1>4, <1>5
    <2>2. Min(valid) \in Int /\ Max(valid) \in Int /\ Min(valid) <= played /\ played <= Max(valid)
      BY <1>6, <1>7, <2>1
    <2> QED
      BY <1>7, <2>1, <2>2
  <1>8. CASE ~(source.interpolate /\ k < Len(table))
    <2>1. played = (IF here \in Valid THEN here ELSE NoReading) /\ valid = {here} \cap Valid
      BY <1>2, <1>3, <1>4, <1>8
    <2>2. CASE here \in Valid
      <3>1. played \in valid
        BY <2>1, <2>2
      <3> QED
        BY <1>7, <3>1
    <2>3. CASE here \notin Valid
      BY <2>1, <2>3
    <2> QED
      BY <2>2, <2>3
  <1>9. CASE source.interpolate /\ k < Len(table)
    <2>1. /\ played = Between(left, right, at) /\ valid = {here, next} \cap Valid
          /\ right.range = IF next \in Valid THEN next ELSE NoReading
      BY <1>2, <1>3, <1>4, <1>9
    <2>2. CASE here \notin Valid /\ next \notin Valid
      <3>1. left.range = NoReading /\ right.range = NoReading
        BY <1>3, <2>1, <2>2
      <3>2. valid = {}
        BY <2>1, <2>2
      <3> QED
        BY <2>1, <3>1, <3>2 DEF Between
    <2>3. CASE here \notin Valid /\ next \in Valid
      <3>1. left.range = NoReading /\ right.range = next
        BY <1>3, <2>1, <2>3
      <3>2. played \in valid
        BY <2>1, <2>3, <3>1 DEF Between
      <3> QED
        BY <1>7, <3>2
    <2>4. CASE here \in Valid /\ next \notin Valid
      <3>1. left.range = here /\ right.range = NoReading /\ here # NoReading
        BY <1>3, <1>5, <2>1, <2>4
      <3>2. played \in valid
        BY <2>1, <2>4, <3>1 DEF Between
      <3> QED
        BY <1>7, <3>2
    <2>5. CASE here \in Valid /\ next \in Valid
      <3>1. left.range = here /\ right.range = next /\ here # NoReading /\ next # NoReading
        BY <1>3, <1>5, <2>1, <2>5
      <3>2. played = here + ((at - left.time) * (next - here)) \div (right.time - left.time)
        BY <2>1, <3>1 DEF Between
      <3>3. /\ here \in Int /\ next \in Int
            /\ at - left.time \in Int /\ right.time - left.time \in Int
            /\ 0 <= at - left.time /\ at - left.time < right.time - left.time
        <4>1. here \in Int /\ next \in Int
          BY <1>5, <2>5
        <4>2. /\ left.time \in Int /\ left.time <= at
              /\ right.time \in Int /\ right.time > at
          BY <1>1, <1>9
        <4> HIDE DEF left, right
        <4> QED
          BY <4>1, <4>2
      <3>4. /\ played \in Int
            /\ here <= played \/ next <= played
            /\ played <= here \/ played <= next
        <4> DEFINE step == at - left.time
                   span == right.time - left.time
        <4>1. /\ here \in Int /\ next \in Int /\ step \in Int /\ span \in Int
              /\ 0 <= step /\ step < span
          BY <3>3
        <4>2. played = here + (step * (next - here)) \div span
          BY <3>2
        <4> HIDE DEF step, span
        <4> QED
          BY <4>1, <4>2, OnTheLine
      <3>5. here \in valid /\ next \in valid
        BY <2>1, <2>5
      <3>6. /\ Min(valid) \in valid /\ Max(valid) \in valid
            /\ Min(valid) <= here /\ Min(valid) <= next /\ Max(valid) >= here /\ Max(valid) >= next
        BY <1>6, <3>5
      <3>7. valid \subseteq Valid
        BY <2>1
      <3>8. Min(valid) \in Valid /\ Max(valid) \in Int
        BY <1>5, <3>6, <3>7
      <3>9. /\ Min(valid) \in Int /\ Min(valid) >= MinimumValid /\ MinimumValid \in Nat
            /\ MinimumValid > 0
        BY <1>5, <3>8, ValidAssumption
      <3>10. PICK lo \in Int, hi \in Int : lo = Min(valid) /\ hi = Max(valid)
        BY <3>8, <3>9
      <3>11. /\ lo <= here /\ lo <= next /\ hi >= here /\ hi >= next /\ lo > 0
        BY <3>6, <3>9, <3>10
      <3>12. played \in lo .. hi
        BY <3>3, <3>4, <3>11, Enclosed
      <3>13. played # NoReading
        BY <3>11, <3>12 DEF NoReading
      <3>14. valid # {}
        BY <3>5
      <3> QED
        BY <3>10, <3>12, <3>13, <3>14, Zenon
    <2> QED
      BY <2>2, <2>3, <2>4, <2>5
  <1> QED
    BY <1>8, <1>9

-----------------------------------------------------------------------------
(* The replay node *)

\* What the constructor has accepted.
Accepted == Loads(source.rows) /\ source.offset < Last(LoadReplay(source.rows)).time

PlayWindow == WindowEnd(LoadReplay(source.rows)) - source.offset
Position(now) == IF source.loop THEN Playback(now) % PlayWindow ELSE Playback(now)

ReplayTypes ==
    /\ source \in Recordings /\ clock \in Nat /\ startTime \in Nat
    /\ replay \in {"off", "constructed", "failed"}
    /\ triggered \in BOOLEAN /\ matched \in BOOLEAN /\ heardAt \in Nat \cup {-1}

\* Only a constructed replay is matched or sends readings; the first goal heard is what
\* triggers it, and its time does not move again.
Triggering ==
    /\ matched => replay = "constructed"
    /\ heardAt # -1 => replay = "constructed"
    /\ replay = "constructed" =>
          /\ Accepted
          /\ source.trigger => IF triggered THEN heardAt = startTime ELSE heardAt = -1

\* What the timer sends when it is not silent.
Silent(now) ==
    ~triggered \/ now - startTime < source.delay \/ (~source.loop /\ Playback(now) > PlayWindow)
Said(now) == Sent(TRUE, RangeAt(LoadReplay(source.rows), source.offset + Position(now)), now)

\* The last readings sent are those of the time played.
Playing ==
    sent.active =>
        /\ replay = "constructed" /\ triggered
        /\ \E now \in Nat : ~Silent(now) /\ sent = Said(now)

ReplayInv == ReplayTypes /\ Triggering /\ Playing

\* What the timer would send at a time depends on the file and on the trigger alone.
LEMMA SameSaid ==
  ASSUME UNCHANGED <<source, startTime, triggered>>, NEW now
  PROVE  (Silent(now)' <=> Silent(now)) /\ Said(now)' = Said(now)
  <1>1. PlayWindow' = PlayWindow
    BY DEF PlayWindow, WindowEnd
  <1>2. Playback(now)' = Playback(now)
    BY DEF Playback
  <1>3. Position(now)' = Position(now)
    BY <1>1, <1>2 DEF Position
  <1>4. Silent(now)' <=> Silent(now)
    BY <1>1, <1>2 DEF Silent
  <1>5. Said(now)' = Said(now)
    BY <1>3 DEF Said, RangeAt, Between
  <1> QED
    BY <1>4, <1>5

\* Readings sent stay those of their time.
LEMMA PlayingKept ==
  ASSUME Playing, UNCHANGED <<replay, source, startTime, triggered, sent>>
  PROVE  Playing'
  <1> SUFFICES ASSUME sent.active
               PROVE  /\ replay' = "constructed" /\ triggered'
                      /\ \E now \in Nat : ~Silent(now)' /\ sent = Said(now)'
    BY Zenon DEF Playing
  <1>1. PICK now \in Nat : ~Silent(now) /\ sent = Said(now)
    BY DEF Playing
  <1>2. ~Silent(now)' /\ sent = Said(now)'
    BY <1>1, SameSaid
  <1> QED
    BY <1>2, Zenon DEF Playing

\* Steps that leave the replay node alone.
LEMMA ReplayLeft ==
  ASSUME ReplayInv, UNCHANGED <<replay, source, triggered, startTime, sent, matched, heardAt>>,
         clock' \in Nat
  PROVE  ReplayInv'
  <1>1. ReplayTypes' /\ Triggering'
    BY DEF ReplayInv, ReplayTypes, Triggering, Accepted
  <1>2. Playing'
    BY PlayingKept DEF ReplayInv
  <1> QED
    BY <1>1, <1>2 DEF ReplayInv

\* The constructor sends nothing.
LEMMA ReplayBegins == ReplayInv /\ ReplayConstructed => ReplayInv'
  <1> SUFFICES ASSUME ReplayInv, ReplayConstructed PROVE ReplayInv'
    OBVIOUS
  <1>1. /\ replay = "off" /\ source' = source /\ sent' = sent /\ clock' = clock
        /\ startTime' = clock /\ triggered' = ~source.trigger
        /\ matched' = matched /\ heardAt' = heardAt
        /\ replay' \in {"constructed", "failed"}
        /\ replay' = "constructed" => Accepted
    BY DEF ReplayConstructed, ReplayStarts, Accepted
  <1>2. ~sent.active /\ matched = FALSE /\ heardAt = -1
    BY <1>1 DEF ReplayInv, ReplayTypes, Triggering, Playing
  <1>3. ReplayTypes'
    BY <1>1 DEF ReplayInv, ReplayTypes
  <1>4. Accepted' <=> Accepted
    BY <1>1 DEF Accepted
  <1>5. source.trigger \in BOOLEAN
    BY DEF ReplayInv, ReplayTypes, Recordings
  <1>6. Triggering'
    BY <1>1, <1>2, <1>4, <1>5 DEF Triggering
  <1>7. Playing'
    BY <1>1, <1>2 DEF Playing
  <1> QED
    BY <1>3, <1>6, <1>7 DEF ReplayInv

\* A goal triggers the replay once; it has sent no readings before.
LEMMA ReplayHears == ReplayInv /\ RunnerPublishes => ReplayInv'
  <1> SUFFICES ASSUME ReplayInv, RunnerPublishes PROVE ReplayInv'
    OBVIOUS
  <1>1. clock' = clock /\ matched' = matched
    BY DEF RunnerPublishes
  <1>2. CASE matched /\ ReplayUp /\ source.trigger
    <2>1. /\ triggered' = TRUE /\ startTime' = (IF triggered THEN startTime ELSE clock)
          /\ replay' = replay /\ source' = source /\ sent' = sent
          /\ heardAt' = IF heardAt = -1 THEN clock ELSE heardAt
      BY <1>2 DEF RunnerPublishes, OnStartTrigger
    <2>2. replay = "constructed" /\ Accepted
      BY <1>2 DEF ReplayInv, Triggering
    <2>3. IF triggered THEN heardAt = startTime ELSE heardAt = -1
      BY <1>2, <2>2 DEF ReplayInv, Triggering
    <2>4. clock \in Nat /\ startTime \in Nat /\ clock # -1 /\ startTime # -1
      BY DEF ReplayInv, ReplayTypes
    <2>5. heardAt' = startTime'
      BY <2>1, <2>3, <2>4
    <2>6. ReplayTypes'
      BY <1>1, <2>1, <2>4 DEF ReplayInv, ReplayTypes
    <2>7. Triggering'
      BY <2>1, <2>2, <2>5 DEF Triggering, Accepted
    <2>8. Playing'
      <3>1. CASE triggered
        <4>1. startTime' = startTime
          BY <2>1, <3>1
        <4> QED
          BY <2>1, <3>1, <4>1, PlayingKept DEF ReplayInv
      <3>2. CASE ~triggered
        BY <2>1, <3>2 DEF ReplayInv, Playing
      <3> QED
        BY <3>1, <3>2
    <2> QED
      BY <2>6, <2>7, <2>8 DEF ReplayInv
  <1>3. CASE ~(matched /\ ReplayUp /\ source.trigger)
    <2>1. UNCHANGED <<replay, source, triggered, startTime, sent, matched, heardAt>>
      BY <1>3 DEF RunnerPublishes, replayVars
    <2>2. clock' \in Nat
      BY <1>1 DEF ReplayInv, ReplayTypes
    <2> QED
      BY <2>1, <2>2, ReplayLeft
  <1> QED
    BY <1>2, <1>3

\* The timer sends the readings of the time played, or none.
LEMMA ReplayPlays == ReplayInv /\ ReplayTimer => ReplayInv'
  <1> SUFFICES ASSUME ReplayInv, ReplayTimer PROVE ReplayInv'
    OBVIOUS
  <1>1. /\ UNCHANGED <<replay, source, triggered, startTime, matched, heardAt, clock>>
        /\ replay = "constructed"
    BY DEF ReplayTimer, PublishReplay, benchVars
  <1>2. ReplayTypes' /\ Triggering'
    BY <1>1 DEF ReplayInv, ReplayTypes, Triggering, Accepted
  <1>3. PICK now \in Nat : now = clock
    BY DEF ReplayInv, ReplayTypes
  <1>4. sent' = IF Silent(now) THEN Sent(FALSE, NoReading, now) ELSE Said(now)
    <2>1. sent' = IF Silent(clock) THEN Sent(FALSE, NoReading, clock) ELSE Said(clock)
      BY Zenon DEF ReplayTimer, PublishReplay, PlayWindow, Position, Silent, Said
    <2> QED
      BY <1>3, <2>1
  <1>5. Silent(now) => Playing'
    <2> SUFFICES ASSUME Silent(now) PROVE Playing'
      OBVIOUS
    <2>1. ~sent'.active
      BY <1>4 DEF Sent
    <2> QED
      BY <2>1, Zenon DEF Playing
  <1>6. ~Silent(now) => Playing'
    <2> SUFFICES ASSUME ~Silent(now) PROVE Playing'
      OBVIOUS
    <2>1. sent' = Said(now)
      BY <1>4
    <2>2. ~Silent(now)' /\ sent' = Said(now)'
      BY <1>1, <2>1, SameSaid
    <2>3. triggered' = triggered /\ triggered
      BY <1>1 DEF Silent
    <2>4. replay' = "constructed" /\ triggered'
      BY <1>1, <2>3
    <2> HIDE DEF Silent, Said
    <2>5. \E t \in Nat : ~Silent(t)' /\ sent' = Said(t)'
      BY <1>3, <2>2
    <2> QED
      BY <2>4, <2>5, Zenon DEF Playing
  <1> QED
    BY <1>2, <1>5, <1>6 DEF ReplayInv

\* Every step keeps the replay's invariant.
LEMMA ReplayStep == ReplayInv /\ [Next]_vars => ReplayInv'
  <1> SUFFICES ASSUME ReplayInv, [Next]_vars PROVE ReplayInv'
    OBVIOUS
  <1>1. clock \in Nat
    BY DEF ReplayInv, ReplayTypes
  <1>2. CASE Tick
    <2>1. UNCHANGED <<replay, source, triggered, startTime, sent, matched, heardAt>>
          /\ clock' \in Nat
      BY <1>1, <1>2 DEF Tick, replayVars
    <2> QED
      BY <2>1, ReplayLeft
  <1>3. CASE DrawEvents \/ ScenarioTimer
    <2>1. UNCHANGED <<replay, source, triggered, startTime, sent, matched, heardAt>>
          /\ clock' \in Nat
      BY <1>1, <1>3 DEF DrawEvents, ScenarioTimer, benchVars, replayVars
    <2> QED
      BY <2>1, ReplayLeft
  <1>4. CASE ReplayConstructed
    BY <1>4, ReplayBegins
  <1>5. CASE ReplayTimer
    BY <1>5, ReplayPlays
  <1>6. CASE RunnerPublishes
    BY <1>6, ReplayHears
  <1>7. CASE ReplayMatched
    <2>1. /\ UNCHANGED <<replay, source, triggered, startTime, sent, heardAt, clock>>
          /\ replay = "constructed" /\ matched' = TRUE
      BY <1>7 DEF ReplayMatched, replayVars
    <2>2. ReplayTypes' /\ Triggering'
      BY <2>1 DEF ReplayInv, ReplayTypes, Triggering, Accepted
    <2>3. Playing'
      BY <2>1, PlayingKept DEF ReplayInv
    <2> QED
      BY <2>2, <2>3 DEF ReplayInv
  <1>8. CASE TimerFires \/ RunnerConditionRaises \/ RunnerBegins \/ RunnerExits \/ Interrupted \/ ProcessesStop
    <2>1. UNCHANGED <<replay, source, triggered, startTime, sent, matched, heardAt>>
          /\ clock' \in Nat
      BY <1>1, <1>8 DEF TimerFires, RunnerConditionRaises, RunnerBegins, RunnerExits, Interrupted, ProcessesStop,
         replayVars
    <2> QED
      BY <2>1, ReplayLeft
  <1>9. CASE UNCHANGED vars
    <2>1. UNCHANGED <<replay, source, triggered, startTime, sent, matched, heardAt>>
          /\ clock' \in Nat
      BY <1>1, <1>9 DEF vars, benchVars, replayVars
    <2> QED
      BY <2>1, ReplayLeft
  <1> QED
    BY <1>2, <1>3, <1>4, <1>5, <1>6, <1>7, <1>8, <1>9, Zenon DEF Next

\* Before the replay is constructed it has neither heard nor sent anything.
LEMMA ReplayOff == Init => ReplayInv
  <1> SUFFICES ASSUME Init PROVE ReplayInv
    OBVIOUS
  <1>1. PICK bench \in Benches : args = bench.args /\ ReplayInit(bench.source)
    BY DEF Init
  <1>2. bench \in [args : LaunchArguments, scenario : Scenarios, source : Recordings]
    BY BenchAssumption
  <1>3. bench.source \in Recordings
    BY <1>2
  <1>4. clock = 0 /\ matched = FALSE /\ heardAt = -1
    BY DEF Init
  <1>5. /\ source \in Recordings /\ replay = "off" /\ triggered = FALSE /\ startTime = 0
        /\ ~sent.active
    BY <1>1, <1>3 DEF ReplayInit
  <1> QED
    BY <1>4, <1>5 DEF ReplayInv, ReplayTypes, Triggering, Playing

\* The window of an accepted recording is not empty.
LEMMA WindowOpen ==
  ASSUME source \in Recordings, Accepted
  PROVE  /\ PlayWindow \in Int /\ PlayWindow > 0
         /\ source.rows \in Rows /\ TimesOf(source.rows) # {}
  <1> DEFINE rows == source.rows
             S == TimesOf(rows)
             n == Cardinality(S)
             order == InOrder(S)
             last == Last(LoadReplay(rows)).time
             end == source.offset + source.duration
  <1>1. rows \in Rows /\ source.offset \in Nat /\ source.duration \in Nat
    BY DEF Recordings, Rows
  <1>2. n >= 2 /\ source.offset < last
    BY DEF Accepted, Loads
  <1>3. S # {}
    <2>1. Cardinality({}) = 0
      BY FS_EmptySet
    <2> QED
      BY <1>2, <2>1
  <1>4. /\ n \in Nat /\ n >= 1 /\ Len(LoadReplay(rows)) = n
        /\ order \in [1 .. n -> S]
        /\ \A i \in 1 .. n : LoadReplay(rows)[i].time = order[i] - order[1]
    BY <1>1, <1>3, Table
  <1>5. S \subseteq Nat
    BY <1>1, TimesFinite
  <1>6. last = order[n] - order[1] /\ last \in Int
    <2> HIDE DEF n, order, rows, S
    <2>1. n \in 1 .. n /\ 1 \in 1 .. n
      BY <1>4
    <2>2. order[n] \in Nat /\ order[1] \in Nat
      BY <1>4, <1>5, <2>1
    <2>3. last = order[n] - order[1]
      BY <1>4, <2>1 DEF Last
    <2> QED
      BY <2>2, <2>3
  <1> HIDE DEF last
  <1>7. CASE source.duration > 0
    <2>1. {end, last} \subseteq Int /\ {end, last} # {}
      BY <1>1, <1>6
    <2> HIDE DEF end
    <2>2. IsFiniteSet({end} \cup {last})
      BY FS_Singleton, FS_AddElement
    <2>3. {end, last} = {end} \cup {last}
      OBVIOUS
    <2>4. IsFiniteSet({end, last})
      BY <2>2, <2>3
    <2>5. Min({end, last}) \in {end, last}
      BY <2>1, <2>4, Extremes
    <2>6. Min({end, last}) \in Int /\ Min({end, last}) > source.offset
      BY <1>1, <1>2, <1>6, <1>7, <2>5 DEF end
    <2>7. WindowEnd(LoadReplay(rows)) = Min({end, last})
      BY <1>7 DEF WindowEnd, last, end
    <2> QED
      BY <1>1, <1>3, <2>6, <2>7 DEF PlayWindow
  <1>8. CASE ~(source.duration > 0)
    <2>1. WindowEnd(LoadReplay(rows)) = last
      BY <1>8 DEF WindowEnd, last
    <2> QED
      BY <1>1, <1>2, <1>3, <1>6, <2>1 DEF PlayWindow
  <1> QED
    BY <1>7, <1>8

\* A replay that keeps the invariant follows the goal.
LEMMA InvFollows == ReplayInv => ReplayFollowsGoal
  <1> SUFFICES ASSUME ReplayInv, sent.active PROVE ReplayFollowsGoal
    BY DEF ReplayFollowsGoal
  <1>1. PICK now \in Nat : ~Silent(now) /\ sent = Said(now)
    BY DEF ReplayInv, Playing
  <1> DEFINE begun == IF source.trigger THEN heardAt ELSE startTime
             played == (sent.at - begun - source.delay) * source.rate
             at == IF source.loop THEN played % PlayWindow ELSE played
             rows == source.rows
             valid == About(source.offset + at) \cap MinimumValid .. MaximumValid
  <1>2. replay = "constructed" /\ triggered
    BY DEF ReplayInv, Playing
  <1>3. source \in Recordings /\ startTime \in Nat
    BY DEF ReplayInv, ReplayTypes
  <1>4. /\ source.offset \in Nat /\ source.delay \in Nat /\ source.rate \in Nat
        /\ source.trigger \in BOOLEAN /\ source.loop \in BOOLEAN /\ source.interpolate \in BOOLEAN
    BY <1>3 DEF Recordings
  <1>5. /\ PlayWindow \in Int /\ PlayWindow > 0
        /\ rows \in Rows /\ TimesOf(rows) # {}
    BY <1>2, <1>3, WindowOpen DEF ReplayInv, Triggering
  <1>6. begun = startTime /\ (source.trigger => heardAt # -1)
    BY <1>2, <1>3 DEF ReplayInv, Triggering
  <1>7. sent.at = now
    BY <1>1 DEF Said, Sent
  <1>8. played = Playback(now)
    BY <1>6, <1>7 DEF Playback
  <1>9. played \in Nat
    <2>1. now - startTime - source.delay \in Nat
      BY <1>1, <1>3, <1>4 DEF Silent
    <2>2. \A x, y \in Nat : x * y \in Nat
      OBVIOUS
    <2> QED
      BY <1>4, <1>8, <2>1, <2>2 DEF Playback
  <1>10. source.loop \/ played <= PlayWindow
    BY <1>1, <1>5, <1>8, <1>9 DEF Silent
  <1>11. Position(now) = at
    BY <1>8 DEF Position
  <1> HIDE DEF played
  <1>12. at \in Nat
    BY <1>5, <1>9
  <1>13. sent.range \in IF valid = {} THEN {InactiveRange} ELSE Min(valid) .. Max(valid)
    <2> DEFINE said == RangeAt(LoadReplay(rows), source.offset + at)
    <2>1. source.offset + at \in Nat
      BY <1>4, <1>12
    <2> HIDE DEF at
    <2>2. IF valid = {} THEN said = NoReading
          ELSE said # NoReading /\ said \in Min(valid) .. Max(valid)
      BY <1>4, <1>5, <2>1, AboutReading
    <2>3. sent.range = IF said # NoReading THEN said ELSE InactiveRange
      BY <1>1, <1>11 DEF Said, Sent
    <2> HIDE DEF said, valid, rows
    <2> QED
      BY <2>2, <2>3
  <1> HIDE DEF begun, at, valid
  <1>15. played >= 0
    BY <1>9
  <1> QED
    BY <1>6, <1>10, <1>13, <1>15 DEF ReplayFollowsGoal, PlayWindow, played, begun, at, valid

\* A replay that waits for a goal is silent until it has heard one, and from then on sends
\* the readings the recording has at the time since that first goal, whatever the recording,
\* its window, rate and delay, and however many goals follow.
THEOREM ReplayFollows == Spec => []ReplayFollowsGoal
  <1>1. Init => ReplayInv
    BY ReplayOff
  <1>2. ReplayInv /\ [Next]_vars => ReplayInv'
    BY ReplayStep
  <1>3. ReplayInv => ReplayFollowsGoal
    BY InvFollows
  <1> QED
    BY <1>1, <1>2, <1>3, PTL DEF Spec

================================================================================
