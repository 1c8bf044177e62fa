# TLA+ models of the RB10 RMPflow stack

This directory holds TLA+ modules of `dudqls10/RMP_prox`: the TCP client of the
RB10 control box, the two programs that own one, the control loop that feeds it,
and around that loop the scripts that give it goals, the nodes that give it
obstacles, the logger that records it, the Python bridge that replaces the client,
and the launch files that decide which of them run together. TLC checks the
modules on small instances; TLAPS proves the most important results for every
value of the constants.

    tlc -workers 2 -config Backend.cfg MCDirectRb10Backend
    tlapm DirectRb10BackendProofs.tla

## 1. The system

A robot arm (RB10) is driven by reactive motion policies. One process, the
controller node, reads the robot's joint state, solves for an acceleration every
tick, integrates it and sends a position (`move_servo_j`) or velocity
(`move_speed_j`) command. The command reaches the robot in one of two ways: over
a TCP client inside the controller (`DirectRb10Backend`), or as a ROS message to a
separate bridge node that owns the client.

| Part | State | Operations | Talks to | What is hard |
|---|---|---|---|---|
| `Rb10SocketClient` | `connected_`, `running_`, the pending-acknowledgement flag, two sockets, three threads | `connect`, `disconnect`, text and stream sends, shutdown sequence, three loops | robot (two sockets); owner's state callback on the data thread | an answer that comes late, merged with others or never; failure on any thread; joins |
| `DirectRb10Backend` | one-slot mailbox, servo thread, safety flag, startup gate | constructor, `apply_command`, `servo_command_loop`, `on_state`, destructor | control thread above, client below | four threads; the safety flag is checked long before the write; shutdown with a command in flight |
| `Rb10DirectBridgeNode` | safety flag, startup gate | constructor, `command_callback`, `handle_robot_state`, `shutdown_bridge` | ROS topics, client | executor thread against data thread |
| Controller loop | active flag, goal box and its two flags, last safe command, virtual state | the tick; `on_rmp_flag`, `on_goal`, `on_goal_pose`, `on_obstacles` | backend; ROS topics | callbacks change what the tick has already read |
| Tangent escape | phase, active pair, direction, ramps, failure memory | one update per solve | solver (metric and force) | episodes over many ticks; pairs that vanish, rival or come back in each phase of a handoff |
| Energy tank | stored energy | one update per solve | solver | bounds at empty and full |
| Flag and goal bridge | active flag, last goal, forwarding delay | three callbacks | controller (goal, commands) | two topics without mutual order |
| Experiment runner | the pose it has last received, the run it is in | menu, single runs, trajectories, `--stop`; goal, settling, timeout and `finally` clauses | controller (goal, flag), recorder (services) | it receives only where it spins; a service answer after its timeout; an error at any step |
| Data recorder | recording flag, open file, latest samples | `~/start`, `~/stop`, sample callbacks, row timer | runner | requests executed after their caller has given up |
| Smaller goal scripts | current step, received poses | steps, waits, one-shot publications | interactive marker | the same |
| Proximity bridge | last range of each sensor, enablement, the flag | range, flag and parameter callbacks, timer | cloud bridge or controller | ranges never expire; one clear message only |
| Camera nodes, cloud bridge | latest cloud, latest array of every other source, what has been shown | cloud, image and array callbacks, timer | controller, RViz, logger | what must be taken back when nothing is seen any more; staleness |
| Trace logger | last message of each topic, marker dictionary, header | one callback per topic, row timer | reads everything | arrays of any length; columns against a fixed header |
| Python API bridge | the API's connection flags, the last command; signal flags | command callback, timer, signal handler, stop sequence | robot through `scripts/api/cobot.py` | three daemon threads share module globals; a handler runs inside a callback |
| Start pose script | deadline | one blocking move, then a settling loop | robot through the same API | two snapshots taken at different times |
| Fake sensors | scenario or recording, start time | timers, trigger | proximity bridge | timing relative to a first goal; a bag refilled while drawing |
| Launch files | arguments | conditions, a delayed runner, an exit handler | start everything | rival processes; who ends the run |
| Adapter, marker, obstacle manager, visualisers | a few fields each | message callbacks | controller | little that is concurrent |
| Solvers, leaves, learning interface | numeric | pure computations | controller | real arithmetic |
| Plots and analysis scripts, tests | none at run time | | | |

What makes each of the modelled parts correct:

* client: the robot never owes more answers than the sends that did not wait
  account for; the shutdown sequence stops the robot or fails as a whole;
* backend and bridge: no command enters while a safety stop is recorded, only a
  bounded number leaves afterwards, commands keep their order, nothing moves after
  the robot has been told to halt, destruction ends, and the startup move is not
  disturbed;
* controller: deactivation takes hold, the solver never runs for a goal nobody
  sent, the goal somebody sent is kept, and the pose held by the min-Z safety is
  a safe one;
* runner and recorder: a recorded run is recorded from start to end and nothing
  else is in its file, a stopped system is down, a goal is called reached only
  when the arm was there lately, and a bounded command ends;
* obstacle path: the controller avoids what the sensors see, not what they saw too
  long ago, whatever is lost, relayed or restarted on the way; the log records what the
  controller avoids, and no message ends the logger;
* tangent escape: the pair or direction is exchanged only while its metric has no
  effect, no episode engages or drives on with a pair that no longer blocks, what failed weighs on one episode only,
  and handoffs and episodes end;
* Python bridge and start pose script: behind the stop comes at most the one command
  the signal interrupted, no target is far from a position the robot has reported,
  "reached" was seen in the last look, and the process ends;
* launch files and fake sensors: two processes command one thing only in the known
  cases, the entries of a series are drawn evenly, a replay keeps its time, a fixed run
  ends.

The complete list of components, with what is left out and why, is in
`PROJECT.json` (`components`), the list of what is hard to test in `hazards`.

## 2. Modules

| Module | Models | Lines of code behind it |
|---|---|---|
| `CommandGate` | abstract: what both command paths promise | none; it is a promise |
| `Rb10SocketClient` | the client: state and one action per step | `rb10_socket_client.cpp` |
| `DirectRb10Backend` | extends the client with the controller's backend | class `DirectRb10Backend` of `rmpflow_controller_node.cpp` |
| `Rb10DirectBridge` | extends the client with the bridge node | `rb10_direct_bridge_node.cpp` |
| `RmpflowController` | control loop and its callbacks | `control_loop`, `on_rmp_flag`, `on_goal*`, min-Z helpers |
| `TangentEscape` | the escape supervisor, in both acceleration models | `accumulate_tangent_escape_impl` of `tangent_escape_canonical.cpp` |
| `ExperimentBench` | arm, goal and flag topics, the pose subscription with its queue | the publishers and `spin_once` calls of the scripts; the arm is external |
| `RmpDataRecorder` | the recorder node | `rmp_data_recorder.py` |
| `ExperimentGoalRunner` | the runner, extends the two | `experiment_goal_runner.py` |
| `GoalScripts` | the smaller scripts on the same bench | `run_tuning_scenario.py`, `goal_cli.py`, `capture_goal_from_ee_pose.py` |
| `ExperimentSession` | composes the four; properties | |
| `MarkerConsumers` | what controller, RViz and logger keep of a marker array | `on_obstacles` of the controller, `_on_obstacles` of the logger |
| `ProximityObstacleBridge` | the proximity bridge | `proximity_obstacle_bridge.cpp` |
| `CameraBodySphereCloudBridge`, `CameraObstacleFeature`, `MediapipePoseObstacle` | the camera nodes | the scripts of these names |
| `TraceLogger` | the trace logger | `rmpflow_trace_logger.py` |
| `ObstaclePipeline` | composes the six in five set-ups; properties | |
| `CobotApi` | the vendor API's connection, threads and sends | `scripts/api/cobot.py` |
| `Rb10ApiBridge`, `MoveToStartPose` | its two users | `rb10_api_bridge.py`, `move_to_saved_start_pose.py` |
| `ApiSession` | one of the users with the API's threads and signals; properties | |
| `FakeProximityScenario`, `FakeProximityCsvReplay` | the fake sensors | `fake_proximity_scenario.py`, `fake_proximity_scenario_v2.py` |
| `LaunchFiles` | which processes a launch file starts and what they write to | `launch/*.launch.py` |
| `LaunchBench` | a launch file, its processes, its stimulus and its runner; properties | |
| `MC...` | parameter sets for TLC | launch arguments, command lines, scenarios |
| `...Proofs` | theorems | |

`Rb10SocketClient` has no `Next` of its own. Its actions leave open who calls
(`BeginStream(c)`, `WriteStream(c)`) and what a state packet does; the two
modules that extend it decide.

### Correspondence

An action is one step between two points where another thread may run: an atomic
load or store, a critical section, a socket call. The position of each thread is
a variable:

* `main` - constructor and destructor (in the bridge also the executor);
* `control`, `servo`, `dataReader`, `cmdReader`, `requester` - the threads, where
  `dataReader` also says how far the state callback is;
* `sender[c]` - how far a caller is inside `send_servoj_degrees` or
  `send_speedj_degrees_per_sec`: waiting for the acknowledgement (`await`), between the
  wait and the write (`write`), between a failed write and the clean-up
  (`failed`);
* in the controller, `control` and `executor`;
* `pc` in the runner and in the Python bridge, `at` in the goal scripts, `mover` in
  the start pose script.

In the nodes with one executor thread (cloud bridge, camera nodes, logger,
recorder, fake sensors) an action is a whole callback: nothing can run inside it.
The runner is split where it spins, because only there can another callback run
in it. The Python bridge is split at every statement after which the signal
handler or a daemon thread can make a difference.

In `TangentEscape` an action is one call of `accumulate_tangent_escape_impl`. The call
is a sequence of stages, each an operator that gives the states it may leave:
entry from Off (`Entered`), letting go of a lost pair (`Kept`), requests for another pair
or for release (`Asked`), the clock and the phases (`Advanced`), and the monitor that
finds a direction failing (`Monitored`). `escape` is `TangentEscapeCanonicalState`.

Other variables carry the name of the member they stand for, and a comment where
the name differs. Variables marked "history" are not in the code; no guard
reads them.

### Abstractions

* A command is its number; a text of the shutdown sequence is its position; a
  state packet is the answer to two questions, "safety stop?" and "home pose?",
  each chosen freely; a pose is above or below the min-Z bounds.
* The 50 ms wait has no clock: it may time out whenever its predicate is
  false. The startup deadline passes by an action of its own, once it has been
  set; `packetLate` is the clock reading `on_state` takes at its start.
* One successful `recv` on the command socket answers any positive number of
  outstanding commands.
* A write either succeeds, fails and records the disconnection, or, while the
  robot has stopped reading (`stalled`), does not return.
* `DirectRb10Backend::ready()` is one step: none of its three flags has an effect
  on the wire that the order of the three loads could change.
* The client's `connect` is one step. The state callback may run from then on,
  before the constructor has gone any further.
* In the controller the solver's result, thrown exceptions included, is any
  pose. `apply_command_guard` either leaves the command alone or yields any pose,
  because it limits each joint separately and, in velocity mode, recomputes the
  pose from the measured one.
* `on_goal` and `on_goal_pose` differ in the orientation only, which is left out.
* The arm behind the goal scripts is external: while the flag is up it may go to any
  position. A row of a recording is the moment it was written in: inside or outside
  a run.
* A marker is its key (namespace and id) and its age. Ages are counted in periods of
  the cloud bridge's timer; an image is what the detection finds in it.
* A column group of the logger is empty or filled; a data array is its schema and how
  many records it announces and carries.
* A robot position stands for six joints; a read of it is split into the first and
  the others, which is where two frames can mix. The control box sends any of a few
  frames, acknowledges or not, and the link may go down.
* The escape's numbers are seen through the tests made of them. Blockage is a step
  between none and full; `lambda` is out, on a ramp or full; a direction is a model
  value, and which one scores best, whether one is still tangent, whether a sector is
  critical, whether the goal comes closer, whether the tangent speed has come down and
  whether a direction fails is any choice, unless the same solve has just decided it. Goal
  changes are an input. `drive_ramp`, `release_brake`, `z`, the score and
  `force_direction_change` only weigh on these numbers and are left out. When all is
  calm (`Calms`: nothing sensed, arm and goal at rest) braking has succeeded.
* A process of a launch file is a name and the topics or sockets it writes to.
  Processes that write to none of them are named only where a launch file always starts
  them. An argument that switches something is a word, told apart by what the two kinds of
  conditions make of it: a `PythonExpression` compares it with `"true"`, `IfCondition`
  strips it, lowers its case, takes `1` as true and `0` as false, and raises on anything that is
  no word of truth, which shuts the launch down wherever it has got.

## 3. Runs

| Run | Instance | Shows |
|---|---|---|
| `backend` | 4 commands in position mode, bare shutdown; 1 command as launched: velocity mode, startup move, halting shutdown; a robot that may stall | types; the gate is implemented, commands in order, answers bounded; the destructor ends; nothing after the halt; the fallback text is never written |
| `backend_startup_gate` | the launch defaults | **violation**: the startup gate opens before home or timeout |
| `direct_bridge` | 2 messages, both command modes and shutdown settings | the same gate with one slot |
| `bridge_publication_gate` | the launch defaults | **violation**: joint states are published before home or timeout |
| `controller_loop` | 2 goals, 4 flag changes, both gates, both command modes | standby budget, goals, remembered pose, hold |
| `controller_goal_lost` | 1 goal, no flag gate | **violation**: the startup pose replaces a goal from outside |
| `controller_held_pose` | no messages, position mode | **violation**: the held pose may be below the bounds |
| `experiment_session` | every mode of the runner with a recorder that answers late or never, and every smaller script | datasets, flag, "reached" and the end of a command |
| `obstacle_pipeline` | five set-ups: merge (with and without the gate), relay, feature, pose, log | freshness, clearing, ghosts, the log |
| `api_session` | the bridge in both command modes, stopping by halt or by pause or not at all, or the start pose script | last command, near targets, "reached", the end |
| `launch_bench` | the twelve launch files with the words their switches can be given and both topic names, 12 scenarios, 7 recordings: 1994 initial states | rivals, draws, replay time, the end of the run |
| `tangent_escape` | both acceleration models, 2 pairs, 2 directions | exchanges at zero effect, release, memory, bounded reselects, the end of an episode |

### Bounds

* Commands (`commands` of a backend configuration, `MaxCommands` of the bridge): a
  command can be in three places (past the safety check, in the mailbox, in the servo
  thread). Three late commands need three; a fourth lets one arrive after the mailbox
  has been overwritten. In the configuration of the launch files one command is enough
  to be caught by the destructor in any of the places. In the bridge the executor holds
  one at a time; a second lets a late answer to the first acknowledge it.
* `MaxGoals`: the second goal replaces the first while the first is being
  solved for. `MaxFlags`: two complete deactivations, so one can meet the leftovers of
  another.
* The counters `unanswered` and `excused` need no bound: each is bounded by the
  commands, the texts of the constructor and the six of the shutdown.
* `CanStall` is off in the bridge and in the startup gate run, which check no liveness: a
  stall only removes steps.
* Goal runner: `MaxRuns = 2`, so the second run can meet what the first has given
  up on; `MaxRequests = 2` requests of each service can wait; `Depth = 1` poses wait
  in the subscription, and the oldest falls out; the period bounds
  (`MaxPeriods`, `HoldPeriods`, `Settle`) are one, a trajectory has two poses and a
  scenario three steps.
* Obstacles: one proximity sensor, `MaxSpheres = 1`, `Stride = 2` and a cloud whose NaN
  is dropped before the points are counted and whose infinite point after, which leaves two
  markers where one fits; `Stale = 1` period is the least that separates fresh, stale and one
  late; `MaxTopics = 3` topics of the logger have been heard at a time, enough for
  each pair that shares a column; at most two landmarks, one on each side of the core.
* Python bridge: positions 0, 1, 2 with `MaxStep = 1`: two positions are farther
  apart than a step.
* Launch bench: `Horizon = 7` timer periods pass the end of each scenario and the
  end or the second round of each recording; three goals, so one comes before and
  one after the replay's delay.
* Tangent escape: two pairs, so that one can be replaced by the other or by itself; two
  directions, so that one can have failed; blockages 0 to 4 with entry at 3, release
  below 2 and a margin of 1, so that a pair can be let go before it is out of sight and
  outrivalled inside and outside the margin; ramps of 2 solves have an inside, the brake
  timeout (3) is longer than a handoff, as in the code, and `MinDriveTicks = 4` longer
  than either.
* The only controller state that outlives a deactivation by design is the goal and its two
  flags, which never fall again; a third deactivation starts from a state the
  second has already started from.

### Mutants

Some modules define a second form of an operator just before it
(`AckPredicateIgnoresPending`, `PendingNotReset`, `SafetyIgnored`, `BoxLast`, ...). No action uses
it. It is what a plausible slip in the code would make of the operator, and
`PROJECT.json` (`mutants`) names the property of a run that fails when the
operator is replaced by it: that is the evidence that the property can fail.

### Fairness

`DirectRb10Backend!FairSpec` asks of the operating system that a thread which
can run does: the destructor, the servo thread, a state callback that has begun,
and the three client loops once `running_` is false (their sockets have been shut
down, so no `recv` blocks). It asks nothing of the robot, the network, the control
loop or the decision to destroy. A socket call is fair only while it cannot
fail by itself, hence `ConnectionKept`. `DestructorEnds` therefore has the
exception the code has: `send_all` retries without limit, and a robot that keeps
the connection and stops reading holds the destructor for ever.

`ExperimentSession!Spec` asks that the one script goes on: every wait in it has a
deadline. It asks nothing of the recorder, the controller or the operator. A
streamed command has no bound and is left out of `SessionEnds`.

`ObstaclePipeline!Spec` asks that the executors of cloud bridge and controller
serve what is ready and that time passes; nothing of the sensors. `Tick` assumes
that a timer fires once per period and that a sent array is received
within the next one.

`ApiSession!Spec` asks that the main thread goes on and that deadlines pass;
nothing of the daemon threads, the link or the control box.

`LaunchBench!Spec` asks that the runner's process goes on and that a launch that is
shutting down stops its processes, which `launch` does with signals of increasing
force.

`TangentEscape!EscapeFairSpec` asks that the solver is called again and again, which the
control loop does once per tick while the flag is up and a goal is set; a loop that
stands by keeps the escape as it is. `EscapeEnds` further assumes nothing: it starts
from the moment when all is calm.

`RmpflowController!FairSpec` asks that the control thread wakes from its
`sleep_until` again and again. Nobody owes it a message.

## 4. Proofs

All theorems assume only the named assumptions on the constants (`ClientAssumption`,
`BackendAssumption`, `BridgeAssumption`, `ControllerAssumption`, `EscapeAssumption`,
`BenchAssumption`, `ValidAssumption`, `RunnerAssumption`, `ScriptsAssumption`, `CloudAssumption`,
`ProximityAssumption`, `FeatureAssumption`, `LoggerAssumption`, `PipelineAssumption`,
`ApiAssumption`, `ApiBridgeAssumption`, `FramesAssumption`: natural numbers, Booleans
and sets of configurations, positions, sensors, images, frames and benches), so they hold
for any number of commands, messages and runs and any parameter set. Four say a
little more: `BenchAssumption` takes scenarios, recordings and arguments with the types
their constructors and launch files give them (`Scenarios`, `Recordings`,
`LaunchArguments`: a period, a rate and the sensors per event are positive and a scenario
names some sensor), `EscapeAssumption` orders the thresholds as the defaults are ordered
and takes the failure memory to hold every axis, `RunnerAssumption` takes what
`load_pose_file` and `resolve_trajectory` accept, and `LoggerAssumption` has "other" among the ablation groups
and only arrays of the topics the logger subscribes to.

* `CommandPathProofs`
  - `GateInvariant`, `GateBound`: whatever implements the gate lets at most `Slots`
    commands out after a closing. The inductive form (`LateBudget`) counts those that
    have left together with those that still can.
  - lemmas about the client that both owners cite: every step of it keeps its types
    (`ClientTypeStep`), its flow budget (`FlowBudgetStep`) and the shutdown sequence's
    invariant (`SequenceStep`). `FlowControl` is not inductive: a caller between the
    wait and the write has set the pending flag for an answer that is not owed yet.
    `FlowBudget` counts it.
* `DirectRb10BackendProofs`
  - `Typing`: `[]TypeOK`.
  - `FlowControlHolds`: `[]FlowControl`, from `FlowBudget` and the fact that the
    servo thread and the destructor never wait at the same time.
  - `FallbackUnreachable`: a text that fails has recorded the
    disconnection, and nothing sets `connected_` again.
  - `SendsOrdered`: the number in the servo thread and the one in the mailbox lie
    between the last written and the last admitted.
  - `NothingAfterHalt`: from `Phases`, which ties the position of the destructor to
    those of the other threads: past the first join there is no control thread,
    past the second no servo thread.
  - `GateImplemented`: every step of the backend is a step of `CommandGate` or a
    stutter under `credit` = commands in the three places, `late` = commands
    written since the safety stop was recorded.
  - `StopBudgetHolds`: the bound follows from it and `GateBound`.
* `Rb10DirectBridgeProofs`
  - `BridgeTyping`, `BridgeFlowControl`: from the client's lemmas and `StageInv`, which
    ties the place of the one executor to the stage of its send: outside a
    command callback and the shutdown sequence it is in no send, so `FlowBudget` has
    one caller.
  - `BridgeImplementsGate`: the bridge implements `CommandGate` with a single
    slot, the executor itself. `OpenInv` says that nothing late is counted
    while no safety stop is recorded, which a closing of the gate needs.
* `RmpflowControllerProofs`, first part: the control loop
  - `LoopTyping`: `[]TypeOK`, with `TickReady`: a tick past its first check has read
    a backend that was ready.
  - `StandbyBudgetHolds`: `Budget` counts with the commands applied since the
    deactivation the one a tick past the gate may still apply; only a tick that has
    read the flag up passes the gate.
  - `ExternalGoalSolved`: `Announced`. With the flag gate a raised (or about to be
    raised) goal flag implies a goal from outside in the box, and a tick past the goal
    gate has seen the flag; so it never reaches the statement that
    puts the startup pose into the box. Without the gate it does, which is the
    finding `GoalKept`.
  - `UngatedHoldSafeHolds`: `Remembered`. A tick that has made both min-Z checks
    carries a command above the bounds until the guard changes it.
* `RmpflowControllerProofs`, second part: the escape supervisor (`EscapeSpec`), which the
  control loop's solver calls. The inductive invariant is `EscapeInv`. `Sound` says of the
  escape state that a pair, with an axis, is latched exactly while an episode
  runs (`Latched`) and that the ramp fits the phase and its clock (`Ramped`). `SpentInv`
  adds that the solves spent in a reselect are no more than its phases so far may take.
  A solve is a chain of stages (`Entered`, `Kept`, `Asked`, the clock, `Advanced`,
  `Monitored`); each stage has a lemma that says what it hands to the next, and each
  theorem follows from the chain of these lemmas.
  - `EscapeTyping`, for any number of pairs and axes and any lengths of ramps.
  - `SwapsAtZero`: an exchange is made by entry, by a handoff and by a lost pair, and
    each of them starts from, or ends at, no effect; the effect jumps only at an entry or a
    loss of the risk-damped model.
  - `UnblockedReleased`: in risk-damped acceleration `Kept` lets every pair go that no longer
    blocks, and whatever the later stages latch blocks (`Blocking`). In the other model the
    pair may stay while it is faded out; there `AskedBlocks` shows that an engaging or driving
    pair below the release threshold is turned to a release or a reselect in the same
    solve, and `Renewed` that a handoff engages anew only on a pair above the entry threshold.
  - `MemoryHolds`: the memory is cleared wherever the pair is exchanged, and written only
    in the reselect of the pair that is active.
  - `ReselectEnds`: by `SpentInv`.
* `ObstaclePipelineProofs` - `PipelineInv` follows a marker from the bridges (`raw`,
  `extra`) over the array on its way (`obstacles`) to the controller. What holds of the
  controller's obstacles holds because the array that brought them had it, and because a
  timer that publishes nothing finds the controller empty (`FreshInv`): that is what
  makes `publish_empty_when_stale` unnecessary after the first empty message. Each
  of its parts is disturbed by few steps; `Upstream` and `QuietSteps` name the others.
  - `ObstaclesFresh`: `FreshInv`.
  - `CloudSurvives`: `CloudInv`. A fresh cloud is in the array on its way or, when there
    is none, with the controller.
  - `FlagClears`: `GateInv` bounds by the age of the bridge's copy how long
    after the fall of the flag each of the four places may still have a proximity obstacle.
  - `ImagesCleared`: `GhostInv`. What the image nodes remember to clear covers what
    RViz and the controller have.
  - `LogCovers`: `CoverInv`. Without the gate no message undoes its own markers
    (`Coherent`). `EditedCovers` then finds for everything a message adds the last marker
    of its key (`LastIndex`, a least element), which the store keeps.
  - `LoggerGoesOn`: `RowInHeader`, column group by column group.
* `ExperimentSessionProofs`
  - `StopHolds`: `ZeroInv`. After a zero flag the runner is at the flag loops, the menu or
    its end, and none of these publishes; a subscription can match late only while the
    runner is still there.
  - `DatasetsPure`, `RunsRecorded`: `Calls` says of every queued request whether
    somebody waits for it (then it is the last of its queue, unanswered, and the runner
    stands at that call) or not (then it is in `strayed`). `RecordInv` adds that an
    answered stop has closed the file and an answered start has opened it, unless a
    strayed call came in between. `DatasetsArePure` alone is not inductive: the
    moment between the answer and the runner taking it is missing in it.
  - `ReachedRecently` (the action property `ReachedIsRecent`): `QueueInv`. The queue is
    the end of the list of published poses, and once it is empty the script has the very
    last one; so a spin that has something to receive and one that has not both leave the
    script with a pose of the last `Depth + 1`. `GoalInv` and `ScriptInv` say that the goal
    being pursued is a position and not yet reported as reached.
* `ApiSessionProofs`
  - `StopIsLast`: `HaltInv`. A connection that stands lets no send fail, so the
    second stop is followed by the opposite one only on a broken connection, and a
    connection once broken is never restored. After the handler the node is not attached, so
    no callback begins: only the interrupted one can still send, and only once.
  - `TargetsNear`: `StatInv` (what `systemstat_global` holds has been reported) and
    `Gathered`: the joints read so far were reported for the source in use, and
    how many they are follows from the place of the callback (`Doing`), also while
    the signal handler interrupts it. `ClampNear` is the arithmetic of the clamp.
  - `ReachedSeen`: `SeenInv`. `seen` collects what the API has held since the current look
    began, and a new look empties it, so what is compared was read in this look
    and not in an earlier one.
* `LaunchBenchProofs`
  - `RivalsKnownRun`: `LaunchInv`. No step adds a process but the timer, and what it adds
    writes the goal and the flag only. A lemma for each launch file says that it
    names one process per channel (`RmpflowSole` and its like) where the arguments are not
    among the named cases, and what a file adds to the one it includes writes elsewhere
    (`Joined`). In the named cases the two processes are shown to be there. The arguments are
    any words and any two topic names.
  - `DrawsEven`: `DrawInv`. The draws come in rounds: every entry of the list has been drawn the
    same number of times, those no longer in the bag once more (`Rounds`). Refilling an
    empty bag starts the next round, also in the middle of an event; adding the event moves
    its draws from `selected` into `events` and changes no count (`EventKeepsDraws`).
    `DrawsAreEven` alone is not inductive: it does not say which entries the bag has left.
  - `ReplayFollows`: `ReplayInv`. What was sent last is what the file says at some time of
    a constructed, triggered replay (`Playing`), and the start time is when the first goal
    was heard and stays so (`Triggering`). That the code's search over the sorted rows finds
    the latest row of the file is `LatestReading`. It rests on `OrderExists`: a finite set
    of numbers has an increasing order, the place of a time being the number of times up
    to it. `WindowOpen` shows that an accepted recording leaves a positive window to
    repeat. An interpolated reading lies between those of the rows about the time, or is the
    valid one of them (`AboutReading`).

Only model-checked:

* the liveness properties (`DestructorEnds`, `HoldFollowsStandby`, `SessionEnds`,
  `ObstaclesExpire`, `ClientEnds`, `FixedRunEnds`, `EscapeEnds`), which are out of the
  prover's reach;
* that `Edited`, the closed form of a marker store after a message, is what taking
  its markers one by one gives (`EditedInOrder`, evaluated by TLC on all messages of up to
  three markers): an induction over the message. The proofs use the closed form.

Every other property of a passing run is a theorem. The type invariants of
`ObstaclePipeline`, `LaunchBench` and the two sessions are stated in the modules (`TypeOK`)
and are not part of a run; the proofs carry what they need of them in their own
invariants. None of the modules declares a RECURSIVE operator.

## 5. What the runs found

* **Startup gate** (`StartupGateHolds`, `PublicationGateHolds`). Both programs raise
  `startup_waiting_for_home_` and write `startup_release_deadline_` after it, while
  the data thread is already delivering packets. A packet in between is compared
  with the default deadline, which is in the past, and ends the waiting.
* **Lost goal** (`GoalKept`). `control_loop` checks that no goal has come from
  outside, and sets the startup goal two statements later.
* **Held pose** (`HeldPoseSafe`). The last safe command is remembered after
  `apply_command_guard` has changed it, and the min-Z check is not repeated. Position
  mode commands the remembered pose.

Further observations the models show but no source contradicts:

* After the client's command reader has ended, every other stream command is lost to
  the 50 ms timeout; the destructor's zero velocity is dropped when its
  acknowledgement wait times out.
* A recorder call the runner has given up on is executed all the same: the file of a
  later run may be closed in its middle. A call that was accepted and not
  answered in time is reported as "Recorder service is not available".
  `RecordedWhileRunning` and `DatasetsArePure` name these two exceptions (`strayed`).
* Menu entry 8 and "save current pose" use the last pose received, which may be
  from before the prompt: nothing is received while the menu waits for a key.
* The proximity bridge keeps the last range of a sensor for ever: the obstacle
  of a sensor that has died stays, as long as the bridge runs.
* The logger edits by namespace and id, the controller replaces its whole list:
  with a gate that clears, or with a sensor without transform, the log shows obstacles
  the controller no longer avoids. The converse does not happen (`LogCoversController`).
* `rb10_api_bridge.py` ignores the result of `ToCB` and counts a `SendCOMMAND`
  that returns false as sent: without a link its stop sequence "succeeds".
  A signal inside a command callback lets that callback send its command after the stop,
  which in velocity mode keeps the arm moving; `HaltedLast` says that this is the only
  way, and that it is one command (`strays`).
* The frame the API holds when the start pose script begins its last look may be from
  before the move: nothing in it is dated. `ReachedWasSeen` excludes earlier looks, not this.
* `MoveJ` of the vendor API waits for an idle robot without a deadline and does not
  see that the link is gone: the start pose script then waits for ever. `ClientEnds`
  says that this is the only place.
* With `use_proximity_bridge:=1` (or `True`) and `use_obstacles:=true` the position launch
  file, the fake one and those that include it start the proximity bridge (`IfCondition` takes both as
  true) and the obstacle manager (its condition compares with `"true"`): two publishers of
  one topic. With the API bridge, `normalized_joint_state_topic:=/joint_states` and another
  raw topic, the joint state adapter writes to the topic the bridge publishes on. `RivalsKnown`
  names both cases and says there is no third, but for the flag: the scenario and the replay
  repeat a constant 1 on `/RMP_flag` (`fake_proximity_scenario.py:348`,
  `fake_proximity_scenario_v2.py:442`), where the runner of a bench
  writes too. It is started without `--stop-rmp-on-exit` and so sends no zero; one from
  anywhere else would be overridden at the next period.
* A word that is no word of truth (`yes`, `on`, an empty string) makes `IfCondition` raise: the launch
  shuts down after it has started whatever came before.
* The escape enters with full `lambda` from Off whenever it is in the risk-damped model, also
  in the solve after a handoff that found no direction or no target;
  `TANGENT_ESCAPE_RISK_DAMPED.md` speaks of the "first `OFF -> active` entry".
  `SwapsAtZeroEffect` states the exception as the code has it.
* RELEASE braking has no timeout, as `TANGENT_ESCAPE_CANONICAL.md` says. A goal that keeps
  moving in steps while the pair is out of sight keeps an episode open; one that drifts
  slowly is never seen to change, because it is compared with the previous solve.
* A random event that spans a refill of the bag may name one sensor twice, and a sensor
  listed twice is drawn twice as often.
* A recording that cannot be loaded ends the replay node only; the leaf-ablation run
  goes on without obstacles to its end.

## 6. Plan

1. Done: client, backend, bridge, command gate, control loop, and the proofs of their
   safety properties.
2. Done: runner, recorder and goal scripts; proximity bridge, camera nodes,
   controller's obstacles and logger; Python bridge and start pose script; fake
   sensors and launch files.
3. Done: `TangentEscape`; the proofs about it, about the obstacle pipeline, about
   `ReachedIsRecent` and about the launch bench.
4. `RmpflowBridge` composed with the controller's flag and goal handling over
   two unordered topics; the 100 ms delay as a step that may come early.
5. `EnergyTank`: bounded integers; never pays out more than it holds.

## 7. Not modelled

* Numeric solvers, leaves, certificates and the learning interface: real
  arithmetic. The controller model takes their answer as any pose.
* Energy tank, flag and goal bridge: on the plan. Of the tangent escape, the numbers
  (scores, angles, metric, force) and the reset when it is disabled.
* Plots and analysis scripts (a good part of the Python code): they read files after the
  run and keep no state.
* Joint state adapter (but for where it writes), obstacle manager, interactive marker, visualisers, small loggers:
  one message in, one out.
* Parameter loading, remappings, image processing, geometry, CSV formatting,
  console output; API calls of `cobot.py` that no script makes (most of that file).
* A Ctrl-C inside a run of the goal runner, and one at its menu prompt: rclpy's own handler
  has shut the context down by then, so the zero flag of `main`'s `finally` (`:1301`) may
  never leave the process. `StoppedIsDown` covers the other exits.
* Crashes of a node in the middle of a callback.
* The proximity bridge feeding the controller directly (the default of
  `rb10_rmpflow.launch.py`): `ObstaclePipeline` has it behind the cloud bridge only. Without
  that bridge nothing ages the controller's obstacles, and a clear message that is lost is not
  made up for.
* Switches of launch files that start processes which write to none of the channels
  (RViz, visualisers).

`PROJECT.json` gives each part with its reason.
