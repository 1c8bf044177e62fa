------------------------------ MODULE LaunchBench ------------------------------
(***************************************************************************)
(* A launch file and the processes it has started: the stimulus of a bench  *)
(* (a scenario, a recording, neither), and the experiment runner that a     *)
(* timer of the launch file starts and whose exit may end the bench.        *)
(* Processes are started together; one that dies takes no other with it,    *)
(* but a condition that raises shuts the launch down wherever it has got.   *)
(* Of the runner, modelled by ExperimentGoalRunner, the goals it publishes  *)
(* and its end are kept.                                                    *)
(***************************************************************************)
EXTENDS FakeProximityScenario, FakeProximityCsvReplay, LaunchFiles

CONSTANTS
    Benches,          \* what is started: [args, scenario, source]
    RunnerDelay,      \* runner_start_delay_sec
    MaxGoals,         \* bound: goal messages of the runner
    Horizon           \* bound: periods of time

ASSUME BenchAssumption ==
    /\ Benches \subseteq [args : LaunchArguments, scenario : Scenarios, source : Recordings]
    /\ RunnerDelay \in Nat /\ MaxGoals \in Nat /\ Horizon \in Nat

VARIABLES
    args,             \* the launch arguments
    up,               \* processes running
    stopping,         \* the launch shuts down
    clock,
    runner,           \* "absent", "started", "publishing" or "gone"
    goals,            \* goal messages it has sent
    matched,          \* the replay's subscription is known to the runner
    heardAt           \* history: when the replay got its first goal, -1 before

benchVars == <<args, up, stopping, clock, runner, goals, matched, heardAt>>
vars == <<benchVars, scenarioVars, replayVars>>

Names == {process.name : process \in up}
ScenarioUp == "fake_proximity_scenario" \in Names
ReplayUp == "fake_proximity_scenario_v2" \in Names

TypeOK ==
    /\ ScenarioTypeOK /\ ReplayTypeOK
    /\ up \subseteq Launched(args) \cup {Process("experiment_goal_runner", {"goal", "flag"})}
    /\ clock \in 0 .. Horizon /\ goals \in 0 .. MaxGoals
    /\ runner \in {"absent", "started", "publishing", "gone"}
    /\ (runner \in {"started", "publishing"}) <=> ("experiment_goal_runner" \in Names)

Init ==
    /\ \E bench \in Benches :
          /\ args = bench.args
          /\ ScenarioInit(bench.scenario)
          /\ ReplayInit(bench.source)
    /\ stopping = LaunchRaises(args)
    /\ up \in IF stopping THEN SUBSET Launched(args) ELSE {Launched(args)}
    /\ clock = 0
    /\ runner = "absent" /\ goals = 0 /\ matched = FALSE /\ heardAt = -1

\* The benches in which time matters.
HasStimulus == {process.name : process \in Launched(args)}
             \cap {"fake_proximity_scenario", "fake_proximity_scenario_v2"} # {}

Tick ==
    /\ HasStimulus /\ ~stopping /\ clock < Horizon
    /\ clock' = clock + 1
    /\ UNCHANGED <<args, up, stopping, runner, goals, matched, heardAt, scenarioVars, replayVars>>

-----------------------------------------------------------------------------
(* The stimulus nodes: constructors and timers *)

DrawEvents ==
    /\ ScenarioUp /\ ~stopping /\ clock = 0
    /\ DrawName \/ AddEvent \/ SampleEvent
    /\ UNCHANGED <<benchVars, replayVars>>

ScenarioTimer ==
    /\ ScenarioUp
    /\ PublishScenario(clock)
    /\ UNCHANGED <<benchVars, replayVars>>

ReplayConstructed ==
    /\ ReplayUp /\ ReplayStarts(clock)
    /\ up' = IF replay' = "failed" THEN {p \in up : p.name # "fake_proximity_scenario_v2"} ELSE up
    /\ UNCHANGED <<args, stopping, clock, runner, goals, matched, heardAt, scenarioVars>>

ReplayTimer ==
    /\ ReplayUp
    /\ PublishReplay(clock)
    /\ UNCHANGED <<benchVars, scenarioVars>>

-----------------------------------------------------------------------------
(* The runner *)

\* TimerAction; a shutdown before it fires cancels it.
TimerFires ==
    /\ TimedRunner(args) /\ runner = "absent" /\ ~stopping
    /\ clock >= RunnerDelay
    /\ runner' = "started"
    /\ up' = up \cup {Process("experiment_goal_runner", {"goal", "flag"})}
    /\ UNCHANGED <<args, stopping, clock, goals, matched, heardAt, scenarioVars, replayVars>>

RunnerConditionRaises ==
    /\ TimerRaises(args) /\ ~stopping /\ clock >= RunnerDelay
    /\ stopping' = TRUE
    /\ UNCHANGED <<args, up, clock, runner, goals, matched, heardAt, scenarioVars, replayVars>>

\* A first goal subscriber, the controller or the replay, or the end of the wait
\* for one; it publishes in either case.
RunnerBegins ==
    /\ runner = "started"
    /\ runner' = "publishing"
    /\ UNCHANGED <<args, up, stopping, clock, goals, matched, heardAt, scenarioVars, replayVars>>

ReplayMatched ==
    /\ runner \in {"started", "publishing"} /\ ReplayUp /\ replay = "constructed"
    /\ ~matched /\ matched' = TRUE
    /\ UNCHANGED <<args, up, stopping, clock, runner, goals, heardAt, scenarioVars, replayVars>>

\* A goal reaches the replay once its subscription is matched.
RunnerPublishes ==
    /\ runner = "publishing" /\ goals < MaxGoals
    /\ goals' = goals + 1
    /\ IF matched /\ ReplayUp /\ source.trigger
       THEN /\ OnStartTrigger(clock)
            /\ heardAt' = IF heardAt = -1 THEN clock ELSE heardAt
       ELSE UNCHANGED <<heardAt, replayVars>>
    /\ UNCHANGED <<args, up, stopping, clock, runner, matched, scenarioVars>>

\* The end of the trajectory, or an error before; OnProcessExit of the launch file.
RunnerExits ==
    /\ runner \in {"started", "publishing"}
    /\ runner' = "gone"
    /\ up' = {process \in up : process.name # "experiment_goal_runner"}
    /\ stopping' = (stopping \/ ExitShutsDown(args))
    /\ UNCHANGED <<args, clock, goals, matched, heardAt, scenarioVars, replayVars>>

-----------------------------------------------------------------------------
(* The launch *)

Interrupted ==
    /\ ~stopping /\ stopping' = TRUE
    /\ UNCHANGED <<args, up, clock, runner, goals, matched, heardAt, scenarioVars, replayVars>>

\* The launch signals every process and kills those that stay.
ProcessesStop ==
    /\ stopping /\ up # {}
    /\ up' = {}
    /\ runner' = IF runner = "absent" THEN runner ELSE "gone"
    /\ UNCHANGED <<args, stopping, clock, goals, matched, heardAt, scenarioVars, replayVars>>

RunnerStep == RunnerBegins \/ RunnerPublishes \/ RunnerExits

Next ==
    \/ Tick \/ DrawEvents \/ ScenarioTimer \/ ReplayConstructed \/ ReplayTimer
    \/ TimerFires \/ RunnerConditionRaises \/ RunnerBegins \/ ReplayMatched \/ RunnerPublishes \/ RunnerExits
    \/ Interrupted \/ ProcessesStop

\* The runner's loops are bounded in time, and a launch that shuts down escalates to
\* signals no process survives.
Spec == Init /\ [][Next]_vars /\ WF_vars(RunnerStep) /\ WF_vars(ProcessesStop)

-----------------------------------------------------------------------------
(* Properties *)

\* Whatever arguments a launch file is given, the processes it starts rival each other
\* on no channel but these: two publish the controller's obstacles where one condition
\* takes the argument for the proximity bridge as true and another does not; two publish
\* the joint states it reads where the adapter writes to the API bridge's topic; and a
\* timed runner shares the flag with the stimulus.  In the first two cases they do as
\* long as the launch is up.
Channels == {"robot", "obstacles", "joints", "recorder", "flag"}
Rivals(channel) ==
    \E one, other \in up : one # other /\ channel \in one.writes /\ channel \in other.writes

ObstaclesContested ==
    /\ args.file \in {"position", "fake", "canonical", "gds"}
    /\ args.obstacles = "true" /\ args.proximity = "truthy"
JointsContested ==
    /\ args.file \in {"rmpflow", "record"} /\ args.direct # "true" /\ args.api = "true"
    /\ args.normalized = "/joint_states" /\ args.raw # "/joint_states"
FlagShared ==
    /\ runner # "absent"
    /\ args.file = "leaf" \/ (args.file = "gds" /\ args.fake \in {"true", "truthy"})

Contested ==
    (IF ObstaclesContested THEN {"obstacles"} ELSE {})
    \cup (IF JointsContested THEN {"joints"} ELSE {})
    \cup (IF FlagShared THEN {"flag"} ELSE {})

RivalsKnown ==
    /\ \A channel \in Channels : Rivals(channel) => channel \in Contested
    /\ ~stopping => \A channel \in Contested \ {"flag"} : Rivals(channel)

\* Without repeats the entries of a random scenario's list of sensors are drawn evenly:
\* at no point of the series has one been drawn twice more than another, so that only a
\* sensor listed twice can be drawn more often than the rest.
DrawnIn(i) == IF i \in DOMAIN events THEN events[i].entries ELSE selected
Draws(entry) ==
    UNION {{<<i, j>> : j \in {k \in DOMAIN DrawnIn(i) : DrawnIn(i)[k] = entry}} :
              i \in 1 .. Len(events) + 1}
TimesDrawn(entry) == Cardinality(Draws(entry))
DrawsAreEven ==
    IsRandom /\ ~scenario.repeats =>
        \A one, other \in Entries : TimesDrawn(one) <= TimesDrawn(other) + 1

\* The readings of a recording about a time since its first row, from the file itself:
\* the latest, and, between two rows, the next.
Earlier(at) == {time \in TimesOf(source.rows) : time - Min(TimesOf(source.rows)) <= at}
Later(at) == TimesOf(source.rows) \ Earlier(at)
RangeOf(time) == source.rows[LastAt(source.rows, time)].range
About(at) ==
    {RangeOf(Max(Earlier(at)))}
    \cup (IF source.interpolate /\ Later(at) # {} THEN {RangeOf(Min(Later(at)))} ELSE {})

\* A replay waiting for a goal says nothing is near before it has heard one; after
\* that its readings are those the recording has at that time since the first goal
\* heard and the delay, or between them when it interpolates, whatever goals follow,
\* round and round or once.
ReplayFollowsGoal ==
    sent.active =>
        LET begun == IF source.trigger THEN heardAt ELSE startTime
            played == (sent.at - begun - source.delay) * source.rate
            window == WindowEnd(LoadReplay(source.rows)) - source.offset
            about == About(source.offset + (IF source.loop THEN played % window ELSE played))
            valid == about \cap MinimumValid .. MaximumValid
        IN /\ source.trigger => heardAt # -1
           /\ played >= 0 /\ (source.loop \/ played <= window)
           /\ sent.range \in IF valid = {} THEN {InactiveRange} ELSE Min(valid) .. Max(valid)

\* The fixed leaf-ablation run ends by itself: after its runner has been started
\* every process is stopped, however the runner ends.
FixedRunEnds == (args.file = "leaf" /\ runner = "started") ~> (up = {})
================================================================================
