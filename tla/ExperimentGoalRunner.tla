------------------------- MODULE ExperimentGoalRunner -------------------------
(***************************************************************************)
(* experiment_goal_runner.py: one thread that reads a menu (or one command  *)
(* line), publishes the flag and the goal until the arm is there, and wraps *)
(* the run in a start and a stop call to the recorder.  The subscription is *)
(* served only where the code spins: nothing is received while the menu     *)
(* waits for the keyboard.                                                  *)
(***************************************************************************)
EXTENDS RmpDataRecorder, ExperimentBench

CONSTANTS
    Configs,      \* command lines the instance runs
    PoseFile,     \* the YAML file: poses, and trajectories of pose names
    MaxRuns,      \* bound: commands chosen in the menu
    MaxPeriods,   \* bound: loop periods of a duration
    HoldPeriods,  \* stop_publish_sec, in loop periods
    Settle,       \* goal_settle_sec, in loop periods
    Waypoints     \* waypoints of a streamed goal

\* What parse_args accepts; a name need not be in the pose file.
CommandLines ==
    {c \in [mode: {"menu", "once", "stop", "off"}, kind: {"pose", "trajectory"},
            name: STRING, record: BOOLEAN, stream: BOOLEAN, fixed: 0..MaxPeriods,
            timeout: 0..MaxPeriods, activate: BOOLEAN, post: 0..MaxPeriods,
            zeroOnExit: BOOLEAN] :
        ~(c.stream /\ c.fixed > 0) /\ ~(c.mode = "off" /\ c.zeroOnExit)}

\* What load_pose_file and resolve_trajectory accept.
PoseFileOK ==
    /\ DOMAIN PoseFile.poses # {}
    /\ \A name \in DOMAIN PoseFile.poses : PoseFile.poses[name] \in Positions
    /\ \A name \in DOMAIN PoseFile.trajectories :
           /\ PoseFile.trajectories[name].poses \in Seq(STRING) \ {<<>>}
           /\ PoseFile.trajectories[name].repeat \in Nat \ {0}

ASSUME RunnerAssumption ==
    /\ {MaxRuns, MaxPeriods, HoldPeriods - 1, Settle, Waypoints - 1} \subseteq Nat
    /\ \A c \in Configs : c \in CommandLines
    /\ PoseFileOK

VARIABLES
    cfg,        \* the parsed command line
    pc,         \* where the thread is
    runs,       \* commands chosen so far
    goals,      \* goals of the run not yet done, the current one first
    kind,       \* run_pose or run_trajectory
    record,     \* the run is WITH recording
    started,    \* recording_started
    base,       \* the pose copied from latest_ee_pose: stream start, hold goal
    elapsed,    \* loop periods since the current loop began
    near,       \* samples within tolerance in a row; 0: reached_since is None
    reached,    \* result["reached"]
    stopped     \* history: a zero flag was published and matched, no command since

runVars == <<runs, goals, kind, record, started, base>>
loopVars == <<elapsed, near, reached>>
runnerVars == <<cfg, pc, runVars, loopVars, stopped>>

\* Where wait_for_... , call_trigger and spin_for_duration spin in between.
Waiting == {"subscriber", "startWait", "pre", "streamPose", "pause",
            "holdWait", "holdPose", "savePose", "stopWait"}
Loops == {"stream", "until", "fixed", "post", "hold", "zero", "exitZero"}
Steps == {"menu", "start", "stop", "goal", "after", "finally", "leave", "gone"}
InRecordedRun == started /\ pc \in {"pre", "goal", "streamPose", "stream",
                     "until", "fixed", "after", "pause", "post", "finally"}
RunOwnsRecorder == InRecordedRun \/ pc \in {"startWait", "stop", "stopWait"}

RunnerTypeOK ==
    /\ cfg \in Configs
    /\ pc \in Waiting \cup Loops \cup Steps
    /\ runs \in 0..MaxRuns
    /\ goals \in Seq(Positions)
    /\ base \in OrNone(Positions)
    /\ elapsed \in 0..(MaxPeriods + HoldPeriods + Waypoints + 2)
    /\ near \in 0..(Settle + 1)
    /\ kind \in {"pose", "trajectory"}
    /\ {record, started, reached, stopped} \subseteq BOOLEAN

RunnerInit ==
    /\ cfg \in Configs
    /\ pc = CASE cfg.mode = "stop" -> "holdWait" [] cfg.mode = "off" -> "gone"
              [] OTHER -> "menu"
    /\ runs = 0 /\ goals = <<>> /\ base = "none"
    /\ elapsed = 0 /\ near = 0
    /\ kind = "pose" /\ record = FALSE /\ started = FALSE /\ reached = FALSE /\ stopped = FALSE

\* Another statement begins; a loop starts its clock.
GoTo(step) == pc' = step /\ elapsed' = 0 /\ near' = 0 /\ UNCHANGED <<cfg, reached>>
Chosen == UNCHANGED <<runs, goals, kind, record>>
Alone == UNCHANGED <<recorderVars, benchVars>>

-----------------------------------------------------------------------------
(* interactive_menu, the branches of main and its finally *)

ExceptionEndsProcess == IF cfg.mode = "menu" THEN "menu" ELSE "gone"

\* The menu catches every exception; without it one passes main's finally.
AfterCommand == IF cfg.mode = "menu" THEN "menu" ELSE "leave"

Choose(step) ==
    /\ pc = "menu" /\ runs < (IF cfg.mode = "menu" THEN MaxRuns ELSE 1)
    /\ runs' = runs + 1
    /\ stopped' = FALSE /\ base' = "none"
    /\ GoTo(step)
    /\ Alone
    /\ UNCHANGED started

\* pose_names *= repeat_count
Repeated(list, count) == [i \in 1 .. count * Len(list) |-> list[((i - 1) % Len(list)) + 1]]

\* resolve_pose and resolve_trajectory: the goals in order; an exception when
\* the trajectory, or a pose it names, is not in the file.
NamesOf(what, name) ==
    IF what = "trajectory"
      THEN Repeated(PoseFile.trajectories[name].poses, PoseFile.trajectories[name].repeat)
      ELSE <<name>>
Resolvable(what, name) ==
    /\ what = "trajectory" => name \in DOMAIN PoseFile.trajectories
    /\ ToSet(NamesOf(what, name)) \subseteq DOMAIN PoseFile.poses
Itinerary(names) == [i \in DOMAIN names |-> PoseFile.poses[names[i]]]

\* select_name offers what the file has; a command line may name anything.
Selection ==
    IF cfg.mode = "menu"
      THEN ({"pose"} \X DOMAIN PoseFile.poses)
             \cup ({"trajectory"} \X DOMAIN PoseFile.trajectories)
      ELSE {<<cfg.kind, cfg.name>>}

ChooseRun ==
    /\ record' \in IF cfg.mode = "menu" THEN BOOLEAN ELSE {cfg.record}
    /\ \E choice \in Selection :
           /\ kind' = choice[1]
           /\ IF Resolvable(choice[1], choice[2])
                THEN Choose("subscriber") /\ goals' = Itinerary(NamesOf(choice[1], choice[2]))
                ELSE Choose(AfterCommand) /\ goals' = <<>>

ChooseOther ==
    /\ cfg.mode = "menu"
    /\ Choose("holdWait") \/ Choose("savePose")
    /\ goals' = <<>> /\ kind' = "pose" /\ record' = FALSE

\* latest_ee_pose is written to the YAML file; with none yet the wait times out.
SavePose ==
    /\ pc = "savePose"
    /\ base' = cached
    /\ GoTo("menu")
    /\ Chosen /\ Alone /\ UNCHANGED <<started, stopped>>

Leave ==
    /\ pc = "leave" \/ (pc = "menu" /\ cfg.mode = "menu")
    /\ GoTo(IF cfg.zeroOnExit THEN "exitZero" ELSE "gone")
    /\ Chosen /\ Alone /\ UNCHANGED <<started, base, stopped>>

-----------------------------------------------------------------------------
(* call_trigger around a run *)

\* A subscriber was found or not: the run goes on either way.
SubscriberWaitEnds ==
    /\ pc = "subscriber"
    /\ GoTo(IF record THEN "start" ELSE "goal")
    /\ Chosen /\ Alone /\ UNCHANGED <<started, base, stopped>>

FinallyForgotten == AfterCommand

\* An exception inside the try, or its end: the finally clause.
RaiseInRun == IF started THEN "stop" ELSE AfterCommand

CallStart ==
    /\ pc = "start"
    /\ \/ SendRequest("start") /\ GoTo("startWait")
       \/ NoService("start") /\ GoTo(RaiseInRun)
    /\ Chosen /\ UNCHANGED <<benchVars, started, base, stopped>>

TimeoutTakenForStart == GiveUpRequest("start") /\ started' = TRUE /\ GoTo("pre")

StartTimesOut == GiveUpRequest("start") /\ UNCHANGED started /\ GoTo(RaiseInRun)

StartReturns ==
    /\ pc = "startWait"
    /\ \/ TakeAnswer("ok") /\ started' = TRUE /\ GoTo("pre")
       \/ answer = "none" /\ StartTimesOut
    /\ Chosen /\ UNCHANGED <<benchVars, base, stopped>>

CallStop ==
    /\ pc = "stop"
    /\ started' = FALSE
    /\ \/ SendRequest("stop") /\ GoTo("stopWait")
       \/ NoService("stop") /\ GoTo(AfterCommand)
    /\ Chosen /\ UNCHANGED <<benchVars, base, stopped>>

StopReturns ==
    /\ pc = "stopWait"
    /\ \/ TakeAnswer("ok") \/ TakeAnswer("refused")
       \/ answer = "none" /\ GiveUpRequest("stop")
    /\ GoTo(AfterCommand)
    /\ Chosen /\ UNCHANGED <<benchVars, started, base, stopped>>

-----------------------------------------------------------------------------
(* run_pose and run_trajectory *)

PauseEnds ==
    /\ pc \in {"pre", "pause"}
    /\ GoTo("goal")
    /\ Chosen /\ Alone /\ UNCHANGED <<started, base, stopped>>

BeginGoal ==
    /\ pc = "goal"
    /\ pc' = CASE cfg.stream -> "streamPose" [] cfg.fixed > 0 -> "fixed"
              [] OTHER -> "until"
    /\ reached' = FALSE
    /\ elapsed' = 0 /\ near' = 0
    /\ Chosen /\ Alone /\ UNCHANGED <<cfg, started, base, stopped>>

StreamPose ==
    /\ pc = "streamPose"
    /\ base' = cached
    /\ GoTo(IF cached = "none" THEN RaiseInRun ELSE "stream")
    /\ Chosen /\ Alone /\ UNCHANGED <<started, stopped>>

\* One loop body: the flag if asked for, the goal, one spin, the sleep.
Period(position) ==
    /\ IF cfg.activate THEN PublishFlag(1) ELSE UNCHANGED flagSeen
    /\ PublishGoal(position)
    /\ SpinOnce
    /\ UNCHANGED <<arm, matched, recent, recorderVars>>

\* The last waypoint is the goal; an earlier one lies between start and goal.
StreamWaypoint ==
    /\ pc = "stream"
    /\ IF elapsed + 1 = Waypoints
         THEN Period(Head(goals)) /\ GoTo("until")
         ELSE /\ \E position \in {base, Head(goals)} : Period(position)
              /\ elapsed' = elapsed + 1
              /\ UNCHANGED <<cfg, pc, near, reached>>
    /\ Chosen /\ UNCHANGED <<started, base, stopped>>

NeverTimedOut == FALSE

\* publish_streamed_goal passes no timeout on.
TimedOut == cfg.timeout > 0 /\ ~cfg.stream /\ elapsed >= cfg.timeout

\* reached_since: the samples within tolerance in a row, a far one resets it.
NearAfter == IF cached' = Head(goals) THEN near + 1 ELSE 0

PublishUntilReached ==
    /\ pc = "until" /\ ~TimedOut
    /\ Period(Head(goals))
    /\ near' = IF NearAfter > Settle THEN 0 ELSE NearAfter
    /\ reached' = (NearAfter > Settle)
    /\ pc' = IF reached' THEN "after" ELSE "until"
    /\ elapsed' = IF elapsed < cfg.timeout THEN elapsed + 1 ELSE elapsed
    /\ Chosen /\ UNCHANGED <<cfg, started, base, stopped>>

GivesUpGoal ==
    /\ pc = "until" /\ TimedOut
    /\ GoTo("after")
    /\ Chosen /\ Alone /\ UNCHANGED <<started, base, stopped>>

\* A recorded pose that was reached skips the post-recording time.
AfterGoals ==
    IF record /\ cfg.post > 0 /\ (kind = "trajectory" \/ ~reached)
      THEN "post" ELSE "finally"

NextGoal ==
    /\ pc = "after"
    /\ GoTo(IF Len(goals) > 1 THEN "pause" ELSE AfterGoals)
    /\ goals' = IF Len(goals) > 1 THEN Tail(goals) ELSE goals
    /\ Alone /\ UNCHANGED <<runs, kind, record, started, base, stopped>>

\* publish_for_duration: a fixed goal, the post-recording time, the hold goal.
PublishForDuration(step, position, duration, next) ==
    /\ pc = step
    /\ IF elapsed < duration
         THEN /\ Period(position)
              /\ elapsed' = elapsed + 1
              /\ UNCHANGED <<cfg, pc, near, reached>>
         ELSE Alone /\ GoTo(next)
    /\ Chosen /\ UNCHANGED <<started, base, stopped>>

Durations ==
    \/ PublishForDuration("fixed", Head(goals), cfg.fixed, "after")
    \/ PublishForDuration("post", Head(goals), cfg.post, "finally")
    \/ PublishForDuration("hold", base, HoldPeriods, "zero")

Finally ==
    /\ pc = "finally"
    /\ GoTo(RaiseInRun)
    /\ Chosen /\ Alone /\ UNCHANGED <<started, base, stopped>>

-----------------------------------------------------------------------------
(* stop_command and publish_stop_flag *)

HoldPose ==
    /\ pc \in {"holdWait", "holdPose"}
    /\ base' = cached
    /\ GoTo(IF pc = "holdWait" THEN "holdPose"
            ELSE IF cached = "none" THEN AfterCommand ELSE "hold")
    /\ stopped' = FALSE
    /\ Chosen /\ Alone /\ UNCHANGED started

StopFlag ==
    /\ pc \in {"zero", "exitZero"}
    /\ PublishFlag(0)
    /\ SpinOnce
    /\ IF elapsed < 2
         THEN elapsed' = elapsed + 1 /\ UNCHANGED <<cfg, pc, near, reached>>
         ELSE GoTo(IF pc = "zero" THEN AfterCommand ELSE "gone")
    /\ stopped' = ("flag" \in matched)
    /\ Chosen
    /\ UNCHANGED <<arm, goalSeen, matched, recent, recorderVars, started, base>>

\* A pose arrives while some wait spins.
SpinWhileWaiting ==
    /\ pc \in Waiting
    /\ poses # <<>>
    /\ SpinOnce
    /\ UNCHANGED <<arm, goalSeen, flagSeen, matched, recent, recorderVars, runnerVars>>

Runner ==
    \/ ChooseRun \/ ChooseOther \/ SavePose \/ Leave
    \/ SubscriberWaitEnds \/ CallStart \/ StartReturns \/ CallStop \/ StopReturns
    \/ PauseEnds \/ BeginGoal \/ StreamPose \/ StreamWaypoint
    \/ PublishUntilReached \/ GivesUpGoal \/ NextGoal \/ Durations \/ Finally
    \/ HoldPose \/ StopFlag
================================================================================
