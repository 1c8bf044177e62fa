-------------------------- MODULE RmpflowController --------------------------
(***************************************************************************)
(* The control loop of rmpflow_controller_node.cpp and the subscription    *)
(* callbacks that run beside it.  The control thread reads the flag, the   *)
(* goal and its own bookkeeping at several points of one tick; on_rmp_flag *)
(* and on_goal_pose, on the executor thread, write them one store at a     *)
(* time.  Poses are seen only as above or below the min-Z bounds, and      *)
(* commands as motion or hold.                                             *)
(***************************************************************************)
EXTENDS Integers

CONSTANTS
    MaxGoals,      \* bound: goal messages
    MaxFlags,      \* bound: /RMP_flag messages that change the flag
    Configs        \* parameter sets: [flagGate, velocity, startupGoal, minZ]

ASSUME ControllerAssumption ==
    /\ MaxGoals \in Nat
    /\ MaxFlags \in Nat
    /\ Configs \subseteq [flagGate: BOOLEAN, velocity: BOOLEAN,
                          startupGoal: BOOLEAN, minZ: BOOLEAN]

VARIABLES
    cfg,              \* the parameters this process was started with
    control,          \* where the control thread is in its tick
    executor,         \* where the executor thread is in a callback
    running,          \* running_ and rclcpp::ok()
    rmpActive,        \* rmp_active_
    flags,            \* flag changes received
    goal,             \* goal_target_box_
    goals,            \* history: goals received from outside, numbered from 1
    externalGoal,     \* external_goal_received_
    goalSynced,       \* startup_goal_synced_
    ready,            \* what backend_->ready() said in this tick
    measuredLow,      \* this tick's measured pose is below a min-Z bound
    violation,        \* measured_state_violates_min_z, then the decision
    commandLow,       \* the command's pose is below a min-Z bound
    safeInit,         \* last_safe_command_state_initialized_
    safeLow,          \* last_safe_command_state_ is below a min-Z bound
    safeGuarded,      \* history: it is what apply_command_guard made of a command
    virtualInit,      \* virtual_velocity_state_initialized_
    minZTriggered,    \* last_min_z_safety_triggered_
    lastCommand,      \* history: what was applied last
    sinceInactive     \* history: motion commands applied since deactivation

\* What goal_target_box_ holds before any message: the initial pose, or the
\* pose the startup synchronisation has read.
InitialGoal == -1
StartupGoal == 0

tickVars == <<ready, measuredLow, violation, commandLow>>
safeVars == <<safeInit, safeLow, safeGuarded>>
goalVars == <<goal, goals, externalGoal, goalSynced>>
commandVars == <<lastCommand, sinceInactive>>
flagVars == <<rmpActive, flags>>

vars == <<cfg, control, executor, running, flagVars, goalVars, tickVars,
          safeVars, virtualInit, minZTriggered, commandVars>>

ControlSteps == {"tick", "flag", "goal", "sync", "setgoal", "measured", "solve",
                 "predicted", "choose", "remember", "apply", "joined"}
ExecutorSteps == {"idle", "virtual", "safe", "triggered", "external", "synced"}

\* Types, and that a tick past its first step has found the backend ready.
TypeOK ==
    /\ cfg \in Configs
    /\ control \in ControlSteps
    /\ executor \in ExecutorSteps
    /\ running \in BOOLEAN
    /\ rmpActive \in BOOLEAN
    /\ flags \in 0..MaxFlags
    /\ goal \in InitialGoal..MaxGoals
    /\ goals \in 0..MaxGoals
    /\ externalGoal \in BOOLEAN
    /\ goalSynced \in BOOLEAN
    /\ ready \in BOOLEAN
    /\ control \notin {"tick", "joined"} => ready
    /\ measuredLow \in BOOLEAN
    /\ violation \in BOOLEAN
    /\ commandLow \in BOOLEAN
    /\ safeInit \in BOOLEAN
    /\ safeLow \in BOOLEAN
    /\ safeGuarded \in BOOLEAN
    /\ virtualInit \in BOOLEAN
    /\ minZTriggered \in BOOLEAN
    /\ lastCommand \in {"none", "hold", "move"}
    /\ sinceInactive \in Nat

Init ==
    /\ cfg \in Configs
    /\ control = "tick"
    /\ executor = "idle"
    /\ running = TRUE
    /\ rmpActive = ~cfg.flagGate
    /\ flags = 0
    /\ goal = InitialGoal
    /\ goals = 0
    /\ externalGoal = FALSE
    /\ goalSynced = FALSE
    /\ ready = FALSE
    /\ measuredLow = FALSE
    /\ violation = FALSE
    /\ commandLow = FALSE
    /\ safeInit = FALSE
    /\ safeLow = FALSE
    /\ safeGuarded = FALSE
    /\ virtualInit = FALSE
    /\ minZTriggered = FALSE
    /\ lastCommand = "none"
    /\ sinceInactive = 0

-----------------------------------------------------------------------------
(* Executor thread: on_rmp_flag *)

ExecutorTo(step) == executor' = step

\* Only a change of the flag does anything; only its fall resets the loop's
\* bookkeeping, one plain store after another.
FlagArrives ==
    /\ executor = "idle"
    /\ cfg.flagGate
    /\ flags < MaxFlags
    /\ flags' = flags + 1
    /\ rmpActive' = ~rmpActive
    /\ sinceInactive' = IF rmpActive' THEN 0 ELSE sinceInactive
    /\ ExecutorTo(IF rmpActive THEN "virtual" ELSE "idle")
    /\ UNCHANGED <<cfg, control, running, goalVars, tickVars, safeVars, virtualInit,
                   minZTriggered, lastCommand>>

FlagResets ==
    /\ \/ /\ executor = "virtual"
          /\ virtualInit' = FALSE
          /\ ExecutorTo("safe")
          /\ UNCHANGED <<safeInit, minZTriggered>>
       \/ /\ executor = "safe"
          /\ safeInit' = FALSE
          /\ ExecutorTo("triggered")
          /\ UNCHANGED <<virtualInit, minZTriggered>>
       \/ /\ executor = "triggered"
          /\ minZTriggered' = FALSE
          /\ ExecutorTo("idle")
          /\ UNCHANGED <<virtualInit, safeInit>>
    /\ UNCHANGED <<cfg, control, running, flagVars, goalVars, tickVars, safeLow,
                   safeGuarded, commandVars>>

-----------------------------------------------------------------------------
(* Executor thread: on_goal, on_goal_pose *)

\* The box is filled before the flags say so.
BoxLast == FALSE
BoxFirst == TRUE

GoalArrives ==
    /\ executor = "idle"
    /\ goals < MaxGoals
    /\ goals' = goals + 1
    /\ IF BoxFirst
         THEN goal' = goals + 1 /\ UNCHANGED externalGoal
         ELSE externalGoal' = TRUE /\ UNCHANGED goal
    /\ ExecutorTo("external")
    /\ UNCHANGED <<cfg, control, running, flagVars, goalSynced, tickVars, safeVars,
                   virtualInit, minZTriggered, commandVars>>

GoalFlags ==
    /\ \/ /\ executor = "external"
          /\ externalGoal' = TRUE
          /\ goal' = IF BoxFirst THEN goal ELSE goals
          /\ ExecutorTo("synced")
          /\ UNCHANGED goalSynced
       \/ /\ executor = "synced"
          /\ goalSynced' = TRUE
          /\ ExecutorTo("idle")
          /\ UNCHANGED <<externalGoal, goal>>
    /\ UNCHANGED <<cfg, control, running, flagVars, goals, tickVars, safeVars,
                   virtualInit, minZTriggered, commandVars>>

\* The destructor: running_ falls, then the control thread is joined.
Stop ==
    /\ executor = "idle"
    /\ running
    /\ running' = FALSE
    /\ UNCHANGED <<cfg, control, executor, flagVars, goalVars, tickVars, safeVars,
                   virtualInit, minZTriggered, commandVars>>

-----------------------------------------------------------------------------
(* Control thread: the start of a tick *)

ControlTo(step) ==
    /\ control' = step
    /\ UNCHANGED <<cfg, executor, running, flagVars, goals, externalGoal>>

UnreadyGoesOn(answer) == "flag"
AfterReady(answer) == IF answer THEN "flag" ELSE "tick"

\* The loop's condition, then ready() and read_state(): the backend and the
\* robot give any answer.  A backend that is not ready ends the tick.
TickStarts ==
    /\ control = "tick"
    /\ running
    /\ ready' \in BOOLEAN
    /\ measuredLow' \in (IF ready' THEN BOOLEAN ELSE {FALSE})
    /\ violation' = FALSE
    /\ commandLow' = FALSE
    /\ virtualInit' = (virtualInit /\ ready')
    /\ safeInit' = (safeInit /\ ready')
    /\ ControlTo(AfterReady(ready'))
    /\ UNCHANGED <<goal, goalSynced, safeLow, safeGuarded, minZTriggered, commandVars>>

ControlLeaves ==
    /\ control = "tick"
    /\ ~running
    /\ ControlTo("joined")
    /\ UNCHANGED <<goal, goalSynced, tickVars, safeVars, virtualInit,
                   minZTriggered, commandVars>>

GateIgnored == TRUE
Active == ~cfg.flagGate \/ rmpActive

\* send_velocity_hold_command: a zero velocity, in velocity mode only.
HoldUnsent == lastCommand
StandbyCommand == IF cfg.velocity THEN "hold" ELSE lastCommand

\* The branch both gates end a tick with: the bookkeeping is reset, the hold
\* command applied.
StandBy ==
    /\ safeInit' = FALSE
    /\ virtualInit' = cfg.velocity
    /\ lastCommand' = StandbyCommand
    /\ ControlTo("tick")
    /\ UNCHANGED <<goal, goalSynced, tickVars, safeLow, safeGuarded, minZTriggered,
                   sinceInactive>>

PassTo(step) ==
    /\ ControlTo(step)
    /\ UNCHANGED <<goal, goalSynced, tickVars, safeVars, virtualInit, minZTriggered,
                   commandVars>>

FlagGate ==
    /\ control = "flag"
    /\ IF Active THEN PassTo("goal") ELSE StandBy

GoalGate ==
    /\ control = "goal"
    /\ IF cfg.flagGate /\ ~externalGoal THEN StandBy ELSE PassTo("sync")

\* The startup goal: both flags are read here, the box is written later.
SyncCheck ==
    /\ control = "sync"
    /\ PassTo(IF cfg.startupGoal /\ ~goalSynced /\ ~externalGoal
                THEN "setgoal" ELSE "measured")

SetStartupGoal ==
    /\ control = "setgoal"
    /\ goal' = StartupGoal
    /\ goalSynced' = TRUE
    /\ ControlTo("measured")
    /\ UNCHANGED <<tickVars, safeVars, virtualInit, minZTriggered, commandVars>>

-----------------------------------------------------------------------------
(* Control thread: min-Z safety and the command *)

\* violates_min_z_safety reads the flag again, each time it is called.
ViolatesMinZ(low) == Active /\ cfg.minZ /\ low

MeasuredCheck ==
    /\ control = "measured"
    /\ violation' = ViolatesMinZ(measuredLow)
    /\ IF ~safeInit /\ ~violation'
         THEN safeInit' = TRUE /\ safeLow' = measuredLow /\ safeGuarded' = FALSE
         ELSE UNCHANGED safeVars
    /\ ControlTo("solve")
    /\ UNCHANGED <<goal, goalSynced, ready, measuredLow, commandLow, virtualInit,
                   minZTriggered, commandVars>>

\* The goal is taken from the box, the solver's answer (or, if it has thrown,
\* zero acceleration) integrated: the predicted pose is any pose.
Solve ==
    /\ control = "solve"
    /\ minZTriggered' = FALSE
    /\ commandLow' \in BOOLEAN
    /\ ControlTo("predicted")
    /\ UNCHANGED <<goal, goalSynced, ready, measuredLow, violation, safeVars,
                   virtualInit, commandVars>>

PredictedUnchecked == violation
WithPrediction == violation \/ ViolatesMinZ(commandLow)

PredictedCheck ==
    /\ control = "predicted"
    /\ violation' = WithPrediction
    /\ ControlTo("choose")
    /\ UNCHANGED <<goal, goalSynced, ready, measuredLow, commandLow, safeVars,
                   virtualInit, minZTriggered, commandVars>>

\* A violation replaces the command by the last safe one, or by the measured
\* state if there is none.
Choose ==
    /\ control = "choose"
    /\ IF violation
         THEN /\ commandLow' = IF safeInit THEN safeLow ELSE measuredLow
              /\ minZTriggered' = TRUE
         ELSE UNCHANGED <<commandLow, minZTriggered>>
    /\ ControlTo("remember")
    /\ UNCHANGED <<goal, goalSynced, ready, measuredLow, violation, safeVars,
                   virtualInit, commandVars>>

\* apply_command_guard limits the command joint by joint, so the pose it makes
\* of a safe one is any pose; unless the safety has triggered, what comes out is
\* remembered as the last safe command.  The min-Z check is not made again.
Remember ==
    /\ control = "remember"
    /\ IF violation
         THEN UNCHANGED safeVars
         ELSE /\ safeInit' = TRUE
              /\ safeGuarded' \in BOOLEAN
              /\ safeLow' \in IF safeGuarded' THEN BOOLEAN ELSE {commandLow}
    /\ ControlTo("apply")
    /\ UNCHANGED <<goal, goalSynced, tickVars, virtualInit, minZTriggered, commandVars>>

Apply ==
    /\ control = "apply"
    /\ lastCommand' = IF violation THEN "hold" ELSE "move"
    /\ sinceInactive' = IF cfg.flagGate /\ ~rmpActive /\ ~violation
                          THEN sinceInactive + 1 ELSE sinceInactive
    /\ virtualInit' = TRUE
    /\ ControlTo("tick")
    /\ UNCHANGED <<goal, goalSynced, tickVars, safeVars, minZTriggered>>

-----------------------------------------------------------------------------

ControlThread ==
    \/ TickStarts \/ ControlLeaves \/ FlagGate \/ GoalGate \/ SyncCheck
    \/ SetStartupGoal \/ MeasuredCheck \/ Solve \/ PredictedCheck \/ Choose
    \/ Remember \/ Apply

Executor == FlagArrives \/ FlagResets \/ GoalArrives \/ GoalFlags \/ Stop

\* The control thread has been joined.
Joined == control = "joined" /\ UNCHANGED vars

Next == ControlThread \/ Executor \/ Joined

Spec == Init /\ [][Next]_vars

\* The control thread sleeps and wakes for ever; nobody owes it a message.
FairSpec == Spec /\ WF_vars(ControlThread)

-----------------------------------------------------------------------------
(* Properties *)

\* Deactivation takes hold within a tick: at most one motion command is applied
\* after the flag has fallen, the one whose tick had already passed the gate.
StandbyBudget == sinceInactive <= 1

\* With the flag gate the solver never runs towards the initial or the startup
\* pose: by the time the loop sees the flag that a goal has arrived, the box
\* holds one, and the startup synchronisation does not take it back.
SolvesExternalGoal == cfg.flagGate /\ control = "solve" => goal > StartupGoal

\* Without the flag gate neither a measured nor a predicted pose below the min-Z
\* bounds is ever remembered: a remembered pose is above them unless the command
\* guard has made it.
UngatedHoldSafe ==
    ~cfg.flagGate /\ cfg.minZ /\ safeInit /\ safeLow => safeGuarded

\* In velocity mode a moving robot is told to hold after a deactivation, unless
\* it is activated again or the backend is not ready to be told.
HoldFollowsStandby ==
    (cfg.velocity /\ lastCommand = "move" /\ ~Active)
        ~> (lastCommand = "hold" \/ Active \/ ~ready \/ ~running)

\* "RViz에서 goal marker를 움직이면 end-effector 목표가 바뀝니다" (README): the
\* newest goal from outside stays the goal.
GoalKept == goals > 0 => goal = goals

\* "Holding the last safe command to avoid driving below workspace": what the
\* loop holds when the min-Z safety triggers is not below the bounds itself.
HeldPoseSafe == control = "choose" /\ violation /\ safeInit => ~safeLow

==============================================================================
