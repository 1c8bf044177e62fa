------------------------------ MODULE GoalScripts ------------------------------
(***************************************************************************)
(* The other one-thread goal scripts: run_tuning_scenario.py (steps held    *)
(* for a time or until reached), goal_cli.py (one goal published a few      *)
(* times) and capture_goal_from_ee_pose.py (the first pose received is      *)
(* written into a scenario).  Their goals go to the command topics of the   *)
(* interactive marker, which passes them on to the controller.              *)
(***************************************************************************)
EXTENDS ExperimentBench

CONSTANTS
    Scripts,     \* command lines: [kind, steps, loops]
    Duration     \* every duration and repetition, in loop periods

StepKinds == [target: {"startup", "offset", "absolute", "unsupported"},
              position: Positions, completion: {"time", "reach"}, settle: BOOLEAN]

ASSUME ScriptsAssumption ==
    /\ Duration \in Nat
    /\ \A s \in Scripts : /\ s.kind \in {"tuning", "cli", "capture", "off"}
                          /\ s.steps \in Seq(StepKinds) \ {<<>>}
                          /\ s.loops \in Nat \ {0}

VARIABLES
    script,     \* the parsed command line and the scenario file
    at,         \* where the thread is
    index,      \* the step being executed
    loop,       \* loops still to run, this one included
    startup,    \* the pose the script started from, or the pose captured
    ticks,      \* periods since the loop began
    outcome     \* result of the last step: none, reached, timeout

scriptVars == <<script, at, index, loop, startup, ticks, outcome>>

ScriptTypeOK ==
    /\ script \in Scripts
    /\ at \in {"pose", "subscribers", "settle", "step", "hold", "reach",
               "reached", "next", "repeat", "gone"}
    /\ index \in DOMAIN script.steps
    /\ loop \in 1..script.loops
    /\ startup \in OrNone(Positions)
    /\ ticks \in 0..Duration
    /\ outcome \in {"none", "reached", "timeout"}

ScriptInit ==
    /\ script \in Scripts
    /\ at = CASE script.kind = "cli" -> "subscribers" [] script.kind = "off" -> "gone"
              [] OTHER -> "pose"
    /\ index = 1 /\ loop = script.loops
    /\ startup = "none" /\ ticks = 0 /\ outcome = "none"

Proceed(place) == at' = place /\ ticks' = 0 /\ UNCHANGED script
Quiet == UNCHANGED benchVars

\* resolve_step: an offset leads somewhere, from wherever the arm started.
TargetOf(step) == IF step.target = "startup" THEN startup ELSE step.position
Malformed == \E i \in DOMAIN script.steps : script.steps[i].target = "unsupported"

\* The first pose ends the wait; so does the timeout, with an exception.
FirstPose ==
    /\ at = "pose"
    /\ SpinOnce
    /\ startup' = cached'
    /\ UNCHANGED <<arm, goalSeen, flagSeen, matched, recent, index, loop, outcome>>

WaitForPose ==
    /\ script.kind # "capture"
    /\ FirstPose
    /\ Proceed(IF cached' = "none" \/ Malformed THEN "gone" ELSE "subscribers")

\* The pose is written into the scenario; nothing is published.
CapturePose ==
    /\ script.kind = "capture"
    /\ FirstPose
    /\ Proceed("gone")

WaitForSubscribers ==
    /\ at = "subscribers"
    /\ Proceed(IF script.kind = "cli" THEN "repeat" ELSE "settle")
    /\ Quiet /\ UNCHANGED <<index, loop, startup, outcome>>

PublishPeriod(position) ==
    /\ PublishGoal(position)
    /\ SpinOnce
    /\ UNCHANGED <<arm, flagSeen, matched, recent>>

\* publish_hold: at startup, for a timed step, and while a reached step settles.
PublishHold(place, position, following) ==
    /\ at = place
    /\ IF ticks < Duration
         THEN PublishPeriod(position) /\ ticks' = ticks + 1 /\ UNCHANGED <<script, at>>
         ELSE Quiet /\ Proceed(following)
    /\ UNCHANGED <<index, loop, startup, outcome>>

Step == script.steps[index]

Holds ==
    \/ PublishHold("settle", startup, "step")
    \/ PublishHold("hold", TargetOf(Step), "next")
    \/ PublishHold("reached", TargetOf(Step), "next")

BeginStep ==
    /\ at = "step"
    /\ outcome' = "none"
    /\ Proceed(IF Step.completion = "time" THEN "hold" ELSE "reach")
    /\ Quiet /\ UNCHANGED <<index, loop, startup>>

\* One sample within tolerance is enough; settling publishes but does not look.
ReachStep ==
    /\ at = "reach" /\ ticks < Duration
    /\ PublishPeriod(TargetOf(Step))
    /\ IF cached' = TargetOf(Step)
         THEN /\ outcome' = "reached"
              /\ Proceed(IF Step.settle THEN "reached" ELSE "next")
         ELSE /\ ticks' = ticks + 1
              /\ UNCHANGED <<script, at, outcome>>
    /\ UNCHANGED <<index, loop, startup>>

ReachTimesOut ==
    /\ at = "reach" /\ ticks = Duration
    /\ outcome' = "timeout"
    /\ Proceed("next")
    /\ Quiet /\ UNCHANGED <<index, loop, startup>>

NextStep ==
    /\ at = "next"
    /\ IF index < Len(script.steps)
         THEN index' = index + 1 /\ loop' = loop /\ Proceed("step")
         ELSE /\ index' = 1
              /\ IF loop > 1 THEN loop' = loop - 1 /\ Proceed("step")
                 ELSE loop' = loop /\ Proceed("gone")
    /\ Quiet /\ UNCHANGED <<startup, outcome>>

\* goal_cli never spins: it publishes, sleeps and leaves.
RepeatGoal ==
    /\ at = "repeat"
    /\ PublishGoal(Step.position)
    /\ IF ticks < Duration THEN ticks' = ticks + 1 /\ UNCHANGED <<script, at>>
                           ELSE Proceed("gone")
    /\ UNCHANGED <<arm, flagSeen, matched, poses, recent, cached, index, loop,
                   startup, outcome>>

Script ==
    \/ WaitForPose \/ CapturePose \/ WaitForSubscribers \/ Holds \/ BeginStep
    \/ ReachStep \/ ReachTimesOut \/ NextStep \/ RepeatGoal
================================================================================
