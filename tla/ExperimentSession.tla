--------------------------- MODULE ExperimentSession ---------------------------
(***************************************************************************)
(* One script at the bench: the experiment runner with the data recorder,   *)
(* or one of the smaller goal scripts; the other is off.                    *)
(***************************************************************************)
EXTENDS ExperimentGoalRunner, GoalScripts

sessionVars == <<recorderVars, benchVars, runnerVars, scriptVars>>

TypeOK == RecorderTypeOK /\ BenchTypeOK /\ RunnerTypeOK /\ ScriptTypeOK

\* The goal subscription is there, as the scripts wait for; the flag's may follow.
Init ==
    /\ BenchInit /\ RunnerInit /\ ScriptInit
    /\ IF cfg.mode = "off"
         THEN /\ script.kind # "off"
              /\ isRecording = FALSE
         ELSE script.kind = "off"
    /\ matched = {"goal"}
    /\ flagSeen = (IF cfg.mode \in {"stop", "off"} THEN 1 ELSE 0)
    /\ RecorderInit

RunnerSteps == Runner /\ UNCHANGED scriptVars
WaitSteps == SpinWhileWaiting /\ UNCHANGED scriptVars
ScriptSteps == Script /\ UNCHANGED <<recorderVars, runnerVars>>

Recorder ==
    /\ \/ StartRecording \/ StopRecording
       \/ RecordOnce(IF RunOwnsRecorder THEN "run" ELSE "outside")
    /\ cfg.mode # "off"
    /\ UNCHANGED <<benchVars, runnerVars, scriptVars>>

Bench ==
    /\ {pc, at} # {"gone"}
    /\ ArmPublishes \/ SubscriptionMatches
    /\ UNCHANGED <<recorderVars, runnerVars, scriptVars>>

Next == RunnerSteps \/ WaitSteps \/ ScriptSteps \/ Recorder \/ Bench

\* The script's thread runs and its deadlines pass; nobody has to answer the
\* menu, the recorder need not answer, and the arm need not move.
ScriptThread == (RunnerSteps /\ pc # "menu") \/ ScriptSteps
Fairness == WF_sessionVars(ScriptThread)

Spec == Init /\ [][Next]_sessionVars /\ Fairness

-----------------------------------------------------------------------------
(* Properties *)

\* From the acknowledged start to the end of the run the recorder is open,
\* unless a stop that an earlier run gave up on was still on its way.
RecordedWhileRunning == InRecordedRun /\ "stop" \notin strayed => isRecording

\* The recorder is open only for a run, and its file holds no row from outside
\* it, unless it started itself or a call was given up or found no service:
\* no error of the run may leave it open.
DatasetsArePure ==
    isRecording /\ strayed = {} => RunOwnsRecorder /\ "outside" \notin dataset

\* After a stop flag, and after every exit with --stop-rmp-on-exit whatever went
\* wrong before (but for a Ctrl-C, which is not modelled), a controller that could
\* hear the runner has seen zero last.
StoppedIsDown ==
    stopped \/ (pc = "gone" /\ cfg.zeroOnExit /\ "flag" \in matched) => flagSeen = 0

\* The runs with a bound on their length.
Timed == ~cfg.stream /\ cfg.timeout + cfg.fixed > 0

\* A goal or a step is reported reached only when the arm was there in one of
\* the last Depth + 1 published poses, whatever the subscription had kept.
Seen(position) == \E i \in DOMAIN recent : recent[i] = position
ReachedIsRecent ==
    [][/\ pc = "until" /\ reached' => Seen(Head(goals))
       /\ at = "reach" /\ outcome' = "reached" => Seen(TargetOf(Step))]_sessionVars

\* A bounded command comes to its end with the recorder alive or not and wherever
\* the arm goes, and so does every scenario of the smaller scripts.
Bounded == (Timed /\ pc \notin {"menu", "gone"}) \/ at # "gone"
SessionEnds == Bounded ~> ~Bounded
================================================================================
