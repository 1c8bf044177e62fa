------------------------- MODULE ExperimentSessionProofs -------------------------
(***************************************************************************)
(* Proofs about the goal runner and the data recorder: what a stopped       *)
(* system has seen last, that a recording covers a run and nothing else,    *)
(* however late the recorder answers and wherever a run fails, and that a   *)
(* pose reported as reached was published a moment ago.                     *)
(***************************************************************************)
EXTENDS ExperimentSession, TLAPS, SequenceTheorems

\* A process without a runner has a smaller script, and a runner has none beside it.
OneScript ==
    /\ cfg \in Configs
    /\ cfg.mode = "off" => pc = "gone"
    /\ cfg.mode # "off" => at = "gone"

\* A thread that has ended stays where it is.
LEMMA GoneStays ==
  /\ RunnerSteps \/ WaitSteps => pc # "gone" /\ cfg' = cfg /\ at' = at
  /\ ScriptSteps => at # "gone" /\ UNCHANGED <<cfg, pc>>
  <1>1. Runner => pc # "gone" /\ cfg' = cfg
    <2>1. CASE ChooseRun \/ ChooseOther \/ SavePose \/ Leave
      BY <2>1 DEF ChooseRun, ChooseOther, Choose, SavePose, Leave, GoTo
    <2>2. CASE SubscriberWaitEnds \/ CallStart \/ StartReturns \/ CallStop \/ StopReturns
      BY <2>2 DEF SubscriberWaitEnds, CallStart, StartReturns, StartTimesOut, CallStop,
         StopReturns, GoTo
    <2>3. CASE PauseEnds \/ BeginGoal \/ StreamPose \/ StreamWaypoint
      BY <2>3 DEF PauseEnds, BeginGoal, StreamPose, StreamWaypoint, GoTo
    <2>4. CASE PublishUntilReached \/ GivesUpGoal \/ NextGoal \/ Durations \/ Finally
      BY <2>4 DEF PublishUntilReached, GivesUpGoal, NextGoal, Durations,
         PublishForDuration, Finally, GoTo
    <2>5. CASE HoldPose \/ StopFlag
      BY <2>5 DEF HoldPose, StopFlag, GoTo
    <2> HIDE DEF Runner
    <2> QED
      BY <2>1, <2>2, <2>3, <2>4, <2>5 DEF Runner
  <1>2. SpinWhileWaiting => pc # "gone" /\ cfg' = cfg
    BY DEF SpinWhileWaiting, Waiting, runnerVars
  <1>3. Script => at # "gone"
    BY DEF Script, WaitForPose, CapturePose, FirstPose,
       WaitForSubscribers, Holds, PublishHold, BeginStep,
       ReachStep, ReachTimesOut, NextStep, RepeatGoal
  <1> QED
    BY <1>1, <1>2, <1>3 DEF RunnerSteps, WaitSteps, ScriptSteps, scriptVars, runnerVars

\* No step starts the other script.
LEMMA OneScriptStep == OneScript /\ [Next]_sessionVars => OneScript'
  BY GoneStays DEF OneScript, Next, Recorder, Bench, sessionVars, runnerVars, scriptVars

-----------------------------------------------------------------------------
(* What a stopped system has seen last *)

\* Once a zero flag is out, nothing is published until another command is chosen,
\* and a process that ends with it has nobody left to publish.
ZeroInv ==
    /\ stopped => pc \in {"zero", "exitZero", "menu", "leave", "gone"} /\ flagSeen = 0
    /\ pc = "gone" /\ cfg.zeroOnExit /\ "flag" \in matched => flagSeen = 0

\* The runner publishes a one only inside a run, whose choice forgets the stop.
LEMMA RunnerZero == OneScript /\ ZeroInv /\ Runner => ZeroInv'
  <1> SUFFICES ASSUME OneScript, ZeroInv, Runner PROVE ZeroInv'
    OBVIOUS
  <1> USE DEF ZeroInv, GoTo, Alone, benchVars
  <1>1. CASE ChooseRun \/ ChooseOther
    BY <1>1 DEF ChooseRun, ChooseOther, Choose, AfterCommand
  <1>2. CASE Leave
    BY <1>2 DEF Leave
  <1>3. CASE StopFlag
    <2>1. /\ matched' = matched /\ cfg' = cfg
          /\ stopped' = ("flag" \in matched)
          /\ "flag" \in matched => flagSeen' = 0
          /\ pc' \in {"zero", "exitZero", "menu", "leave", "gone"}
      BY <1>3 DEF StopFlag, PublishFlag, AfterCommand
    <2> QED
      BY <2>1
  <1>4. ASSUME pc \notin {"zero", "exitZero", "menu", "leave", "gone"},
               stopped' = stopped \/ ~stopped', pc' # "gone"
        PROVE  ZeroInv'
    BY <1>4
  <1>5. CASE SavePose \/ SubscriberWaitEnds \/ CallStart \/ StartReturns \/ CallStop
               \/ StopReturns
    BY <1>4, <1>5 DEF SavePose, SubscriberWaitEnds, CallStart, StartReturns,
       StartTimesOut, CallStop, StopReturns, RaiseInRun, AfterCommand
  <1>6. CASE PauseEnds \/ BeginGoal \/ StreamPose \/ StreamWaypoint
    BY <1>4, <1>6 DEF PauseEnds, BeginGoal, StreamPose, StreamWaypoint, RaiseInRun,
       AfterCommand
  <1>7. CASE PublishUntilReached \/ GivesUpGoal \/ NextGoal \/ Durations \/ Finally
    BY <1>4, <1>7 DEF PublishUntilReached, GivesUpGoal, NextGoal, AfterGoals, Durations,
       PublishForDuration, Finally, RaiseInRun, AfterCommand
  <1>8. CASE HoldPose
    BY <1>4, <1>8 DEF HoldPose, AfterCommand
  <1> QED
    BY <1>1, <1>2, <1>3, <1>5, <1>6, <1>7, <1>8 DEF Runner

\* A subscription that matches late meets a runner that is still there.
LEMMA ZeroStep == OneScript /\ ZeroInv /\ [Next]_sessionVars => ZeroInv'
  <1> SUFFICES ASSUME OneScript, ZeroInv, [Next]_sessionVars PROVE ZeroInv'
    OBVIOUS
  <1> USE DEF ZeroInv
  <1>1. CASE WaitSteps
    BY <1>1 DEF WaitSteps, SpinWhileWaiting, runnerVars
  <1>2. CASE ScriptSteps
    <2>1. UNCHANGED <<flagSeen, matched>>
      BY <1>2 DEF ScriptSteps, Script, WaitForPose, CapturePose, FirstPose,
         WaitForSubscribers, Holds, PublishHold,
         BeginStep, ReachStep, ReachTimesOut, NextStep, RepeatGoal, PublishPeriod, Quiet,
         benchVars
    <2> QED
      BY <1>2, <2>1 DEF ScriptSteps, runnerVars
  <1>3. CASE Recorder
    BY <1>3 DEF Recorder, benchVars, runnerVars
  <1>4. CASE Bench
    <2>1. CASE ArmPublishes
      BY <1>4, <2>1 DEF Bench, ArmPublishes, runnerVars
    <2>2. CASE SubscriptionMatches
      <3>1. UNCHANGED <<flagSeen, pc, cfg, stopped>>
        BY <1>4, <2>2 DEF Bench, SubscriptionMatches, runnerVars
      <3>2. pc = "gone" => ~cfg.zeroOnExit
        <4>1. pc = "gone" => at # "gone"
          BY <1>4 DEF Bench
        <4>2. pc = "gone" => cfg.mode = "off"
          BY <4>1 DEF OneScript
        <4> QED
          BY <4>2, RunnerAssumption DEF OneScript, CommandLines
      <3> QED
        BY <3>1, <3>2
    <2> QED
      BY <1>4, <2>1, <2>2 DEF Bench
  <1>5. CASE UNCHANGED sessionVars
    BY <1>5 DEF sessionVars, benchVars, runnerVars
  <1> QED
    BY <1>1, <1>2, <1>3, <1>4, <1>5, RunnerZero DEF Next, RunnerSteps

\* After a stop flag, and after every exit that was to stop the controller, a
\* controller that could hear has seen zero last: for every command line, pose file
\* and bound.
THEOREM StopHolds == Spec => []StoppedIsDown
  <1>1. Init => OneScript /\ ZeroInv
    <2> SUFFICES ASSUME Init PROVE OneScript /\ ZeroInv
      OBVIOUS
    <2>1. OneScript
      BY DEF Init, RunnerInit, ScriptInit, OneScript
    <2>2. ZeroInv
      BY DEF Init, RunnerInit, ZeroInv
    <2> QED
      BY <2>1, <2>2
  <1>2. ZeroInv => StoppedIsDown
    BY DEF ZeroInv, StoppedIsDown
  <1> QED
    BY <1>1, <1>2, OneScriptStep, ZeroStep, PTL DEF Spec

-----------------------------------------------------------------------------
(* The calls of the recorder's services *)

WaitOf(op) == IF op = "start" THEN "startWait" ELSE "stopWait"

\* Only the last request of a queue can have somebody waiting, who is the runner at
\* that call and has no answer; whatever else is in the queue is recorded as strayed.
Calls ==
    /\ requests \in [Operations -> Seq(BOOLEAN)]
    /\ \A op \in Operations : \A i \in DOMAIN requests[op] :
           IF requests[op][i]
             THEN i = Len(requests[op]) /\ answer = "none" /\ pc = WaitOf(op)
             ELSE op \in strayed

\* Serving a request takes an answer to the caller or works off a strayed one.
LEMMA ServeCalls ==
  ASSUME Calls, NEW op \in Operations, NEW result, Serve(op, result), pc' = pc
  PROVE  /\ requests' \in [Operations -> Seq(BOOLEAN)]
         /\ \A o \in Operations : \A i \in DOMAIN requests'[o] :
                IF requests'[o][i]
                  THEN i = Len(requests'[o]) /\ answer' = "none" /\ pc' = WaitOf(o)
                  ELSE o \in strayed
         /\ Head(requests[op]) \in BOOLEAN
         /\ IF Head(requests[op])
              THEN pc = WaitOf(op) /\ answer' = result
              ELSE answer' = answer /\ op \in strayed /\ Abandoned(op, requests)
  <1> DEFINE queue == requests[op]
  <1>1. queue \in Seq(BOOLEAN) /\ queue # <<>>
    BY DEF Calls, Serve
  <1>2. /\ 1 \in DOMAIN queue /\ Head(queue) = queue[1] /\ queue[1] \in BOOLEAN
        /\ Tail(queue) \in Seq(BOOLEAN) /\ Len(Tail(queue)) = Len(queue) - 1
        /\ \A i \in DOMAIN Tail(queue) :
              i + 1 \in DOMAIN queue /\ Tail(queue)[i] = queue[i + 1]
    <2> HIDE DEF queue
    <2>1. /\ Tail(queue) \in Seq(BOOLEAN) /\ Len(Tail(queue)) = Len(queue) - 1
          /\ Len(queue) \in Nat \ {0} /\ DOMAIN queue = 1 .. Len(queue)
      BY <1>1
    <2>2. /\ 1 \in DOMAIN queue /\ Head(queue) = queue[1] /\ queue[1] \in BOOLEAN
      BY <1>1, <2>1
    <2>3. DOMAIN Tail(queue) = 1 .. (Len(queue) - 1)
      BY <2>1
    <2>4. ASSUME NEW i \in DOMAIN Tail(queue)
          PROVE  i + 1 \in DOMAIN queue /\ Tail(queue)[i] = queue[i + 1]
      BY <1>1, <2>1, <2>3
    <2> QED
      BY <2>1, <2>2, <2>4
  <1>3. /\ requests' = [requests EXCEPT ![op] = Tail(queue)]
        /\ answer' = IF Head(queue) THEN result ELSE answer
    BY DEF Serve
  <1>4. \A i \in DOMAIN queue :
            IF queue[i] THEN i = Len(queue) /\ answer = "none" /\ pc = WaitOf(op)
                        ELSE op \in strayed
    BY DEF Calls
  <1> HIDE DEF queue
  <1>5. requests' \in [Operations -> Seq(BOOLEAN)]
    BY <1>2, <1>3 DEF Calls
  <1>6. IF Head(queue) THEN pc = WaitOf(op) /\ answer' = result /\ Tail(queue) = <<>>
        ELSE answer' = answer /\ op \in strayed
    <2>1. CASE queue[1]
      <3>1. Len(queue) = 1 /\ pc = WaitOf(op)
        BY <1>2, <1>4, <2>1
      <3>2. Tail(queue) = <<>>
        BY <1>2, <3>1
      <3> QED
        BY <1>2, <1>3, <2>1, <3>1, <3>2
    <2>2. CASE ~queue[1]
      BY <1>2, <1>3, <1>4, <2>2
    <2> QED
      BY <2>1, <2>2
  <1>7. ASSUME NEW i \in DOMAIN requests'[op]
        PROVE  IF requests'[op][i]
                 THEN i = Len(requests'[op]) /\ answer' = "none" /\ pc' = WaitOf(op)
                 ELSE op \in strayed
    <2>1. requests'[op] = Tail(queue)
      BY <1>3 DEF Calls
    <2>2. /\ i \in DOMAIN Tail(queue) /\ i + 1 \in DOMAIN queue
          /\ requests'[op][i] = queue[i + 1]
          /\ Len(requests'[op]) = Len(queue) - 1
      BY <1>2, <2>1
    <2>3. answer' = answer
      <3>1. ~(Tail(queue) = <<>>)
        BY <2>2
      <3> QED
        BY <1>6, <3>1
    <2>4. CASE queue[i + 1]
      <3>1. i + 1 = Len(queue) /\ answer = "none" /\ pc = WaitOf(op)
        BY <1>4, <2>2, <2>4
      <3> QED
        BY <1>1, <2>2, <2>3, <2>4, <3>1
    <2>5. CASE ~queue[i + 1]
      BY <1>4, <2>2, <2>5
    <2> QED
      BY <2>4, <2>5
  <1>8. ASSUME NEW o \in Operations \ {op}, NEW i \in DOMAIN requests'[o]
        PROVE  IF requests'[o][i]
                 THEN i = Len(requests'[o]) /\ answer' = "none" /\ pc' = WaitOf(o)
                 ELSE o \in strayed
    <2>1. requests'[o] = requests[o]
      BY <1>3 DEF Calls
    <2>2. IF requests[o][i] THEN i = Len(requests[o]) /\ answer = "none" /\ pc = WaitOf(o)
                            ELSE o \in strayed
      BY <2>1 DEF Calls
    <2>3. CASE requests[o][i]
      <3>1. pc # WaitOf(op)
        BY <2>2, <2>3 DEF WaitOf, Operations
      <3> QED
        BY <1>6, <2>1, <2>2, <2>3, <3>1
    <2> QED
      BY <2>1, <2>2, <2>3
  <1>9. ~Head(queue) => Abandoned(op, requests)
    BY <1>2 DEF Abandoned, queue
  <1> QED
    BY <1>2, <1>5, <1>6, <1>7, <1>8, <1>9 DEF queue

-----------------------------------------------------------------------------
(* A recording covers a run and nothing else *)

\* An answered stop has closed the file and an answered start has opened it, unless
\* a strayed call has been executed in between.
RecordInv ==
    /\ {isRecording, started} \subseteq BOOLEAN
    /\ started => InRecordedRun \/ pc = "stop"
    /\ pc = "stopWait" /\ answer # "none" /\ strayed = {} => ~isRecording
    /\ pc = "startWait" /\ answer # "none" /\ "stop" \notin strayed => isRecording
    /\ DatasetsArePure
    /\ RecordedWhileRunning

\* Both parts hold when the recorder is left alone and the runner is at no call.
LEMMA QuietRecords ==
  ASSUME Calls, RecordInv, UNCHANGED recorderVars, UNCHANGED started,
         pc \notin {"start", "startWait", "stop", "stopWait"},
         pc' \notin {"startWait", "stopWait"},
         InRecordedRun => InRecordedRun' \/ pc' = "stop",
         started /\ InRecordedRun' => InRecordedRun
  PROVE  Calls' /\ RecordInv'
  <1>1. Calls'
    BY DEF Calls, recorderVars, WaitOf
  <1>2. /\ {isRecording, started}' \subseteq BOOLEAN
        /\ started' => InRecordedRun' \/ pc' = "stop"
    BY DEF RecordInv, recorderVars
  <1>3. DatasetsArePure'
    BY DEF RecordInv, DatasetsArePure, RunOwnsRecorder, recorderVars
  <1>4. RecordedWhileRunning'
    BY DEF RecordInv, RecordedWhileRunning, InRecordedRun, recorderVars
  <1> QED
    BY <1>1, <1>2, <1>3, <1>4 DEF RecordInv

\* A step of the runner that calls no service is one of those.
LEMMA RunnerRecords ==
  ASSUME Calls, RecordInv,
         Runner \/ SpinWhileWaiting \/ UNCHANGED <<recorderVars, pc, started>>,
         ~CallStart, ~StartReturns, ~CallStop, ~StopReturns
  PROVE  Calls' /\ RecordInv'
  <1> DEFINE Places == {"pre", "goal", "streamPose", "stream", "until", "fixed", "after",
                        "pause", "post", "finally"}
  <1>1. ASSUME UNCHANGED <<recorderVars, started>>,
               pc \in Places /\ (started => pc' \in Places \cup {"stop"})
                   /\ pc' \notin {"startWait", "stopWait"}
        PROVE  Calls' /\ RecordInv'
    BY <1>1, QuietRecords DEF InRecordedRun, RecordInv
  <1>2. ASSUME UNCHANGED <<recorderVars, started>>,
               pc \notin Places \cup {"start", "startWait", "stop", "stopWait"},
               pc' \notin {"startWait", "stopWait"}
        PROVE  Calls' /\ RecordInv'
    BY <1>2, QuietRecords DEF InRecordedRun, RecordInv
  <1>3. CASE ChooseRun \/ ChooseOther \/ SavePose \/ Leave
    BY <1>2, <1>3 DEF ChooseRun, ChooseOther, Choose, SavePose, Leave, AfterCommand, GoTo,
       Alone
  <1>4. CASE SubscriberWaitEnds \/ HoldPose \/ StopFlag
    BY <1>2, <1>4 DEF SubscriberWaitEnds, HoldPose, StopFlag, AfterCommand, GoTo, Alone
  <1>5. CASE PauseEnds \/ BeginGoal \/ StreamPose \/ StreamWaypoint
    BY <1>1, <1>5 DEF PauseEnds, BeginGoal, StreamPose, StreamWaypoint, Period, RaiseInRun,
       AfterCommand, GoTo, Alone
  <1>6. CASE PublishUntilReached \/ GivesUpGoal \/ NextGoal \/ Finally
    BY <1>1, <1>6 DEF PublishUntilReached, GivesUpGoal, NextGoal, Finally, Period,
       AfterGoals, RaiseInRun, AfterCommand, GoTo, Alone
  <1>7. CASE Durations
    BY <1>1, <1>2, <1>7 DEF Durations, PublishForDuration, Period, GoTo, Alone
  <1>8. CASE SpinWhileWaiting \/ UNCHANGED <<recorderVars, pc, started>>
    <2>1. UNCHANGED <<recorderVars, pc, started>>
      BY <1>8 DEF SpinWhileWaiting, runnerVars, runVars
    <2> QED
      BY <2>1 DEF Calls, RecordInv, InRecordedRun, DatasetsArePure, RunOwnsRecorder,
         RecordedWhileRunning, recorderVars
  <1> QED
    BY <1>3, <1>4, <1>5, <1>6, <1>7, <1>8 DEF Runner

\* A request is appended, with its caller waiting.
LEMMA CallsSent ==
  ASSUME Calls, NEW op \in Operations, SendRequest(op), pc' = WaitOf(op),
         pc \notin {"startWait", "stopWait"}
  PROVE  Calls'
  <1>1. /\ requests' = [requests EXCEPT ![op] = Append(requests[op], TRUE)]
        /\ answer' = "none" /\ strayed' = strayed
    BY DEF SendRequest
  <1>2. \A o \in Operations : requests[o] \in Seq(BOOLEAN)
    BY DEF Calls
  <1>3. \A o \in Operations : \A i \in DOMAIN requests[o] :
            ~requests[o][i] /\ o \in strayed
    BY DEF Calls, WaitOf
  <1>4. requests' \in [Operations -> Seq(BOOLEAN)]
    BY <1>1, <1>2 DEF Calls
  <1>5. ASSUME NEW i \in DOMAIN requests'[op]
        PROVE  IF requests'[op][i] THEN i = Len(requests'[op]) ELSE op \in strayed
    <2> DEFINE queue == requests[op]
    <2>1. requests'[op] = Append(queue, TRUE)
      BY <1>1 DEF Calls
    <2>2. queue \in Seq(BOOLEAN)
      BY <1>2
    <2>3. \A j \in DOMAIN queue : ~queue[j] /\ op \in strayed
      BY <1>3
    <2> HIDE DEF queue
    <2>4. /\ Len(requests'[op]) = Len(queue) + 1 /\ Len(queue) \in Nat
          /\ DOMAIN queue = 1 .. Len(queue)
          /\ i \in 1 .. (Len(queue) + 1)
      BY <2>1, <2>2
    <2>5. CASE i \in DOMAIN queue
      <3>1. requests'[op][i] = queue[i]
        BY <2>1, <2>2, <2>4, <2>5
      <3> QED
        BY <2>3, <2>5, <3>1
    <2>6. CASE i \notin DOMAIN queue
      <3>1. i = Len(queue) + 1
        BY <2>4, <2>6
      <3>2. requests'[op][i] = TRUE
        BY <2>1, <2>2, <3>1
      <3> QED
        BY <2>4, <3>1, <3>2
    <2> QED
      BY <2>5, <2>6
  <1>6. \A o \in Operations \ {op} : requests'[o] = requests[o]
    BY <1>1 DEF Calls
  <1> QED
    BY <1>1, <1>3, <1>4, <1>5, <1>6 DEF Calls

\* A caller that gives up leaves a strayed request behind, or has left the queue.
LEMMA CallsDropped ==
  ASSUME Calls, NEW op \in Operations, GiveUpRequest(op), pc = WaitOf(op)
  PROVE  Calls'
  <1>1. /\ requests' = [requests EXCEPT ![op] = [i \in DOMAIN requests[op] |-> FALSE]]
        /\ answer' = "none" /\ strayed' = strayed \cup {op}
    BY DEF GiveUpRequest
  <1>2. \A o \in Operations : requests[o] \in Seq(BOOLEAN)
    BY DEF Calls
  <1>3. [i \in DOMAIN requests[op] |-> FALSE] \in Seq(BOOLEAN)
    <2> DEFINE queue == requests[op]
    <2>1. queue \in Seq(BOOLEAN)
      BY <1>2
    <2> HIDE DEF queue
    <2>2. Len(queue) \in Nat /\ DOMAIN queue = 1 .. Len(queue)
      BY <2>1
    <2>3. [i \in 1 .. Len(queue) |-> FALSE] \in Seq(BOOLEAN)
      BY <2>2
    <2> QED
      BY <2>2, <2>3 DEF queue
  <1>4. requests' \in [Operations -> Seq(BOOLEAN)]
    BY <1>1, <1>3 DEF Calls
  <1>5. \A i \in DOMAIN requests'[op] : requests'[op][i] = FALSE
    BY <1>1 DEF Calls
  <1>6. \A o \in Operations \ {op} : requests'[o] = requests[o]
    BY <1>1 DEF Calls
  <1>7. ASSUME NEW o \in Operations \ {op}, NEW i \in DOMAIN requests[o]
        PROVE  ~requests[o][i] /\ o \in strayed
    BY <1>7 DEF Calls, WaitOf, Operations
  <1> QED
    BY <1>1, <1>4, <1>5, <1>6, <1>7 DEF Calls

\* A caller that takes its answer had the last one waiting.
LEMMA CallsTaken ==
  ASSUME Calls, UNCHANGED <<requests, strayed>>, answer # "none"
  PROVE  Calls'
  BY DEF Calls

\* A call is sent, given up on, answered, or finds no service: a start that fails ends
\* a run that is not recorded, and a stop that fails is remembered as such.
LEMMA CallersRecord ==
  ASSUME Calls, RecordInv, CallStart \/ StartReturns \/ CallStop \/ StopReturns
  PROVE  Calls' /\ RecordInv'
  <1> USE DEF RecordInv, InRecordedRun, DatasetsArePure, RunOwnsRecorder,
              RecordedWhileRunning
  <1>1. CASE CallStart
    <2>1. pc = "start" /\ started' = started /\ ~started
      BY <1>1 DEF CallStart
    <2>2. CASE SendRequest("start") /\ GoTo("startWait")
      <3>1. Calls'
        BY <2>1, <2>2, CallsSent DEF GoTo, WaitOf, Operations
      <3> QED
        BY <2>1, <2>2, <3>1 DEF SendRequest, GoTo
    <2>3. CASE NoService("start") /\ GoTo(RaiseInRun)
      <3>1. /\ UNCHANGED <<isRecording, dataset, requests, answer, strayed>>
            /\ pc' \in {"menu", "leave"}
        BY <2>1, <2>3 DEF NoService, GoTo, RaiseInRun, AfterCommand
      <3>2. Calls'
        BY <2>1, <3>1 DEF Calls, WaitOf
      <3> QED
        BY <2>1, <3>1, <3>2
    <2> QED
      BY <1>1, <2>2, <2>3 DEF CallStart
  <1>2. CASE StartReturns
    <2>1. pc = "startWait" /\ ~started
      BY <1>2 DEF StartReturns
    <2>2. CASE TakeAnswer("ok") /\ started' = TRUE /\ GoTo("pre")
      <3>1. Calls'
        BY <2>2, CallsTaken DEF TakeAnswer
      <3>2. "stop" \notin strayed => isRecording
        BY <2>1, <2>2 DEF TakeAnswer
      <3> QED
        BY <2>1, <2>2, <3>1, <3>2 DEF TakeAnswer, GoTo
    <2>3. CASE GiveUpRequest("start") /\ UNCHANGED started /\ GoTo(RaiseInRun)
      <3>1. Calls'
        BY <2>1, <2>3, CallsDropped DEF WaitOf, Operations
      <3>2. "start" \in strayed' /\ isRecording' = isRecording
        BY <2>3 DEF GiveUpRequest
      <3>3. pc' \in {"menu", "leave"} /\ ~started' /\ started' \in BOOLEAN
        BY <2>1, <2>3 DEF GoTo, RaiseInRun, AfterCommand
      <3> QED
        BY <3>1, <3>2, <3>3
    <2> QED
      BY <1>2, <2>2, <2>3 DEF StartReturns, StartTimesOut
  <1>3. CASE CallStop
    <2>1. pc = "stop" /\ started' = FALSE
      BY <1>3 DEF CallStop
    <2>2. CASE SendRequest("stop") /\ GoTo("stopWait")
      <3>1. Calls'
        BY <2>1, <2>2, CallsSent DEF GoTo, WaitOf, Operations
      <3> QED
        BY <2>1, <2>2, <3>1 DEF SendRequest, GoTo
    <2>3. CASE NoService("stop") /\ GoTo(AfterCommand)
      <3>1. /\ UNCHANGED <<isRecording, dataset, requests, answer>>
            /\ strayed' = strayed \cup {"stop"}
            /\ pc' \in {"menu", "leave"}
        BY <2>3 DEF NoService, GoTo, AfterCommand
      <3>2. Calls'
        BY <2>1, <3>1 DEF Calls, WaitOf
      <3> QED
        BY <2>1, <3>1, <3>2
    <2> QED
      BY <1>3, <2>2, <2>3 DEF CallStop
  <1>4. CASE StopReturns
    <2>1. pc = "stopWait" /\ ~started /\ started' = started
          /\ pc' \in {"menu", "leave"}
      BY <1>4 DEF StopReturns, GoTo, AfterCommand
    <2>2. CASE TakeAnswer("ok") \/ TakeAnswer("refused")
      <3>1. Calls'
        BY <2>2, CallsTaken DEF TakeAnswer
      <3>2. strayed = {} => ~isRecording
        BY <2>1, <2>2 DEF TakeAnswer
      <3> QED
        BY <2>1, <2>2, <3>1, <3>2 DEF TakeAnswer
    <2>3. CASE GiveUpRequest("stop")
      <3>1. Calls'
        BY <2>1, <2>3, CallsDropped DEF WaitOf, Operations
      <3>2. "stop" \in strayed' /\ isRecording' = isRecording
        BY <2>3 DEF GiveUpRequest
      <3> QED
        BY <2>1, <3>1, <3>2
    <2> QED
      BY <1>4, <2>2, <2>3 DEF StopReturns
  <1> QED
    BY <1>1, <1>2, <1>3, <1>4

\* The recorder serves what waits, in any order: a call nobody waits for is a strayed
\* one, and is forgotten only when nothing of it is left.
LEMMA RecorderRecords ==
  ASSUME Calls, RecordInv, Recorder
  PROVE  Calls' /\ RecordInv'
  <1>1. UNCHANGED <<pc, started>>
    BY DEF Recorder, runnerVars, runVars
  <1>2. /\ InRecordedRun' = InRecordedRun /\ RunOwnsRecorder' = RunOwnsRecorder
        /\ (InRecordedRun => started /\ pc \notin {"startWait", "stopWait"})
        /\ (pc = "startWait" => RunOwnsRecorder)
    BY <1>1 DEF InRecordedRun, RunOwnsRecorder
  <1>3. CASE StartRecording
    <2>1. /\ Serve("start", IF isRecording THEN StartAnswerWhileOpen ELSE "ok")
          /\ isRecording' = TRUE
          /\ dataset' = IF isRecording THEN dataset ELSE {}
          /\ strayed' = IF isRecording \/ Abandoned("stop", requests)
                          THEN strayed ELSE strayed \ {"stop"}
      BY <1>3 DEF StartRecording
    <2>2. /\ requests' \in [Operations -> Seq(BOOLEAN)]
          /\ \A o \in Operations : \A i \in DOMAIN requests'[o] :
                 IF requests'[o][i]
                   THEN i = Len(requests'[o]) /\ answer' = "none" /\ pc' = WaitOf(o)
                   ELSE o \in strayed
          /\ pc = "startWait" \/ "start" \in strayed
      BY <1>1, <2>1, ServeCalls DEF WaitOf, Operations
    <2>3. requests'["stop"] = requests["stop"]
      BY <2>1 DEF Serve, Calls, Operations
    <2>4. ASSUME NEW o \in Operations, NEW i \in DOMAIN requests'[o], ~requests'[o][i]
          PROVE  o \in strayed'
      <3>1. o \in strayed
        BY <2>2, <2>4
      <3>2. CASE o = "start"
        BY <2>1, <3>1, <3>2
      <3>3. CASE o = "stop"
        BY <2>1, <2>3, <2>4, <3>1, <3>3 DEF Abandoned
      <3> QED
        BY <3>2, <3>3 DEF Operations
    <2>5. Calls'
      BY <2>2, <2>4 DEF Calls
    <2>6. "start" \in strayed => "start" \in strayed'
      BY <2>1
    <2>7. DatasetsArePure'
      <3> SUFFICES ASSUME strayed' = {} PROVE RunOwnsRecorder' /\ "outside" \notin dataset'
        BY DEF DatasetsArePure
      <3>1. pc = "startWait"
        BY <2>2, <2>6
      <3>2. isRecording => strayed = {}
        BY <2>1
      <3> QED
        BY <1>2, <2>1, <3>1, <3>2 DEF RecordInv, DatasetsArePure
    <2>8. RecordedWhileRunning'
      BY <2>1 DEF RecordedWhileRunning
    <2>9. pc' = "stopWait" => strayed' # {}
      BY <1>1, <2>2, <2>6
    <2> QED
      BY <1>1, <1>2, <2>1, <2>5, <2>7, <2>8, <2>9 DEF RecordInv
  <1>4. CASE StopRecording
    <2>1. /\ Serve("stop", IF isRecording THEN "ok" ELSE "refused")
          /\ isRecording' = FALSE
          /\ strayed' = {op \in strayed \ {"auto"} :
                            \/ Abandoned(op, requests')
                            \/ op = "stop" /\ ~Head(requests[op])}
      BY <1>4 DEF StopRecording
    <2>2. /\ requests' \in [Operations -> Seq(BOOLEAN)]
          /\ \A o \in Operations : \A i \in DOMAIN requests'[o] :
                 IF requests'[o][i]
                   THEN i = Len(requests'[o]) /\ answer' = "none" /\ pc' = WaitOf(o)
                   ELSE o \in strayed
          /\ pc = "stopWait" \/ ("stop" \in strayed /\ ~Head(requests["stop"]))
      BY <1>1, <2>1, ServeCalls DEF WaitOf, Operations
    <2>3. ASSUME NEW o \in Operations, NEW i \in DOMAIN requests'[o], ~requests'[o][i]
          PROVE  o \in strayed'
      BY <2>1, <2>2, <2>3 DEF Abandoned, Operations
    <2>4. Calls'
      BY <2>2, <2>3 DEF Calls
    <2>5. pc = "stopWait" \/ "stop" \in strayed'
      BY <2>1, <2>2
    <2>6. RecordedWhileRunning' /\ DatasetsArePure'
      BY <1>2, <2>1, <2>5 DEF RecordedWhileRunning, DatasetsArePure
    <2> QED
      BY <1>1, <1>2, <2>1, <2>4, <2>5, <2>6 DEF RecordInv
  <1>5. CASE RecordOnce(IF RunOwnsRecorder THEN "run" ELSE "outside")
    <2>1. /\ UNCHANGED <<isRecording, requests, answer, strayed>>
          /\ dataset' = dataset \cup {IF RunOwnsRecorder THEN "run" ELSE "outside"}
      BY <1>5 DEF RecordOnce
    <2>2. Calls'
      BY <1>1, <2>1 DEF Calls, WaitOf
    <2>3. DatasetsArePure'
      BY <1>2, <2>1 DEF DatasetsArePure, RecordInv
    <2> QED
      BY <1>1, <1>2, <2>1, <2>2, <2>3 DEF RecordInv, RecordedWhileRunning
  <1> QED
    BY <1>3, <1>4, <1>5 DEF Recorder

\* Every step keeps both.
LEMMA RecordStep ==
  Calls /\ RecordInv /\ [Next]_sessionVars => Calls' /\ RecordInv'
  <1> SUFFICES ASSUME Calls, RecordInv, [Next]_sessionVars PROVE Calls' /\ RecordInv'
    OBVIOUS
  <1>1. CASE RunnerSteps \/ WaitSteps
    BY <1>1, RunnerRecords, CallersRecord DEF RunnerSteps, WaitSteps
  <1>2. CASE ScriptSteps \/ Bench \/ UNCHANGED sessionVars
    <2>1. UNCHANGED <<recorderVars, pc, started>>
      BY <1>2 DEF ScriptSteps, Bench, sessionVars, runnerVars, runVars
    <2> QED
      BY <2>1 DEF Calls, RecordInv, InRecordedRun, DatasetsArePure, RunOwnsRecorder,
         RecordedWhileRunning, recorderVars
  <1> QED
    BY <1>1, <1>2, RecorderRecords DEF Next

\* Initially no call is out, and only a recorder that started itself is open.
LEMMA RecordStarts == Init => Calls /\ RecordInv
  <1> SUFFICES ASSUME Init PROVE Calls /\ RecordInv
    OBVIOUS
  <1>1. /\ isRecording \in BOOLEAN /\ requests = [op \in Operations |-> <<>>]
        /\ strayed = (IF isRecording THEN {"auto"} ELSE {})
        /\ answer = "none" /\ started = FALSE
    BY DEF Init, RecorderInit, RunnerInit
  <1>2. Calls
    BY <1>1 DEF Calls
  <1>3. isRecording => strayed # {}
    BY <1>1
  <1> QED
    BY <1>1, <1>2, <1>3 DEF RecordInv, InRecordedRun, DatasetsArePure, RecordedWhileRunning

\* The recorder is open only for a run and its file is pure, as long as no call has
\* strayed: for any number of runs, requests and loop periods.
THEOREM DatasetsPure == Spec => []DatasetsArePure
  <1>1. RecordInv => DatasetsArePure
    BY DEF RecordInv
  <1> QED
    BY <1>1, RecordStarts, RecordStep, PTL DEF Spec

\* From the acknowledged start to the end of the run the recorder is open, unless an
\* earlier stop has strayed.
THEOREM RunsRecorded == Spec => []RecordedWhileRunning
  <1>1. RecordInv => RecordedWhileRunning
    BY DEF RecordInv
  <1> QED
    BY <1>1, RecordStarts, RecordStep, PTL DEF Spec

-----------------------------------------------------------------------------
(* What was reached was published a moment ago *)

\* The queue holds the last poses published, in their order; once it is empty the
\* script has the very last one.
QueueInv ==
    /\ arm \in Positions
    /\ poses \in Seq(Positions) /\ Len(poses) <= Depth
    /\ recent \in Seq(Positions) /\ Len(recent) <= Depth + 1
    /\ Len(poses) <= Len(recent)
    /\ \A i \in 1 .. Len(poses) : poses[i] = recent[Len(recent) - Len(poses) + i]
    /\ cached \in OrNone(Positions)
    /\ poses = <<>> /\ cached # "none" => recent # <<>> /\ cached = recent[Len(recent)]

\* How many values a queue has after a push.
After(queue, bound) == IF Len(queue) < bound THEN Len(queue) + 1 ELSE bound

\* A pushed value is the last one, behind as many of the others as there is room for.
LEMMA Pushed ==
  ASSUME NEW queue \in Seq(Positions), NEW value \in Positions,
         NEW bound \in Nat \ {0}, Len(queue) <= bound, NEW more, more = After(queue, bound)
  PROVE  /\ Push(queue, value, bound) \in Seq(Positions)
         /\ Len(Push(queue, value, bound)) = more /\ more \in Nat
         /\ Push(queue, value, bound)[more] = value
         /\ \A i \in 1 .. more - 1 :
               Push(queue, value, bound)[i] = queue[Len(queue) - (more - 1) + i]
  <1> DEFINE kept == IF Len(queue) < bound THEN queue ELSE Tail(queue)
             room == Len(kept)
  <1>1. Len(queue) \in Nat
    BY LenProperties
  <1>2. /\ kept \in Seq(Positions) /\ room = (IF Len(queue) < bound THEN Len(queue) ELSE Len(queue) - 1)
        /\ \A i \in 1 .. room : kept[i] = queue[Len(queue) - room + i]
    <2>1. CASE Len(queue) < bound
      <3>1. kept = queue
        BY <2>1
      <3>2. \A i \in 1 .. Len(queue) : Len(queue) - Len(queue) + i = i
        BY <1>1
      <3> HIDE DEF kept
      <3> QED
        BY <2>1, <3>1, <3>2
    <2>2. CASE Len(queue) = bound
      <3>1. kept = Tail(queue) /\ queue # <<>>
        BY <1>1, <2>2, EmptySeq
      <3>2. /\ Tail(queue) \in Seq(Positions) /\ Len(Tail(queue)) = Len(queue) - 1
            /\ \A i \in 1 .. Len(queue) - 1 : Tail(queue)[i] = queue[i + 1]
        BY <3>1, HeadTailProperties
      <3>3. \A i \in 1 .. Len(queue) - 1 : Len(queue) - (Len(queue) - 1) + i = i + 1
        BY <1>1
      <3> HIDE DEF kept
      <3>4. room = Len(queue) - 1 /\ ~(Len(queue) < bound)
        BY <1>1, <2>2, <3>1, <3>2
      <3> QED
        BY <3>1, <3>2, <3>3, <3>4
    <2> HIDE DEF kept
    <2> QED
      BY <1>1, <2>1, <2>2
  <1>3. Push(queue, value, bound) = Append(kept, value)
    BY DEF Push
  <1> HIDE DEF kept
  <1>4. /\ Append(kept, value) \in Seq(Positions)
        /\ Len(Append(kept, value)) = room + 1
        /\ \A i \in 1 .. room : Append(kept, value)[i] = kept[i]
        /\ Append(kept, value)[room + 1] = value
    BY <1>2, AppendProperties
  <1>5. room + 1 = more /\ room \in Nat /\ more - 1 = room
    BY <1>1, <1>2 DEF After
  <1> HIDE DEF room
  <1> DEFINE after == Push(queue, value, bound)
  <1>6. /\ after \in Seq(Positions) /\ Len(after) = room + 1 /\ after[room + 1] = value
        /\ \A i \in 1 .. room : after[i] = kept[i]
    BY <1>3, <1>4
  <1> HIDE DEF after
  <1>7. \A i \in 1 .. room : after[i] = queue[Len(queue) - room + i]
    BY <1>2, <1>6
  <1> QED
    BY <1>5, <1>6, <1>7 DEF after

\* The controller's next pose goes to the end of both.
LEMMA QueuePublished == QueueInv /\ ArmPublishes => QueueInv'
  <1> SUFFICES ASSUME QueueInv, ArmPublishes
               PROVE  QueueInv'
    OBVIOUS
  <1>1. arm' \in Positions /\ cached' = cached
    BY DEF QueueInv, ArmPublishes
  <1>2. /\ Len(poses) \in Nat /\ Len(recent) \in Nat /\ Depth \in Nat \ {0}
        /\ Depth + 1 \in Nat \ {0} /\ Len(poses) <= Len(recent)
        /\ Len(poses) <= Depth /\ Len(recent) <= Depth + 1
    BY BenchAssumption, LenProperties DEF QueueInv
  <1> DEFINE m == After(poses, Depth)
             n == After(recent, Depth + 1)
  <1>3. /\ poses' \in Seq(Positions) /\ Len(poses') = m /\ poses'[m] = arm'
        /\ \A i \in 1 .. m - 1 : poses'[i] = poses[Len(poses) - (m - 1) + i]
    <2>1. poses' = Push(poses, arm', Depth) /\ poses \in Seq(Positions)
      BY DEF QueueInv, ArmPublishes
    <2> HIDE DEF m, n
    <2>2. m = After(poses, Depth)
      BY DEF m
    <2>3. Depth \in Nat \ {0} /\ Len(poses) <= Depth
      BY <1>2
    <2> DEFINE bound == Depth
               value == arm'
    <2>4. bound \in Nat \ {0} /\ Len(poses) <= bound /\ m = After(poses, bound)
      BY <2>2, <2>3
    <2>5. poses \in Seq(Positions) /\ value \in Positions
      BY <1>1, <2>1
    <2> HIDE DEF bound, value
    <2>6. /\ Push(poses, value, bound) \in Seq(Positions) /\ Len(Push(poses, value, bound)) = m
          /\ Push(poses, value, bound)[m] = value
          /\ \A i \in 1 .. m - 1 :
                Push(poses, value, bound)[i] = poses[Len(poses) - (m - 1) + i]
      BY <2>4, <2>5, Pushed
    <2> QED
      BY <2>1, <2>6 DEF bound, value
  <1>4. /\ recent' \in Seq(Positions) /\ Len(recent') = n /\ recent'[n] = arm'
        /\ \A i \in 1 .. n - 1 : recent'[i] = recent[Len(recent) - (n - 1) + i]
    <2>1. recent' = Push(recent, arm', Depth + 1) /\ recent \in Seq(Positions)
      BY DEF QueueInv, ArmPublishes
    <2> HIDE DEF m, n
    <2>2. n = After(recent, Depth + 1)
      BY DEF n
    <2>3. Depth + 1 \in Nat \ {0} /\ Len(recent) <= Depth + 1
      BY <1>2
    <2> DEFINE bound == Depth + 1
               value == arm'
    <2>4. bound \in Nat \ {0} /\ Len(recent) <= bound /\ n = After(recent, bound)
      BY <2>2, <2>3
    <2>5. recent \in Seq(Positions) /\ value \in Positions
      BY <1>1, <2>1
    <2> HIDE DEF bound, value
    <2>6. /\ Push(recent, value, bound) \in Seq(Positions) /\ Len(Push(recent, value, bound)) = n
          /\ Push(recent, value, bound)[n] = value
          /\ \A i \in 1 .. n - 1 :
                Push(recent, value, bound)[i] = recent[Len(recent) - (n - 1) + i]
      BY <2>4, <2>5, Pushed
    <2> QED
      BY <2>1, <2>6 DEF bound, value
  <1>5. /\ m \in 1 .. n /\ m <= Depth /\ n <= Depth + 1 /\ m \in Nat /\ n \in Nat
        /\ m - 1 <= Len(poses)
    BY <1>2 DEF After
  <1> HIDE DEF m, n
  <1>6. ASSUME NEW i \in 1 .. m
        PROVE  poses'[i] = recent'[n - m + i]
    <2>1. CASE i = m
      BY <1>3, <1>4, <1>5, <2>1
    <2>2. CASE i \in 1 .. m - 1
      <3>1. Len(poses) - (m - 1) + i \in 1 .. Len(poses)
        BY <1>2, <1>5, <2>2
      <3>2. poses'[i] = recent[Len(recent) - Len(poses) + (Len(poses) - (m - 1) + i)]
        BY <1>3, <2>2, <3>1 DEF QueueInv
      <3>3. n - m + i \in 1 .. n - 1
        BY <1>5, <2>2
      <3>4. recent'[n - m + i] = recent[Len(recent) - (n - 1) + (n - m + i)]
        BY <1>4, <3>3
      <3>5. Len(recent) - (n - 1) + (n - m + i) = Len(recent) - Len(poses) + (Len(poses) - (m - 1) + i)
        BY <1>2, <1>5, <2>2
      <3> QED
        BY <3>2, <3>4, <3>5
    <2> QED
      BY <1>2, <1>5, <2>1, <2>2
  <1>7. poses' # <<>>
    BY <1>3, <1>5, EmptySeq
  <1> QED
    BY <1>1, <1>3, <1>4, <1>5, <1>6, <1>7 DEF QueueInv

\* A spin takes the oldest pose of the queue, which is one of the recent ones.
LEMMA QueueSpun ==
  ASSUME QueueInv, SpinOnce, UNCHANGED <<arm, recent>>
  PROVE  QueueInv' /\ (cached' # "none" => Seen(cached'))
  <1>1. /\ Len(poses) \in Nat /\ Len(recent) \in Nat /\ DOMAIN recent = 1 .. Len(recent)
    BY LenProperties DEF QueueInv
  <1>2. CASE poses = <<>>
    <2>1. UNCHANGED <<arm, poses, recent, cached>>
      BY <1>2 DEF SpinOnce
    <2>2. recent # <<>> => Len(recent) \in DOMAIN recent
      BY <1>1, EmptySeq DEF QueueInv
    <2> QED
      BY <1>2, <2>1, <2>2 DEF QueueInv, Seen
  <1>3. CASE poses # <<>>
    <2>1. /\ cached' = poses[1] /\ poses' \in Seq(Positions)
          /\ Len(poses') = Len(poses) - 1 /\ Len(poses) > 0
          /\ \A i \in 1 .. Len(poses') : poses'[i] = poses[i + 1]
      BY <1>1, <1>3, HeadTailProperties, EmptySeq DEF QueueInv, SpinOnce
    <2>2. poses[1] \in Positions /\ poses[1] = recent[Len(recent) - Len(poses) + 1]
      BY <1>1, <2>1, ElementOfSeq DEF QueueInv
    <2>3. Len(recent) - Len(poses) + 1 \in DOMAIN recent
      BY <1>1, <2>1 DEF QueueInv
    <2>4. \A i \in 1 .. Len(poses') : poses'[i] = recent[Len(recent) - Len(poses') + i]
      <3> SUFFICES ASSUME NEW i \in 1 .. Len(poses')
                   PROVE  poses'[i] = recent[Len(recent) - Len(poses') + i]
        OBVIOUS
      <3>1. i + 1 \in 1 .. Len(poses)
        BY <1>1, <2>1
      <3>2. poses[i + 1] = recent[Len(recent) - Len(poses) + (i + 1)]
        BY <3>1 DEF QueueInv
      <3>3. Len(recent) - Len(poses) + (i + 1) = Len(recent) - Len(poses') + i
        BY <1>1, <2>1
      <3> QED
        BY <2>1, <3>2, <3>3
    <2>5. poses' = <<>> => recent # <<>> /\ cached' = recent[Len(recent)]
      <3> SUFFICES ASSUME poses' = <<>>
                   PROVE  recent # <<>> /\ cached' = recent[Len(recent)]
        OBVIOUS
      <3>1. Len(poses') = 0
        BY EmptySeq
      <3>2. Len(recent) - Len(poses) + 1 = Len(recent) /\ Len(recent) > 0
        BY <1>1, <2>1, <2>3, <3>1
      <3> QED
        BY <2>1, <2>2, <3>2, EmptySeq
    <2>6. /\ arm' \in Positions /\ recent' \in Seq(Positions) /\ Len(recent') <= Depth + 1
          /\ Len(poses') <= Depth /\ Len(poses') <= Len(recent') /\ recent' = recent
      BY <1>1, <2>1, BenchAssumption DEF QueueInv
    <2>7. cached' \in OrNone(Positions) /\ Seen(cached')
      BY <2>1, <2>2, <2>3 DEF Seen, OrNone
    <2> QED
      BY <2>1, <2>4, <2>5, <2>6, <2>7 DEF QueueInv
  <1> QED
    BY <1>2, <1>3

\* Every step publishes a pose, spins once, or leaves queue and history alone.
LEMMA QueueStep == QueueInv /\ [Next]_sessionVars => QueueInv'
  <1> SUFFICES ASSUME QueueInv, [Next]_sessionVars
               PROVE  QueueInv'
    OBVIOUS
  <1>1. \/ ArmPublishes
        \/ SpinOnce /\ UNCHANGED <<arm, recent>>
        \/ UNCHANGED <<arm, poses, recent, cached>>
    <2> DEFINE Still == UNCHANGED <<arm, poses, recent, cached>>
               Spun == SpinOnce /\ UNCHANGED <<arm, recent>>
    <2>1. CASE Runner
      <3>1. CASE ChooseRun \/ ChooseOther \/ SavePose \/ Leave
        BY <3>1 DEF ChooseRun, ChooseOther, Choose, SavePose, Leave, Alone, benchVars
      <3>2. CASE SubscriberWaitEnds \/ CallStart \/ StartReturns \/ CallStop \/ StopReturns
        BY <3>2 DEF SubscriberWaitEnds, CallStart, StartReturns, CallStop, StopReturns,
           Alone, benchVars
      <3>3. CASE PauseEnds \/ BeginGoal \/ StreamPose \/ StreamWaypoint
        BY <3>3 DEF PauseEnds, BeginGoal, StreamPose, StreamWaypoint, Period, Alone, benchVars
      <3>4. CASE PublishUntilReached \/ GivesUpGoal \/ NextGoal \/ Durations \/ Finally
        BY <3>4 DEF PublishUntilReached, GivesUpGoal, NextGoal, Durations,
           PublishForDuration, Finally, Period, Alone, benchVars
      <3>5. CASE HoldPose \/ StopFlag
        BY <3>5 DEF HoldPose, StopFlag, Alone, benchVars
      <3> QED
        BY <2>1, <3>1, <3>2, <3>3, <3>4, <3>5 DEF Runner
    <2>2. CASE WaitSteps
      BY <2>2 DEF WaitSteps, SpinWhileWaiting
    <2>3. CASE ScriptSteps
      BY <2>3 DEF ScriptSteps, Script, WaitForPose, CapturePose, FirstPose,
         WaitForSubscribers, Holds, PublishHold,
         BeginStep, ReachStep, ReachTimesOut, NextStep, RepeatGoal, PublishPeriod, Quiet,
         benchVars
    <2>4. CASE Recorder
      BY <2>4 DEF Recorder, benchVars
    <2>5. CASE Bench
      BY <2>5 DEF Bench, SubscriptionMatches
    <2>6. CASE UNCHANGED sessionVars
      BY <2>6 DEF sessionVars, benchVars
    <2> QED
      BY <2>1, <2>2, <2>3, <2>4, <2>5, <2>6 DEF Next, RunnerSteps
  <1>2. CASE UNCHANGED <<arm, poses, recent, cached>>
    BY <1>2 DEF QueueInv
  <1> QED
    BY <1>1, <1>2, QueuePublished, QueueSpun

\* The places of a run whose goals are still to be done.
Underway == {"subscriber", "start", "startWait", "pre", "goal", "streamPose", "stream",
             "until", "fixed", "after", "pause"}

\* A run underway has a goal, which is a position, and one being pursued is not
\* reported as reached yet.
GoalInv ==
    /\ pc \in Underway => goals \in Seq(Positions) \ {<<>>}
    /\ pc \in {"streamPose", "stream", "until", "fixed"} => ~reached

\* The goals of a choice that the pose file can resolve.
LEMMA Resolved ==
  ASSUME NEW choice \in Selection, Resolvable(choice[1], choice[2])
  PROVE  Itinerary(NamesOf(choice[1], choice[2])) \in Seq(Positions) \ {<<>>}
  <1> DEFINE names == NamesOf(choice[1], choice[2])
  <1>1. \E n \in Nat \ {0} : DOMAIN names = 1 .. n
    <2>1. CASE choice[1] = "trajectory"
      <3> DEFINE list == PoseFile.trajectories[choice[2]].poses
                 count == PoseFile.trajectories[choice[2]].repeat
      <3>1. Len(list) \in Nat \ {0} /\ count \in Nat \ {0}
        BY <2>1, RunnerAssumption, LenProperties, EmptySeq DEF PoseFileOK, Resolvable
      <3>2. DOMAIN names = 1 .. count * Len(list)
        BY <2>1 DEF NamesOf, Repeated
      <3> HIDE DEF list, count, names
      <3>3. count * Len(list) \in Nat \ {0}
        BY <3>1
      <3> QED
        BY <3>2, <3>3
    <2>2. CASE choice[1] # "trajectory"
      <3>1. names = <<choice[2]>>
        BY <2>2 DEF NamesOf
      <3>2. DOMAIN names = 1 .. 1
        BY <3>1
      <3> QED
        BY <3>2
    <2> QED
      BY <2>1, <2>2
  <1>2. \A i \in DOMAIN names : names[i] \in DOMAIN PoseFile.poses
    BY DEF Resolvable, ToSet
  <1> HIDE DEF names
  <1>3. PICK n \in Nat \ {0} : DOMAIN names = 1 .. n
    BY <1>1
  <1>4. \A i \in 1 .. n : PoseFile.poses[names[i]] \in Positions
    BY <1>2, <1>3, RunnerAssumption DEF PoseFileOK
  <1>5. Itinerary(names) = [i \in 1 .. n |-> PoseFile.poses[names[i]]]
    BY <1>3 DEF Itinerary
  <1>6. Itinerary(names) \in [1 .. n -> Positions]
    BY <1>4, <1>5
  <1>7. Itinerary(names) \in Seq(Positions) /\ Len(Itinerary(names)) = n
    BY <1>6
  <1> QED
    BY <1>7 DEF names

\* Goals are chosen once and done one after another.
LEMMA GoalStep == GoalInv /\ [Next]_sessionVars => GoalInv'
  <1> SUFFICES ASSUME GoalInv, [Next]_sessionVars
               PROVE  GoalInv'
    OBVIOUS
  <1> USE DEF GoalInv, Underway
  <1>1. CASE Runner
    <2>1. CASE ChooseRun
      <3>1. PICK choice \in Selection :
               IF Resolvable(choice[1], choice[2])
                 THEN /\ Choose("subscriber")
                      /\ goals' = Itinerary(NamesOf(choice[1], choice[2]))
                 ELSE Choose(AfterCommand) /\ goals' = <<>>
        BY <2>1 DEF ChooseRun
      <3>2. CASE Resolvable(choice[1], choice[2])
        BY <3>1, <3>2, Resolved DEF Choose, GoTo
      <3>3. CASE ~Resolvable(choice[1], choice[2])
        BY <3>1, <3>3 DEF Choose, GoTo, AfterCommand
      <3> QED
        BY <3>2, <3>3
    <2>2. CASE ChooseOther \/ SavePose \/ Leave \/ SubscriberWaitEnds
      BY <2>2 DEF ChooseOther, Choose, SavePose, Leave, SubscriberWaitEnds, GoTo, Chosen
    <2>3. CASE CallStart \/ StartReturns \/ CallStop \/ StopReturns
      BY <2>3 DEF CallStart, StartReturns, StartTimesOut, CallStop, StopReturns, RaiseInRun,
         AfterCommand, GoTo, Chosen
    <2>4. CASE PauseEnds \/ StreamPose \/ StreamWaypoint \/ GivesUpGoal
      BY <2>4 DEF PauseEnds, StreamPose, StreamWaypoint, GivesUpGoal, RaiseInRun,
         AfterCommand, GoTo, Chosen
    <2>5. CASE BeginGoal
      BY <2>5 DEF BeginGoal, Chosen
    <2>6. CASE PublishUntilReached
      BY <2>6 DEF PublishUntilReached, Chosen
    <2>7. CASE NextGoal
      <3>1. /\ goals \in Seq(Positions) \ {<<>>} /\ reached' = reached
            /\ pc' \in {"pause", "post", "finally"}
            /\ pc' = "pause" => Len(goals) > 1 /\ goals' = Tail(goals)
        BY <2>7 DEF NextGoal, AfterGoals, GoTo
      <3>2. Len(goals) > 1 => Tail(goals) \in Seq(Positions) /\ Len(Tail(goals)) > 0
        BY <3>1, HeadTailProperties, LenProperties
      <3>3. pc' = "pause" => goals' \in Seq(Positions) \ {<<>>}
        BY <3>1, <3>2, EmptySeq
      <3> QED
        BY <3>1, <3>3
    <2>8. CASE Durations \/ Finally \/ HoldPose \/ StopFlag
      BY <2>8 DEF Durations, PublishForDuration, Finally, HoldPose, StopFlag, RaiseInRun,
         AfterCommand, GoTo, Chosen
    <2> QED
      BY <1>1, <2>1, <2>2, <2>3, <2>4, <2>5, <2>6, <2>7, <2>8 DEF Runner
  <1>2. CASE WaitSteps \/ ScriptSteps \/ Recorder \/ Bench \/ UNCHANGED sessionVars
    <2>1. UNCHANGED runnerVars
      BY <1>2 DEF WaitSteps, SpinWhileWaiting, ScriptSteps, Recorder, Bench, sessionVars
    <2> QED
      BY <2>1 DEF runnerVars, runVars, loopVars
  <1> QED
    BY <1>1, <1>2 DEF Next, RunnerSteps

\* A smaller script past its wait has a start pose, and a step it has begun is not
\* reported as reached yet.
ScriptInv ==
    /\ script \in Scripts /\ index \in DOMAIN script.steps
    /\ startup \in OrNone(Positions)
    /\ \/ at \in {"settle", "step", "hold", "reach", "reached", "next"}
       \/ at = "subscribers" /\ script.kind # "cli"
       => startup # "none"
    /\ at = "reach" => outcome # "reached"

\* Indices stay within the steps, and no wait that ends without a pose goes on.
LEMMA ScriptStep == QueueInv /\ ScriptInv /\ [Next]_sessionVars => ScriptInv'
  <1> SUFFICES ASSUME QueueInv, ScriptInv, [Next]_sessionVars
               PROVE  ScriptInv'
    OBVIOUS
  <1> USE DEF ScriptInv
  <1>1. CASE Script
    <2>1. CASE WaitForPose \/ CapturePose
      <3>1. cached' \in OrNone(Positions)
        BY <2>1, QueueSpun DEF WaitForPose, CapturePose, FirstPose, QueueInv
      <3> QED
        BY <2>1, <3>1 DEF WaitForPose, CapturePose, FirstPose, Proceed
    <2>2. CASE WaitForSubscribers \/ Holds \/ BeginStep \/ ReachTimesOut \/ RepeatGoal
      BY <2>2 DEF WaitForSubscribers, Holds, PublishHold, BeginStep, ReachTimesOut,
         RepeatGoal, Proceed
    <2>3. CASE ReachStep
      BY <2>3 DEF ReachStep, Proceed
    <2>4. CASE NextStep
      <3>1. script.steps \in Seq(StepKinds) \ {<<>>}
        BY ScriptsAssumption
      <3>2. Len(script.steps) \in Nat \ {0} /\ DOMAIN script.steps = 1 .. Len(script.steps)
        BY <3>1, LenProperties, EmptySeq
      <3>3. index' \in 1 .. Len(script.steps) /\ script' = script
        BY <2>4, <3>2 DEF NextStep, Proceed
      <3>4. startup' = startup /\ at' \in {"step", "gone"} /\ at = "next"
        BY <2>4 DEF NextStep, Proceed
      <3> QED
        BY <3>2, <3>3, <3>4
    <2> QED
      BY <1>1, <2>1, <2>2, <2>3, <2>4 DEF Script
  <1>2. CASE RunnerSteps \/ WaitSteps \/ Recorder \/ Bench \/ UNCHANGED sessionVars
    <2>1. UNCHANGED scriptVars
      BY <1>2 DEF RunnerSteps, WaitSteps, Recorder, Bench, sessionVars
    <2> QED
      BY <2>1 DEF scriptVars
  <1> QED
    BY <1>1, <1>2 DEF Next, ScriptSteps

\* What a step that reports a goal or a step of a scenario as reached has just received.
LEMMA ReachedSample ==
  ASSUME QueueInv, GoalInv, ScriptInv, [Next]_sessionVars
  PROVE  /\ pc = "until" /\ reached' => Seen(Head(goals))
         /\ at = "reach" /\ outcome' = "reached" => Seen(TargetOf(Step))
  <1>1. ASSUME pc = "until", reached'
        PROVE  Seen(Head(goals))
    <2>1. PublishUntilReached
      <3>1. ~reached
        BY <1>1 DEF GoalInv
      <3>2. RunnerSteps
        BY <1>1, <3>1 DEF Next, WaitSteps, SpinWhileWaiting, ScriptSteps, Recorder, Bench,
           sessionVars, runnerVars, loopVars
      <3> QED
        BY <1>1, <3>1, <3>2 DEF RunnerSteps, Runner, ChooseRun, ChooseOther, Choose, SavePose,
           Leave, SubscriberWaitEnds, CallStart, StartReturns, CallStop, StopReturns, PauseEnds,
           BeginGoal, StreamPose, StreamWaypoint, GivesUpGoal, NextGoal, Durations,
           PublishForDuration, Finally, HoldPose, StopFlag, GoTo
    <2>2. goals \in Seq(Positions) \ {<<>>}
      BY <1>1 DEF GoalInv, Underway
    <2>3. Head(goals) \in Positions
      BY <2>2, HeadTailProperties
    <2>4. NearAfter > Settle /\ Settle \in Nat
      BY <1>1, <2>1, RunnerAssumption DEF PublishUntilReached
    <2>5. cached' = Head(goals)
      BY <2>4 DEF NearAfter
    <2>6. cached' # "none" => Seen(cached')
      BY <2>1, QueueSpun DEF PublishUntilReached, Period
    <2> QED
      BY <2>3, <2>5, <2>6, BenchAssumption
  <1>2. ASSUME at = "reach", outcome' = "reached"
        PROVE  Seen(TargetOf(Step))
    <2>1. ReachStep
      <3>1. outcome # "reached"
        BY <1>2 DEF ScriptInv
      <3>2. ScriptSteps
        BY <1>2, <3>1 DEF Next, RunnerSteps, WaitSteps, Recorder, Bench, sessionVars, scriptVars
      <3> QED
        BY <1>2, <3>1, <3>2 DEF ScriptSteps, Script, WaitForPose, CapturePose, FirstPose,
           WaitForSubscribers, Holds,
           PublishHold, BeginStep, ReachTimesOut, NextStep, RepeatGoal
    <2>2. cached' = TargetOf(Step)
      BY <1>2, <2>1 DEF ReachStep, ScriptInv
    <2>3. TargetOf(Step) # "none"
      <3>1. script.steps \in Seq(StepKinds)
        BY ScriptsAssumption DEF ScriptInv
      <3>2. Step \in StepKinds
        BY <3>1, ElementOfSeq, LenProperties DEF Step, ScriptInv
      <3> QED
        BY <1>2, <3>2, BenchAssumption DEF TargetOf, StepKinds, ScriptInv
    <2>4. cached' # "none" => Seen(cached')
      BY <2>1, QueueSpun DEF ReachStep, PublishPeriod
    <2> QED
      BY <2>2, <2>3, <2>4
  <1> QED
    BY <1>1, <1>2

\* What is reported as reached the arm has been at in one of the last Depth + 1 poses it
\* published, for every queue depth, pose file and scenario.
THEOREM ReachedRecently == Spec => ReachedIsRecent
  <1>1. Init => QueueInv /\ GoalInv /\ ScriptInv
    <2> SUFFICES ASSUME Init
                 PROVE  QueueInv /\ GoalInv /\ ScriptInv
      OBVIOUS
    <2>1. QueueInv
      <3>1. /\ arm \in Positions /\ poses = <<>> /\ recent = <<>> /\ cached = "none"
        BY DEF Init, BenchInit
      <3>2. <<>> \in Seq(Positions) /\ Len(<<>>) = 0
        BY EmptySeq
      <3> QED
        BY <3>1, <3>2, BenchAssumption DEF QueueInv, OrNone
    <2>2. GoalInv
      BY DEF Init, RunnerInit, GoalInv, Underway
    <2>3. ScriptInv
      <3>1. /\ script \in Scripts /\ index = 1 /\ startup = "none"
            /\ at \in {"subscribers", "gone", "pose"}
            /\ at = "subscribers" => script.kind = "cli"
        BY DEF Init, ScriptInit
      <3>2. 1 \in DOMAIN script.steps
        BY <3>1, ScriptsAssumption, LenProperties, EmptySeq
      <3> QED
        BY <3>1, <3>2 DEF ScriptInv, OrNone
    <2> QED
      BY <2>1, <2>2, <2>3
  <1>2. QueueInv /\ GoalInv /\ ScriptInv /\ [Next]_sessionVars
          => (QueueInv /\ GoalInv /\ ScriptInv)'
    BY QueueStep, GoalStep, ScriptStep
  <1>3. QueueInv /\ GoalInv /\ ScriptInv /\ [Next]_sessionVars
          => [/\ pc = "until" /\ reached' => Seen(Head(goals))
              /\ at = "reach" /\ outcome' = "reached" => Seen(TargetOf(Step))]_sessionVars
    BY ReachedSample
  <1> QED
    BY <1>1, <1>2, <1>3, PTL DEF Spec, ReachedIsRecent
================================================================================
