----------------------- MODULE RmpflowControllerProofs -----------------------
(***************************************************************************)
(* The controller's safety: that of the control loop, for every number of  *)
(* goals and flag changes and every parameter set, and after it that of    *)
(* the escape supervisor its solver calls.  In the control loop no         *)
(* single property is inductive: what a tick has read is remembered only   *)
(* in where its thread is, so each invariant says what has been            *)
(* established by the time a point is reached, and why no callback takes   *)
(* it back.                                                                *)
(***************************************************************************)
EXTENDS RmpflowController, TangentEscape, TLAPS

USE DEF flagVars, goalVars, tickVars, safeVars, commandVars

-----------------------------------------------------------------------------
(* Types *)

LoopPlaces ==
    /\ cfg \in Configs
    /\ control \in ControlSteps
    /\ executor \in ExecutorSteps

LoopCounts ==
    /\ flags \in 0..MaxFlags
    /\ goal \in InitialGoal..MaxGoals
    /\ goals \in 0..MaxGoals
    /\ sinceInactive \in Nat

LoopFlags ==
    /\ running \in BOOLEAN
    /\ rmpActive \in BOOLEAN
    /\ externalGoal \in BOOLEAN
    /\ goalSynced \in BOOLEAN
    /\ ready \in BOOLEAN
    /\ measuredLow \in BOOLEAN
    /\ violation \in BOOLEAN
    /\ commandLow \in BOOLEAN
    /\ safeInit \in BOOLEAN
    /\ safeLow \in BOOLEAN
    /\ safeGuarded \in BOOLEAN
    /\ virtualInit \in BOOLEAN
    /\ minZTriggered \in BOOLEAN
    /\ lastCommand \in {"none", "hold", "move"}

TickReady == control \notin {"tick", "joined"} => ready

\* The type invariant in the parts the steps disturb separately.
LEMMA LoopTypeParts ==
  TypeOK <=> LoopPlaces /\ LoopCounts /\ LoopFlags /\ TickReady
  BY Zenon DEF TypeOK, LoopPlaces, LoopCounts, LoopFlags, TickReady

\* Neither thread is ever at a point its code does not have.
LEMMA LoopPlacesStep == LoopPlaces /\ [Next]_vars => LoopPlaces'
  <1> SUFFICES ASSUME LoopPlaces, [Next]_vars PROVE LoopPlaces'
    OBVIOUS
  <1> USE DEF LoopPlaces, ControlSteps, ExecutorSteps
  <1>1. CASE ControlThread
    BY <1>1 DEF ControlThread, TickStarts, ControlLeaves, FlagGate, GoalGate,
       SyncCheck, SetStartupGoal, MeasuredCheck, Solve, PredictedCheck, Choose,
       Remember, Apply, StandBy, PassTo, ControlTo, AfterReady
  <1>2. CASE Executor
    BY <1>2 DEF Executor, FlagArrives, FlagResets, GoalArrives, GoalFlags, Stop,
       ExecutorTo
  <1>3. CASE Joined \/ UNCHANGED vars
    BY <1>3 DEF Joined, vars
  <1> QED
    BY <1>1, <1>2, <1>3 DEF Next

\* Goals and flags stay within their bounds, and the box holds a goal received.
LEMMA LoopCountsStep == LoopCounts /\ [Next]_vars => LoopCounts'
  <1> SUFFICES ASSUME LoopCounts, [Next]_vars PROVE LoopCounts'
    OBVIOUS
  <1> USE ControllerAssumption DEF LoopCounts, InitialGoal, StartupGoal
  <1>1. CASE ControlThread
    <2>1. UNCHANGED <<flags, goals>>
      BY <1>1, Zenon DEF ControlThread, TickStarts, ControlLeaves, FlagGate,
         GoalGate, SyncCheck, SetStartupGoal, MeasuredCheck, Solve,
         PredictedCheck, Choose, Remember, Apply, StandBy, PassTo, ControlTo
    <2>2. goal' \in {goal, StartupGoal}
      BY <1>1, Zenon DEF ControlThread, TickStarts, ControlLeaves, FlagGate,
         GoalGate, SyncCheck, SetStartupGoal, MeasuredCheck, Solve,
         PredictedCheck, Choose, Remember, Apply, StandBy, PassTo, ControlTo
    <2>3. sinceInactive' \in {sinceInactive, sinceInactive + 1}
      BY <1>1, Zenon DEF ControlThread, TickStarts, ControlLeaves, FlagGate,
         GoalGate, SyncCheck, SetStartupGoal, MeasuredCheck, Solve,
         PredictedCheck, Choose, Remember, Apply, StandBy, PassTo, ControlTo
    <2> QED
      BY <2>1, <2>2, <2>3
  <1>2. CASE FlagArrives
    <2>1. sinceInactive' \in {0, sinceInactive}
      BY <1>2, Zenon DEF FlagArrives
    <2> QED
      BY <1>2, <2>1 DEF FlagArrives
  <1>3. CASE GoalArrives
    BY <1>3 DEF GoalArrives, BoxFirst
  <1>4. CASE FlagResets \/ GoalFlags \/ Stop
    BY <1>4 DEF FlagResets, GoalFlags, BoxFirst, Stop
  <1>5. CASE Joined \/ UNCHANGED vars
    BY <1>5 DEF Joined, vars
  <1> QED
    BY <1>1, <1>2, <1>3, <1>4, <1>5 DEF Next, Executor

\* No step gives a flag of the loop anything but a truth value.
LEMMA LoopFlagsStep ==
  LoopFlags /\ cfg \in Configs /\ [Next]_vars => LoopFlags'
  <1> SUFFICES ASSUME LoopFlags, cfg \in Configs, [Next]_vars PROVE LoopFlags'
    OBVIOUS
  <1> USE DEF LoopFlags
  <1>1. CASE TickStarts
    BY <1>1, Zenon DEF TickStarts, ControlTo
  <1>2. CASE ControlLeaves \/ SyncCheck \/ SetStartupGoal \/ Solve
    <2>1. CASE ControlLeaves
      BY <2>1 DEF ControlLeaves, ControlTo
    <2>2. CASE SyncCheck
      BY <2>2 DEF SyncCheck, PassTo, ControlTo
    <2>3. CASE SetStartupGoal
      BY <2>3 DEF SetStartupGoal, ControlTo
    <2>4. CASE Solve
      <3>1. minZTriggered' \in BOOLEAN /\ commandLow' \in BOOLEAN
        BY <2>4, Zenon DEF Solve
      <3>2. UNCHANGED <<running, rmpActive, externalGoal, goalSynced, ready, measuredLow,
                        violation, safeVars, virtualInit, lastCommand>>
        BY <2>4 DEF Solve, ControlTo
      <3> QED
        BY <3>1, <3>2
    <2> QED
      BY <1>2, <2>1, <2>2, <2>3, <2>4, Zenon
  <1>3. CASE FlagGate \/ GoalGate
    <2>1. CASE StandBy
      <3>1. cfg.velocity \in BOOLEAN
        BY ControllerAssumption
      <3>2. lastCommand' \in {"none", "hold", "move"}
        BY <2>1, Zenon DEF StandBy, StandbyCommand
      <3>3. safeInit' \in BOOLEAN /\ virtualInit' = cfg.velocity
        BY <2>1, Zenon DEF StandBy
      <3>4. UNCHANGED <<running, rmpActive, externalGoal, goalSynced, tickVars, safeLow,
                        safeGuarded, minZTriggered>>
        BY <2>1 DEF StandBy, ControlTo
      <3> QED
        BY <3>1, <3>2, <3>3, <3>4
    <2>2. ASSUME NEW step, PassTo(step) PROVE LoopFlags'
      BY <2>2 DEF PassTo, ControlTo
    <2> QED
      BY <1>3, <2>1, <2>2, Zenon DEF FlagGate, GoalGate
  <1>4. CASE MeasuredCheck
    <2>1. violation' \in BOOLEAN
      BY <1>4, Zenon DEF MeasuredCheck, ViolatesMinZ
    <2>2. safeInit' \in BOOLEAN /\ safeLow' \in BOOLEAN /\ safeGuarded' \in BOOLEAN
      BY <1>4, Zenon DEF MeasuredCheck
    <2> QED
      BY <1>4, <2>1, <2>2 DEF MeasuredCheck, ControlTo
  <1>5. CASE PredictedCheck
    <2>1. violation' \in BOOLEAN
      BY <1>5, Zenon DEF PredictedCheck, WithPrediction
    <2> QED
      BY <1>5, <2>1 DEF PredictedCheck, ControlTo
  <1>6. CASE Choose
    <2>1. commandLow' \in BOOLEAN /\ minZTriggered' \in BOOLEAN
      BY <1>6, Zenon DEF Choose
    <2> QED
      <3>1. UNCHANGED <<running, rmpActive, externalGoal, goalSynced, ready, measuredLow,
                        violation, safeVars, virtualInit, lastCommand>>
        BY <1>6 DEF Choose, ControlTo
      <3> QED
        BY <2>1, <3>1
  <1>7. CASE Remember
    <2>1. safeInit' \in BOOLEAN /\ safeLow' \in BOOLEAN /\ safeGuarded' \in BOOLEAN
      BY <1>7, Zenon DEF Remember
    <2>2. UNCHANGED <<running, rmpActive, externalGoal, goalSynced, tickVars, virtualInit,
                      minZTriggered, lastCommand>>
      BY <1>7 DEF Remember, ControlTo
    <2> QED
      BY <2>1, <2>2
  <1>8. CASE Apply
    <2>1. lastCommand' \in {"none", "hold", "move"} /\ virtualInit' \in BOOLEAN
      BY <1>8, Zenon DEF Apply
    <2>2. UNCHANGED <<running, rmpActive, externalGoal, goalSynced, tickVars, safeVars,
                      minZTriggered>>
      BY <1>8 DEF Apply, ControlTo
    <2> QED
      BY <2>1, <2>2
  <1>9. CASE Executor
    <2>1. CASE FlagArrives
      BY <2>1 DEF FlagArrives
    <2>2. CASE FlagResets
      <3>1. /\ virtualInit' \in BOOLEAN
            /\ safeInit' \in BOOLEAN
            /\ minZTriggered' \in BOOLEAN
        BY <2>2, Zenon DEF FlagResets
      <3> QED
        BY <2>2, <3>1 DEF FlagResets
    <2>3. CASE GoalArrives
      <3>1. externalGoal' \in BOOLEAN
        BY <2>3, Zenon DEF GoalArrives
      <3> QED
        BY <2>3, <3>1 DEF GoalArrives
    <2>4. CASE GoalFlags
      <3>1. externalGoal' \in BOOLEAN /\ goalSynced' \in BOOLEAN
        BY <2>4, Zenon DEF GoalFlags
      <3> QED
        BY <2>4, <3>1 DEF GoalFlags
    <2>5. CASE Stop
      <3>1. running' \in BOOLEAN
        BY <2>5, Zenon DEF Stop
      <3> QED
        BY <2>5, <3>1 DEF Stop
    <2> QED
      BY <1>9, <2>1, <2>2, <2>3, <2>4, <2>5, Zenon DEF Executor
  <1>10. CASE Joined \/ UNCHANGED vars
    BY <1>10 DEF Joined, vars
  <1> QED
    BY <1>1, <1>2, <1>3, <1>4, <1>5, <1>6, <1>7, <1>8, <1>9, <1>10, Zenon
       DEF Next, ControlThread

\* A tick goes on only with a backend that was ready, and reads it once.
LEMMA TickReadyStep == TickReady /\ [Next]_vars => TickReady'
  <1> SUFFICES ASSUME TickReady, [Next]_vars PROVE TickReady'
    OBVIOUS
  <1> USE DEF TickReady
  <1>1. CASE TickStarts
    BY <1>1, Zenon DEF TickStarts, ControlTo, AfterReady
  <1>2. CASE ControlThread /\ ~TickStarts
    <2>1. ready' = ready
      BY <1>2, Zenon DEF ControlThread, ControlLeaves, FlagGate, GoalGate,
         SyncCheck, SetStartupGoal, MeasuredCheck, Solve, PredictedCheck, Choose,
         Remember, Apply, StandBy, PassTo
    <2>2. control # "tick" \/ control' = "joined"
      BY <1>2 DEF ControlThread, ControlLeaves, FlagGate, GoalGate, SyncCheck,
         SetStartupGoal, MeasuredCheck, Solve, PredictedCheck, Choose, Remember,
         Apply, ControlTo
    <2>3. control # "joined"
      BY <1>2 DEF ControlThread, TickStarts, ControlLeaves, FlagGate, GoalGate,
         SyncCheck, SetStartupGoal, MeasuredCheck, Solve, PredictedCheck, Choose,
         Remember, Apply
    <2> QED
      BY <2>1, <2>2, <2>3, Zenon
  <1>3. CASE Executor
    BY <1>3, Zenon DEF Executor, FlagArrives, FlagResets, GoalArrives, GoalFlags,
       Stop
  <1>4. CASE Joined \/ UNCHANGED vars
    BY <1>4, Zenon DEF Joined, vars
  <1> QED
    BY <1>1, <1>2, <1>3, <1>4, Zenon DEF Next

\* The loop keeps its types, and no step of a tick runs on an unready backend.
THEOREM LoopTyping == Spec => []TypeOK
  <1>1. Init => TypeOK
    <2> SUFFICES ASSUME Init PROVE TypeOK
      OBVIOUS
    <2>1. LoopPlaces
      BY Zenon DEF Init, LoopPlaces, ControlSteps, ExecutorSteps
    <2>2. LoopCounts
      BY ControllerAssumption DEF Init, LoopCounts, InitialGoal
    <2>3. LoopFlags /\ TickReady
      <3>1. rmpActive \in BOOLEAN
        BY Zenon DEF Init
      <3> QED
        BY <3>1, Zenon DEF Init, LoopFlags, TickReady
    <2> QED
      BY <2>1, <2>2, <2>3, LoopTypeParts, Zenon
  <1>2. TypeOK /\ [Next]_vars => TypeOK'
    <2> SUFFICES ASSUME TypeOK, [Next]_vars PROVE TypeOK'
      OBVIOUS
    <2>1. LoopPlaces /\ LoopCounts /\ LoopFlags /\ TickReady
      BY LoopTypeParts, Zenon
    <2>2. LoopPlaces' /\ LoopCounts' /\ LoopFlags' /\ TickReady'
      BY <2>1, LoopPlacesStep, LoopCountsStep, LoopFlagsStep, TickReadyStep, Zenon
         DEF LoopPlaces
    <2> QED
      BY <2>2, Zenon DEF TypeOK, LoopPlaces, LoopCounts, LoopFlags, TickReady
  <1> QED
    BY <1>1, <1>2, PTL DEF Spec

-----------------------------------------------------------------------------
(* Deactivation *)

PastGate == {"goal", "sync", "setgoal", "measured", "solve", "predicted",
             "choose", "remember", "apply"}

\* A command that a tick past the gate may still apply is counted as applied; an
\* active flag has just cleared the count.
InFlight == IF control \in PastGate THEN 1 ELSE 0
Budget ==
    /\ rmpActive \/ ~cfg.flagGate => sinceInactive = 0
    /\ sinceInactive \in Nat
    /\ sinceInactive + InFlight <= 1

\* A tick passes the gate only while the flag is up, and applies once.
LEMMA BudgetStep == Budget /\ [Next]_vars => Budget'
  <1> SUFFICES ASSUME Budget, [Next]_vars PROVE Budget'
    OBVIOUS
  <1> USE DEF Budget, InFlight, PastGate
  <1>1. CASE TickStarts \/ ControlLeaves
    <2>1. control' \notin PastGate /\ UNCHANGED <<cfg, rmpActive, sinceInactive>>
      <3>1. CASE TickStarts
        BY <3>1 DEF TickStarts, ControlTo, AfterReady
      <3>2. CASE ControlLeaves
        BY <3>2 DEF ControlLeaves, ControlTo
      <3> QED
        BY <1>1, <3>1, <3>2
    <2> QED
      BY <2>1
  <1>2. CASE FlagGate
    <2>1. CASE Active
      BY <1>2, <2>1 DEF FlagGate, Active, PassTo, ControlTo
    <2>2. CASE ~Active
      BY <1>2, <2>2 DEF FlagGate, StandBy, ControlTo
    <2> QED
      BY <2>1, <2>2
  <1>3. CASE GoalGate
    BY <1>3 DEF GoalGate, StandBy, PassTo, ControlTo
  <1>4. CASE \/ SyncCheck \/ SetStartupGoal \/ MeasuredCheck \/ Solve
             \/ PredictedCheck \/ Choose \/ Remember
    BY <1>4 DEF SyncCheck, SetStartupGoal, MeasuredCheck, Solve, PredictedCheck,
       Choose, Remember, PassTo, ControlTo
  <1>5. CASE Apply
    BY <1>5 DEF Apply, ControlTo
  <1>6. CASE FlagArrives
    <2>1. sinceInactive' = 0
      BY <1>6 DEF FlagArrives
    <2> QED
      BY <1>6, <2>1 DEF FlagArrives
  <1>7. CASE FlagResets \/ GoalArrives \/ GoalFlags \/ Stop
    BY <1>7 DEF FlagResets, GoalArrives, GoalFlags, Stop
  <1>8. CASE Joined \/ UNCHANGED vars
    BY <1>8 DEF Joined, vars
  <1> QED
    BY <1>1, <1>2, <1>3, <1>4, <1>5, <1>6, <1>7, <1>8 DEF Next, ControlThread,
       Executor

\* At most one motion command is applied after a deactivation, for any number of
\* deactivations.
THEOREM StandbyBudgetHolds == Spec => []StandbyBudget
  <1>1. Init => Budget
    BY DEF Init, Budget, InFlight, PastGate
  <1>2. Budget => StandbyBudget
    BY DEF Budget, InFlight, StandbyBudget
  <1> QED
    BY <1>1, <1>2, BudgetStep, PTL DEF Spec

-----------------------------------------------------------------------------
(* Goals *)

PastGoal == {"sync", "measured", "solve", "predicted", "choose", "remember", "apply"}

\* With the flag gate: a goal that the flags announce, or are about to, is in the
\* box, and a tick past the goal gate has seen the announcement, so it is never
\* about to write the startup goal.
Announced ==
    cfg.flagGate =>
        /\ externalGoal \/ executor \in {"external", "synced"} => goal > StartupGoal
        /\ control \in PastGoal => externalGoal
        /\ control # "setgoal"

\* Every step keeps what the flags announce: on_goal fills the box before it raises
\* a flag, and the tick looks at the flag before it asks for the startup goal.
LEMMA AnnouncedStep == LoopCounts /\ Announced /\ [Next]_vars => Announced'
  <1> SUFFICES ASSUME LoopCounts, Announced, [Next]_vars PROVE Announced'
    OBVIOUS
  <1> USE DEF Announced, PastGoal, StartupGoal
  <1>1. CASE TickStarts \/ ControlLeaves
    BY <1>1 DEF TickStarts, ControlLeaves, ControlTo, AfterReady
  <1>2. CASE FlagGate \/ GoalGate
    BY <1>2 DEF FlagGate, GoalGate, StandBy, PassTo, ControlTo
  <1>3. CASE SyncCheck
    BY <1>3 DEF SyncCheck, PassTo, ControlTo
  <1>4. CASE SetStartupGoal
    BY <1>4 DEF SetStartupGoal, ControlTo
  <1>5. CASE MeasuredCheck \/ Solve \/ PredictedCheck \/ Choose \/ Remember \/ Apply
    BY <1>5 DEF MeasuredCheck, Solve, PredictedCheck, Choose, Remember, Apply,
       ControlTo
  <1>6. CASE GoalArrives
    <2>1. goal' > 0
      BY <1>6 DEF GoalArrives, BoxFirst, LoopCounts
    <2> QED
      BY <1>6, <2>1 DEF GoalArrives, BoxFirst
  <1>7. CASE FlagArrives \/ FlagResets \/ Stop
    BY <1>7 DEF FlagArrives, FlagResets, Stop, ExecutorTo
  <1>8. CASE GoalFlags
    BY <1>8 DEF GoalFlags, BoxFirst, ExecutorTo
  <1>9. CASE Joined \/ UNCHANGED vars
    BY <1>9 DEF Joined, vars
  <1> QED
    BY <1>1, <1>2, <1>3, <1>4, <1>5, <1>6, <1>7, <1>8, <1>9 DEF Next,
       ControlThread, Executor

\* With the flag gate the solver only ever runs towards a goal from outside.
THEOREM ExternalGoalSolved == Spec => []SolvesExternalGoal
  <1>1. Init => LoopCounts /\ Announced
    BY ControllerAssumption DEF Init, LoopCounts, InitialGoal, Announced, PastGoal
  <1>2. LoopCounts /\ Announced => SolvesExternalGoal
    BY DEF Announced, PastGoal, SolvesExternalGoal
  <1> QED
    BY <1>1, <1>2, LoopCountsStep, AnnouncedStep, PTL DEF Spec

-----------------------------------------------------------------------------
(* The pose that is held *)

\* Without the flag gate: a tick that has made both checks and found no violation
\* has a command above the bounds, and a remembered pose is above them or guarded.
Remembered ==
    ~cfg.flagGate /\ cfg.minZ =>
        /\ safeInit /\ safeLow => safeGuarded
        /\ control \in {"choose", "remember"} /\ ~violation => ~commandLow

\* Every step keeps it: a command reaches the place where it is remembered through
\* both checks, and only the guard changes it afterwards.
LEMMA RememberedStep ==
  LoopFlags /\ Remembered /\ [Next]_vars => Remembered'
  <1> SUFFICES ASSUME LoopFlags, Remembered, [Next]_vars PROVE Remembered'
    OBVIOUS
  <1> USE DEF Remembered
  <1>1. CASE TickStarts \/ ControlLeaves
    BY <1>1 DEF TickStarts, ControlLeaves, ControlTo, AfterReady
  <1>2. CASE FlagGate \/ GoalGate
    BY <1>2 DEF FlagGate, GoalGate, StandBy, PassTo, ControlTo
  <1>3. CASE SyncCheck \/ SetStartupGoal
    BY <1>3 DEF SyncCheck, SetStartupGoal, PassTo, ControlTo
  <1>4. CASE MeasuredCheck
    <2>1. ~cfg.flagGate /\ cfg.minZ /\ ~violation' => ~measuredLow
      BY <1>4, Zenon DEF MeasuredCheck, ViolatesMinZ, Active
    <2>2. control' = "solve" /\ cfg' = cfg
      BY <1>4, Zenon DEF MeasuredCheck, ControlTo
    <2>3. ~cfg.flagGate /\ cfg.minZ => (safeInit' /\ safeLow' => safeGuarded')
      BY <1>4, <2>1, Zenon DEF MeasuredCheck
    <2> QED
      BY <2>2, <2>3
  <1>5. CASE Solve \/ Apply
    BY <1>5 DEF Solve, Apply, ControlTo
  <1>6. CASE PredictedCheck
    <2>1. ~cfg.flagGate /\ cfg.minZ /\ ~violation' => ~commandLow'
      BY <1>6, Zenon DEF PredictedCheck, WithPrediction, ViolatesMinZ, Active
    <2> QED
      BY <1>6, <2>1, Zenon DEF PredictedCheck, ControlTo
  <1>7. CASE Choose
    BY <1>7 DEF Choose, ControlTo
  <1>8. CASE Remember
    <2>1. control' = "apply" /\ cfg' = cfg
      BY <1>8, Zenon DEF Remember, ControlTo
    <2>2. ~cfg.flagGate /\ cfg.minZ => (safeInit' /\ safeLow' => safeGuarded')
      BY <1>8, Zenon DEF Remember, LoopFlags
    <2> QED
      BY <2>1, <2>2
  <1>9. CASE Executor
    BY <1>9, Zenon DEF Executor, FlagArrives, FlagResets, GoalArrives, GoalFlags, Stop
  <1>10. CASE Joined \/ UNCHANGED vars
    BY <1>10 DEF Joined, vars
  <1> QED
    BY <1>1, <1>2, <1>3, <1>4, <1>5, <1>6, <1>7, <1>8, <1>9, <1>10 DEF Next,
       ControlThread

\* Without the flag gate no pose below the min-Z bounds is ever remembered as safe,
\* except one the command guard has made.
THEOREM UngatedHoldSafeHolds == Spec => []UngatedHoldSafe
  <1>1. Init => Remembered
    BY DEF Init, Remembered
  <1>2. Remembered => UngatedHoldSafe
    BY DEF Remembered, UngatedHoldSafe
  <1>3. TypeOK => LoopFlags
    BY LoopTypeParts, Zenon
  <1> QED
    BY <1>1, <1>2, <1>3, LoopTyping, RememberedStep, PTL DEF Spec

-----------------------------------------------------------------------------
(***************************************************************************)
(* The escape supervisor's safety, for every number of pairs, directions   *)
(* and ticks.  A solve is a chain of stages; each stage's lemma says what  *)
(* the stage may leave, and the chain ends in the four facts the          *)
(* properties ask for.  Between solves the invariant is Sound: what is     *)
(* latched belongs to the phase, and the phase's clock bounds its ramp.    *)
(***************************************************************************)

\* What is latched belongs to the phase.
Latched(s) ==
    /\ s.phase = "Off" <=> s.active = None
    /\ s.active # None => s.axis # None
    /\ s.phase = "Off" => s.lambda = Out /\ s.memory = {}
    /\ s.phase \in Reselect => s.pending # None

\* The clock of a phase bounds the ramp of its effect and ends a reselect.
Ramped(s) ==
    /\ s.phase = "Engage" => (s.elapsed = 0 <=> s.lambda = Out)
    /\ s.phase \in {"ReleaseLambdaDown", "ReselectLambdaDown"} /\ s.elapsed > 0
         => s.lambda # Full
    /\ s.phase = "ReselectDriveDown" => s.elapsed < DriveRampTicks
    /\ s.phase = "ReselectBrake" => s.elapsed < BrakeTicks
    /\ s.phase = "ReselectLambdaDown" => s.elapsed < HandoffTicks

Sound(s) == s \in Escapes /\ Latched(s) /\ Ramped(s)

\* The solves a reselect may have ended in when it has come to s.
Spent(s) ==
    s.elapsed + 1
    + (IF s.phase = "ReselectDriveDown" THEN 0
       ELSE IF s.phase = "ReselectBrake" THEN DriveRampTicks
       ELSE DriveRampTicks + BrakeTicks)

SpentInv ==
    reselecting <= (IF escape.phase \in Reselect THEN Spent(escape) ELSE 0)

EscapeInv == model \in Models /\ calm \in BOOLEAN /\ reselecting \in Nat
             /\ learntOn \in Pairs \cup {None}
             /\ Sound(escape) /\ SpentInv /\ MemoryOfEpisode

Sensed == [Pairs -> Absent..MaxBlockage]

-----------------------------------------------------------------------------
(* The constants and the fields *)

\* The constants are numbers, and the longest clock is as long as each.
LEMMA Ticks ==
  /\ {MaxBlockage, MinActivation, ReleaseBlockage, SwitchMargin} \subseteq Nat
  /\ 0 < ReleaseBlockage /\ ReleaseBlockage <= MinActivation
  /\ {DriveRampTicks, BrakeTicks, MinDriveTicks} \subseteq Nat \ {0}
  /\ HandoffTicks \in Nat /\ HandoffTicks >= 2
  /\ LongestTicks \in Nat
  /\ HandoffTicks <= LongestTicks /\ DriveRampTicks <= LongestTicks
  /\ BrakeTicks <= LongestTicks /\ MinDriveTicks <= LongestTicks
  <1> DEFINE T == {HandoffTicks, DriveRampTicks, BrakeTicks, MinDriveTicks}
  <1>1. T \subseteq Nat
    BY EscapeAssumption
  <1>2. \E n \in T : \A m \in T : m <= n
    <2>1. \A a, b, c, d \in Nat :
            \E n \in {a, b, c, d} : a <= n /\ b <= n /\ c <= n /\ d <= n
      OBVIOUS
    <2> QED
      BY <1>1, <2>1
  <1>3. LongestTicks \in T /\ \A m \in T : m <= LongestTicks
    BY <1>2 DEF LongestTicks
  <1> QED
    BY <1>1, <1>3, EscapeAssumption

\* A clock, and an age, may start.
LEMMA Zeros == 0 \in 0..LongestTicks /\ 0 \in 0..MinDriveTicks
  BY Ticks

\* A clock that starts leaves what is latched alone.
LEMMA StartFields ==
  ASSUME NEW s \in Escapes, NEW phase \in Phases
  PROVE  LET t == StartPhase(s, phase)
         IN /\ t \in Escapes /\ t.phase = phase /\ t.elapsed = 0
            /\ t.active = s.active /\ t.pending = s.pending /\ t.axis = s.axis
            /\ t.lambda = s.lambda /\ t.age = s.age /\ t.memory = s.memory
            /\ t.failing = s.failing /\ t.blockage = s.blockage
  <1> DEFINE t == StartPhase(s, phase)
  <1>1. t \in Escapes
    BY Zeros DEF StartPhase, Escapes
  <1>2. t.phase = phase /\ t.elapsed = 0
    BY DEF StartPhase, Escapes
  <1>3. t.active = s.active /\ t.pending = s.pending /\ t.axis = s.axis
    BY DEF StartPhase, Escapes
  <1>4. /\ t.lambda = s.lambda /\ t.age = s.age /\ t.memory = s.memory
        /\ t.failing = s.failing /\ t.blockage = s.blockage
    BY DEF StartPhase, Escapes
  <1> QED
    BY <1>1, <1>2, <1>3, <1>4

\* A direction's effect may be set to any value of its range.
LEMMA LambdaFields ==
  ASSUME NEW s \in Escapes, NEW lambda \in Out..Full
  PROVE  LET t == [s EXCEPT !.lambda = lambda]
         IN /\ t \in Escapes /\ t.phase = s.phase /\ t.elapsed = s.elapsed
            /\ t.active = s.active /\ t.pending = s.pending /\ t.axis = s.axis
            /\ t.lambda = lambda /\ t.age = s.age /\ t.memory = s.memory
            /\ t.failing = s.failing
  BY DEF Escapes

Ended(t) ==
    /\ t \in Escapes
    /\ t.phase = "Off" /\ t.elapsed = 0 /\ t.active = None /\ t.lambda = Out
    /\ t.memory = {}

Began(t, pair) ==
    /\ t \in Escapes
    /\ t.phase = "Engage" /\ t.elapsed = 0 /\ t.active = pair /\ t.axis \in Axes
    /\ t.lambda = Out /\ t.age = 0

\* A cleared episode leaves nothing latched or remembered.
LEMMA ClearedEnds ==
  ASSUME NEW s \in Escapes
  PROVE  Ended(Cleared(s))
  <1>1. "Off" \in Phases /\ Out \in Out..Full /\ None \in Pairs \cup {None}
    BY DEF Phases, Out, Full
  <1>2. Cleared(s) \in Escapes
    BY <1>1, Zeros DEF Cleared, Escapes
  <1> QED
    BY <1>2 DEF Cleared, Ended, Escapes

\* An activation begins with the pair or ends the episode, and remembers only in
\* the same episode.
LEMMA ActivationGives ==
  ASSUME NEW s \in Escapes, NEW pair \in Pairs, NEW same \in BOOLEAN,
         NEW t \in Activations(s, pair, same)
  PROVE  Ended(t) \/ (Began(t, pair) /\ t.memory = IF same THEN s.memory ELSE {})
  <1> DEFINE r == IF same THEN s ELSE [s EXCEPT !.memory = {}]
  <1>1. r \in Escapes /\ r.memory = IF same THEN s.memory ELSE {}
    BY DEF Escapes
  <1>2. CASE t = Cleared(r)
    BY <1>1, <1>2, ClearedEnds
  <1>3. ASSUME NEW axis \in Axes, t = Activated(r, pair, axis)
        PROVE  Began(t, pair) /\ t.memory = r.memory
    <2> HIDE DEF r
    <2>1. "Engage" \in Phases /\ Out \in Out..Full
      BY DEF Phases, Out, Full
    <2>2. t \in Escapes
      <3>1. 0 \in 0..6
        OBVIOUS
      <3> QED
        BY <1>1, <1>3, <2>1, <3>1, Zeros DEF Activated, Escapes
    <2>3. t.phase = "Engage" /\ t.elapsed = 0 /\ t.active = pair /\ t.axis = axis
      BY <1>1, <1>3 DEF Activated, Escapes
    <2>4. t.lambda = Out /\ t.age = 0 /\ t.memory = r.memory
      BY <1>1, <1>3 DEF Activated, Escapes
    <2> QED
      BY <2>2, <2>3, <2>4 DEF Began
  <1>4. t = Cleared(r) \/ \E axis \in Axes : t = Activated(r, pair, axis)
    BY DEF Activations
  <1> QED
    BY <1>1, <1>2, <1>3, <1>4

\* What has ended or begun is sound.
LEMMA FreshSound ==
  ASSUME NEW t, NEW pair \in Pairs, Ended(t) \/ Began(t, pair)
  PROVE  Sound(t)
  BY EscapeAssumption DEF Ended, Began, Sound, Latched, Ramped, Reselect, Out, Full, Escapes
-----------------------------------------------------------------------------
(* From the state a solve begins with to the state its phase is advanced in *)

\* Ended, or begun at no effect with one of the most blocked pairs.
Fresh(t, b) == Ended(t) \/ \E p \in Enterable(b) : Began(t, p) /\ t.memory = {}

\* Just entered: in the risk-damped model the effect may be full at once.
JustEntered(t) ==
    /\ Sound(t)
    /\ t.phase \in {"Off", "Engage", "Drive"} /\ t.elapsed = 0 /\ t.memory = {}
    /\ t.lambda # Out => RiskDamped

\* A pair that may be entered is a pair, and blocks.
LEMMA EnterableBlocks ==
  ASSUME NEW b \in Sensed, NEW p \in Enterable(b)
  PROVE  p \in Pairs /\ b[p] \in Int /\ b[p] >= EntryBlockage /\ b[p] > 0
  BY Ticks DEF Sensed, Absent, Enterable, BestPairs, EntryBlockage

\* Activations of another episode are fresh.
LEMMA ActivationFresh ==
  ASSUME NEW s \in Escapes, NEW b \in Sensed, NEW p \in Enterable(b),
         NEW t \in Activations(s, p, FALSE)
  PROVE  Fresh(t, b) /\ Sound(t)
  <1>1. p \in Pairs
    BY EnterableBlocks
  <1>2. Ended(t) \/ (Began(t, p) /\ t.memory = {})
    BY <1>1, ActivationGives
  <1> QED
    BY <1>1, <1>2, FreshSound DEF Fresh

\* Entry changes nothing, or enters from Off.
LEMMA EnteredGives ==
  ASSUME NEW s, Sound(s), NEW b \in Sensed, NEW e \in Entered(s, b)
  PROVE  e = s \/ (s.phase = "Off" /\ JustEntered(e))
  <1> SUFFICES ASSUME e # s PROVE s.phase = "Off" /\ JustEntered(e)
    OBVIOUS
  <1>1. s \in Escapes /\ s.phase = "Off"
    BY DEF Sound, Entered
  <1>2. PICK p \in Enterable(b) : \E t \in Activations(s, p, FALSE) : e = AtFull(t)
    BY DEF Entered
  <1>3. PICK t \in Activations(s, p, FALSE) : e = AtFull(t)
    BY <1>2
  <1>4. Fresh(t, b) /\ Sound(t)
    BY <1>1, ActivationFresh
  <1>5. t.elapsed = 0 /\ t.memory = {} /\ t.lambda = Out /\ t.phase \in {"Off", "Engage"}
    BY <1>4 DEF Fresh, Ended, Began
  <1>6. CASE e = t
    BY <1>1, <1>4, <1>5, <1>6 DEF JustEntered
  <1>7. CASE RiskDamped /\ t.active # None /\ e = [StartPhase(t, "Drive") EXCEPT !.lambda = Full]
    <2> DEFINE r == StartPhase(t, "Drive")
    <2>1. "Drive" \in Phases /\ t \in Escapes
      BY <1>4 DEF Phases, Sound
    <2>2. /\ r \in Escapes /\ r.phase = "Drive" /\ r.elapsed = 0 /\ r.active = t.active
          /\ r.axis = t.axis /\ r.memory = t.memory
      BY <2>1, StartFields
    <2> HIDE DEF r
    <2>3. Full \in Out..Full
      BY DEF Out, Full
    <2>4. /\ e \in Escapes /\ e.phase = "Drive" /\ e.elapsed = 0 /\ e.active = t.active
          /\ e.axis = t.axis /\ e.memory = {}
      BY <1>5, <1>7, <2>2, <2>3, LambdaFields DEF r
    <2>5. Sound(e)
      BY <1>4, <1>7, <2>4 DEF Sound, Latched, Ramped, Reselect
    <2> QED
      BY <1>1, <1>7, <2>4, <2>5 DEF JustEntered
  <1> QED
    BY <1>3, <1>6, <1>7 DEF AtFull

\* A pair that is kept blocks; a pair that is lost is let go of, and another one
\* taken, in the risk-damped model only.
LEMMA KeptGives ==
  ASSUME NEW s, Sound(s), NEW b \in Sensed, NEW k \in Kept(s, b)
  PROVE  \/ k = s /\ ~Lost(s, b)
         \/ Lost(s, b) /\ RiskDamped /\ s.active # None /\ Fresh(k, b) /\ Sound(k)
  <1>1. CASE ~Lost(s, b)
    BY <1>1 DEF Kept
  <1>2. CASE Lost(s, b)
    <2>1. RiskDamped /\ s.active # None
      BY <1>2 DEF Lost
    <2>2. Ended(Cleared(s)) /\ Cleared(s) \in Escapes
      BY ClearedEnds DEF Sound, Ended
    <2>3. CASE k = Cleared(s)
      <3>1. Sound(k)
        BY <2>2, <2>3 DEF Ended, Sound, Latched, Ramped, Reselect
      <3> QED
        BY <1>2, <2>1, <2>2, <2>3, <3>1 DEF Fresh
    <2>4. ASSUME NEW p \in Enterable(b), k \in Activations(Cleared(s), p, FALSE)
          PROVE  Fresh(k, b) /\ Sound(k)
      BY <2>2, <2>4, ActivationFresh
    <2>5. k = Cleared(s) \/ \E p \in Enterable(b) : k \in Activations(Cleared(s), p, FALSE)
      BY <1>2 DEF Kept
    <2> QED
      BY <1>2, <2>1, <2>3, <2>4, <2>5
  <1> QED
    BY <1>1, <1>2
\* A reselect or a release has just been asked for; what is latched stays.
Turned(s, t) ==
    /\ Sound(t)
    /\ t.phase \in {FirstReselectPhase, "ReleaseDriveDown"} /\ t.elapsed = 0
    /\ t.active = s.active /\ t.axis = s.axis /\ t.lambda = s.lambda
    /\ t.memory = s.memory

\* Asking for a reselect of a latched pair keeps what is latched.
LEMMA ReselectTurns ==
  ASSUME NEW s, Sound(s), s.active # None, NEW pair \in Pairs, NEW reason \in 0..6
  PROVE  /\ Turned(s, ReselectFor(s, pair, reason))
         /\ ReselectFor(s, pair, reason).phase = FirstReselectPhase
         /\ ReselectFor(s, pair, reason).blockage = s.blockage
  <1> DEFINE t == ReselectFor(s, pair, reason)
             r == StartPhase(s, FirstReselectPhase)
  <1>1. FirstReselectPhase \in Phases /\ s \in Escapes
    BY DEF FirstReselectPhase, Phases, Reselect, Sound
  <1>2. /\ r \in Escapes /\ r.phase = FirstReselectPhase /\ r.elapsed = 0
        /\ r.active = s.active /\ r.axis = s.axis /\ r.lambda = s.lambda
        /\ r.memory = s.memory /\ r.blockage = s.blockage
    BY <1>1, StartFields
  <1> HIDE DEF r
  <1>3. t = [r EXCEPT !.pending = pair, !.reason = reason]
    BY DEF r, ReselectFor
  <1> HIDE DEF t
  <1>4. t \in Escapes /\ t.pending = pair
    BY <1>2, <1>3 DEF Escapes
  <1>5. /\ t.phase = FirstReselectPhase /\ t.elapsed = 0 /\ t.active = s.active
        /\ t.axis = s.axis /\ t.lambda = s.lambda /\ t.memory = s.memory
        /\ t.blockage = s.blockage
    BY <1>2, <1>3 DEF Escapes
  <1>6. FirstReselectPhase \in {"ReselectLambdaDown", "ReselectDriveDown"}
    BY DEF FirstReselectPhase
  <1>7. Latched(t)
    BY <1>4, <1>5, <1>6, EscapeAssumption DEF Sound, Latched, Reselect
  <1>8. Ramped(t)
    BY <1>5, <1>6, Ticks DEF Ramped
  <1> QED
    BY <1>4, <1>5, <1>7, <1>8 DEF Turned, Sound, t

\* Asking for a release of a latched pair keeps what is latched.
LEMMA ReleaseTurns ==
  ASSUME NEW s, Sound(s), s.active # None, NEW reason \in 0..6
  PROVE  Turned(s, ReleaseFor(s, reason))
  <1> DEFINE t == ReleaseFor(s, reason)
             r == StartPhase(s, "ReleaseDriveDown")
  <1>1. "ReleaseDriveDown" \in Phases /\ s \in Escapes
    BY DEF Phases, Release, Sound
  <1>2. /\ r \in Escapes /\ r.phase = "ReleaseDriveDown" /\ r.elapsed = 0
        /\ r.active = s.active /\ r.axis = s.axis /\ r.lambda = s.lambda
        /\ r.memory = s.memory
    BY <1>1, StartFields
  <1> HIDE DEF r
  <1>3. t = [r EXCEPT !.reason = reason]
    BY DEF r, ReleaseFor
  <1> HIDE DEF t
  <1>4. t \in Escapes
    BY <1>2, <1>3 DEF Escapes
  <1>5. /\ t.phase = "ReleaseDriveDown" /\ t.elapsed = 0 /\ t.active = s.active
        /\ t.axis = s.axis /\ t.lambda = s.lambda /\ t.memory = s.memory
    BY <1>2, <1>3 DEF Escapes
  <1>6. Latched(t) /\ Ramped(t)
    BY <1>5 DEF Sound, Latched, Ramped, Reselect
  <1> QED
    BY <1>4, <1>5, <1>6 DEF Turned, Sound, t

\* Nothing is asked for, or a latched pair is turned to a reselect or a release.
LEMMA AskedGives ==
  ASSUME NEW s, Sound(s), NEW b \in Sensed, NEW changed \in BOOLEAN,
         NEW a \in Asked(s, b, changed)
  PROVE  a = s \/ (s.active # None /\ Turned(s, a))
  <1>1. CASE s.active = None
    BY <1>1 DEF Asked
  <1>2. CASE s.active # None
    <2>1. s.active \in Pairs
      BY <1>2 DEF Sound, Escapes
    <2>2. PICK unfit \in BOOLEAN : a \in AskedOf(s, b, changed, unfit)
      BY <1>2 DEF Asked, Unfit
    <2>3. \/ \E p \in Pairs, reason \in {2, 3, 4} : a = ReselectFor(s, p, reason)
          \/ \E reason \in {1, 6} : a = ReleaseFor(s, reason)
          \/ a = s
      <3>1. CASE Rivals(s, b) # {}
        BY <2>2, <3>1 DEF AskedOf, Rivals, BestPairs
      <3>2. CASE Rivals(s, b) = {} /\ (changed \/ unfit)
        BY <2>1, <2>2, <3>2 DEF AskedOf
      <3>3. CASE ~(Rivals(s, b) # {}) /\ ~(Rivals(s, b) = {} /\ (changed \/ unfit))
        BY <2>2, <3>3 DEF AskedOf
      <3> QED
        BY <3>1, <3>2, <3>3
    <2> QED
      BY <1>2, <2>3, ReselectTurns, ReleaseTurns
  <1> QED
    BY <1>1, <1>2

\* What still blocks: in the risk-damped model every pair that is latched, in the other
\* one a pair in sight that is engaged with or driven along.
Blocking(a, b) ==
    IF RiskDamped THEN a.active # None => b[a.active] > 0
    ELSE a.phase \in {"Engage", "Drive"} => b[a.active] \notin 0..ReleaseBlockage - 1

\* In the model without risk damping, what is asked of a pair that no longer blocks turns it.
LEMMA AskedBlocks ==
  ASSUME NEW s, Sound(s), s.active # None, ~RiskDamped, NEW b \in Sensed,
         NEW changed \in BOOLEAN, NEW a \in Asked(s, b, changed)
  PROVE  Blocking(a, b)
  <1>1. s.active \in Pairs /\ b[s.active] \in Int
    BY DEF Sound, Escapes, Sensed, Absent
  <1>2. PICK unfit \in BOOLEAN : a \in AskedOf(s, b, changed, unfit)
    BY DEF Asked, Unfit
  <1>3. ASSUME NEW pair \in Pairs, NEW reason \in {2, 3, 4}, a = ReselectFor(s, pair, reason)
        PROVE  Blocking(a, b)
    <2>1. a.phase = FirstReselectPhase
      BY <1>3, ReselectTurns
    <2> QED
      BY <2>1 DEF FirstReselectPhase, Blocking
  <1>4. ASSUME NEW reason \in {1, 6}, a = ReleaseFor(s, reason)
        PROVE  Blocking(a, b)
    <2>1. a.phase = "ReleaseDriveDown"
      BY <1>4 DEF ReleaseFor, StartPhase, Sound, Escapes
    <2> QED
      BY <2>1 DEF Blocking
  <1>5. CASE Rivals(s, b) # {}
    <2>1. \E p \in Pairs : a = ReselectFor(s, p, 2)
      BY <1>2, <1>5 DEF AskedOf, Rivals, BestPairs
    <2> QED
      BY <1>3, <2>1
  <1>6. CASE Rivals(s, b) = {} /\ (changed \/ unfit)
    <2>1. \/ a = s /\ b[s.active] = Absent
          \/ \E reason \in {3, 4} : a = ReselectFor(s, s.active, reason)
      BY <1>2, <1>6 DEF AskedOf
    <2>2. CASE a = s /\ b[s.active] = Absent
      BY <2>2 DEF Blocking, Absent
    <2> QED
      BY <1>1, <1>3, <2>1, <2>2
  <1>7. CASE ~(Rivals(s, b) # {}) /\ ~(Rivals(s, b) = {} /\ (changed \/ unfit))
    <2>1. \/ \E reason \in {1, 6} : a = ReleaseFor(s, reason)
          \/ a = s /\ ~Unblocked(s, b)
      BY <1>2, <1>7 DEF AskedOf
    <2>2. CASE a = s /\ ~Unblocked(s, b)
      BY <1>1, <2>2, Ticks DEF Unblocked, Blocking
    <2> QED
      BY <1>4, <2>1, <2>2
  <1> QED
    BY <1>5, <1>6, <1>7

\* What a solve hands to the clock: the state it began with, that state turned, or
\* a new one at its start, at no effect unless entered at once from Off.
Handed(s, a, replaced) ==
    \/ a = s /\ ~replaced
    \/ Turned(s, a) /\ s.phase \in {"Engage", "Drive"} /\ ~replaced
    \/ /\ a.elapsed = 0 /\ a.memory = {}
       /\ a.lambda # Out => RiskDamped /\ s.phase = "Off"
       /\ s.phase # "Off" => /\ RiskDamped /\ a.active # s.active
                             /\ a.active # None => replaced
       /\ s.phase \in Reselect => a.phase \in {"Off", "Engage"}

\* The three stages before the clock hand over such a state, and what blocks.
LEMMA Chain ==
  ASSUME NEW s, Sound(s), NEW b \in Sensed, NEW changed \in BOOLEAN,
         NEW e \in Entered(s, b), NEW k \in Kept(e, b),
         NEW a \in AskedIn(e, k, b, changed)
  PROVE  /\ Sound(a)
         /\ Blocking(a, b)
         /\ Handed(s, a, Lost(e, b) /\ k.active # None)
  <1>1. Sound(e) /\ (e = s \/ (s.phase = "Off" /\ JustEntered(e)))
    BY EnteredGives DEF JustEntered
  <1>2. \/ k = e /\ ~Lost(e, b)
        \/ Lost(e, b) /\ RiskDamped /\ e.active # None /\ Fresh(k, b) /\ Sound(k)
    BY <1>1, KeptGives
  <1>3. Sound(k)
    BY <1>1, <1>2
  <1>4. a = k \/ (e.phase \in {"Engage", "Drive"} /\ k.active # None /\ Turned(k, a))
    BY <1>3, AskedGives DEF AskedIn
  <1>5. Sound(a) /\ a.active = k.active /\ a.lambda = k.lambda /\ a.memory = k.memory
    BY <1>3, <1>4 DEF Turned
  <1>6. RiskDamped /\ a.active # None => b[a.active] > 0
    <2> SUFFICES ASSUME RiskDamped, k.active # None PROVE b[k.active] > 0
      BY <1>5
    <2>1. CASE k = e /\ ~Lost(e, b)
      <3>1. e.active \in Pairs /\ b[e.active] \in Int
        BY <1>1, <2>1 DEF Sound, Escapes, Sensed, Absent
      <3> QED
        BY <2>1, <3>1 DEF Lost
    <2>2. CASE Fresh(k, b)
      <3>1. PICK p \in Enterable(b) : k.active = p
        BY <2>2 DEF Fresh, Ended, Began
      <3> QED
        BY <3>1, EnterableBlocks
    <2> QED
      BY <1>2, <2>1, <2>2
  <1>7. Handed(s, a, Lost(e, b) /\ k.active # None)
    <2>1. CASE k = e /\ ~Lost(e, b)
      <3>1. CASE e = s
        BY <1>4, <2>1, <3>1 DEF Handed
      <3>2. CASE s.phase = "Off" /\ JustEntered(e)
        <4>1. a.elapsed = 0 /\ a.memory = {} /\ (a.lambda # Out => RiskDamped)
          BY <1>4, <1>5, <2>1, <3>2 DEF JustEntered, Turned
        <4> QED
          BY <3>2, <4>1 DEF Handed, Reselect
      <3> QED
        BY <1>1, <3>1, <3>2
    <2>2. CASE Lost(e, b) /\ RiskDamped /\ e.active # None /\ Fresh(k, b)
      <3>1. k.elapsed = 0 /\ k.memory = {} /\ k.lambda = Out /\ k.phase \in {"Off", "Engage"}
        BY <2>2 DEF Fresh, Ended, Began
      <3>2. a.elapsed = 0 /\ a.memory = {} /\ a.lambda = Out
        BY <1>4, <1>5, <3>1 DEF Turned
      <3>3. s.phase \in Reselect => a.phase \in {"Off", "Engage"}
        BY <1>1, <1>4, <3>1 DEF Reselect
      <3>4. s.phase # "Off" => a.active # s.active
        <4>1. SUFFICES ASSUME s.phase # "Off" PROVE k.active # s.active
          BY <1>5
        <4>2. e = s /\ s.active \in Pairs /\ b[s.active] <= 0
          BY <1>1, <2>2, <4>1 DEF Lost, Sound, Escapes
        <4>3. CASE Ended(k)
          BY <2>2, <4>2, <4>3 DEF Ended
        <4>4. ASSUME NEW p \in Enterable(b), k.active = p
              PROVE  k.active # s.active
          <5>1. b[p] \in Int /\ b[p] > 0
            BY EnterableBlocks
          <5>2. b[s.active] \in Int
            BY <4>2 DEF Sensed, Absent
          <5> QED
            BY <4>2, <4>4, <5>1, <5>2
        <4> QED
          BY <2>2, <4>3, <4>4 DEF Fresh, Began
      <3> QED
        BY <1>5, <2>2, <3>2, <3>3, <3>4 DEF Handed
    <2> QED
      BY <1>2, <2>1, <2>2
  <1>8. Blocking(a, b)
    <2>1. CASE RiskDamped
      BY <1>6, <2>1 DEF Blocking
    <2>2. ASSUME ~RiskDamped, e.phase \in {"Engage", "Drive"}
          PROVE  Blocking(a, b)
      <3>1. k = e /\ e.active # None
        BY <1>1, <1>2, <2>2 DEF Sound, Latched
      <3>2. a \in Asked(e, b, changed)
        BY <2>2, <3>1 DEF AskedIn
      <3> QED
        BY <1>1, <2>2, <3>1, <3>2, AskedBlocks
    <2>3. ASSUME ~RiskDamped, e.phase \notin {"Engage", "Drive"}
          PROVE  Blocking(a, b)
      <3>1. a = e
        BY <1>2, <2>3 DEF AskedIn
      <3> QED
        BY <2>3, <3>1 DEF Blocking
    <2> QED
      BY <2>1, <2>2, <2>3
  <1> QED
    BY <1>5, <1>7, <1>8
-----------------------------------------------------------------------------
(* The clock, and what it brings about *)

\* The clock moves nothing but the phase's own time, which its longest bound caps.
LEMMA TimedFields ==
  ASSUME NEW a \in Escapes, NEW ticks \in {0, 1}
  PROVE  LET t == Timed(a, ticks)
         IN /\ t \in Escapes /\ t.phase = a.phase
            /\ t.active = a.active /\ t.pending = a.pending /\ t.axis = a.axis
            /\ t.lambda = a.lambda /\ t.age = a.age /\ t.memory = a.memory
            /\ t.failing = a.failing
            /\ t.elapsed = IF a.elapsed + ticks <= LongestTicks
                             THEN a.elapsed + ticks ELSE LongestTicks
            /\ a.elapsed \in Nat /\ t.elapsed \in Nat
  <1> DEFINE t == Timed(a, ticks)
  <1>1. a.elapsed \in 0..LongestTicks /\ LongestTicks \in Nat
    BY Ticks DEF Escapes
  <1>2. /\ Later(a, ticks) = IF a.elapsed + ticks <= LongestTicks
                             THEN a.elapsed + ticks ELSE LongestTicks
        /\ Later(a, ticks) \in 0..LongestTicks
    BY <1>1 DEF Later, Least
  <1>3. t \in Escapes /\ t.elapsed = Later(a, ticks)
    BY <1>2 DEF Timed, Escapes
  <1>4. /\ t.phase = a.phase
        /\ t.active = a.active /\ t.pending = a.pending /\ t.axis = a.axis
        /\ t.lambda = a.lambda /\ t.age = a.age /\ t.memory = a.memory
        /\ t.failing = a.failing
    BY DEF Timed, Escapes
  <1> QED
    BY <1>1, <1>2, <1>3, <1>4

\* The phase goes on, its clock running: nothing latched moves.
SameLatch(a, m) ==
    m.active = a.active /\ m.axis = a.axis /\ m.memory = a.memory

\* Effects appear and vanish over at least one solve on the ramp.
Gradual(a, m) ==
    /\ a.lambda = Out => m.lambda # Full
    /\ a.lambda = Full => m.lambda # Out

\* Every solve of a reselect is spent.
Progress(a, ticks, m) ==
    /\ m.phase \in Reselect => a.phase \in Reselect /\ Spent(m) >= Spent(a) + ticks
    /\ m.phase = "Drive" => a.phase = "Drive" \/ (a.phase = "Engage" /\ a.elapsed + ticks >= 2)

\* The latch stays, or the episode ends, or it is exchanged, at no effect, for a
\* pair that may be entered.
Latch(a, m, b) ==
    \/ SameLatch(a, m)
    \/ m.active = None /\ m.memory = {} /\ a.phase \in {"ReleaseLambdaDown", "ReselectLambdaDown"}
    \/ /\ a.phase = "ReselectLambdaDown" /\ a.elapsed > 0
       /\ m.active # None /\ m.lambda = Out /\ b[m.active] >= EntryBlockage
       /\ m.memory # {} => m.active = a.active

\* What engages has been engaging, or may be entered.
Renewed(a, m, b) == m.phase = "Engage" => a.phase = "Engage" \/ b[m.active] >= EntryBlockage

\* Engaging: the ramp goes up by the clock.
LEMMA EngagingGives ==
  ASSUME NEW a, Sound(a), a.phase = "Engage", NEW ticks \in {0, 1},
         NEW m \in Engaging(Timed(a, ticks))
  PROVE  Sound(m) /\ SameLatch(a, m) /\ Gradual(a, m) /\ Progress(a, ticks, m)
         /\ (Timed(a, ticks).elapsed = 0 => m.lambda = Out)
  <1> DEFINE t == Timed(a, ticks)
  <1>1. a \in Escapes
    BY DEF Sound
  <1>2. /\ t \in Escapes /\ t.phase = a.phase
        /\ t.active = a.active /\ t.pending = a.pending /\ t.axis = a.axis
        /\ t.lambda = a.lambda /\ t.memory = a.memory
        /\ t.elapsed = IF a.elapsed + ticks <= LongestTicks
                             THEN a.elapsed + ticks ELSE LongestTicks
        /\ a.elapsed \in Nat /\ t.elapsed \in Nat
    BY <1>1, TimedFields
  <1> HIDE DEF t
  <1>3. EngageTicks \in Nat /\ EngageTicks >= HandoffTicks
    BY Ticks DEF EngageTicks
  <1>4. CASE t.elapsed >= EngageTicks
    <2> DEFINE r == StartPhase(t, "Drive")
    <2>1. m = [r EXCEPT !.lambda = Full]
      BY <1>4 DEF Engaging, t
    <2>2. /\ r \in Escapes /\ r.phase = "Drive" /\ r.elapsed = 0 /\ r.active = t.active
          /\ r.axis = t.axis /\ r.memory = t.memory
      BY <1>2, StartFields DEF Phases
    <2> HIDE DEF r
    <2>3. Full \in Out..Full
      BY DEF Out, Full
    <2>4. /\ m \in Escapes /\ m.phase = "Drive" /\ m.elapsed = 0 /\ m.active = a.active
          /\ m.axis = a.axis /\ m.memory = a.memory /\ m.lambda = Full
      BY <1>2, <2>1, <2>2, <2>3, LambdaFields
    <2>5. Sound(m)
      BY <2>4 DEF Sound, Latched, Ramped, Reselect
    <2>6. a.elapsed + ticks >= 2 /\ a.elapsed > 0 /\ t.elapsed # 0
      <3>1. t.elapsed >= 2
        BY <1>2, <1>3, <1>4, Ticks
      <3> QED
        BY <1>2, <3>1, Ticks
    <2>7. a.lambda # Out
      BY <2>6 DEF Sound, Ramped
    <2> QED
      BY <2>4, <2>5, <2>6, <2>7 DEF SameLatch, Gradual, Progress, Reselect, Out, Full, t
  <1>5. CASE ~(t.elapsed >= EngageTicks)
    <2> DEFINE lambda == IF t.elapsed >= HandoffTicks THEN Full
                         ELSE IF t.elapsed > 0 THEN Partial ELSE Out
    <2>1. m = [t EXCEPT !.lambda = lambda]
      BY <1>5 DEF Engaging, t
    <2>2. lambda \in Out..Full
      BY DEF Out, Partial, Full
    <2>3. lambda = Out <=> t.elapsed = 0
      BY <1>2, Ticks DEF Out, Partial, Full
    <2>4. lambda = Full => a.lambda # Out
      <3>1. lambda = Full => a.elapsed > 0
        BY <1>2, Ticks DEF Out, Partial, Full
      <3> QED
        BY <3>1 DEF Sound, Ramped
    <2>5. a.lambda = Full => lambda # Out
      <3>1. t.elapsed = 0 => a.elapsed = 0
        BY <1>2, Ticks
      <3>2. a.elapsed = 0 => a.lambda = Out
        BY DEF Sound, Ramped
      <3> QED
        BY <2>3, <3>1, <3>2 DEF Out, Full
    <2> HIDE DEF lambda
    <2>6. /\ m \in Escapes /\ m.phase = "Engage" /\ m.elapsed = t.elapsed
          /\ m.active = a.active /\ m.axis = a.axis /\ m.memory = a.memory
          /\ m.lambda = lambda
      BY <1>2, <2>1, <2>2, LambdaFields
    <2>7. Sound(m)
      BY <1>2, <2>3, <2>6 DEF Sound, Latched, Ramped, Reselect
    <2> QED
      BY <2>3, <2>4, <2>5, <2>6, <2>7 DEF SameLatch, Gradual, Progress, Reselect, t
  <1> QED
    BY <1>4, <1>5
\* The phases that wait before the effect fades, each with the one after it.
Follows(phase, next) ==
    \/ phase = "ReleaseDriveDown" /\ next = "ReleaseBrake"
    \/ phase = "ReselectDriveDown" /\ next = "ReselectBrake"
    \/ phase = "ReleaseBrake" /\ next = "ReleaseLambdaDown"
    \/ phase = "ReselectBrake" /\ next = "ReselectLambdaDown"

WaitTicks(phase) == IF phase = "ReselectDriveDown" THEN DriveRampTicks ELSE BrakeTicks

\* Waiting keeps the effect; a reselect waits no longer than the phase's bound.
LEMMA WaitingGives ==
  ASSUME NEW a, Sound(a), NEW next, Follows(a.phase, next), NEW ticks \in {0, 1}, NEW m,
         \/ m = StartPhase(Timed(a, ticks), next)
         \/ /\ m = Timed(a, ticks)
            /\ a.phase \in Reselect => Timed(a, ticks).elapsed < WaitTicks(a.phase)
  PROVE  /\ Sound(m) /\ SameLatch(a, m) /\ Progress(a, ticks, m) /\ m.lambda = a.lambda
         /\ m.phase # "Engage"
  <1> DEFINE t == Timed(a, ticks)
  <1>1. a \in Escapes
    BY DEF Sound
  <1>2. /\ t \in Escapes /\ t.phase = a.phase
        /\ t.active = a.active /\ t.pending = a.pending /\ t.axis = a.axis
        /\ t.lambda = a.lambda /\ t.memory = a.memory
        /\ t.elapsed = IF a.elapsed + ticks <= LongestTicks
                         THEN a.elapsed + ticks ELSE LongestTicks
        /\ a.elapsed \in Nat /\ t.elapsed \in Nat
    BY <1>1, TimedFields
  <1>3. \/ m = StartPhase(t, next)
        \/ (m = t /\ (a.phase \in Reselect => t.elapsed < WaitTicks(a.phase)))
    OBVIOUS
  <1> HIDE DEF t
  <1>4. a.phase \in Phases /\ next \in Phases
    BY DEF Follows, Phases, Release, Reselect
  <1>5. a.phase = "ReselectDriveDown" => a.elapsed < DriveRampTicks
    BY DEF Sound, Ramped
  <1>6. a.phase = "ReselectBrake" => a.elapsed < BrakeTicks
    BY DEF Sound, Ramped
  <1>7. CASE m = StartPhase(t, next)
    <2>1. /\ m \in Escapes /\ m.phase = next /\ m.elapsed = 0 /\ m.active = a.active
          /\ m.pending = a.pending /\ m.axis = a.axis /\ m.memory = a.memory
          /\ m.lambda = a.lambda
      BY <1>2, <1>4, <1>7, StartFields
    <2>2. Latched(m)
      BY <2>1 DEF Sound, Latched, Follows, Reselect
    <2>3. Ramped(m)
      BY <2>1, Ticks DEF Ramped, Follows
    <2>4. next \in Reselect => a.phase \in Reselect /\ Spent(m) >= Spent(a) + ticks
      BY <1>2, <1>5, <1>6, <2>1, Ticks DEF Follows, Spent, Reselect
    <2>5. next \notin {"Engage", "Drive"}
      BY DEF Follows
    <2> QED
      BY <2>1, <2>2, <2>3, <2>4, <2>5 DEF Sound, SameLatch, Progress
  <1>8. CASE m = t /\ (a.phase \in Reselect => t.elapsed < WaitTicks(a.phase))
    <2>1. Latched(m)
      BY <1>2, <1>8 DEF Sound, Latched
    <2>2. Ramped(m)
      BY <1>2, <1>8 DEF Ramped, Follows, WaitTicks, Reselect
    <2>3. a.phase \in Reselect => Spent(m) = Spent(a) + ticks
      <3>1. a.phase \in Reselect => t.elapsed = a.elapsed + ticks
        BY <1>2, <1>5, <1>6, Ticks DEF Follows, Reselect
      <3> QED
        BY <1>2, <1>8, <3>1, Ticks DEF Spent
    <2>4. a.phase \in Reselect => Spent(m) >= Spent(a) + ticks
      BY <1>2, <2>3, Ticks DEF Spent
    <2> QED
      BY <1>2, <1>8, <2>1, <2>2, <2>4 DEF Sound, SameLatch, Progress, Follows
  <1> QED
    BY <1>3, <1>7, <1>8

\* Before a reselect hands over, it notes whether its direction failed.
LEMMA RememberingFields ==
  ASSUME NEW s \in Escapes, s.axis # None
  PROVE  LET r == Remembering(s)
         IN r \in Escapes /\ (s.pending # s.active => r.memory = {})
  <1>1. s.axis \in Axes
    BY DEF Escapes
  <1>2. Remembering(s) \in Escapes
    BY <1>1 DEF Remembering, Escapes
  <1>3. s.pending # s.active => Remembering(s).memory = {}
    BY DEF Remembering, Escapes
  <1> QED
    BY <1>2, <1>3

\* Fading: the ramp goes down by the clock; at no effect the episode ends or is
\* handed over.
LEMMA FadingGives ==
  ASSUME NEW a, Sound(a), a.phase \in {"ReleaseLambdaDown", "ReselectLambdaDown"},
         NEW ticks \in {0, 1}, NEW b \in Sensed,
         NEW m \in FadingDown(Timed(a, ticks), b)
  PROVE  /\ Sound(m) /\ Latch(a, m, b) /\ Gradual(a, m) /\ Progress(a, ticks, m)
         /\ Renewed(a, m, b)
         /\ a.lambda = Out => m.lambda = Out
  <1> DEFINE t == Timed(a, ticks)
             out == [t EXCEPT !.lambda = Out]
  <1>1. a \in Escapes
    BY DEF Sound
  <1>2. /\ t \in Escapes /\ t.phase = a.phase
        /\ t.active = a.active /\ t.pending = a.pending /\ t.axis = a.axis
        /\ t.lambda = a.lambda /\ t.memory = a.memory
        /\ t.elapsed = IF a.elapsed + ticks <= LongestTicks
                         THEN a.elapsed + ticks ELSE LongestTicks
        /\ a.elapsed \in Nat /\ t.elapsed \in Nat
    BY <1>1, TimedFields
  <1>3. a.lambda \in Out..Full /\ Out \in Out..Full
    BY <1>1 DEF Escapes, Out, Full
  <1>4. CASE ~Faded(t)
    <2> DEFINE lambda == Least(t.lambda, Partial)
    <2>1. m = [t EXCEPT !.lambda = lambda]
      BY <1>4 DEF FadingDown
    <2>2. lambda \in Out..Full /\ lambda # Full /\ (a.lambda = Out <=> lambda = Out)
      BY <1>2, <1>3 DEF Least, Out, Partial, Full
    <2>3. t.elapsed < HandoffTicks /\ t.elapsed = a.elapsed + ticks
      BY <1>2, <1>4, Ticks DEF Faded
    <2> HIDE DEF t, lambda
    <2>4. /\ m \in Escapes /\ m.phase = a.phase /\ m.elapsed = t.elapsed
          /\ m.active = a.active /\ m.pending = a.pending /\ m.axis = a.axis
          /\ m.memory = a.memory /\ m.lambda = lambda
      BY <1>2, <2>1, <2>2, LambdaFields
    <2>5. Sound(m)
      BY <2>2, <2>3, <2>4 DEF Sound, Latched, Ramped, Reselect
    <2>6. Spent(m) >= Spent(a) + ticks
      BY <1>2, <2>3, <2>4, Ticks DEF Spent
    <2>7. a.lambda = Full => m.lambda # Out
      BY <2>2, <2>4 DEF Out, Full
    <2> QED
      BY <2>2, <2>4, <2>5, <2>6, <2>7 DEF Latch, SameLatch, Gradual, Progress, Renewed
  <1>5. CASE Faded(t)
    <2>1. a.elapsed > 0
      BY <1>2, <1>5, Ticks DEF Faded
    <2>2. a.lambda # Full
      BY <2>1 DEF Sound, Ramped
    <2>3. /\ out \in Escapes /\ out.phase = a.phase /\ out.active = a.active
          /\ out.pending = a.pending /\ out.axis = a.axis /\ out.memory = a.memory
      BY <1>2, <1>3, LambdaFields
    <2>4. IF t.phase = "ReleaseLambdaDown" THEN m = Cleared(out) ELSE m \in HandedOver(out, b)
      BY <1>5 DEF FadingDown
    <2> HIDE DEF t, out
    <2>5. CASE Ended(m)
      <3>1. Sound(m)
        BY <2>5 DEF Ended, Sound, Latched, Ramped, Reselect
      <3> QED
        BY <2>2, <2>5, <3>1 DEF Ended, Latch, Gradual, Progress, Renewed, Reselect, Out, Full
    <2>6. CASE m = Cleared(out)
      BY <2>3, <2>5, <2>6, ClearedEnds
    <2>7. CASE a.phase = "ReselectLambdaDown" /\ m \in HandedOver(out, b)
      <3>1. a.pending \in Pairs /\ a.axis # None /\ a.active # None
        BY <1>1, <2>7 DEF Sound, Latched, Reselect, Escapes
      <3>2. CASE b[a.pending] < EntryBlockage
        BY <2>3, <2>6, <2>7, <3>2 DEF HandedOver
      <3>3. CASE ~(b[a.pending] < EntryBlockage)
        <4>1. b[a.pending] >= EntryBlockage
          <5>1. b[a.pending] \in Int /\ EntryBlockage \in Int
            BY <3>1, Ticks DEF Sensed, Absent, EntryBlockage
          <5> QED
            BY <3>3, <5>1
        <4> DEFINE r == Remembering(out)
        <4>2. r \in Escapes /\ (a.pending # a.active => r.memory = {})
          BY <2>3, <3>1, RememberingFields
        <4>3. m \in Activations(r, a.pending, a.pending = a.active)
          BY <2>3, <2>7, <3>3 DEF HandedOver
        <4> DEFINE same == a.pending = a.active
                   next == a.pending
        <4>4. \/ Ended(m)
              \/ /\ Began(m, a.pending)
                 /\ m.memory = IF a.pending = a.active THEN r.memory ELSE {}
          <5>1. r \in Escapes /\ next \in Pairs /\ same \in BOOLEAN
            BY <3>1, <4>2
          <5>2. m \in Activations(r, next, same)
            BY <4>3
          <5> HIDE DEF r, same, next
          <5>3. Ended(m) \/ (Began(m, next) /\ m.memory = IF same THEN r.memory ELSE {})
            BY <5>1, <5>2, ActivationGives
          <5> QED
            BY <5>3 DEF same, next
        <4> HIDE DEF r
        <4>5. CASE /\ Began(m, a.pending)
                   /\ m.memory = IF a.pending = a.active THEN r.memory ELSE {}
          <5>1. Sound(m)
            BY <3>1, <4>5, FreshSound
          <5>2. /\ m.phase = "Engage" /\ m.active = a.pending /\ m.lambda = Out
                /\ m.active # None
            BY <3>1, <4>5, EscapeAssumption DEF Began
          <5>3. Latch(a, m, b)
            BY <2>1, <2>7, <4>1, <4>5, <5>2 DEF Latch
          <5> QED
            BY <2>2, <4>1, <5>1, <5>2, <5>3 DEF Gradual, Progress, Renewed, Reselect, Out, Full
        <4> QED
          BY <2>5, <4>4, <4>5
      <3> QED
        BY <3>2, <3>3
    <2> QED
      BY <1>2, <2>4, <2>6, <2>7
  <1> QED
    BY <1>4, <1>5
\* What the clock brings about, in whichever phase.
LEMMA AdvancedGives ==
  ASSUME NEW a, Sound(a), NEW ticks \in {0, 1}, NEW b \in Sensed,
         NEW m \in Advanced(Timed(a, ticks), b)
  PROVE  /\ Sound(m) /\ Latch(a, m, b) /\ Gradual(a, m) /\ Progress(a, ticks, m)
         /\ Renewed(a, m, b)
         /\ a.elapsed = 0 /\ ticks = 0 /\ a.lambda = Out => m.lambda = Out
  <1> DEFINE t == Timed(a, ticks)
  <1>1. a \in Escapes /\ a.phase \in Phases
    BY DEF Sound, Escapes
  <1>2. /\ t \in Escapes /\ t.phase = a.phase
        /\ t.active = a.active /\ t.pending = a.pending /\ t.axis = a.axis
        /\ t.lambda = a.lambda /\ t.memory = a.memory
        /\ t.elapsed = IF a.elapsed + ticks <= LongestTicks
                         THEN a.elapsed + ticks ELSE LongestTicks
        /\ a.elapsed \in Nat /\ t.elapsed \in Nat
    BY <1>1, TimedFields
  <1>3. a.elapsed = 0 /\ ticks = 0 => t.elapsed = 0
    BY <1>2, Ticks
  <1>4. ASSUME NEW next, Follows(a.phase, next),
               \/ m = StartPhase(t, next)
               \/ m = t /\ (a.phase \in Reselect => t.elapsed < WaitTicks(a.phase))
        PROVE  /\ Sound(m) /\ Latch(a, m, b) /\ Gradual(a, m) /\ Progress(a, ticks, m)
               /\ Renewed(a, m, b)
               /\ a.lambda = Out => m.lambda = Out
    <2>1. /\ Sound(m) /\ SameLatch(a, m) /\ Progress(a, ticks, m) /\ m.lambda = a.lambda
          /\ m.phase # "Engage"
      BY <1>4, WaitingGives
    <2> QED
      BY <2>1 DEF Latch, Gradual, Renewed, Out, Full
  <1>5. CASE a.phase \in {"Off", "Drive"}
    <2>1. m = t
      BY <1>2, <1>5 DEF Advanced
    <2> HIDE DEF t
    <2>2. Sound(m)
      BY <1>2, <1>5, <2>1 DEF Sound, Latched, Ramped, Reselect
    <2> QED
      BY <1>2, <1>5, <2>1, <2>2
      DEF Latch, SameLatch, Gradual, Progress, Renewed, Reselect, Out, Full
  <1>6. CASE a.phase = "Engage"
    <2>1. m \in Engaging(t)
      BY <1>2, <1>6 DEF Advanced
    <2> QED
      BY <1>3, <1>6, <2>1, EngagingGives DEF Latch, Renewed
  <1>7. CASE a.phase \in {"ReleaseDriveDown", "ReselectDriveDown"}
    <2> DEFINE next == IF a.phase = "ReleaseDriveDown" THEN "ReleaseBrake" ELSE "ReselectBrake"
    <2>1. m \in DrivingDown(t, next)
      BY <1>2, <1>7 DEF Advanced
    <2>2. Follows(a.phase, next)
      BY <1>7 DEF Follows
    <2>3. m = StartPhase(t, next) \/ (m = t /\ t.elapsed < DriveRampTicks)
      BY <1>2, <2>1, Ticks DEF DrivingDown
    <2>4. a.phase \in Reselect => WaitTicks(a.phase) = DriveRampTicks
      BY <1>7 DEF WaitTicks, Reselect
    <2> HIDE DEF next
    <2> QED
      BY <1>4, <2>2, <2>3, <2>4
  <1>8. CASE a.phase \in {"ReleaseBrake", "ReselectBrake"}
    <2> DEFINE next == IF a.phase = "ReleaseBrake" THEN "ReleaseLambdaDown"
                       ELSE "ReselectLambdaDown"
    <2>1. m \in Braking(t, next)
      BY <1>2, <1>8 DEF Advanced
    <2>2. Follows(a.phase, next)
      BY <1>8 DEF Follows
    <2>3. m = StartPhase(t, next) \/ (m = t /\ ~BrakeTimedOut(t))
      BY <2>1 DEF Braking
    <2>4. a.phase \in Reselect /\ ~BrakeTimedOut(t) => t.elapsed < WaitTicks(a.phase)
      BY <1>2, <1>8, Ticks DEF WaitTicks, Reselect, BrakeTimedOut
    <2> HIDE DEF next
    <2> QED
      BY <1>4, <2>2, <2>3, <2>4
  <1>9. CASE a.phase \in {"ReleaseLambdaDown", "ReselectLambdaDown"}
    <2>1. m \in FadingDown(t, b)
      BY <1>2, <1>9 DEF Advanced
    <2> QED
      BY <1>9, <2>1, FadingGives
  <1> QED
    BY <1>1, <1>5, <1>6, <1>7, <1>8, <1>9 DEF Phases, Release, Reselect

\* The solve ends with what was moved, its blockage noted, and may find that the
\* driven direction has failed.
Watched(m, n, b) ==
    /\ n.active = m.active /\ n.axis = m.axis /\ n.lambda = m.lambda /\ n.memory = m.memory
    /\ n.blockage = IF m.active = None \/ b[m.active] = Absent THEN 0 ELSE b[m.active]
    /\ \/ n.phase = m.phase /\ n.elapsed = m.elapsed
       \/ m.phase = "Drive" /\ n.elapsed = 0

\* The last stage keeps what is sound.
LEMMA MonitoredGives ==
  ASSUME NEW m, Sound(m), NEW b \in Sensed, NEW n \in Monitored(m, b)
  PROVE  Sound(n) /\ Watched(m, n, b)
  <1> DEFINE age == IF m.active = None THEN m.age ELSE Least(m.age + 1, MinDriveTicks)
             blockage == IF m.active = None \/ b[m.active] = Absent THEN 0 ELSE b[m.active]
             t == [m EXCEPT !.age = age, !.blockage = blockage]
  <1>1. m \in Escapes
    BY DEF Sound
  <1>2. age \in 0..MinDriveTicks
    <2>1. m.age \in 0..MinDriveTicks
      BY <1>1 DEF Escapes
    <2> QED
      BY <2>1, Ticks DEF Least
  <1>3. blockage \in 0..MaxBlockage
    <2>1. m.active # None => b[m.active] \in Absent..MaxBlockage
      BY <1>1 DEF Escapes, Sensed
    <2> QED
      BY <2>1, Ticks DEF Absent
  <1>4. \/ n = t
        \/ /\ t.phase = "Drive" /\ b[t.active] > Absent
           /\ n = [ReselectFor(t, t.active, 5) EXCEPT !.failing = TRUE]
    BY DEF Monitored
  <1> HIDE DEF age, blockage
  <1>5. /\ t \in Escapes /\ t.phase = m.phase /\ t.elapsed = m.elapsed
        /\ t.active = m.active /\ t.pending = m.pending /\ t.axis = m.axis
    BY <1>1, <1>2, <1>3 DEF Escapes
  <1>6. t.lambda = m.lambda /\ t.memory = m.memory /\ t.blockage = blockage
    BY <1>1, <1>2, <1>3 DEF Escapes
  <1> HIDE DEF t
  <1>7. Sound(t)
    BY <1>5, <1>6 DEF Sound, Latched, Ramped
  <1>8. CASE n = t
    BY <1>5, <1>6, <1>7, <1>8 DEF Watched, blockage
  <1>9. CASE /\ t.phase = "Drive"
             /\ n = [ReselectFor(t, t.active, 5) EXCEPT !.failing = TRUE]
    <2> DEFINE r == ReselectFor(t, t.active, 5)
    <2>1. t.active # None /\ t.active \in Pairs
      BY <1>7, <1>9 DEF Sound, Latched, Escapes
    <2>2. Turned(t, r) /\ r.blockage = t.blockage
      BY <1>7, <2>1, ReselectTurns
    <2> HIDE DEF r
    <2>3. r \in Escapes
      BY <2>2 DEF Turned, Sound
    <2>4. /\ n \in Escapes /\ n.phase = r.phase /\ n.elapsed = r.elapsed
          /\ n.active = r.active /\ n.pending = r.pending /\ n.axis = r.axis
      BY <1>9, <2>3 DEF Escapes, r
    <2>5. n.lambda = r.lambda /\ n.memory = r.memory /\ n.blockage = r.blockage
      BY <1>9, <2>3 DEF Escapes, r
    <2>6. Sound(n)
      BY <2>2, <2>4, <2>5 DEF Turned, Sound, Latched, Ramped
    <2> QED
      BY <1>5, <1>6, <1>9, <2>2, <2>4, <2>5, <2>6 DEF Watched, Turned, blockage
  <1> QED
    BY <1>4, <1>8, <1>9
-----------------------------------------------------------------------------
(* A whole solve *)

Running(replaced) == IF replaced THEN 0 ELSE 1

\* One solve from s to n: what it handed to the clock, a, and what came of it, m.
SolvedBy(s, n, b, replaced, a, m) ==
    /\ Sound(a) /\ Handed(s, a, replaced)
    /\ Blocking(a, b)
    /\ Sound(m) /\ Latch(a, m, b) /\ Gradual(a, m) /\ Progress(a, Running(replaced), m)
    /\ Renewed(a, m, b)
    /\ a.elapsed = 0 /\ replaced /\ a.lambda = Out => m.lambda = Out
    /\ Sound(n) /\ Watched(m, n, b)

\* What is sensed when all is calm is something that may be sensed.
LEMMA ReadingsSensed == Readings \subseteq Sensed
  BY Ticks DEF Readings, Sensed, Absent

\* Every solve is a chain of such stages.
LEMMA SolveStages ==
  ASSUME Sound(escape), SolveEscape
  PROVE  \E b \in Sensed, replaced \in BOOLEAN, a, m \in Escapes :
            SolvedBy(escape, escape', b, replaced, a, m)
  <1>1. PICK b \in Readings, changed \in (IF calm THEN {FALSE} ELSE BOOLEAN) :
          \E e \in Entered(escape, b) : \E k \in Kept(e, b) :
             \E a \in AskedIn(e, k, b, changed) :
                \E m \in Advanced(Timed(a, Ticked(e, k, b)), b) : escape' \in Monitored(m, b)
    BY Zenon DEF SolveEscape
  <1>2. PICK e \in Entered(escape, b) : \E k \in Kept(e, b) :
          \E a \in AskedIn(e, k, b, changed) :
             \E m \in Advanced(Timed(a, Ticked(e, k, b)), b) : escape' \in Monitored(m, b)
    BY <1>1
  <1>3. PICK k \in Kept(e, b) : \E a \in AskedIn(e, k, b, changed) :
          \E m \in Advanced(Timed(a, Ticked(e, k, b)), b) : escape' \in Monitored(m, b)
    BY <1>2
  <1>4. PICK a \in AskedIn(e, k, b, changed) :
          \E m \in Advanced(Timed(a, Ticked(e, k, b)), b) : escape' \in Monitored(m, b)
    BY <1>3
  <1> DEFINE replaced == Lost(e, b) /\ k.active # None
  <1>5. b \in Sensed /\ changed \in BOOLEAN
    BY ReadingsSensed
  <1>6. PICK m \in Advanced(Timed(a, Running(replaced)), b) : escape' \in Monitored(m, b)
    BY <1>4, Zenon DEF Ticked, Running
  <1>7. Sound(a) /\ Handed(escape, a, replaced) /\ Blocking(a, b)
    BY <1>5, Chain
  <1>8. replaced \in BOOLEAN /\ Running(replaced) \in {0, 1}
    BY DEF Lost, RiskDamped, Running
  <1> HIDE DEF replaced
  <1>9. /\ Sound(m) /\ Latch(a, m, b) /\ Gradual(a, m) /\ Progress(a, Running(replaced), m)
        /\ Renewed(a, m, b)
        /\ a.elapsed = 0 /\ Running(replaced) = 0 /\ a.lambda = Out => m.lambda = Out
    BY <1>5, <1>6, <1>7, <1>8, AdvancedGives
  <1>10. Sound(escape') /\ Watched(m, escape', b)
    BY <1>5, <1>6, <1>9, MonitoredGives
  <1>11. SolvedBy(escape, escape', b, replaced, a, m)
    BY <1>7, <1>9, <1>10 DEF SolvedBy, Running
  <1> QED
    BY <1>5, <1>8, <1>11 DEF SolvedBy, Sound

\* A solve exchanges the latch at zero effect, and moves the effect gradually
\* but where the risk-damped model enters or loses a pair.
LEMMA SolveSwaps ==
  ASSUME Sound(escape), SolveEscape
  PROVE  /\ (escape.phase # "Off" /\ escape'.phase # "Off"
             /\ <<escape.active, escape.axis>> # <<escape'.active, escape'.axis>>)
              => escape'.lambda = Out
         /\ (escape.lambda = Out /\ escape'.lambda = Full) => RiskDamped /\ escape.phase = "Off"
         /\ (escape.lambda = Full /\ escape'.lambda = Out)
              => RiskDamped /\ escape'.active # escape.active
  <1> DEFINE s == escape
             n == escape'
  <1>1. PICK b \in Sensed, replaced \in BOOLEAN, a, m \in Escapes : SolvedBy(s, n, b, replaced, a, m)
    BY SolveStages
  <1>2. Sound(s) /\ Sound(a) /\ Sound(m) /\ Sound(n)
    BY <1>1 DEF SolvedBy
  <1>3. n.active = m.active /\ n.axis = m.axis /\ n.lambda = m.lambda
    BY <1>1 DEF SolvedBy, Watched
  <1>4. \/ a.active = s.active /\ a.axis = s.axis /\ a.lambda = s.lambda
        \/ /\ a.elapsed = 0
           /\ a.lambda # Out => RiskDamped /\ s.phase = "Off"
           /\ s.phase # "Off" => /\ RiskDamped /\ a.active # s.active
                                 /\ a.active # None => replaced
    BY <1>1 DEF SolvedBy, Handed, Turned
  <1>5. /\ a.lambda = Out => m.lambda # Full
        /\ a.lambda = Full => m.lambda # Out
    BY <1>1 DEF SolvedBy, Gradual
  <1>6. \/ m.active = a.active /\ m.axis = a.axis
        \/ m.active = None
        \/ a.phase = "ReselectLambdaDown" /\ m.lambda = Out
    BY <1>1 DEF SolvedBy, Latch, SameLatch
  <1>7. a.elapsed = 0 /\ replaced /\ a.lambda = Out => m.lambda = Out
    BY <1>1 DEF SolvedBy
  <1> HIDE DEF s, n
  <1>8. s.phase = "Off" => s.lambda = Out
    BY <1>2 DEF Sound, Latched
  <1>9. (n.phase # "Off" <=> n.active # None) /\ (a.phase # "Off" <=> a.active # None)
    BY <1>2 DEF Sound, Latched
  <1>10. (s.phase # "Off" /\ n.phase # "Off" /\ <<s.active, s.axis>> # <<n.active, n.axis>>)
           => n.lambda = Out
    BY <1>3, <1>4, <1>6, <1>7, <1>9
  <1>11. (s.lambda = Out /\ n.lambda = Full) => RiskDamped /\ s.phase = "Off"
    BY <1>3, <1>4, <1>5
  <1>12. (s.lambda = Full /\ n.lambda = Out) => RiskDamped /\ n.active # s.active
    <2> SUFFICES ASSUME s.lambda = Full, n.lambda = Out
                 PROVE  RiskDamped /\ n.active # s.active
      OBVIOUS
    <2>1. s.phase # "Off" /\ s.active # None
      BY <1>2, <1>8 DEF Sound, Latched, Out, Full
    <2>2. RiskDamped /\ a.active # s.active /\ a.elapsed = 0
      BY <1>3, <1>4, <1>5, <2>1 DEF Out, Full
    <2>3. m.active \in {a.active, None}
      BY <1>1, <2>2 DEF SolvedBy, Latch, SameLatch
    <2> QED
      BY <1>3, <2>1, <2>2, <2>3
  <1> QED
    BY <1>10, <1>11, <1>12 DEF s, n

\* A solve ends with what still blocks, or has turned it.
LEMMA SolveReleases ==
  ASSUME Sound(escape), SolveEscape
  PROVE  UnblockedIsReleased'
  <1>0. RiskDamped' = RiskDamped
    <2>1. model' = model
      BY Zenon DEF SolveEscape
    <2> QED
      BY <2>1 DEF RiskDamped
  <1>1. PICK b \in Sensed, replaced \in BOOLEAN, a, m \in Escapes :
          SolvedBy(escape, escape', b, replaced, a, m)
    BY SolveStages
  <1>2. CASE RiskDamped
    <2> SUFFICES ASSUME escape'.active # None PROVE escape'.blockage > 0
      BY <1>0, <1>2 DEF UnblockedIsReleased
    <2>1. m.active # None /\ m.active \in Pairs /\ b[m.active] \in Int
      BY <1>1 DEF SolvedBy, Watched, Sound, Escapes, Sensed, Absent
    <2>2. b[m.active] > 0
      <3>1. CASE m.active = a.active
        BY <1>1, <1>2, <2>1, <3>1 DEF SolvedBy, Blocking
      <3>2. CASE b[m.active] >= EntryBlockage
        BY <1>2, <2>1, <3>2 DEF EntryBlockage
      <3> QED
        BY <1>1, <2>1, <3>1, <3>2 DEF SolvedBy, Latch, SameLatch
    <2> QED
      BY <1>1, <2>1, <2>2 DEF SolvedBy, Watched, Absent
  <1>3. CASE ~RiskDamped
    <2> SUFFICES ASSUME escape'.phase \in {"Engage", "Drive"}
                 PROVE  escape'.blockage \notin 1..ReleaseBlockage - 1
      BY <1>0, <1>3 DEF UnblockedIsReleased
    <2>1. m.phase \in {"Engage", "Drive"} /\ m.active \in Pairs /\ b[m.active] \in Int
      BY <1>1 DEF SolvedBy, Watched, Sound, Latched, Escapes, Sensed, Absent
    <2>2. b[m.active] \notin 0..ReleaseBlockage - 1
      <3>1. CASE a.phase \in {"Engage", "Drive"}
        <4>1. m.active = a.active
          BY <1>1, <2>1, <3>1 DEF SolvedBy, Sound, Latched, Latch, SameLatch
        <4> QED
          BY <1>1, <1>3, <3>1, <4>1 DEF SolvedBy, Blocking
      <3>2. CASE a.phase \notin {"Engage", "Drive"}
        <4>1. b[m.active] >= EntryBlockage
          BY <1>1, <2>1, <3>2 DEF SolvedBy, Progress, Renewed
        <4> QED
          BY <1>3, <2>1, <4>1, EscapeAssumption DEF EntryBlockage
      <3> QED
        BY <3>1, <3>2
    <2> QED
      BY <1>1, <2>1, <2>2 DEF SolvedBy, Watched, Absent
  <1> QED
    BY <1>2, <1>3

\* What a solve leaves remembered belongs to the pair it began with.
LEMMA SolveRemembers ==
  ASSUME Sound(escape), SolveEscape, escape'.memory # {}
  PROVE  escape'.active = escape.active /\ escape.active # None
  <1>1. PICK b \in Sensed, replaced \in BOOLEAN, a, m \in Escapes :
          SolvedBy(escape, escape', b, replaced, a, m)
    BY SolveStages
  <1>2. m.memory # {} /\ escape'.active = m.active
    BY <1>1 DEF SolvedBy, Watched
  <1>3. \/ m.active = a.active /\ m.memory = a.memory
        \/ a.phase = "ReselectLambdaDown" /\ a.elapsed > 0 /\ m.active = a.active
    BY <1>1, <1>2 DEF SolvedBy, Latch, SameLatch
  <1>4. \/ a.active = escape.active /\ (a.memory = escape.memory \/ a = escape)
        \/ a.elapsed = 0 /\ a.memory = {}
    BY <1>1 DEF SolvedBy, Handed, Turned
  <1>5. a.active = escape.active
    BY <1>2, <1>3, <1>4
  <1>6. a.active # None
    BY <1>1, <1>2, <1>3 DEF SolvedBy, Sound, Latched
  <1> QED
    BY <1>2, <1>3, <1>5, <1>6

\* A reselect spends every solve it ends in.
LEMMA SolveSpends ==
  ASSUME Sound(escape), SpentInv, reselecting \in Nat, SolveEscape
  PROVE  SpentInv' /\ reselecting' \in Nat
  <1>1. reselecting' = IF escape'.phase \in Reselect THEN reselecting + 1 ELSE 0
    BY DEF SolveEscape
  <1>2. CASE escape'.phase \notin Reselect
    BY <1>1, <1>2 DEF SpentInv
  <1>3. CASE escape'.phase \in Reselect
    <2> DEFINE s == escape
               n == escape'
    <2>1. PICK b \in Sensed, replaced \in BOOLEAN, a, m \in Escapes : SolvedBy(s, n, b, replaced, a, m)
      BY SolveStages
    <2>2. s.elapsed \in Nat /\ n.elapsed \in Nat /\ a.elapsed \in Nat /\ m.elapsed \in Nat
      BY <2>1, Ticks DEF SolvedBy, Sound, Escapes
    <2>3. \/ n.phase = m.phase /\ n.elapsed = m.elapsed
          \/ m.phase = "Drive"
      BY <2>1 DEF SolvedBy, Watched
    <2>4. /\ m.phase \in Reselect => a.phase \in Reselect /\ Spent(m) >= Spent(a) + Running(replaced)
          /\ m.phase = "Drive" => a.phase = "Drive"
                                  \/ (a.phase = "Engage" /\ a.elapsed + Running(replaced) >= 2)
      BY <2>1 DEF SolvedBy, Progress
    <2>5. \/ a = s /\ ~replaced
          \/ s.phase \in {"Engage", "Drive"}
          \/ a.elapsed = 0 /\ (s.phase \in Reselect => a.phase \in {"Off", "Engage"})
      BY <2>1 DEF SolvedBy, Handed
    <2>6. reselecting <= (IF s.phase \in Reselect THEN Spent(s) ELSE 0)
      BY DEF SpentInv
    <2> HIDE DEF s, n
    <2>7. Spent(n) >= 1 /\ Spent(n) \in Nat /\ Spent(s) \in Nat
      BY <2>2, Ticks DEF Spent
    <2>8. CASE s.phase \notin Reselect
      <3>1. reselecting + 1 <= Spent(n)
        BY <2>6, <2>7, <2>8
      <3> QED
        BY <1>1, <1>3, <3>1 DEF SpentInv, n
    <2>9. CASE s.phase \in Reselect
      <3>1. a = s /\ ~replaced
        BY <1>3, <2>3, <2>4, <2>5, <2>9 DEF n, Running, Reselect
      <3>2. Spent(m) >= Spent(s) + 1 /\ n.phase = m.phase /\ n.elapsed = m.elapsed
        BY <1>3, <2>3, <2>4, <2>9, <3>1 DEF n, Running, Reselect
      <3>3. Spent(n) = Spent(m)
        BY <3>2 DEF Spent
      <3>4. reselecting + 1 <= Spent(n)
        BY <2>6, <2>7, <2>9, <3>2, <3>3
      <3> QED
        BY <1>1, <1>3, <3>4 DEF SpentInv, n
    <2> QED
      BY <2>8, <2>9
  <1> QED
    BY <1>2, <1>3

\* Every step keeps the invariant.
LEMMA EscapeStep ==
  ASSUME EscapeInv, [EscapeNext]_escapeVars
  PROVE  EscapeInv'
  <1>1. CASE SolveEscape
    <2>1. Sound(escape')
      <3>1. Sound(escape)
        BY DEF EscapeInv
      <3> QED
        BY <1>1, <3>1, SolveStages DEF SolvedBy
    <2>2. SpentInv' /\ reselecting' \in Nat
      BY <1>1, SolveSpends DEF EscapeInv
    <2>3. escape.active \in Pairs \cup {None}
      BY DEF EscapeInv, Sound, Escapes
    <2>4. /\ UNCHANGED <<model, calm>>
          /\ learntOn' = IF escape'.memory = {} THEN None
                         ELSE IF escape'.memory = escape.memory THEN learntOn
                         ELSE escape.active
      BY <1>1, Zenon DEF SolveEscape
    <2>5. escape'.memory # {} => escape'.active = escape.active /\ escape.active # None
      BY <1>1, SolveRemembers DEF EscapeInv
    <2>6. MemoryOfEpisode'
      BY <2>4, <2>5 DEF EscapeInv, MemoryOfEpisode
    <2>7. learntOn' \in Pairs \cup {None} /\ model' \in Models /\ calm' \in BOOLEAN
      BY <2>3, <2>4 DEF EscapeInv
    <2> QED
      BY <2>1, <2>2, <2>6, <2>7 DEF EscapeInv, Sound, Latched, Ramped
  <1>2. CASE Calms
    BY <1>2 DEF Calms, EscapeInv, Sound, Latched, Ramped, SpentInv, Spent, MemoryOfEpisode
  <1>3. CASE UNCHANGED escapeVars
    BY <1>3 DEF escapeVars, EscapeInv, Sound, Latched, Ramped, SpentInv, Spent, MemoryOfEpisode
  <1> QED
    BY <1>1, <1>2, <1>3 DEF EscapeNext

\* The invariant holds from the start.
LEMMA EscapeStarts == EscapeInit => EscapeInv
  <1> SUFFICES ASSUME EscapeInit PROVE EscapeInv
    OBVIOUS
  <1>1. escape \in Escapes
    BY Ticks, Zeros DEF EscapeInit, Escapes, Phases, Out, Full
  <1>2. Latched(escape) /\ Ramped(escape)
    BY DEF EscapeInit, Latched, Ramped, Reselect
  <1>3. SpentInv /\ MemoryOfEpisode
    BY DEF EscapeInit, SpentInv, MemoryOfEpisode, Reselect
  <1>4. /\ model \in Models /\ calm \in BOOLEAN /\ reselecting \in Nat
        /\ learntOn \in Pairs \cup {None}
    BY DEF EscapeInit
  <1> QED
    BY <1>1, <1>2, <1>3, <1>4 DEF EscapeInv, Sound

\* The inductive invariant holds in every state of every behaviour.
LEMMA Escaping == EscapeSpec => []EscapeInv
  BY EscapeStarts, EscapeStep, PTL DEF EscapeSpec

-----------------------------------------------------------------------------
(* The theorems *)

\* Every field of the supervisor's state stays in its range, and it is latched to
\* a pair exactly when it is not Off.
THEOREM EscapeTyping == EscapeSpec => []EscapeTypeOK
  <1>1. EscapeInv => EscapeTypeOK
    BY DEF EscapeInv, Sound, Latched, EscapeTypeOK
  <1> QED
    BY <1>1, Escaping, PTL

\* However many pairs, directions and ticks: a latched pair or direction is
\* exchanged only at zero effect, and the metric appears and vanishes gradually
\* but where the risk-damped model enters from Off or loses its pair.
THEOREM SwapsAtZero == EscapeSpec => SwapsAtZeroEffect
  <1>1. EscapeInv /\ [EscapeNext]_escapeVars =>
          [/\ (escape.phase # "Off" /\ escape'.phase # "Off"
               /\ <<escape.active, escape.axis>> # <<escape'.active, escape'.axis>>)
                => escape'.lambda = Out
           /\ (escape.lambda = Out /\ escape'.lambda = Full)
                => RiskDamped /\ escape.phase = "Off"
           /\ (escape.lambda = Full /\ escape'.lambda = Out)
                => RiskDamped /\ escape'.active # escape.active]_escapeVars
    <2> SUFFICES ASSUME EscapeInv, SolveEscape \/ Calms
                 PROVE  /\ (escape.phase # "Off" /\ escape'.phase # "Off"
                            /\ <<escape.active, escape.axis>> # <<escape'.active, escape'.axis>>)
                             => escape'.lambda = Out
                        /\ (escape.lambda = Out /\ escape'.lambda = Full)
                             => RiskDamped /\ escape.phase = "Off"
                        /\ (escape.lambda = Full /\ escape'.lambda = Out)
                             => RiskDamped /\ escape'.active # escape.active
      BY DEF EscapeNext
    <2>1. CASE SolveEscape
      BY <2>1, SolveSwaps DEF EscapeInv
    <2>2. CASE Calms
      BY <2>2 DEF Calms, Out, Full
    <2> QED
      BY <2>1, <2>2
  <1> QED
    BY <1>1, Escaping, PTL DEF EscapeSpec, SwapsAtZeroEffect

\* In the risk-damped model no solve, from whichever phase, ends with a latched pair that
\* does not block; in the other one none ends engaging or driving with a pair in sight
\* that blocks less than the release threshold.
THEOREM UnblockedReleased == EscapeSpec => []UnblockedIsReleased
  <1>1. EscapeInit => UnblockedIsReleased
    BY DEF EscapeInit, UnblockedIsReleased
  <1>2. EscapeInv /\ UnblockedIsReleased /\ [EscapeNext]_escapeVars => UnblockedIsReleased'
    <2> SUFFICES ASSUME EscapeInv, UnblockedIsReleased, [EscapeNext]_escapeVars
                 PROVE  UnblockedIsReleased'
      OBVIOUS
    <2>1. CASE SolveEscape
      BY <2>1, SolveReleases DEF EscapeInv
    <2>2. CASE Calms
      BY <2>2 DEF Calms, UnblockedIsReleased, RiskDamped
    <2>3. CASE UNCHANGED escapeVars
      BY <2>3 DEF escapeVars, UnblockedIsReleased, RiskDamped
    <2> QED
      BY <2>1, <2>2, <2>3 DEF EscapeNext
  <1> QED
    BY <1>1, <1>2, Escaping, PTL DEF EscapeSpec

\* Directions that failed are remembered only for the pair they failed on, while
\* it is latched.
THEOREM MemoryHolds == EscapeSpec => []MemoryOfEpisode
  <1>1. EscapeInv => MemoryOfEpisode
    BY DEF EscapeInv
  <1> QED
    BY <1>1, Escaping, PTL

\* A reselect ends within its three ramps, however long they are and whatever
\* interrupts it.
THEOREM ReselectEnds == EscapeSpec => []ReselectBounded
  <1>1. EscapeInv => ReselectBounded
    <2> SUFFICES ASSUME EscapeInv PROVE ReselectBounded
      OBVIOUS
    <2>1. escape.elapsed \in Nat
      BY Ticks DEF EscapeInv, Sound, Escapes
    <2>2. escape.phase \in Reselect => Spent(escape) <= DriveRampTicks + BrakeTicks + HandoffTicks
      BY <2>1, Ticks DEF EscapeInv, Sound, Ramped, Spent, Reselect
    <2> QED
      BY <2>1, <2>2, Ticks DEF EscapeInv, SpentInv, Spent, ReselectBounded
  <1> QED
    BY <1>1, Escaping, PTL
================================================================================
