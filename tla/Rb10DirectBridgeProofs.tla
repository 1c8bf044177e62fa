------------------------ MODULE Rb10DirectBridgeProofs ------------------------
(***************************************************************************)
(* The stand-alone bridge's safety, for every bound, configuration and     *)
(* behaviour of the robot.  On the client's variables each of its actions  *)
(* is a step of the socket client (BridgeClientStep), whose lemmas then    *)
(* apply; StageInv ties the executor's place to the send it is in and to   *)
(* the shutdown, and makes the executor the gate's single slot.            *)
(***************************************************************************)
EXTENDS Rb10DirectBridge, CommandPathProofs

\* Every step of the bridge is a step of its client, or leaves it alone.
LEMMA BridgeClientStep ==
  [Next]_vars => Connect \/ LaterStep(CallbackSteps)
  <1> SUFFICES ASSUME [Next]_vars PROVE Connect \/ LaterStep(CallbackSteps)
    OBVIOUS
  <1>1. CASE Constructor
    <2>1. CASE CtorConnect
      BY <2>1, Zenon DEF CtorConnect, LaterStep
    <2>2. CASE CtorInit
      BY <2>2, Zenon DEF CtorInit, CtorText, LaterStep, TextStep
    <2>3. CASE CtorArmGate \/ CtorSetDeadline
      BY <2>3, Zenon DEF CtorArmGate, CtorSetDeadline, LaterStep
    <2> QED
      BY <1>1, <2>1, <2>2, <2>3, Zenon DEF Constructor
  <1>2. CASE CommandThread
    BY <1>2, Zenon DEF CommandThread, CommandCallback, CommandGivesUp,
       CommandWriteFails, CommandWrites, StreamStep, LaterStep, Callers
  <1>3. CASE StateCallback
    <2>1. ASSUME NEW step \in CallbackSteps \cup {"run"}, CallbackTo(step)
          PROVE  CallbackStep(CallbackSteps)
      BY <2>1, Zenon DEF CallbackTo, CallbackStep
    <2>2. CASE CallbackBegins
      BY <2>2, <2>1, Zenon DEF CallbackBegins, CallbackSteps, LaterStep
    <2>3. CASE CallbackSafety
      BY <2>3, <2>1, Zenon DEF CallbackSafety, CallbackSteps, LaterStep
    <2>4. CASE CallbackGate
      BY <2>4, <2>1, Zenon DEF CallbackGate, CallbackSteps, LaterStep
    <2>5. CASE CallbackPublishes
      BY <2>5, <2>1, Zenon DEF CallbackPublishes, LaterStep
    <2> QED
      BY <1>3, <2>2, <2>3, <2>4, <2>5, Zenon DEF StateCallback
  <1>4. CASE Shutdown
    <2>1. ShutdownBegins => UNCHANGED clientVars
      BY Zenon DEF ShutdownBegins
    <2>2. ShutdownZero \/ ShutdownZeroGivesUp \/ ShutdownZeroWriteFails
            \/ ShutdownZeroWrites => StreamStep("main")
      BY Zenon DEF ShutdownZero, ShutdownZeroGivesUp, ShutdownZeroWriteFails,
                   ShutdownZeroWrites, StreamStep
    <2>3. ShutdownSequence => SequenceText \/ UNCHANGED clientVars
      BY Zenon DEF ShutdownSequence
    <2>4. ShutdownStopThreads \/ ShutdownJoinThreads => StopThreads \/ JoinThreads
      BY Zenon DEF ShutdownStopThreads, ShutdownJoinThreads
    <2>5. "main" \in Callers
      BY DEF Callers
    <2>6. \/ UNCHANGED clientVars \/ StreamStep("main") \/ SequenceText
          \/ StopThreads \/ JoinThreads
      BY <1>4, <2>1, <2>2, <2>3, <2>4, Zenon DEF Shutdown
    <2> QED
      BY <2>5, <2>6, Zenon DEF LaterStep
  <1>5. CASE ClientThreads
    BY <1>5, Zenon DEF ClientThreads, ThreadStep, LaterStep
  <1>6. CASE DeadlinePasses \/ ContextShutdown \/ Gone \/ UNCHANGED vars
    BY <1>6, Zenon DEF DeadlinePasses, ContextShutdown, Gone, vars, LaterStep
  <1> QED
    BY <1>1, <1>2, <1>3, <1>4, <1>5, <1>6, Zenon DEF Next

-----------------------------------------------------------------------------
(* Types *)

BridgePlaces ==
    /\ cfg \in Configs
    /\ main \in CtorSteps \cup {"spin", "sending"} \cup ShutdownSteps
    /\ deadline \in {"epoch", "set"}

BridgeFlags ==
    /\ ok \in BOOLEAN
    /\ packetBlocked \in BOOLEAN
    /\ blocked \in BOOLEAN
    /\ waitingForHome \in BOOLEAN
    /\ expired \in BOOLEAN
    /\ released \in BOOLEAN
    /\ published \in BOOLEAN
    /\ zeroWritten \in BOOLEAN

BridgeCounts == admitted \in Nat /\ sinceStop \in Nat

\* The bridge's type invariant is that of its client, places, flags and counters.
LEMMA BridgeTypeParts ==
  TypeOK <=> /\ ClientTypeOK(CallbackSteps)
             /\ BridgePlaces /\ BridgeFlags /\ BridgeCounts
  BY Zenon DEF TypeOK, BridgePlaces, BridgeFlags, BridgeCounts

\* The executor is never at a point its program does not have.
LEMMA BridgePlacesStep == BridgePlaces /\ [Next]_vars => BridgePlaces'
  <1> SUFFICES ASSUME BridgePlaces, [Next]_vars PROVE BridgePlaces'
    OBVIOUS
  <1> USE DEF BridgePlaces, CtorSteps, ShutdownSteps, MainTo, startupVars
  <1>1. CASE Constructor
    BY <1>1 DEF Constructor, CtorConnect, CtorInit, CtorText, CtorArmGate,
       CtorSetDeadline
  <1>2. CASE CommandThread
    BY <1>2 DEF CommandThread, CommandCallback, CommandGivesUp, CommandWriteFails,
       CommandWrites, bridgeVars
  <1>3. CASE StateCallback
    BY <1>3 DEF StateCallback, CallbackBegins, CallbackSafety, CallbackGate,
       CallbackPublishes
  <1>4. CASE Shutdown
    BY <1>4 DEF Shutdown, ShutdownBegins, ZeroFirst, ShutdownZero,
       ShutdownZeroGivesUp, ShutdownZeroWriteFails, ShutdownZeroWrites,
       ShutdownSequence, ShutdownStopThreads, ShutdownJoinThreads
  <1>5. CASE ClientThreads \/ DeadlinePasses \/ ContextShutdown
    BY <1>5 DEF ClientThreads, DeadlinePasses, ContextShutdown, bridgeVars
  <1>6. CASE Gone \/ UNCHANGED vars
    BY <1>6 DEF Gone, vars, bridgeVars
  <1> QED
    BY <1>1, <1>2, <1>3, <1>4, <1>5, <1>6 DEF Next

\* No step gives a flag of the bridge anything but a truth value.
LEMMA BridgeFlagsStep == BridgeFlags /\ [Next]_vars => BridgeFlags'
  <1> SUFFICES ASSUME BridgeFlags, [Next]_vars PROVE BridgeFlags'
    OBVIOUS
  <1> USE DEF BridgeFlags, MainTo, startupVars, historyVars
  <1>1. CASE Constructor
    <2>1. CASE CtorConnect \/ CtorInit
      BY <1>1, <2>1, Zenon DEF Constructor, CtorConnect, CtorInit, CtorText,
         CtorArmGate, CtorSetDeadline
    <2>2. CASE CtorArmGate \/ CtorSetDeadline
      BY <1>1, <2>2, Zenon DEF Constructor, CtorConnect, CtorInit, CtorText,
         CtorArmGate, CtorSetDeadline
    <2> QED
      BY <1>1, <2>1, <2>2, Zenon DEF Constructor
  <1>2. CASE CommandThread
    BY <1>2, Zenon DEF CommandThread, CommandCallback, CommandGivesUp,
       CommandWriteFails, CommandWrites, bridgeVars
  <1>3. CASE StateCallback
    <2>1. CASE CallbackBegins
      BY <2>1, Zenon DEF CallbackBegins
    <2>2. CASE CallbackSafety
      BY <2>2, Zenon DEF CallbackSafety
    <2>3. CASE CallbackGate
      <3>1. waitingForHome' \in BOOLEAN /\ released' \in BOOLEAN
        BY <2>3, Zenon DEF CallbackGate
      <3> QED
        BY <2>3, <3>1, Zenon DEF CallbackGate
    <2>4. CASE CallbackPublishes
      <3>1. published' \in BOOLEAN
        BY <2>4, Zenon DEF CallbackPublishes
      <3> QED
        BY <2>4, <3>1, Zenon DEF CallbackPublishes
    <2> QED
      BY <1>3, <2>1, <2>2, <2>3, <2>4, Zenon DEF StateCallback
  <1>4. CASE Shutdown
    <2>1. CASE ShutdownZeroWrites
      BY <2>1, Zenon DEF ShutdownZeroWrites
    <2>2. CASE ~ShutdownZeroWrites
      BY <1>4, <2>2, Zenon DEF Shutdown, ShutdownBegins, ShutdownZero,
         ShutdownZeroGivesUp, ShutdownZeroWriteFails, ShutdownSequence,
         ShutdownStopThreads, ShutdownJoinThreads
    <2> QED
      BY <2>1, <2>2, Zenon
  <1>5. CASE ClientThreads
    BY <1>5, Zenon DEF ClientThreads, bridgeVars
  <1>6. CASE DeadlinePasses
    BY <1>6, Zenon DEF DeadlinePasses
  <1>7. CASE ContextShutdown
    BY <1>7, Zenon DEF ContextShutdown
  <1>8. CASE Gone \/ UNCHANGED vars
    BY <1>8, Zenon DEF Gone, vars, bridgeVars
  <1> QED
    BY <1>1, <1>2, <1>3, <1>4, <1>5, <1>6, <1>7, <1>8, Zenon DEF Next

\* The two counters stay natural numbers.
LEMMA BridgeCountsStep == BridgeCounts /\ [Next]_vars => BridgeCounts'
  <1> SUFFICES ASSUME BridgeCounts, [Next]_vars PROVE BridgeCounts'
    OBVIOUS
  <1> USE DEF BridgeCounts, MainTo, historyVars
  <1>1. CASE Constructor
    BY <1>1 DEF Constructor, CtorConnect, CtorInit, CtorText, CtorArmGate,
       CtorSetDeadline
  <1>2. CASE CommandThread
    BY <1>2 DEF CommandThread, CommandCallback, CommandGivesUp, CommandWriteFails,
       CommandWrites, bridgeVars
  <1>3. CASE StateCallback
    BY <1>3 DEF StateCallback, CallbackBegins, CallbackSafety, CallbackGate,
       CallbackPublishes
  <1>4. CASE Shutdown
    BY <1>4 DEF Shutdown, ShutdownBegins, ShutdownZero, ShutdownZeroGivesUp,
       ShutdownZeroWriteFails, ShutdownZeroWrites, ShutdownSequence,
       ShutdownStopThreads, ShutdownJoinThreads
  <1>5. CASE ClientThreads \/ DeadlinePasses \/ ContextShutdown
    BY <1>5 DEF ClientThreads, DeadlinePasses, ContextShutdown, bridgeVars
  <1>6. CASE Gone \/ UNCHANGED vars
    BY <1>6 DEF Gone, vars, bridgeVars
  <1> QED
    BY <1>1, <1>2, <1>3, <1>4, <1>5, <1>6 DEF Next

\* The bridge keeps its types.
THEOREM BridgeTyping == Spec => []TypeOK
  <1>1. Init => TypeOK
    <2> SUFFICES ASSUME Init PROVE TypeOK
      OBVIOUS
    <2>1. ClientFlags(CallbackSteps) /\ ClientSender
      BY DEF Init, ClientInit, ClientFlags, LoopStates, ClientSender, SenderSteps
    <2>2. ClientCounts
      BY DEF Init, ClientInit, ClientCounts
    <2>3. BridgePlaces /\ BridgeCounts
      BY DEF Init, BridgePlaces, BridgeCounts, CtorSteps
    <2>4. BridgeFlags
      BY Zenon DEF Init, BridgeFlags
    <2> QED
      BY <2>1, <2>2, <2>3, <2>4, ClientTypeParts, BridgeTypeParts
  <1>2. TypeOK /\ [Next]_vars => TypeOK'
    <2> SUFFICES ASSUME TypeOK, [Next]_vars PROVE TypeOK'
      OBVIOUS
    <2>1. ClientTypeOK(CallbackSteps)'
      BY BridgeTypeParts, BridgeClientStep, ClientTypeStep DEF ClientStep
    <2>2. BridgePlaces' /\ BridgeFlags' /\ BridgeCounts'
      BY BridgeTypeParts, BridgePlacesStep, BridgeFlagsStep, BridgeCountsStep
    <2> QED
      BY <2>1, <2>2, Zenon DEF TypeOK, BridgePlaces, BridgeFlags, BridgeCounts
  <1> QED
    BY <1>1, <1>2, PTL DEF Spec

-----------------------------------------------------------------------------
(* The executor and the stage of the node *)

Closing == main \in {"seq", "close", "join", "gone"}

\* The executor is the only sender, and is in a send where its program says;
\* running_ falls, and shutdown commands start, only at the end.
StageInv ==
    /\ sender["servo"] = "idle"
    /\ sender["main"] # "idle" => main \in {"sending", "zeroing"}
    /\ ~running => main \in {"connect", "join", "gone"}
    /\ ~Closing => seqStep = 0 /\ ~zeroWritten

stageVars == <<main, sender, running, seqStep, zeroWritten>>

\* Each action keeps the executor's place, its send and the stage in step.
LEMMA StageStep ==
  ASSUME ClientSender, StageInv, [Next]_vars
  PROVE  StageInv'
  <1> USE DEF StageInv, Closing, ClientSender, Callers, MainTo, seqVars,
              historyVars, startupVars
  <1>1. CASE UNCHANGED stageVars
    BY <1>1 DEF stageVars
  <1>2. CASE Constructor
    <2>1. CASE CtorConnect
      BY <1>2, <2>1 DEF Constructor, CtorConnect, Connect, clientVars
    <2>2. CASE CtorInit
      BY <1>2, <2>2 DEF Constructor, CtorInit, CtorText, TextSent, TextFails
    <2>3. CASE CtorArmGate \/ CtorSetDeadline
      BY <1>2, <2>3 DEF Constructor, CtorArmGate, CtorSetDeadline, clientVars
    <2> QED
      BY <1>2, <2>1, <2>2, <2>3 DEF Constructor
  <1>3. CASE CommandThread
    <2>1. CASE CommandCallback
      BY <2>1 DEF CommandCallback, BeginStream
    <2>2. CASE CommandGivesUp
      BY <2>2 DEF CommandGivesUp, AckReceived, AckTimeout, AfterFailure
    <2>3. CASE CommandWriteFails
      BY <2>3 DEF CommandWriteFails, WriteFails, bridgeVars
    <2>4. CASE CommandWrites
      BY <2>4 DEF CommandWrites, WriteStream
    <2> QED
      BY <1>3, <2>1, <2>2, <2>3, <2>4 DEF CommandThread
  <1>4. CASE StateCallback
    BY <1>4, <1>1 DEF StateCallback, CallbackBegins, CallbackSafety, CallbackGate,
       CallbackPublishes, CallbackTo, stageVars
  <1>5. CASE Shutdown
    <2>1. CASE ShutdownBegins
      BY <1>5, <2>1 DEF Shutdown, ShutdownBegins, ZeroFirst, clientVars,
         ShutdownZeroWrites
    <2>2. CASE ShutdownZero
      BY <1>5, <2>2 DEF Shutdown, ShutdownZero, BeginStream, ShutdownZeroWrites
    <2>3. CASE ShutdownZeroGivesUp
      BY <1>5, <2>3 DEF Shutdown, ShutdownZeroGivesUp, AckReceived, AckTimeout,
         AfterFailure, ShutdownZeroWrites
    <2>4. CASE ShutdownZeroWriteFails
      BY <1>5, <2>4 DEF Shutdown, ShutdownZeroWriteFails, WriteFails,
         ShutdownZeroWrites
    <2>5. CASE ShutdownZeroWrites
      BY <2>5 DEF ShutdownZeroWrites, WriteStream
    <2>6. CASE ShutdownSequence
      BY <1>5, <2>6 DEF Shutdown, ShutdownSequence, SequenceText, TextSent,
         TextFails, clientVars, ShutdownZeroWrites
    <2>7. CASE ShutdownStopThreads
      BY <1>5, <2>7 DEF Shutdown, ShutdownStopThreads, StopThreads,
         ShutdownZeroWrites
    <2>8. CASE ShutdownJoinThreads
      BY <1>5, <2>8 DEF Shutdown, ShutdownJoinThreads, JoinThreads,
         ShutdownZeroWrites
    <2> QED
      BY <1>5, <2>1, <2>2, <2>3, <2>4, <2>5, <2>6, <2>7, <2>8 DEF Shutdown
  <1>6. CASE ClientThreads
    BY <1>6, <1>1 DEF ClientThreads, ReadReply, CmdReaderEnds, RequesterEnds,
       DataReaderEnds, RobotStalls, bridgeVars, stageVars
  <1>7. CASE DeadlinePasses \/ ContextShutdown \/ Gone \/ UNCHANGED vars
    BY <1>7, <1>1 DEF DeadlinePasses, ContextShutdown, Gone, vars, clientVars,
       bridgeVars, stageVars
  <1> QED
    BY <1>2, <1>3, <1>4, <1>5, <1>6, <1>7 DEF Next

\* The stage invariant holds throughout.
LEMMA Stages == Spec => []StageInv
  <1>1. Init => StageInv
    BY DEF Init, ClientInit, StageInv, Closing, Callers
  <1>2. TypeOK => ClientSender
    BY ClientTypeParts, BridgeTypeParts
  <1> QED
    BY <1>1, <1>2, BridgeTyping, StageStep, PTL DEF Spec

\* However the robot and the network behave, the robot never owes the bridge
\* more than one answer it has not written off.
THEOREM BridgeFlowControl == Spec => []FlowControl
  <1>1. Init => FlowBudget
    BY DEF Init, ClientInit, FlowBudget, BusyCount, Callers
  <1>2. TypeOK => ClientCounts /\ ClientSender
    BY ClientTypeParts, BridgeTypeParts
  <1>3. StageInv => QuietWhenStopped
    BY DEF StageInv, QuietWhenStopped, Callers
  <1>4. TypeOK /\ StageInv /\ FlowBudget /\ [Next]_vars => FlowBudget'
    BY <1>2, <1>3, BridgeClientStep, FlowBudgetStep DEF ClientStep
  <1>5. TypeOK /\ FlowBudget => FlowControl
    BY <1>2, FlowBudgetSuffices
  <1> QED
    BY <1>1, <1>4, <1>5, BridgeTyping, Stages, PTL DEF Spec

-----------------------------------------------------------------------------
(* The gate *)

\* The one place a command can be in; nothing late is counted while the gate is open.
InHand == IF main = "sending" THEN 1 ELSE 0
OpenInv == ~blocked => sinceStop = 0

haltVars == <<zeroWritten, seqSent>>
stopVars == <<blocked, sinceStop>>
GatedInv == OpenInv /\ StageInv /\ ClientCounts /\ BridgeCounts

\* Outside the executor's sends the gate sees nothing but the flag and the
\* shutdown commands.
LEMMA BridgeGateStutter ==
  ASSUME InHand' = InHand, UNCHANGED haltVars, UNCHANGED stopVars
  PROVE  UNCHANGED Gate!gateVars
  <1>1. Halted' = Halted
    BY DEF Halted, haltVars
  <1>2. (~blocked)' = ~blocked /\ sinceStop' = sinceStop
    BY DEF stopVars
  <1> QED
    BY <1>1, <1>2 DEF Gate!gateVars, InHand

\* The executor admits a command, drops it, or writes it before it has looked at
\* the shutdown.
LEMMA CommandGates ==
  ASSUME GatedInv, CommandThread
  PROVE  [Gate!GateNext]_Gate!gateVars
  <1> USE DEF startupVars, historyVars, seqVars, MainTo
  <1>1. CASE CommandCallback
    <2>1. InHand = 0 /\ InHand' = 1
      BY <1>1 DEF CommandCallback, InHand
    <2>2. ~blocked /\ UNCHANGED stopVars /\ UNCHANGED haltVars
      BY <1>1 DEF CommandCallback, BeginStream, SafetyBlocks, haltVars, stopVars
    <2>3. Halted = FALSE /\ Halted' = Halted
      BY <1>1, <2>2 DEF CommandCallback, GatedInv, StageInv, Closing, ClientCounts,
                        Halted, haltVars
    <2> QED
      BY <2>1, <2>2, <2>3 DEF Gate!GateNext, Gate!Admit, stopVars, InHand
  <1>2. CASE CommandGivesUp
    <2>1. InHand = 1 /\ InHand' \in 0..1
      BY <1>2 DEF CommandGivesUp, InHand
    <2>2. UNCHANGED stopVars /\ UNCHANGED haltVars
      BY <1>2 DEF CommandGivesUp, AckReceived, AckTimeout, AfterFailure, haltVars,
                  stopVars
    <2>3. Halted' = Halted /\ (~blocked)' = ~blocked /\ sinceStop' = sinceStop
      BY <2>2 DEF Halted, haltVars, stopVars
    <2> QED
      BY <2>1, <2>3 DEF Gate!GateNext, Gate!Discard, InHand
  <1>3. CASE CommandWriteFails
    <2>1. InHand' = InHand
      BY <1>3 DEF CommandWriteFails, bridgeVars, InHand
    <2> QED
      BY <1>3, <2>1, BridgeGateStutter DEF CommandWriteFails, WriteFails, bridgeVars,
         haltVars, stopVars
  <1>4. CASE CommandWrites
    <2>1. InHand = 1 /\ InHand' = 0
      BY <1>4 DEF CommandWrites, InHand
    <2>2. UNCHANGED haltVars /\ (~blocked)' = ~blocked
      BY <1>4 DEF CommandWrites, WriteStream, haltVars
    <2>3. Halted = FALSE /\ Halted' = Halted
      BY <1>4, <2>2 DEF CommandWrites, GatedInv, StageInv, Closing, ClientCounts,
                        Halted, haltVars
    <2>4. sinceStop' = IF ~blocked THEN sinceStop ELSE sinceStop + 1
      BY <1>4 DEF CommandWrites
    <2> QED
      BY <2>1, <2>2, <2>3, <2>4 DEF Gate!GateNext, Gate!Release, InHand
  <1> QED
    BY <1>1, <1>2, <1>3, <1>4 DEF CommandThread

\* The data thread closes or reopens the gate, and touches no command.
LEMMA StateGates ==
  ASSUME GatedInv, StateCallback
  PROVE  [Gate!GateNext]_Gate!gateVars
  <1> USE DEF historyVars, seqVars, CallbackTo
  <1>1. InHand' = InHand /\ UNCHANGED haltVars
    BY DEF StateCallback, CallbackBegins, CallbackSafety, CallbackGate,
           CallbackPublishes, InHand, haltVars
  <1>2. CASE CallbackSafety
    <2>1. Halted' = Halted
      BY <1>1 DEF Halted, haltVars
    <2>2. CASE packetBlocked /\ ~blocked
      <3>1. sinceStop' = sinceStop /\ ~blocked /\ (~blocked)' = FALSE
        BY <1>2, <2>2 DEF CallbackSafety
      <3> QED
        BY <1>1, <2>1, <3>1 DEF Gate!GateNext, Gate!Close, InHand
    <2>3. CASE ~packetBlocked /\ blocked
      <3>1. sinceStop' = 0 /\ ~~blocked /\ (~blocked)' = TRUE
        BY <1>2, <2>3 DEF CallbackSafety
      <3> QED
        BY <1>1, <2>1, <3>1 DEF Gate!GateNext, Gate!Reopen, InHand
    <2>4. CASE (~packetBlocked) = ~blocked
      <3>1. sinceStop' = sinceStop /\ (~blocked)' = ~blocked
        BY <1>2, <2>4 DEF CallbackSafety, GatedInv, OpenInv
      <3> QED
        BY <1>1, <2>1, <3>1 DEF Gate!gateVars, InHand
    <2> QED
      BY <2>2, <2>3, <2>4
  <1>3. CASE CallbackBegins \/ CallbackGate \/ CallbackPublishes
    BY <1>1, <1>3, BridgeGateStutter DEF CallbackBegins, CallbackGate,
       CallbackPublishes, stopVars
  <1> QED
    BY <1>2, <1>3 DEF StateCallback

\* The shutdown halts the robot with no command in hand: the executor runs it.
LEMMA ShutdownGates ==
  ASSUME GatedInv, Shutdown
  PROVE  [Gate!GateNext]_Gate!gateVars
  <1> USE DEF startupVars, historyVars, seqVars, clientVars, MainTo
  <1>1. InHand = 0 /\ InHand' = 0
    BY DEF Shutdown, ShutdownBegins, ZeroFirst, ShutdownZero, ShutdownZeroGivesUp,
       ShutdownZeroWriteFails, ShutdownZeroWrites, ShutdownSequence,
       ShutdownStopThreads, ShutdownJoinThreads, InHand
  <1>2. UNCHANGED stopVars
    BY DEF Shutdown, ShutdownBegins, ShutdownZero, ShutdownZeroGivesUp,
       ShutdownZeroWriteFails, ShutdownZeroWrites, ShutdownSequence,
       ShutdownStopThreads, ShutdownJoinThreads, stopVars
  <1>3. CASE UNCHANGED haltVars
    BY <1>1, <1>2, <1>3, BridgeGateStutter
  <1>4. CASE Halted' = TRUE
    <2>1. (~blocked)' = ~blocked /\ sinceStop' = sinceStop
      BY <1>2 DEF stopVars
    <2> QED
      BY <1>1, <1>4, <2>1 DEF Gate!GateNext, Gate!Halt, InHand
  <1>5. CASE ShutdownZeroWrites
    BY <1>4, <1>5 DEF ShutdownZeroWrites, Halted
  <1>6. CASE ~ShutdownZeroWrites /\ seqSent' = seqSent + 1
    <2>1. Halted' = TRUE
      BY <1>6 DEF Halted, GatedInv, ClientCounts
    <2> QED
      BY <2>1, <1>4
  <1>7. ~ShutdownZeroWrites => UNCHANGED haltVars \/ seqSent' = seqSent + 1
    BY DEF Shutdown, ShutdownBegins, ShutdownZero, BeginStream,
       ShutdownZeroGivesUp, AckReceived, AckTimeout, AfterFailure,
       ShutdownZeroWriteFails, WriteFails, ShutdownSequence, SequenceText,
       TextSent, TextFails, ShutdownStopThreads, StopThreads,
       ShutdownJoinThreads, JoinThreads, haltVars
  <1> QED
    BY <1>3, <1>5, <1>6, <1>7

\* Every step of the bridge is a step of the gate or a stutter.
LEMMA BridgeGateStep ==
  ASSUME GatedInv, [Next]_vars
  PROVE  [Gate!GateNext]_Gate!gateVars
  <1> USE DEF startupVars, historyVars, seqVars, clientVars, bridgeVars, MainTo
  <1>1. CASE Constructor
    <2>1. InHand' = InHand
      BY <1>1 DEF Constructor, CtorConnect, CtorInit, CtorText, CtorArmGate,
         CtorSetDeadline, InHand
    <2>2. UNCHANGED haltVars /\ UNCHANGED stopVars
      BY <1>1 DEF Constructor, CtorConnect, Connect, CtorInit, CtorText, CtorArmGate,
         CtorSetDeadline, haltVars, stopVars
    <2> QED
      BY <2>1, <2>2, BridgeGateStutter
  <1>2. CASE CommandThread
    BY <1>2, CommandGates
  <1>3. CASE StateCallback
    BY <1>3, StateGates
  <1>4. CASE Shutdown
    BY <1>4, ShutdownGates
  <1>5. CASE ClientThreads
    <2>1. InHand' = InHand
      BY <1>5 DEF ClientThreads, InHand
    <2> QED
      BY <1>5, <2>1, BridgeGateStutter DEF ClientThreads, ReadReply, CmdReaderEnds,
         RequesterEnds, DataReaderEnds, RobotStalls, haltVars, stopVars
  <1>6. CASE DeadlinePasses \/ ContextShutdown \/ Gone \/ UNCHANGED vars
    <2>1. InHand' = InHand
      BY <1>6 DEF DeadlinePasses, ContextShutdown, Gone, vars, InHand
    <2> QED
      BY <1>6, <2>1, BridgeGateStutter DEF DeadlinePasses, ContextShutdown, Gone, vars,
         haltVars, stopVars
  <1> QED
    BY <1>1, <1>2, <1>3, <1>4, <1>5, <1>6 DEF Next

\* Nothing late is counted while no safety stop is recorded.
LEMMA OpenStep == OpenInv /\ [Next]_vars => OpenInv'
  <1> SUFFICES ASSUME OpenInv, [Next]_vars PROVE OpenInv'
    OBVIOUS
  <1> USE DEF OpenInv, MainTo, historyVars
  <1>1. CASE UNCHANGED stopVars
    BY <1>1 DEF stopVars
  <1>2. CASE CommandWrites
    BY <1>2 DEF CommandWrites
  <1>3. CASE CallbackSafety
    BY <1>3 DEF CallbackSafety
  <1>4. CASE Constructor
    BY <1>4, <1>1 DEF Constructor, CtorConnect, CtorInit, CtorText, CtorArmGate,
       CtorSetDeadline, stopVars
  <1>5. CASE CommandThread
    BY <1>5, <1>1, <1>2 DEF CommandThread, CommandCallback, CommandGivesUp,
       CommandWriteFails, bridgeVars, stopVars
  <1>6. CASE StateCallback
    BY <1>6, <1>1, <1>3 DEF StateCallback, CallbackBegins, CallbackGate,
       CallbackPublishes, stopVars
  <1>7. CASE Shutdown
    BY <1>7, <1>1 DEF Shutdown, ShutdownBegins, ShutdownZero, ShutdownZeroGivesUp,
       ShutdownZeroWriteFails, ShutdownZeroWrites, ShutdownSequence,
       ShutdownStopThreads, ShutdownJoinThreads, stopVars
  <1>8. CASE ClientThreads \/ DeadlinePasses \/ ContextShutdown
    BY <1>8, <1>1 DEF ClientThreads, DeadlinePasses, ContextShutdown, bridgeVars,
       stopVars
  <1>9. CASE Gone \/ UNCHANGED vars
    BY <1>9, <1>1 DEF Gone, vars, bridgeVars, stopVars
  <1> QED
    BY <1>4, <1>5, <1>6, <1>7, <1>8, <1>9 DEF Next

\* For every bound, configuration and robot the executor implements the gate
\* with a single slot.
THEOREM BridgeImplementsGate == Spec => ImplementsGate
  <1>1. Init => OpenInv /\ Gate!GateInit
    <2> SUFFICES ASSUME Init PROVE OpenInv /\ Gate!GateInit
      OBVIOUS
    <2>1. (~blocked) = TRUE /\ sinceStop = 0 /\ main = "connect"
      BY DEF Init
    <2>2. Halted = FALSE
      BY DEF Init, ClientInit, Halted
    <2> QED
      BY <2>1, <2>2 DEF OpenInv, Gate!GateInit
  <1>2. TypeOK => ClientCounts /\ BridgeCounts
    BY ClientTypeParts, BridgeTypeParts
  <1>3. TypeOK /\ StageInv /\ OpenInv /\ [Next]_vars
          => [Gate!GateNext]_Gate!gateVars
    BY <1>2, BridgeGateStep DEF GatedInv
  <1> QED
    BY <1>1, <1>3, BridgeTyping, Stages, OpenStep, PTL
       DEF Spec, ImplementsGate, Gate!GateSpec
==============================================================================
