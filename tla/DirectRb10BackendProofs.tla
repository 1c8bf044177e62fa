----------------------- MODULE DirectRb10BackendProofs -----------------------
(***************************************************************************)
(* The backend's safety, for every bound, configuration and behaviour of   *)
(* the robot.  Every action is one step of the socket client on the        *)
(* client's variables (BackendClientStep), so what CommandPathProofs       *)
(* shows of the client carries over; PhaseInv ties the five threads to the *)
(* stage the constructor or destructor has reached, and everything about   *)
(* the shutdown rests on it.                                               *)
(***************************************************************************)
EXTENDS DirectRb10Backend, CommandPathProofs

\* Every step of the backend is a step of its client, or leaves it alone,
\* and the client connects once.
LEMMA BackendClientStep ==
  [Next]_vars => (Connect /\ main = "connect") \/ LaterStep(CallbackSteps)
  <1> SUFFICES ASSUME [Next]_vars
               PROVE  (Connect /\ main = "connect") \/ LaterStep(CallbackSteps)
    OBVIOUS
  <1>1. CASE Constructor
    <2>1. CASE CtorConnect
      BY <2>1, Zenon DEF CtorConnect, LaterStep
    <2>2. CASE CtorInit
      BY <2>2, Zenon DEF CtorInit, CtorText, LaterStep, TextStep
    <2>3. CASE CtorArmGate \/ CtorSetDeadline \/ CtorSpawn
      BY <2>3, Zenon DEF CtorArmGate, CtorSetDeadline, CtorSpawn, LaterStep
    <2> QED
      BY <1>1, <2>1, <2>2, <2>3, Zenon DEF Constructor
  <1>2. CASE ControlThread
    BY <1>2, Zenon DEF ControlThread, ControlAdmit, ControlQueue, LaterStep
  <1>3. CASE ServoThread
    <2>1. ServoLeaves => UNCHANGED clientVars
      BY Zenon DEF ServoLeaves
    <2>2. ServoThread => ServoLeaves \/ StreamStep("servo")
      BY Zenon DEF ServoThread, ServoTake, ServoGivesUp, ServoWriteFails,
                   ServoWrites, StreamStep
    <2> QED
      BY <1>3, <2>1, <2>2, Zenon DEF LaterStep, Callers
  <1>4. CASE StateCallback
    <2>1. ASSUME NEW step \in CallbackSteps \cup {"run"}, CallbackTo(step)
          PROVE  CallbackStep(CallbackSteps)
      BY <2>1, Zenon DEF CallbackTo, CallbackStep
    <2>2. CASE CallbackStore
      BY <2>2, <2>1, Zenon DEF CallbackStore, CallbackSteps, LaterStep
    <2>3. CASE CallbackSafety
      <3>1. (IF blocked' /\ ~blocked THEN "clear" ELSE "gate") \in CallbackSteps
        BY Zenon DEF CallbackSteps
      <3> QED
        BY <2>3, <2>1, <3>1, Zenon DEF CallbackSafety, LaterStep
    <2>4. CASE CallbackClear
      BY <2>4, <2>1, Zenon DEF CallbackClear, CallbackSteps, LaterStep
    <2>5. CASE CallbackGate
      BY <2>5, <2>1, Zenon DEF CallbackGate, LaterStep
    <2> QED
      BY <1>4, <2>2, <2>3, <2>4, <2>5, Zenon DEF StateCallback
  <1>5. CASE Destructor
    <2>1. DtorBegin \/ DtorStopServo \/ DtorJoinServo \/ DtorSequenceEnds
            => UNCHANGED clientVars
      BY Zenon DEF DtorBegin, DtorStopServo, DtorJoinServo, DtorSequenceEnds
    <2>2. DtorZero \/ DtorZeroGivesUp \/ DtorZeroWriteFails \/ DtorZeroWrites
            => StreamStep("main")
      BY Zenon DEF DtorZero, DtorZeroGivesUp, DtorZeroWriteFails, DtorZeroWrites,
                   StreamStep
    <2>3. DtorSequenceText => SequenceText
      BY Zenon DEF DtorSequenceText
    <2>4. DtorStopThreads \/ DtorJoinThreads => StopThreads \/ JoinThreads
      BY Zenon DEF DtorStopThreads, DtorJoinThreads
    <2> QED
      BY <1>5, <2>1, <2>2, <2>3, <2>4, Zenon DEF Destructor, LaterStep, Callers
  <1>6. CASE ClientThreads
    BY <1>6, Zenon DEF ClientThreads, ThreadStep, LaterStep
  <1>7. CASE DeadlinePasses \/ Gone \/ UNCHANGED vars
    BY <1>7, Zenon DEF DeadlinePasses, Gone, vars, LaterStep
  <1> QED
    BY <1>1, <1>2, <1>3, <1>4, <1>5, <1>6, <1>7, Zenon DEF Next

-----------------------------------------------------------------------------
(* Types *)

BackendThreads ==
    /\ cfg \in Configs
    /\ main \in MainSteps
    /\ control \in {"none", "idle", "past", "joined"}
    /\ servo \in {"none", "wait", "send", "ended"}
    /\ deadline \in {"epoch", "set"}

BackendFlags ==
    /\ servoRunning \in BOOLEAN
    /\ servoPending \in BOOLEAN
    /\ packetLate \in BOOLEAN
    /\ stateReceived \in BOOLEAN
    /\ blocked \in BOOLEAN
    /\ waitingForHome \in BOOLEAN
    /\ expired \in BOOLEAN
    /\ released \in BOOLEAN
    /\ zeroWritten \in BOOLEAN

BackendCounts ==
    /\ admitted \in Nat
    /\ latest \in Nat
    /\ held \in Nat
    /\ lastWritten \in Nat
    /\ sinceStop \in Nat

\* The backend's type invariant is that of its client, threads, flags and
\* counters.
LEMMA BackendTypeParts ==
  TypeOK <=> /\ ClientTypeOK(CallbackSteps)
             /\ BackendThreads /\ BackendFlags /\ BackendCounts
  BY Zenon DEF TypeOK, BackendThreads, BackendFlags, BackendCounts

\* No thread is ever at a point its program does not have.
LEMMA BackendThreadsStep == BackendThreads /\ [Next]_vars => BackendThreads'
  <1> SUFFICES ASSUME BackendThreads, [Next]_vars PROVE BackendThreads'
    OBVIOUS
  <1> USE DEF BackendThreads, ctorVars
  <1>1. CASE Constructor
    <2>1. main' \in MainSteps
      BY <1>1 DEF Constructor, CtorConnect, CtorInit, CtorText, CtorArmGate,
         CtorSetDeadline, CtorSpawn, MainTo, MainSteps, CtorSteps, DtorSteps
    <2> QED
      BY <1>1, <2>1 DEF Constructor, CtorConnect, CtorInit, CtorText, CtorArmGate,
         CtorSetDeadline, CtorSpawn
  <1>2. CASE ControlThread
    BY <1>2 DEF ControlThread, ControlAdmit, ControlQueue
  <1>3. CASE ServoThread
    <2>1. servo' \in {"none", "wait", "send", "ended"}
      BY <1>3 DEF ServoThread, ServoTake, ServoLeaves, ServoGivesUp,
                  ServoWriteFails, ServoWrites, backendVars
    <2> QED
      BY <1>3, <2>1 DEF ServoThread, ServoTake, ServoLeaves, ServoGivesUp,
                        ServoWriteFails, ServoWrites, backendVars
  <1>4. CASE StateCallback
    BY <1>4 DEF StateCallback, CallbackStore, CallbackSafety, CallbackClear,
                CallbackGate
  <1>5. CASE Destructor
    <2>1. main' \in MainSteps
      BY <1>5 DEF Destructor, MainTo, MainSteps, CtorSteps, DtorSteps,
         DtorBegin, DtorStopServo, DtorJoinServo, AfterServo, DtorZero,
         DtorZeroGivesUp, DtorZeroWriteFails, DtorZeroWrites, DtorSequenceText,
         DtorSequenceEnds, DtorStopThreads, DtorJoinThreads, backendVars
    <2> QED
      BY <1>5, <2>1 DEF Destructor, DtorBegin, DtorStopServo, DtorJoinServo, DtorZero,
         DtorZeroGivesUp, DtorZeroWriteFails, DtorZeroWrites, DtorSequenceText,
         DtorSequenceEnds, DtorStopThreads, DtorJoinThreads, backendVars
  <1>6. CASE ClientThreads \/ DeadlinePasses
    BY <1>6 DEF ClientThreads, DeadlinePasses, backendVars
  <1>7. CASE Gone \/ UNCHANGED vars
    BY <1>7 DEF Gone, vars, backendVars
  <1> QED
    BY <1>1, <1>2, <1>3, <1>4, <1>5, <1>6, <1>7 DEF Next

\* No step gives a flag of the backend anything but a truth value.
LEMMA BackendFlagsStep == BackendFlags /\ [Next]_vars => BackendFlags'
  <1> SUFFICES ASSUME BackendFlags, [Next]_vars PROVE BackendFlags'
    OBVIOUS
  <1> USE DEF BackendFlags, historyVars, ctorVars, mailboxVars
  <1>1. CASE Constructor
    <2>1. CASE CtorArmGate
      BY <2>1, Zenon DEF CtorArmGate
    <2>2. CASE CtorConnect \/ CtorSetDeadline \/ CtorSpawn
      BY <2>2, Zenon DEF CtorConnect, CtorSetDeadline, CtorSpawn
    <2>3. CASE CtorInit
      BY <2>3, Zenon DEF CtorInit, CtorText
    <2> QED
      BY <1>1, <2>1, <2>2, <2>3, Zenon DEF Constructor
  <1>2. CASE ControlThread
    BY <1>2, Zenon DEF ControlThread, ControlAdmit, ControlQueue
  <1>3. CASE ServoThread
    BY <1>3, Zenon DEF ServoThread, ServoTake, PendingAfterTake, ServoLeaves,
       ServoGivesUp, ServoWriteFails, ServoWrites, backendVars
  <1>4. CASE StateCallback
    <2>1. CASE CallbackStore
      BY <2>1, Zenon DEF CallbackStore
    <2>2. CASE CallbackSafety
      BY <2>2, Zenon DEF CallbackSafety
    <2>3. CASE CallbackClear
      BY <2>3, Zenon DEF CallbackClear
    <2>4. CASE CallbackGate
      <3>1. waitingForHome' \in BOOLEAN /\ released' \in BOOLEAN
        BY <2>4, Zenon DEF CallbackGate
      <3> QED
        BY <2>4, <3>1, Zenon DEF CallbackGate
    <2> QED
      BY <1>4, <2>1, <2>2, <2>3, <2>4, Zenon DEF StateCallback
  <1>5. CASE Destructor
    <2>1. CASE DtorStopServo \/ DtorBegin \/ DtorJoinServo
      BY <2>1, Zenon DEF DtorStopServo, FlagLowered, DtorBegin, DtorJoinServo
    <2>2. CASE DtorZero \/ DtorZeroGivesUp \/ DtorZeroWriteFails
      BY <2>2, Zenon DEF DtorZero, DtorZeroGivesUp, DtorZeroWriteFails, backendVars
    <2>3. CASE DtorZeroWrites
      BY <2>3, Zenon DEF DtorZeroWrites
    <2>4. CASE \/ DtorSequenceText \/ DtorSequenceEnds
               \/ DtorStopThreads \/ DtorJoinThreads
      BY <2>4, Zenon DEF DtorSequenceText, DtorSequenceEnds, DtorStopThreads,
                         DtorJoinThreads, backendVars
    <2> QED
      BY <1>5, <2>1, <2>2, <2>3, <2>4, Zenon DEF Destructor
  <1>6. CASE ClientThreads \/ DeadlinePasses
    BY <1>6, Zenon DEF ClientThreads, DeadlinePasses, backendVars
  <1>7. CASE Gone \/ UNCHANGED vars
    BY <1>7, Zenon DEF Gone, vars, backendVars
  <1> QED
    BY <1>1, <1>2, <1>3, <1>4, <1>5, <1>6, <1>7, Zenon DEF Next

\* No counter or command number of the backend leaves the natural numbers.
LEMMA BackendCountsStep == BackendCounts /\ [Next]_vars => BackendCounts'
  <1> SUFFICES ASSUME BackendCounts, [Next]_vars PROVE BackendCounts'
    OBVIOUS
  <1> USE DEF BackendCounts, historyVars, mailboxVars
  <1>1. CASE Constructor
    BY <1>1 DEF Constructor, CtorConnect, CtorInit, CtorText, CtorArmGate,
       CtorSetDeadline, CtorSpawn
  <1>2. CASE ControlThread
    BY <1>2 DEF ControlThread, ControlAdmit, ControlQueue
  <1>3. CASE ServoThread
    BY <1>3 DEF ServoThread, ServoTake, ServoLeaves, ServoGivesUp, ServoWriteFails,
       ServoWrites, backendVars
  <1>4. CASE StateCallback
    BY <1>4 DEF StateCallback, CallbackStore, CallbackSafety, CallbackClear,
       CallbackGate
  <1>5. CASE Destructor
    BY <1>5 DEF Destructor, DtorBegin, DtorStopServo,
       DtorJoinServo, DtorZero, DtorZeroGivesUp, DtorZeroWriteFails,
       DtorZeroWrites, DtorSequenceText, DtorSequenceEnds, DtorStopThreads,
       DtorJoinThreads, backendVars
  <1>6. CASE ClientThreads \/ DeadlinePasses
    BY <1>6 DEF ClientThreads, DeadlinePasses, backendVars
  <1>7. CASE Gone \/ UNCHANGED vars
    BY <1>7 DEF Gone, vars, backendVars
  <1> QED
    BY <1>1, <1>2, <1>3, <1>4, <1>5, <1>6, <1>7 DEF Next

\* The type invariant is inductive by itself, for every number of commands and
\* every set of configurations.
THEOREM Typing == Spec => []TypeOK
  <1>1. Init => TypeOK
    <2> SUFFICES ASSUME Init PROVE TypeOK
      OBVIOUS
    <2>1. ClientFlags(CallbackSteps) /\ ClientSender
      BY DEF Init, ClientInit, ClientFlags, LoopStates, ClientSender, SenderSteps
    <2>2. ClientCounts
      BY DEF Init, ClientInit, ClientCounts
    <2>3. BackendThreads
      BY DEF Init, BackendThreads, MainSteps, CtorSteps
    <2>4. BackendFlags
      BY Zenon DEF Init, BackendFlags
    <2>5. BackendCounts
      BY DEF Init, BackendCounts
    <2> QED
      BY <2>1, <2>2, <2>3, <2>4, <2>5, ClientTypeParts, BackendTypeParts
  <1>2. TypeOK /\ [Next]_vars => TypeOK'
    <2> SUFFICES ASSUME TypeOK, [Next]_vars PROVE TypeOK'
      OBVIOUS
    <2>1. ClientTypeOK(CallbackSteps)'
      BY BackendTypeParts, BackendClientStep, ClientTypeStep DEF ClientStep
    <2>2. BackendThreads' /\ BackendFlags' /\ BackendCounts'
      BY BackendTypeParts, BackendThreadsStep, BackendFlagsStep, BackendCountsStep
    <2> QED
      BY <2>1, <2>2, Zenon DEF TypeOK, BackendThreads, BackendFlags, BackendCounts
  <1> QED
    BY <1>1, <1>2, PTL DEF Spec

-----------------------------------------------------------------------------
(* The threads and the stage of the constructor or destructor *)

Settled == main \in {"zero", "zeroing", "seq", "close", "join", "gone"}
Closing == main \in {"seq", "close", "join", "gone"}

\* The control thread runs only between constructor and destructor, the servo
\* thread only until it is joined; whoever is in a send is where its program
\* says; running_ falls, and shutdown commands start, only at the end.
PhaseInv ==
    /\ main \in CtorSteps => control = "none" /\ servo = "none" /\ ~servoPending
    /\ main \in {"stopservo", "joinservo"} => control = "joined"
    /\ main = "joinservo" => ~servoPending
    /\ Settled => /\ control \in {"none", "joined"}
                  /\ servo \in {"none", "ended"}
                  /\ ~servoPending
    /\ sender["servo"] # "idle" => servo = "send"
    /\ sender["main"] # "idle" => main = "zeroing"
    /\ ~running => main \in {"connect", "join", "gone"}
    /\ ~Closing => seqStep = 0 /\ ~zeroWritten

phaseVars == <<main, control, servo, servoPending, sender, running, seqStep,
               zeroWritten>>

\* Each action keeps the threads and the stage in step.
LEMMA PhaseStep ==
  ASSUME TypeOK, PhaseInv, [Next]_vars
  PROVE  PhaseInv'
  <1>1. ClientSender /\ main \in MainSteps
    BY DEF TypeOK, ClientTypeOK, ClientSender
  <1> USE <1>1 DEF PhaseInv, Settled, Closing, CtorSteps, ClientSender, MainTo
  <1>2. CASE UNCHANGED phaseVars
    BY <1>2 DEF phaseVars
  <1>3. CASE Constructor
    <2> USE DEF seqVars, historyVars, mailboxVars, clientVars
    <2>1. CASE CtorConnect
      BY <2>1 DEF CtorConnect, Connect
    <2>2. CASE CtorInit
      BY <2>2 DEF CtorInit, CtorText, TextSent, TextFails
    <2>3. CASE CtorArmGate \/ CtorSetDeadline
      BY <2>3 DEF CtorArmGate, CtorSetDeadline
    <2>4. CASE CtorSpawn
      BY <2>4 DEF CtorSpawn
    <2> QED
      BY <1>3, <2>1, <2>2, <2>3, <2>4 DEF Constructor
  <1>4. CASE ControlThread
    BY <1>4 DEF ControlThread, ControlAdmit, ControlQueue, clientVars, seqVars,
                historyVars, mailboxVars
  <1>5. CASE ServoThread
    <2> USE DEF seqVars, historyVars, mailboxVars, clientVars, Callers, MainSteps,
                DtorSteps
    <2>1. CASE ServoTake
      BY <2>1 DEF ServoTake, BeginStream, PendingAfterTake
    <2>2. CASE ServoLeaves
      BY <2>2 DEF ServoLeaves
    <2>3. CASE ServoGivesUp
      BY <2>3 DEF ServoGivesUp, AckReceived, AckTimeout, AfterFailure
    <2>4. CASE ServoWriteFails
      BY <2>4 DEF ServoWriteFails, WriteFails, backendVars
    <2>5. CASE ServoWrites
      BY <2>5 DEF ServoWrites, WriteStream
    <2> QED
      BY <1>5, <2>1, <2>2, <2>3, <2>4, <2>5 DEF ServoThread
  <1>6. CASE StateCallback
    <2>1. CASE CallbackClear
      BY <2>1 DEF CallbackClear, CallbackTo, seqVars, historyVars
    <2>2. CASE CallbackStore \/ CallbackSafety \/ CallbackGate
      BY <2>2, <1>2 DEF CallbackStore, CallbackSafety, CallbackGate, CallbackTo,
                   seqVars, historyVars, mailboxVars, phaseVars
    <2> QED
      BY <1>6, <2>1, <2>2 DEF StateCallback
  <1>7. CASE Destructor
    <2> USE DEF seqVars, historyVars, mailboxVars, clientVars, Callers
    <2>1. CASE DtorBegin
      BY <2>1 DEF DtorBegin, ControlJoined
    <2>2. CASE DtorStopServo
      BY <2>2 DEF DtorStopServo
    <2>3. CASE DtorJoinServo
      BY <2>3 DEF DtorJoinServo, ServoJoined, AfterServo
    <2>4. CASE DtorZero
      BY <2>4 DEF DtorZero, BeginStream
    <2>5. CASE DtorZeroGivesUp
      BY <2>5 DEF DtorZeroGivesUp, AckReceived, AckTimeout, AfterFailure
    <2>6. CASE DtorZeroWriteFails
      BY <2>6 DEF DtorZeroWriteFails, WriteFails, backendVars
    <2>7. CASE DtorZeroWrites
      BY <2>7 DEF DtorZeroWrites, WriteStream
    <2>8. CASE DtorSequenceText
      BY <2>8 DEF DtorSequenceText, SequenceText, TextSent, TextFails, backendVars
    <2>9. CASE DtorSequenceEnds
      BY <2>9 DEF DtorSequenceEnds
    <2>10. CASE DtorStopThreads
      BY <2>10 DEF DtorStopThreads, StopThreads
    <2>11. CASE DtorJoinThreads
      BY <2>11 DEF DtorJoinThreads, JoinThreads
    <2> QED
      BY <1>7, <2>1, <2>2, <2>3, <2>4, <2>5, <2>6, <2>7, <2>8, <2>9, <2>10, <2>11
         DEF Destructor
  <1>8. CASE ClientThreads
    BY <1>8, <1>2 DEF ClientThreads, ReadReply, CmdReaderEnds, RequesterEnds,
       DataReaderEnds, RobotStalls, backendVars, historyVars, mailboxVars, seqVars,
       phaseVars
  <1>9. CASE DeadlinePasses \/ Gone \/ UNCHANGED vars
    BY <1>9, <1>2 DEF DeadlinePasses, Gone, vars, clientVars, backendVars,
       historyVars, mailboxVars, seqVars, phaseVars
  <1> QED
    BY <1>3, <1>4, <1>5, <1>6, <1>7, <1>8, <1>9 DEF Next

\* The stage invariant holds throughout.
THEOREM Phases == Spec => []PhaseInv
  <1>1. Init => PhaseInv
    BY DEF Init, ClientInit, PhaseInv, Settled, Closing, CtorSteps, Callers
  <1>2. TypeOK /\ PhaseInv /\ [Next]_vars => PhaseInv'
    BY PhaseStep
  <1> QED
    BY <1>1, <1>2, Typing, PTL DEF Spec

\* No thread is in a send once running_ has fallen: both senders are joined or
\* done by then.
LEMMA PhaseQuiet == PhaseInv => QuietWhenStopped
  BY DEF PhaseInv, Settled, CtorSteps, QuietWhenStopped, Callers

-----------------------------------------------------------------------------
(* What the client promises, in this process *)

\* However the robot and the network behave, the robot never owes the backend
\* more than one answer it has not written off.
THEOREM FlowControlHolds == Spec => []FlowControl
  <1>1. Init => FlowBudget
    BY DEF Init, ClientInit, FlowBudget, BusyCount, Callers
  <1>2. TypeOK => ClientCounts /\ ClientSender
    BY ClientTypeParts, BackendTypeParts
  <1>3. TypeOK /\ PhaseInv /\ FlowBudget /\ [Next]_vars => FlowBudget'
    BY <1>2, BackendClientStep, PhaseQuiet, FlowBudgetStep DEF ClientStep
  <1>4. TypeOK /\ FlowBudget => FlowControl
    BY <1>2, FlowBudgetSuffices
  <1> QED
    BY <1>1, <1>3, <1>4, Typing, Phases, PTL DEF Spec

\* The shutdown sequence's fallback text never reaches the robot: the first
\* text fails only by losing the connection.
THEOREM FallbackUnreachable == Spec => []FallbackNeverWritten
  <1>1. Init => SequenceInv
    BY DEF Init, ClientInit, SequenceInv
  <1>2. TypeOK => ClientCounts /\ ClientFlags(CallbackSteps)
    BY ClientTypeParts, BackendTypeParts
  <1>3. PhaseInv /\ main = "connect" => seqStep = 0
    BY DEF PhaseInv, Closing
  <1>4. TypeOK /\ PhaseInv /\ SequenceInv /\ [Next]_vars => SequenceInv'
    BY <1>2, <1>3, BackendClientStep, SequenceStep
  <1>5. TypeOK /\ SequenceInv => FallbackNeverWritten
    BY <1>2, SequenceInvSuffices
  <1> QED
    BY <1>1, <1>4, <1>5, Typing, Phases, PTL DEF Spec

-----------------------------------------------------------------------------
(* Order of the commands *)

\* The numbers in the mailbox, in the servo thread and on the wire never pass
\* the control thread's, and each stage is ahead of the next.
OrderInv ==
    /\ latest <= admitted /\ held <= admitted /\ lastWritten <= admitted
    /\ control = "past" =>
          latest < admitted /\ held < admitted /\ lastWritten < admitted
    /\ servoPending => latest > lastWritten /\ latest > held
    /\ servo = "send" => held > lastWritten

orderVars == <<control, servo, servoPending, admitted, latest, held, lastWritten>>

\* Only six actions touch the numbers, and none of them overtakes.
LEMMA OrderStep ==
  ASSUME BackendCounts, OrderInv, [Next]_vars
  PROVE  OrderInv'
  <1> USE DEF BackendCounts, OrderInv
  <1>1. CASE UNCHANGED orderVars
    BY <1>1 DEF orderVars
  <1>2. CASE Constructor
    <2>1. CASE CtorSpawn
      BY <2>1 DEF CtorSpawn, mailboxVars, historyVars
    <2>2. CASE CtorConnect \/ CtorInit \/ CtorArmGate \/ CtorSetDeadline
      BY <2>2, <1>1 DEF CtorConnect, CtorInit, CtorText, CtorArmGate,
         CtorSetDeadline, mailboxVars, historyVars, orderVars
    <2> QED
      BY <1>2, <2>1, <2>2 DEF Constructor
  <1>3. CASE ControlThread
    <2>1. CASE ControlAdmit
      BY <2>1 DEF ControlAdmit, mailboxVars, historyVars
    <2>2. CASE ControlQueue
      BY <2>2 DEF ControlQueue, historyVars
    <2> QED
      BY <1>3, <2>1, <2>2 DEF ControlThread
  <1>4. CASE ServoThread
    <2>1. CASE ServoTake
      BY <2>1 DEF ServoTake, PendingAfterTake, historyVars
    <2>2. CASE ServoLeaves
      BY <2>2 DEF ServoLeaves, mailboxVars, historyVars
    <2>3. CASE ServoGivesUp
      BY <2>3 DEF ServoGivesUp, mailboxVars, historyVars
    <2>4. CASE ServoWriteFails
      BY <2>4, <1>1 DEF ServoWriteFails, backendVars, mailboxVars, historyVars,
                   orderVars
    <2>5. CASE ServoWrites
      BY <2>5 DEF ServoWrites, mailboxVars
    <2> QED
      BY <1>4, <2>1, <2>2, <2>3, <2>4, <2>5 DEF ServoThread
  <1>5. CASE StateCallback
    <2>1. CASE CallbackClear
      BY <2>1 DEF CallbackClear, historyVars
    <2>2. CASE CallbackStore \/ CallbackSafety \/ CallbackGate
      BY <2>2, <1>1 DEF CallbackStore, CallbackSafety, CallbackGate, mailboxVars,
         historyVars, orderVars
    <2> QED
      BY <1>5, <2>1, <2>2 DEF StateCallback
  <1>6. CASE Destructor
    <2>1. CASE DtorBegin \/ DtorStopServo
      BY <2>1 DEF DtorBegin, ControlJoined, DtorStopServo, mailboxVars, historyVars
    <2>2. CASE ~(DtorBegin \/ DtorStopServo)
      BY <2>2, <1>6, <1>1 DEF Destructor, DtorJoinServo, DtorZero, DtorZeroGivesUp,
         DtorZeroWriteFails, DtorZeroWrites, DtorSequenceText, DtorSequenceEnds,
         DtorStopThreads, DtorJoinThreads, backendVars, mailboxVars, historyVars,
         orderVars
    <2> QED
      BY <2>1, <2>2
  <1>7. CASE ClientThreads \/ DeadlinePasses \/ Gone \/ UNCHANGED vars
    BY <1>7, <1>1 DEF ClientThreads, DeadlinePasses, Gone, vars, backendVars,
       mailboxVars, historyVars, orderVars
  <1> QED
    BY <1>2, <1>3, <1>4, <1>5, <1>6, <1>7 DEF Next

\* Every motion command that leaves is newer than all that have left before it,
\* whatever is dropped on the way.
THEOREM SendsOrdered == Spec => SendsInOrder
  <1>1. Init => OrderInv
    BY DEF Init, OrderInv
  <1>2. TypeOK /\ OrderInv /\ [Next]_vars => OrderInv'
    BY BackendTypeParts, OrderStep
  <1>3. OrderInv => (ServoWrites => held > lastWritten)
    BY DEF OrderInv, ServoWrites
  <1>4. OrderInv => [ServoWrites => held > lastWritten]_vars
    BY <1>3
  <1> QED
    BY <1>1, <1>2, <1>4, Typing, PTL DEF Spec, SendsInOrder

\* Once the zero velocity or a shutdown text is on the wire, the servo thread
\* has been joined: no motion command follows.
THEOREM NothingAfterHalt == Spec => NoMotionAfterHalt
  <1>1. ClientCounts /\ PhaseInv => (Halted => ~ServoWrites)
    BY DEF ClientCounts, PhaseInv, Closing, Settled, Halted, ServoWrites
  <1>2. TypeOK /\ PhaseInv => [Halted => ~ServoWrites]_vars
    BY <1>1, ClientTypeParts, BackendTypeParts
  <1> QED
    BY <1>2, Typing, Phases, PTL DEF Spec, NoMotionAfterHalt

-----------------------------------------------------------------------------
(* The backend implements the command gate with three slots.  A step of    *)
(* the backend is a step of the gate seen through `blocked`, the places a  *)
(* command can be in, `sinceStop` and the shutdown commands; most steps    *)
(* leave all of it alone.  The bound on late commands follows.             *)

\* The gate's budget, in terms of the backend.
StopInv == IF blocked THEN sinceStop + Credit <= 3 ELSE sinceStop = 0

GatedInv == StopInv /\ PhaseInv /\ ClientCounts /\ BackendCounts

\* The three places, and that they are all a step must leave alone to leave
\* the number of commands on their way alone.
creditVars == <<control, servo, servoPending>>
haltVars == <<zeroWritten, seqSent>>
stopVars == <<blocked, sinceStop>>

\* The places a command can be in are three.
LEMMA CreditRange == Credit \in 0..3
  BY DEF Credit

\* A step that leaves places, flag, count and shutdown commands alone is a
\* stutter of the gate.
LEMMA GateStutter ==
  ASSUME UNCHANGED creditVars, UNCHANGED haltVars, UNCHANGED stopVars
  PROVE  UNCHANGED Gate!gateVars
  <1>1. Credit' = Credit
    BY DEF Credit, creditVars
  <1>2. Halted' = Halted
    BY DEF Halted, haltVars
  <1>3. (~blocked)' = ~blocked /\ sinceStop' = sinceStop
    BY DEF stopVars
  <1> QED
    BY <1>1, <1>2, <1>3 DEF Gate!gateVars

\* A step that only takes commands off their way is a Discard.
LEMMA GateDiscard ==
  ASSUME Credit' <= Credit, UNCHANGED haltVars, UNCHANGED stopVars
  PROVE  Gate!Discard
  <1>1. Credit' \in 0..Credit
    <2>1. Credit \in 0..3 /\ Credit' \in 0..3
      BY DEF Credit
    <2> QED
      BY <2>1
  <1>2. Halted' = Halted
    BY DEF Halted, haltVars
  <1>3. (~blocked)' = ~blocked /\ sinceStop' = sinceStop
    BY DEF stopVars
  <1> QED
    BY <1>1, <1>2, <1>3 DEF Gate!Discard

\* The control thread admits only before the shutdown and with a slot free;
\* queueing can only overwrite.
LEMMA ControlGate ==
  ASSUME GatedInv, ControlThread
  PROVE  Gate!GateNext
  <1> USE DEF historyVars, mailboxVars, clientVars, seqVars
  <1>1. CASE ControlAdmit
    <2>1. Credit < 3 /\ Credit' = Credit + 1
      BY <1>1 DEF ControlAdmit, Credit
    <2>2. ~blocked /\ UNCHANGED haltVars /\ UNCHANGED stopVars
      BY <1>1 DEF ControlAdmit, SafetyBlocks, haltVars, stopVars
    <2>3. Halted = FALSE /\ Halted' = Halted
      BY <1>1, <2>2 DEF ControlAdmit, GatedInv, PhaseInv, Closing, ClientCounts, Halted,
                        haltVars
    <2> QED
      BY <2>1, <2>2, <2>3 DEF Gate!GateNext, Gate!Admit, stopVars
  <1>2. CASE ControlQueue
    <2>1. Credit' <= Credit
      BY <1>2 DEF ControlQueue, Credit
    <2> QED
      BY <1>2, <2>1, GateDiscard DEF ControlQueue, haltVars, stopVars, Gate!GateNext
  <1> QED
    BY <1>1, <1>2 DEF ControlThread

\* The servo thread moves a command on, drops it, or writes it before any
\* shutdown command.
LEMMA ServoGate ==
  ASSUME GatedInv, ServoThread
  PROVE  [Gate!GateNext]_Gate!gateVars
  <1> USE DEF historyVars, mailboxVars, clientVars, seqVars, backendVars
  <1>1. CASE ServoTake
    <2>1. Credit' <= Credit
      BY <1>1 DEF ServoTake, PendingAfterTake, Credit
    <2> QED
      BY <1>1, <2>1, GateDiscard
         DEF ServoTake, BeginStream, haltVars, stopVars, Gate!GateNext
  <1>2. CASE ServoLeaves
    <2>1. Credit' <= Credit
      BY <1>2 DEF ServoLeaves, Credit
    <2> QED
      BY <1>2, <2>1, GateDiscard DEF ServoLeaves, haltVars, stopVars, Gate!GateNext
  <1>3. CASE ServoGivesUp
    <2>1. Credit' <= Credit
      BY <1>3 DEF ServoGivesUp, Credit
    <2>2. UNCHANGED haltVars
      BY <1>3 DEF ServoGivesUp, AckReceived, AckTimeout, AfterFailure, haltVars
    <2> QED
      BY <1>3, <2>1, <2>2, GateDiscard DEF ServoGivesUp, stopVars, Gate!GateNext
  <1>4. CASE ServoWriteFails
    BY <1>4, GateStutter DEF ServoWriteFails, WriteFails, creditVars, haltVars, stopVars
  <1>5. CASE ServoWrites
    <2>1. Credit > 0 /\ Credit' = Credit - 1
      BY <1>5 DEF ServoWrites, Credit
    <2>2. UNCHANGED haltVars /\ (~blocked)' = ~blocked
      BY <1>5 DEF ServoWrites, WriteStream, haltVars
    <2>3. Halted = FALSE /\ Halted' = Halted
      BY <1>5, <2>2 DEF ServoWrites, GatedInv, PhaseInv, Closing, Settled,
                        ClientCounts, Halted, haltVars
    <2>4. sinceStop' = IF ~blocked THEN sinceStop ELSE sinceStop + 1
      BY <1>5 DEF ServoWrites
    <2> QED
      BY <2>1, <2>2, <2>3, <2>4 DEF Gate!GateNext, Gate!Release
  <1> QED
    BY <1>1, <1>2, <1>3, <1>4, <1>5 DEF ServoThread

\* The data thread closes or reopens the gate, or clears the mailbox.
LEMMA CallbackGates ==
  ASSUME GatedInv, StateCallback
  PROVE  [Gate!GateNext]_Gate!gateVars
  <1> USE DEF historyVars, mailboxVars, seqVars, CallbackTo
  <1>1. CASE CallbackStore
    BY <1>1, GateStutter DEF CallbackStore, creditVars, haltVars, stopVars
  <1>2. CASE CallbackSafety
    <2>1. Credit' = Credit
      BY <1>2 DEF CallbackSafety, Credit
    <2>2. Halted' = Halted
      BY <1>2 DEF CallbackSafety, Halted
    <2>3. CASE blocked' /\ ~blocked
      <3>1. sinceStop' = sinceStop /\ ~blocked /\ (~blocked)' = FALSE
        BY <1>2, <2>3 DEF CallbackSafety
      <3> QED
        BY <2>1, <2>2, <3>1 DEF Gate!GateNext, Gate!Close
    <2>4. CASE ~blocked' /\ blocked
      <3>1. sinceStop' = 0 /\ ~~blocked /\ (~blocked)' = TRUE
        BY <1>2, <2>4 DEF CallbackSafety
      <3> QED
        BY <2>1, <2>2, <3>1 DEF Gate!GateNext, Gate!Reopen
    <2>5. CASE (~blocked)' = ~blocked
      <3>1. sinceStop' = sinceStop
        BY <1>2, <2>5 DEF CallbackSafety, GatedInv, StopInv
      <3> QED
        BY <2>1, <2>2, <2>5, <3>1 DEF Gate!gateVars
    <2> QED
      BY <2>3, <2>4, <2>5
  <1>3. CASE CallbackClear
    <2>1. Credit' <= Credit
      BY <1>3 DEF CallbackClear, Credit
    <2> QED
      BY <1>3, <2>1, GateDiscard DEF CallbackClear, haltVars, stopVars, Gate!GateNext
  <1>4. CASE CallbackGate
    BY <1>4, GateStutter DEF CallbackGate, creditVars, haltVars, stopVars
  <1> QED
    BY <1>1, <1>2, <1>3, <1>4 DEF StateCallback

\* A step that only adds a shutdown command, with nothing on its way, halts.
LEMMA GateHalt ==
  ASSUME GatedInv, Settled, UNCHANGED creditVars, UNCHANGED stopVars, Halted' = TRUE
  PROVE  Gate!Halt
  <1>1. Credit = 0 /\ Credit' = Credit
    BY DEF GatedInv, PhaseInv, Credit, creditVars
  <1>2. (~blocked)' = ~blocked /\ sinceStop' = sinceStop
    BY DEF stopVars
  <1> QED
    BY <1>1, <1>2 DEF Gate!Halt

\* The destructor clears the mailbox, and halts the robot when the servo thread
\* has gone.
LEMMA DestructorGate ==
  ASSUME GatedInv, Destructor
  PROVE  [Gate!GateNext]_Gate!gateVars
  <1> USE DEF historyVars, mailboxVars, clientVars, seqVars, backendVars
  <1>1. CASE DtorBegin
    <2>1. Credit' <= Credit
      BY <1>1 DEF DtorBegin, ControlJoined, Credit
    <2> QED
      BY <1>1, <2>1, GateDiscard DEF DtorBegin, haltVars, stopVars, Gate!GateNext
  <1>2. CASE DtorStopServo
    <2>1. Credit' <= Credit
      BY <1>2 DEF DtorStopServo, Credit
    <2> QED
      BY <1>2, <2>1, GateDiscard DEF DtorStopServo, haltVars, stopVars, Gate!GateNext
  <1>3. CASE DtorJoinServo \/ DtorSequenceEnds
    BY <1>3, GateStutter DEF DtorJoinServo, DtorSequenceEnds, creditVars, haltVars,
       stopVars
  <1>4. CASE DtorZero \/ DtorZeroGivesUp \/ DtorZeroWriteFails
    BY <1>4, GateStutter DEF DtorZero, DtorZeroGivesUp, DtorZeroWriteFails,
       BeginStream, AckReceived, AckTimeout, AfterFailure, WriteFails, creditVars,
       haltVars, stopVars
  <1>5. CASE DtorZeroWrites
    <2>1. Settled /\ UNCHANGED creditVars /\ UNCHANGED stopVars
      BY <1>5 DEF DtorZeroWrites, Settled, creditVars, stopVars
    <2>2. Halted' = TRUE
      BY <1>5 DEF DtorZeroWrites, Halted
    <2> QED
      BY <2>1, <2>2, GateHalt DEF Gate!GateNext
  <1>6. CASE DtorSequenceText
    <2>1. Settled /\ UNCHANGED creditVars /\ UNCHANGED stopVars
      BY <1>6 DEF DtorSequenceText, Settled, creditVars, stopVars
    <2>2. CASE seqSent' = seqSent + 1
      <3>1. Halted' = TRUE
        BY <2>2 DEF Halted, GatedInv, ClientCounts
      <3> QED
        BY <2>1, <3>1, GateHalt DEF Gate!GateNext
    <2>3. CASE UNCHANGED seqSent
      BY <1>6, <2>1, <2>3, GateStutter DEF DtorSequenceText, haltVars
    <2> QED
      BY <1>6, <2>2, <2>3 DEF DtorSequenceText, SequenceText
  <1>7. CASE DtorStopThreads \/ DtorJoinThreads
    BY <1>7, GateStutter DEF DtorStopThreads, DtorJoinThreads, StopThreads,
       JoinThreads, creditVars, haltVars, stopVars
  <1> QED
    BY <1>1, <1>2, <1>3, <1>4, <1>5, <1>6, <1>7 DEF Destructor

\* Every step of the backend is a step of the gate or a stutter.
LEMMA GateStep ==
  ASSUME GatedInv, [Next]_vars
  PROVE  [Gate!GateNext]_Gate!gateVars
  <1> USE DEF historyVars, mailboxVars, clientVars, seqVars, backendVars
  <1>1. CASE Constructor
    <2>1. CASE CtorSpawn
      <3>1. Credit' = Credit
        BY <2>1 DEF CtorSpawn, GatedInv, PhaseInv, CtorSteps, Credit
      <3>2. Credit' <= Credit
        BY <3>1, CreditRange
      <3> QED
        BY <2>1, <3>2, GateDiscard DEF CtorSpawn, haltVars, stopVars, Gate!GateNext
    <2>2. CASE CtorConnect \/ CtorInit \/ CtorArmGate \/ CtorSetDeadline
      BY <2>2, GateStutter DEF CtorConnect, Connect, CtorInit, CtorText, CtorArmGate,
         CtorSetDeadline, creditVars, haltVars, stopVars
    <2> QED
      BY <1>1, <2>1, <2>2 DEF Constructor
  <1>2. CASE ControlThread
    BY <1>2, ControlGate
  <1>3. CASE ServoThread
    BY <1>3, ServoGate
  <1>4. CASE StateCallback
    BY <1>4, CallbackGates
  <1>5. CASE Destructor
    BY <1>5, DestructorGate
  <1>6. CASE ClientThreads
    BY <1>6, GateStutter DEF ClientThreads, ReadReply, CmdReaderEnds, RequesterEnds,
       DataReaderEnds, RobotStalls, creditVars, haltVars, stopVars
  <1>7. CASE DeadlinePasses \/ Gone \/ UNCHANGED vars
    BY <1>7, GateStutter DEF DeadlinePasses, Gone, vars, creditVars, haltVars, stopVars
  <1> QED
    BY <1>1, <1>2, <1>3, <1>4, <1>5, <1>6, <1>7 DEF Next

\* The budget is the gate's own: any step of the gate keeps it.
LEMMA StopStep ==
  ASSUME GatedInv, [Gate!GateNext]_Gate!gateVars, BackendCounts'
  PROVE  StopInv'
  <1>1. Credit \in 0..3 /\ Credit' \in 0..3 /\ sinceStop \in Nat
    BY DEF Credit, GatedInv, BackendCounts
  <1> USE <1>1 DEF GatedInv, StopInv
  <1>2. CASE Gate!Admit
    BY <1>2 DEF Gate!Admit
  <1>3. CASE Gate!Discard
    <2>1. PICK kept \in 0..Credit : Credit' = kept
      BY <1>3 DEF Gate!Discard
    <2>2. sinceStop' = sinceStop
      BY <1>3 DEF Gate!Discard
    <2>3. blocked' <=> blocked
      BY <1>3 DEF Gate!Discard
    <2>4. CASE blocked
      <3>1. sinceStop + Credit <= 3
        BY <2>4
      <3>2. sinceStop' + Credit' <= 3
        BY <3>1, <2>1, <2>2
      <3>3. blocked'
        BY ONLY <2>3, <2>4
      <3> QED
        BY <3>2, <3>3
    <2>5. CASE ~blocked
      <3>1. ~blocked'
        BY ONLY <2>3, <2>5
      <3>2. sinceStop' = 0
        BY <2>2, <2>5
      <3> QED
        BY <3>1, <3>2
    <2> QED
      BY <2>4, <2>5
  <1>4. CASE Gate!Release
    BY <1>4 DEF Gate!Release
  <1>5. CASE Gate!Close
    BY <1>5 DEF Gate!Close
  <1>6. CASE Gate!Reopen
    BY <1>6 DEF Gate!Reopen
  <1>7. CASE Gate!Halt
    BY <1>7 DEF Gate!Halt
  <1>8. CASE UNCHANGED Gate!gateVars
    BY <1>8 DEF Gate!gateVars
  <1> QED
    BY <1>2, <1>3, <1>4, <1>5, <1>6, <1>7, <1>8 DEF Gate!GateNext

\* The budget holds in every state of every behaviour.
LEMMA StopBudgeted == Spec => []GatedInv
  <1>1. Init => StopInv
    BY DEF Init, StopInv
  <1>2. TypeOK => ClientCounts /\ BackendCounts
    BY ClientTypeParts, BackendTypeParts
  <1>3. /\ TypeOK /\ TypeOK' /\ PhaseInv /\ StopInv /\ [Next]_vars
        => StopInv'
    <2> SUFFICES ASSUME TypeOK, TypeOK', PhaseInv, StopInv, [Next]_vars
                 PROVE  StopInv'
      OBVIOUS
    <2>1. GatedInv
      BY <1>2 DEF GatedInv
    <2>2. BackendCounts'
      BY Zenon DEF TypeOK, BackendCounts
    <2> QED
      BY <2>1, <2>2, GateStep, StopStep
  <1>4. TypeOK /\ PhaseInv /\ StopInv => GatedInv
    BY <1>2 DEF GatedInv
  <1> QED
    BY <1>1, <1>3, <1>4, Typing, Phases, PTL DEF Spec

\* For every bound, configuration and robot, the three threads together are an
\* implementation of the gate with three slots.
THEOREM GateImplemented == Spec => ImplementsGate
  <1>1. Init => Gate!GateInit
    <2> SUFFICES ASSUME Init PROVE Gate!GateInit
      OBVIOUS
    <2>1. (~blocked) = TRUE /\ sinceStop = 0
      BY DEF Init
    <2>2. Credit = 0
      BY DEF Init, Credit
    <2>3. Halted = FALSE
      BY DEF Init, ClientInit, Halted
    <2> QED
      BY <2>1, <2>2, <2>3 DEF Gate!GateInit
  <1>2. GatedInv /\ [Next]_vars => [Gate!GateNext]_Gate!gateVars
    BY GateStep
  <1> QED
    BY <1>1, <1>2, StopBudgeted, PTL DEF Spec, ImplementsGate, Gate!GateSpec

\* At most three motion commands reach the robot after a safety stop has been
\* recorded and before it is recorded as cleared.
THEOREM StopBudgetHolds == Spec => []StopBudget
  <1>1. GatedInv => StopBudget
    BY CreditRange DEF GatedInv, StopInv, BackendCounts, StopBudget, Gate!LateBound
  <1> QED
    BY <1>1, StopBudgeted, PTL
==============================================================================
