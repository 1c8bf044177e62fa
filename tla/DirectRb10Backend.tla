-------------------------- MODULE DirectRb10Backend --------------------------
(***************************************************************************)
(* The controller node's direct hardware backend (class DirectRb10Backend  *)
(* of rmpflow_controller_node.cpp): the control thread admits a command,   *)
(* a one-slot mailbox hands it to the servo thread, the servo thread waits *)
(* for an acknowledgement and writes it, and the data thread of the socket *)
(* client updates the safety flag and the startup gate underneath.  Each   *)
(* action is one step between two points where another thread may run: an  *)
(* atomic load or store, a critical section, a socket call.                *)
(***************************************************************************)
EXTENDS Rb10SocketClient

CONSTANT
    Configs   \* parameter sets: [velocity, stopOnShutdown, startupMove], each with
              \* a bound, commands: stream commands the control thread admits

ASSUME BackendAssumption ==
    Configs \subseteq [velocity: BOOLEAN, stopOnShutdown: BOOLEAN,
                       startupMove: BOOLEAN, commands: Nat]

VARIABLES
    cfg,              \* the parameters this process was started with
    main,             \* constructor, then destructor
    control,          \* control thread, inside apply_command()
    admitted,         \* commands that have passed the safety check, numbered
    servo,            \* servo_command_thread_
    servoRunning,     \* servo_command_thread_running_
    servoPending,     \* servo_command_pending_
    latest,           \* latest_servo_joint_deg_, by the number of the command
    held,             \* the command the servo thread has taken out
    packetLate,       \* the packet's clock reading was past the set deadline
    stateReceived,    \* state_received_
    blocked,          \* command_blocked_due_to_safety_
    waitingForHome,   \* startup_waiting_for_home_
    deadline,         \* startup_release_deadline_: its default value or set
    expired,          \* the clock has passed the deadline that was set
    released,         \* history: a release saw the pose or the set deadline
    lastWritten,      \* history: number of the last command written
    sinceStop,        \* history: how many were written since `blocked` rose
    zeroWritten       \* history: the destructor's zero velocity was written

backendVars == <<cfg, main, control, admitted, servo, servoRunning, servoPending,
                 latest, held, packetLate, stateReceived, blocked, waitingForHome,
                 deadline, expired, released, lastWritten, sinceStop,
                 zeroWritten>>

vars == <<clientVars, backendVars>>

ctorVars == <<waitingForHome, deadline, expired>>
mailboxVars == <<servoRunning, servoPending, latest>>
historyVars == <<lastWritten, sinceStop, zeroWritten>>

CtorSteps == {"connect", "init1", "init2", "movej", "arm", "deadline", "spawn"}
DtorSteps == {"stopservo", "joinservo", "zero", "zeroing", "seq", "close", "join"}
MainSteps == CtorSteps \cup {"live", "gone"} \cup DtorSteps
CallbackSteps == {"stored", "clear", "gate"}

TypeOK ==
    /\ ClientTypeOK(CallbackSteps)
    /\ cfg \in Configs
    /\ main \in MainSteps
    /\ control \in {"none", "idle", "past", "joined"}
    /\ admitted \in Nat
    /\ servo \in {"none", "wait", "send", "ended"}
    /\ servoRunning \in BOOLEAN
    /\ servoPending \in BOOLEAN
    /\ latest \in Nat
    /\ held \in Nat
    /\ packetLate \in BOOLEAN
    /\ stateReceived \in BOOLEAN
    /\ blocked \in BOOLEAN
    /\ waitingForHome \in BOOLEAN
    /\ deadline \in {"epoch", "set"}
    /\ expired \in BOOLEAN
    /\ released \in BOOLEAN
    /\ lastWritten \in Nat
    /\ sinceStop \in Nat
    /\ zeroWritten \in BOOLEAN

Init ==
    /\ ClientInit
    /\ cfg \in Configs
    /\ main = "connect"
    /\ control = "none"
    /\ admitted = 0
    /\ servo = "none"
    /\ servoRunning = TRUE
    /\ servoPending = FALSE
    /\ latest = 0
    /\ held = 0
    /\ packetLate = FALSE
    /\ stateReceived = FALSE
    /\ blocked = FALSE
    /\ waitingForHome = FALSE
    /\ deadline = "epoch"
    /\ expired = FALSE
    /\ released = FALSE
    /\ lastWritten = 0
    /\ sinceStop = 0
    /\ zeroWritten = FALSE

-----------------------------------------------------------------------------
(* Constructor *)

MainTo(step) == main' = step

CtorConnect ==
    /\ main = "connect"
    /\ \/ Connect /\ MainTo("init1")
       \/ MainTo("gone") /\ UNCHANGED clientVars
    /\ UNCHANGED <<cfg, control, admitted, servo, mailboxVars, held, packetLate,
                   stateReceived, blocked, ctorVars, released, historyVars>>

\* initialize_robot (two texts) and the startup move_j; a failure disconnects
\* and throws.
CtorText(step, next) ==
    /\ main = step
    /\ \/ TextSent /\ MainTo(next)
       \/ TextFails /\ MainTo("close")
    /\ UNCHANGED seqVars
    /\ UNCHANGED <<cfg, control, admitted, servo, mailboxVars, held, packetLate,
                   stateReceived, blocked, ctorVars, released, historyVars>>

CtorInit ==
    \/ CtorText("init1", "init2")
    \/ CtorText("init2", IF cfg.startupMove THEN "movej" ELSE "spawn")
    \/ CtorText("movej", "arm")

\* startup_waiting_for_home_ is raised first, the deadline written after it.
CtorArmGate ==
    /\ main = "arm"
    /\ waitingForHome' = TRUE
    /\ MainTo("deadline")
    /\ UNCHANGED <<clientVars, cfg, control, admitted, servo, mailboxVars, held,
                   packetLate, stateReceived, blocked, deadline, expired, released,
                   historyVars>>

CtorSetDeadline ==
    /\ main = "deadline"
    /\ deadline' = "set"
    /\ MainTo("spawn")
    /\ UNCHANGED <<clientVars, cfg, control, admitted, servo, mailboxVars, held,
                   packetLate, stateReceived, blocked, waitingForHome, expired,
                   released, historyVars>>

\* The servo thread starts last; the node then starts its control thread.
CtorSpawn ==
    /\ main = "spawn"
    /\ MainTo("live")
    /\ servo' = "wait"
    /\ control' = "idle"
    /\ UNCHANGED <<clientVars, cfg, admitted, mailboxVars, held, packetLate,
                   stateReceived, blocked, ctorVars, released, historyVars>>

\* Time, as far as anything reads it: once the gate is open nothing does.
DeadlinePasses ==
    /\ deadline = "set"
    /\ waitingForHome
    /\ ~expired
    /\ expired' = TRUE
    /\ UNCHANGED <<clientVars, cfg, main, control, admitted, servo, mailboxVars,
                   held, packetLate, stateReceived, blocked, waitingForHome, deadline,
                   released, historyVars>>

-----------------------------------------------------------------------------
(* Control thread: apply_command *)

\* ready(): none of the three flags can undo a true reading in a way the wire
\* shows, so they are read together with the safety flag, which is read once and
\* never again on the way to the socket.
Ready == connected /\ stateReceived /\ ~waitingForHome

SafetyIgnored == FALSE
SafetyBlocks == blocked

ControlAdmit ==
    /\ control = "idle"
    /\ main = "live"
    /\ admitted < cfg.commands
    /\ Ready
    /\ ~SafetyBlocks
    /\ admitted' = admitted + 1
    /\ control' = "past"
    /\ UNCHANGED <<clientVars, cfg, main, servo, mailboxVars, held, packetLate,
                   stateReceived, blocked, ctorVars, released, historyVars>>

\* queue_servo_command: the mailbox holds one command, a newer one replaces it.
ControlQueue ==
    /\ control = "past"
    /\ latest' = admitted
    /\ servoPending' = TRUE
    /\ control' = "idle"
    /\ UNCHANGED <<clientVars, cfg, main, admitted, servo, servoRunning, held,
                   packetLate, stateReceived, blocked, ctorVars, released,
                   historyVars>>

-----------------------------------------------------------------------------
(* Servo thread: servo_command_loop *)

PendingNotReset == servoPending
PendingAfterTake == FALSE

\* The condition variable lets the thread on for work or for the end; it leaves
\* only when there is no work.
ServoTake ==
    /\ servo = "wait"
    /\ servoPending
    /\ servoPending' = PendingAfterTake
    /\ held' = latest
    /\ servo' = "send"
    /\ BeginStream("servo")
    /\ UNCHANGED <<cfg, main, control, admitted, servoRunning, latest, packetLate,
                   stateReceived, blocked, ctorVars, released, historyVars>>

ServoLeaves ==
    /\ servo = "wait"
    /\ ~servoRunning
    /\ ~servoPending
    /\ servo' = "ended"
    /\ UNCHANGED <<clientVars, cfg, main, control, admitted, mailboxVars, held,
                   packetLate, stateReceived, blocked, ctorVars, released,
                   historyVars>>

\* The send has come back without a write.
ServoGivesUp ==
    /\ servo = "send"
    /\ AckReceived("servo") \/ AckTimeout("servo") \/ AfterFailure("servo")
    /\ servo' = IF sender'["servo"] = "idle" THEN "wait" ELSE "send"
    /\ held' = IF sender'["servo"] = "idle" THEN 0 ELSE held
    /\ UNCHANGED <<cfg, main, control, admitted, mailboxVars, packetLate,
                   stateReceived, blocked, ctorVars, released, historyVars>>

ServoWriteFails ==
    /\ servo = "send"
    /\ WriteFails("servo")
    /\ UNCHANGED backendVars

ServoWrites ==
    /\ servo = "send"
    /\ WriteStream("servo")
    /\ servo' = "wait"
    /\ held' = 0
    /\ lastWritten' = held
    /\ sinceStop' = IF blocked THEN sinceStop + 1 ELSE sinceStop
    /\ UNCHANGED <<cfg, main, control, admitted, mailboxVars, packetLate,
                   stateReceived, blocked, ctorVars, released, zeroWritten>>

-----------------------------------------------------------------------------
(* Data thread: on_state, called by read_data_loop for each packet *)

CallbackTo(step) ==
    /\ dataReader' = step
    /\ UNCHANGED <<connected, running, responsePending, sender, cmdReader,
                   requester, stalled, unanswered, excused, seqVars>>

\* The clock is read and state_received_ set before the safety words are used.
CallbackStore ==
    /\ dataReader = "run"
    /\ running
    /\ connected
    /\ packetLate' = (expired /\ waitingForHome)
    /\ stateReceived' = TRUE
    /\ CallbackTo("stored")
    /\ UNCHANGED <<cfg, main, control, admitted, servo, mailboxVars, held,
                   blocked, ctorVars, released, historyVars>>

\* The flag is exchanged; only its rise clears the mailbox.
CallbackSafety ==
    /\ dataReader = "stored"
    /\ blocked' \in BOOLEAN
    /\ sinceStop' = IF blocked' THEN sinceStop ELSE 0
    /\ CallbackTo(IF blocked' /\ ~blocked THEN "clear" ELSE "gate")
    /\ UNCHANGED <<cfg, main, control, admitted, servo, mailboxVars, held, packetLate,
                   stateReceived, ctorVars, released, lastWritten,
                   zeroWritten>>

\* clear_pending_servo_command: what the servo thread has taken stays taken.
CallbackClear ==
    /\ dataReader = "clear"
    /\ servoPending' = FALSE
    /\ CallbackTo("gate")
    /\ UNCHANGED <<cfg, main, control, admitted, servo, servoRunning, latest,
                   held, packetLate, stateReceived, blocked, ctorVars, released,
                   historyVars>>

\* A deadline still at its default value lies in the past of every packet.
PastDeadline == deadline = "epoch" \/ packetLate

CallbackGate ==
    /\ dataReader = "gate"
    /\ \E home \in BOOLEAN :
           IF waitingForHome /\ (home \/ PastDeadline)
             THEN /\ waitingForHome' = FALSE
                  /\ released' = (home \/ packetLate)
             ELSE UNCHANGED <<waitingForHome, released>>
    /\ packetLate' = FALSE
    /\ CallbackTo("run")
    /\ UNCHANGED <<cfg, main, control, admitted, servo, mailboxVars, held,
                   stateReceived, blocked, deadline, expired, historyVars>>

-----------------------------------------------------------------------------
(* Destructor *)

\* The node's destructor has joined the control thread before the backend goes.
ControlJoined == control = "idle"

DtorBegin ==
    /\ main = "live"
    /\ ControlJoined
    /\ control' = "joined"
    /\ MainTo("stopservo")
    /\ UNCHANGED <<clientVars, cfg, admitted, servo, mailboxVars, held, packetLate,
                   stateReceived, blocked, ctorVars, released, historyVars>>

FlagLeftRaised == servoRunning
FlagLowered == FALSE

DtorStopServo ==
    /\ main = "stopservo"
    /\ servoRunning' = FlagLowered
    /\ servoPending' = FALSE
    /\ MainTo("joinservo")
    /\ UNCHANGED <<clientVars, cfg, control, admitted, servo, latest, held, packetLate,
                   stateReceived, blocked, ctorVars, released, historyVars>>

ServoNotJoined == TRUE
ServoJoined == servo = "ended"

AfterServo == IF cfg.velocity /\ connected THEN "zero" ELSE "seq"

DtorJoinServo ==
    /\ main = "joinservo"
    /\ ServoJoined
    /\ MainTo(AfterServo)
    /\ UNCHANGED <<clientVars, cfg, control, admitted, servo, mailboxVars, held,
                   packetLate, stateReceived, blocked, ctorVars, released,
                   historyVars>>

\* The zero move_speed_j goes through the same acknowledgement wait.
DtorZero ==
    /\ main = "zero"
    /\ BeginStream("main")
    /\ MainTo("zeroing")
    /\ UNCHANGED <<cfg, control, admitted, servo, mailboxVars, held, packetLate,
                   stateReceived, blocked, ctorVars, released, historyVars>>

DtorZeroGivesUp ==
    /\ main = "zeroing"
    /\ AckReceived("main") \/ AckTimeout("main") \/ AfterFailure("main")
    /\ MainTo(IF sender'["main"] = "idle" THEN "seq" ELSE "zeroing")
    /\ UNCHANGED <<cfg, control, admitted, servo, mailboxVars, held, packetLate,
                   stateReceived, blocked, ctorVars, released, historyVars>>

DtorZeroWriteFails ==
    /\ main = "zeroing"
    /\ WriteFails("main")
    /\ UNCHANGED backendVars

DtorZeroWrites ==
    /\ main = "zeroing"
    /\ WriteStream("main")
    /\ zeroWritten' = TRUE
    /\ MainTo("seq")
    /\ UNCHANGED <<cfg, control, admitted, servo, mailboxVars, held, packetLate,
                   stateReceived, blocked, ctorVars, released, lastWritten,
                   sinceStop>>

\* Without stop_on_shutdown_ or a connection to begin with it is skipped.
SequenceWanted == cfg.stopOnShutdown /\ (connected \/ seqStep > 0)

DtorSequenceText ==
    /\ main = "seq"
    /\ SequenceWanted
    /\ SequenceText
    /\ UNCHANGED backendVars

DtorSequenceEnds ==
    /\ main = "seq"
    /\ ~SequenceWanted \/ SequenceDone
    /\ MainTo("close")
    /\ UNCHANGED <<clientVars, cfg, control, admitted, servo, mailboxVars, held,
                   packetLate, stateReceived, blocked, ctorVars, released,
                   historyVars>>

\* disconnect(), also on the constructor's failure paths.
DtorStopThreads ==
    /\ main = "close"
    /\ StopThreads
    /\ MainTo("join")
    /\ UNCHANGED <<cfg, control, admitted, servo, mailboxVars, held, packetLate,
                   stateReceived, blocked, ctorVars, released, historyVars>>

DtorJoinThreads ==
    /\ main = "join"
    /\ JoinThreads
    /\ MainTo("gone")
    /\ UNCHANGED <<cfg, control, admitted, servo, mailboxVars, held, packetLate,
                   stateReceived, blocked, ctorVars, released, historyVars>>

-----------------------------------------------------------------------------

Constructor ==
    CtorConnect \/ CtorInit \/ CtorArmGate \/ CtorSetDeadline \/ CtorSpawn

ControlThread == ControlAdmit \/ ControlQueue

ServoThread ==
    ServoTake \/ ServoLeaves \/ ServoGivesUp \/ ServoWriteFails \/ ServoWrites

StateCallback ==
    CallbackStore \/ CallbackSafety \/ CallbackClear \/ CallbackGate

Destructor ==
    \/ DtorBegin \/ DtorStopServo \/ DtorJoinServo
    \/ DtorZero \/ DtorZeroGivesUp \/ DtorZeroWriteFails \/ DtorZeroWrites
    \/ DtorSequenceText \/ DtorSequenceEnds
    \/ DtorStopThreads \/ DtorJoinThreads

ClientThreads ==
    /\ ReadReply \/ CmdReaderEnds \/ RequesterEnds \/ DataReaderEnds \/ RobotStalls
    /\ UNCHANGED backendVars

\* The process has gone; nothing more happens.
Gone == main = "gone" /\ UNCHANGED vars

Next ==
    \/ Constructor \/ ControlThread \/ ServoThread \/ StateCallback \/ Destructor
    \/ ClientThreads \/ DeadlinePasses \/ Gone

Spec == Init /\ [][Next]_vars

\* Every thread that can run does; the robot, the network, the control loop and
\* whoever starts the destructor owe nothing.  A socket call is fair while it
\* cannot fail on its own: a write while the robot drains the socket, a failure
\* once the connection is recorded as lost.
ConnectionKept == connected' = connected

Fairness ==
    /\ WF_vars(Destructor /\ main # "live" /\ (ConnectionKept \/ main = "join"))
    /\ WF_vars(ServoThread /\ ConnectionKept)
    /\ WF_vars(CallbackSafety \/ CallbackClear \/ CallbackGate)
    /\ WF_vars(CmdReaderEnds /\ ~running /\ UNCHANGED backendVars)
    /\ WF_vars(RequesterEnds /\ ~running /\ UNCHANGED backendVars)
    /\ WF_vars(DataReaderEnds /\ ~running /\ UNCHANGED backendVars)

FairSpec == Spec /\ Fairness

-----------------------------------------------------------------------------
(* Properties *)

\* Where a command can be between the safety check and the socket.
Credit ==
    (IF control = "past" THEN 1 ELSE 0)
    + (IF servoPending THEN 1 ELSE 0)
    + (IF servo = "send" THEN 1 ELSE 0)

\* A shutdown command is on the wire.
Halted == zeroWritten \/ seqSent > 0

Gate == INSTANCE CommandGate
        WITH Slots <- 3, open <- ~blocked, credit <- Credit,
             late <- sinceStop, halted <- Halted

\* The three threads together implement the gate: a command enters only while
\* no safety stop is recorded, at most three are on their way, and nothing is
\* on its way when the halting commands start.
ImplementsGate == Gate!GateSpec

\* At most three motion commands reach the robot after on_state has recorded a
\* safety stop: the one being written, the one in the mailbox and the one whose
\* safety check had already succeeded.
StopBudget == Gate!LateBound

\* No command leaves twice, and none leaves after a newer one: the mailbox
\* keeps the newest and the take empties it.
SendsInOrder == [][ServoWrites => held > lastWritten]_vars

\* Once the destructor has written the zero velocity or any shutdown text, no
\* motion command of the control loop follows.
NoMotionAfterHalt == [][Halted => ~ServoWrites]_vars

\* What the constructor's log line says of the startup gate: no motion command
\* before the home pose has been seen or the timeout has passed.
StartupGateHolds == cfg.startupMove /\ lastWritten > 0 => released

\* The destructor ends: no join waits for ever, unless the robot keeps the
\* connection open and stops reading it, which send_all retries without limit.
DestructorEnds == (main = "stopservo") ~> (main = "gone" \/ stalled)

==============================================================================
