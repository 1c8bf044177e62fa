--------------------------- MODULE Rb10DirectBridge ---------------------------
(***************************************************************************)
(* The stand-alone bridge process (rb10_direct_bridge_node.cpp): one       *)
(* executor thread that constructs the node, runs command_callback for     *)
(* every message, and shuts the bridge down once the ROS context is gone;  *)
(* underneath, the data thread of the socket client publishes joint        *)
(* states.  Sends happen inside the subscription callback, so the executor *)
(* itself sits in the acknowledgement wait.                                *)
(***************************************************************************)
EXTENDS Rb10SocketClient

CONSTANTS
    MaxCommands,   \* bound: command messages that pass the safety check
    Configs        \* parameter sets: [velocity, stopOnShutdown, startupMove]

ASSUME BridgeAssumption ==
    /\ MaxCommands \in Nat
    /\ Configs \subseteq [velocity: BOOLEAN, stopOnShutdown: BOOLEAN,
                          startupMove: BOOLEAN]

VARIABLES
    cfg,              \* the parameters this process was started with
    main,             \* the executor thread
    ok,               \* rclcpp::ok()
    admitted,         \* messages that have passed the safety check
    packetBlocked,    \* the safety words of the packet being handled
    blocked,          \* command_blocked_due_to_safety_
    waitingForHome,   \* startup_waiting_for_home_
    deadline,         \* startup_release_deadline_: its default value or set
    expired,          \* the clock has passed the deadline that was set
    released,         \* history: the gate saw the pose or the set deadline
    published,        \* history: a joint state went out after the constructor
    sinceStop,        \* history: commands written since `blocked` rose
    zeroWritten       \* history: the zero velocity of the shutdown was written

startupVars == <<waitingForHome, deadline, expired>>
historyVars == <<released, published, sinceStop, zeroWritten>>
bridgeVars == <<cfg, main, ok, admitted, packetBlocked, blocked, startupVars,
                historyVars>>

vars == <<clientVars, bridgeVars>>

CtorSteps == {"connect", "init1", "init2", "movej", "arm", "deadline"}
ShutdownSteps == {"zero", "zeroing", "seq", "close", "join", "gone"}
CallbackSteps == {"checked", "gate", "publish"}

TypeOK ==
    /\ ClientTypeOK(CallbackSteps)
    /\ cfg \in Configs
    /\ main \in CtorSteps \cup {"spin", "sending"} \cup ShutdownSteps
    /\ ok \in BOOLEAN
    /\ admitted \in Nat
    /\ packetBlocked \in BOOLEAN
    /\ blocked \in BOOLEAN
    /\ waitingForHome \in BOOLEAN
    /\ deadline \in {"epoch", "set"}
    /\ expired \in BOOLEAN
    /\ released \in BOOLEAN
    /\ published \in BOOLEAN
    /\ sinceStop \in Nat
    /\ zeroWritten \in BOOLEAN

Init ==
    /\ ClientInit
    /\ cfg \in Configs
    /\ main = "connect"
    /\ ok = TRUE
    /\ admitted = 0
    /\ packetBlocked = FALSE
    /\ blocked = FALSE
    /\ waitingForHome = FALSE
    /\ deadline = "epoch"
    /\ expired = FALSE
    /\ released = FALSE
    /\ published = FALSE
    /\ sinceStop = 0
    /\ zeroWritten = FALSE

-----------------------------------------------------------------------------
(* Constructor *)

MainTo(step) ==
    /\ main' = step
    /\ UNCHANGED <<cfg, ok, admitted, packetBlocked, blocked>>

CtorConnect ==
    \/ main = "connect" /\ Connect /\ MainTo("init1")
    \/ main = "connect" /\ MainTo("gone") /\ UNCHANGED clientVars

\* initialize_robot (two texts) and the startup move_j; a failure disconnects
\* and throws.
CtorText(step, next) ==
    /\ main = step
    /\ \/ TextSent /\ MainTo(next)
       \/ TextFails /\ MainTo("close")
    /\ UNCHANGED seqVars

CtorInit ==
    \/ CtorText("init1", "init2")
    \/ CtorText("init2", IF cfg.startupMove THEN "movej" ELSE "spin")
    \/ CtorText("movej", "arm")

CtorArmGate ==
    /\ main = "arm"
    /\ waitingForHome' = TRUE
    /\ MainTo("deadline")
    /\ UNCHANGED <<clientVars, deadline, expired>>

CtorSetDeadline ==
    /\ main = "deadline"
    /\ deadline' = "set"
    /\ MainTo("spin")
    /\ UNCHANGED <<clientVars, waitingForHome, expired>>

Constructor ==
    /\ \/ (CtorConnect \/ CtorInit) /\ UNCHANGED startupVars
       \/ CtorArmGate \/ CtorSetDeadline
    /\ UNCHANGED historyVars

-----------------------------------------------------------------------------
(* The outside: the clock, and the signal handler that ends the context *)

DeadlinePasses ==
    /\ deadline = "set" /\ waitingForHome /\ ~expired
    /\ expired' = TRUE
    /\ UNCHANGED <<clientVars, cfg, main, ok, admitted, packetBlocked, blocked,
                   waitingForHome, deadline, historyVars>>

ContextShutdown ==
    /\ ok
    /\ ok' = FALSE
    /\ UNCHANGED <<clientVars, cfg, main, admitted, packetBlocked, blocked,
                   startupVars, historyVars>>

-----------------------------------------------------------------------------
(* Executor: command_callback *)

SafetyIgnored == FALSE
SafetyBlocks == blocked

\* The safety flag is read once, before the acknowledgement wait.
CommandCallback ==
    /\ main = "spin"
    /\ ok
    /\ admitted < MaxCommands
    /\ connected
    /\ ~SafetyBlocks
    /\ BeginStream("main")
    /\ admitted' = admitted + 1
    /\ main' = "sending"
    /\ UNCHANGED <<cfg, ok, packetBlocked, blocked, startupVars, historyVars>>

\* The send moves on without a write; when it returns so does the callback.
CommandGivesUp ==
    /\ main = "sending"
    /\ AckReceived("main") \/ AckTimeout("main") \/ AfterFailure("main")
    /\ MainTo(IF sender'["main"] = "idle" THEN "spin" ELSE "sending")
    /\ UNCHANGED <<startupVars, historyVars>>

CommandWriteFails ==
    /\ main = "sending"
    /\ WriteFails("main")
    /\ UNCHANGED bridgeVars

CommandWrites ==
    /\ main = "sending"
    /\ WriteStream("main")
    /\ MainTo("spin")
    /\ sinceStop' = IF blocked THEN sinceStop + 1 ELSE sinceStop
    /\ UNCHANGED <<startupVars, released, published, zeroWritten>>

-----------------------------------------------------------------------------
(* Data thread: handle_robot_state *)

CallbackTo(step) ==
    /\ dataReader' = step
    /\ UNCHANGED <<connected, running, responsePending, sender, cmdReader,
                   requester, stalled, unanswered, excused, seqVars>>

\* Without a valid context the callback returns before it looks at the packet.
CallbackBegins ==
    /\ dataReader = "run" /\ running /\ connected
    /\ ok
    /\ packetBlocked' \in BOOLEAN
    /\ CallbackTo("checked")
    /\ UNCHANGED <<cfg, main, ok, admitted, blocked, startupVars, historyVars>>

CallbackSafety ==
    /\ dataReader = "checked"
    /\ blocked' = packetBlocked
    /\ packetBlocked' = FALSE
    /\ sinceStop' = IF packetBlocked THEN sinceStop ELSE 0
    /\ CallbackTo("gate")
    /\ UNCHANGED <<cfg, main, ok, admitted, startupVars, released, published,
                   zeroWritten>>

\* A deadline still at its default value lies in the past of every packet.
PastDeadline == deadline = "epoch" \/ expired

\* A closed gate ends the callback without a message; otherwise the message is
\* published, and the velocity estimate restarts when the gate opens.
CallbackGate ==
    /\ dataReader = "gate"
    /\ \E home \in BOOLEAN :
           IF ~waitingForHome
             THEN CallbackTo("publish") /\ UNCHANGED <<waitingForHome, released>>
             ELSE IF home \/ PastDeadline
                    THEN /\ waitingForHome' = FALSE
                         /\ released' = (home \/ expired)
                         /\ CallbackTo("publish")
                    ELSE /\ CallbackTo("run")
                         /\ UNCHANGED <<waitingForHome, released>>
    /\ UNCHANGED <<cfg, main, ok, admitted, packetBlocked, blocked, deadline,
                   expired, published, sinceStop, zeroWritten>>

\* The constructor has returned and has logged what the gate is for.
Started == main \in {"spin", "sending"}

CallbackPublishes ==
    /\ dataReader = "publish"
    /\ published' = (published \/ Started)
    /\ CallbackTo("run")
    /\ UNCHANGED <<cfg, main, ok, admitted, packetBlocked, blocked, startupVars,
                   released, sinceStop, zeroWritten>>

-----------------------------------------------------------------------------
(* Executor: shutdown_bridge, once spin() has returned *)

ZeroFirst == IF cfg.velocity THEN "zero" ELSE "seq"

ShutdownBegins ==
    /\ main = "spin"
    /\ ~ok
    /\ MainTo(IF cfg.stopOnShutdown /\ connected THEN ZeroFirst ELSE "close")
    /\ UNCHANGED clientVars

ShutdownZero ==
    /\ main = "zero"
    /\ BeginStream("main")
    /\ MainTo("zeroing")

ShutdownZeroGivesUp ==
    /\ main = "zeroing"
    /\ AckReceived("main") \/ AckTimeout("main") \/ AfterFailure("main")
    /\ MainTo(IF sender'["main"] = "idle" THEN "seq" ELSE "zeroing")

ShutdownZeroWriteFails ==
    /\ main = "zeroing"
    /\ WriteFails("main")
    /\ MainTo("zeroing")

ShutdownZeroWrites ==
    /\ main = "zeroing"
    /\ WriteStream("main")
    /\ MainTo("seq")
    /\ zeroWritten' = TRUE
    /\ UNCHANGED <<startupVars, released, published, sinceStop>>

ShutdownSequence ==
    \/ main = "seq" /\ SequenceText /\ MainTo("seq")
    \/ main = "seq" /\ SequenceDone /\ MainTo("close") /\ UNCHANGED clientVars

\* disconnect(), also on the constructor's failure paths.
ShutdownStopThreads ==
    /\ main = "close"
    /\ StopThreads
    /\ MainTo("join")

ShutdownJoinThreads ==
    /\ main = "join"
    /\ JoinThreads
    /\ MainTo("gone")

Shutdown ==
    \/ /\ \/ ShutdownBegins \/ ShutdownZero \/ ShutdownZeroGivesUp
          \/ ShutdownZeroWriteFails \/ ShutdownSequence
          \/ ShutdownStopThreads \/ ShutdownJoinThreads
       /\ UNCHANGED <<startupVars, historyVars>>
    \/ ShutdownZeroWrites

-----------------------------------------------------------------------------

CommandThread ==
    CommandCallback \/ CommandGivesUp \/ CommandWriteFails \/ CommandWrites

StateCallback ==
    CallbackBegins \/ CallbackSafety \/ CallbackGate \/ CallbackPublishes

ClientThreads ==
    /\ ReadReply \/ CmdReaderEnds \/ RequesterEnds \/ DataReaderEnds \/ RobotStalls
    /\ UNCHANGED bridgeVars

\* The process has gone; nothing more happens.
Gone == main = "gone" /\ UNCHANGED vars

Next ==
    \/ Constructor \/ CommandThread \/ StateCallback \/ Shutdown
    \/ ClientThreads \/ DeadlinePasses \/ ContextShutdown \/ Gone

Spec == Init /\ [][Next]_vars

-----------------------------------------------------------------------------
(* Properties *)

Halted == zeroWritten \/ seqSent > 0

Gate == INSTANCE CommandGate
        WITH Slots <- 1, open <- ~blocked,
             credit <- (IF main = "sending" THEN 1 ELSE 0),
             late <- sinceStop, halted <- Halted

\* The executor implements the gate with a single slot: at most one command
\* leaves after a safety stop has been recorded, and no command shares the
\* executor with the shutdown.
ImplementsGate == Gate!GateSpec

\* What the constructor's log line says: once it has returned, no joint
\* state goes out before the home pose has been seen or the timeout has passed.
PublicationGateHolds == cfg.startupMove /\ published => released
==============================================================================
