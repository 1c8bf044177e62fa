-------------------------- MODULE Rb10SocketClient --------------------------
(***************************************************************************)
(* The TCP client both RB10 command paths own (rb10_socket_client.cpp): a  *)
(* command socket, a data socket and three threads.  This module holds the *)
(* client's state and one action per step of it; DirectRb10Backend and     *)
(* Rb10DirectBridge extend it, add the threads that call it, and say what  *)
(* a state packet does.                                                    *)
(*                                                                         *)
(* A stream command (move_servo_j, move_speed_j) waits up to 50 ms for the *)
(* answer to the previous one.  The wait has no clock here: it may end     *)
(* with a timeout whenever its predicate is still false.                   *)
(***************************************************************************)
EXTENDS Integers

CONSTANT CanStall   \* whether the robot may stop reading its command socket

ASSUME ClientAssumption == CanStall \in BOOLEAN

VARIABLES
    connected,        \* connected_; no step of this program sets it again
    running,          \* running_
    responsePending,  \* servo_command_response_pending_
    sender,           \* how far each calling thread is in a stream send
    cmdReader,        \* read_cmd_loop thread
    requester,        \* request_data_loop thread
    dataReader,       \* read_data_loop thread, with the state callback it runs
    stalled,          \* the robot has stopped draining the command socket
    unanswered,       \* commands written whose answer has not been received
    excused,          \* text commands written plus acknowledgement waits given up
    seqStep,          \* send_shutdown_sequence: texts attempted so far
    seqSent,          \* and how many of them were written
    firstOk           \* first_ok || second_first_ok

seqVars == <<seqStep, seqSent, firstOk>>
clientVars == <<connected, running, responsePending, sender, cmdReader,
                requester, dataReader, stalled, unanswered, excused, seqVars>>

\* "servo" is DirectRb10Backend's servo thread, "main" the thread that
\* constructs, destroys and (in the bridge) spins the node.
Callers == {"servo", "main"}

SenderSteps == {"idle", "await", "write", "failed"}
LoopStates == {"none", "run", "ended"}

ClientTypeOK(dataReaderStates) ==
    /\ connected \in BOOLEAN
    /\ running \in BOOLEAN
    /\ responsePending \in BOOLEAN
    /\ sender \in [Callers -> SenderSteps]
    /\ cmdReader \in LoopStates
    /\ requester \in LoopStates
    /\ dataReader \in LoopStates \cup dataReaderStates
    /\ stalled \in BOOLEAN
    /\ unanswered \in Nat
    /\ excused \in Nat
    /\ seqStep \in 0..6
    /\ seqSent \in 0..seqStep
    /\ firstOk \in BOOLEAN

ClientInit ==
    /\ connected = FALSE
    /\ running = FALSE
    /\ responsePending = FALSE
    /\ sender = [c \in Callers |-> "idle"]
    /\ cmdReader = "none"
    /\ requester = "none"
    /\ dataReader = "none"
    /\ stalled = FALSE
    /\ unanswered = 0
    /\ excused = 0
    /\ seqStep = 0
    /\ seqSent = 0
    /\ firstOk = FALSE

-----------------------------------------------------------------------------
(* connect, disconnect *)

\* Both sockets open: the flags are set and the three threads start, so the
\* state callback may run before connect() has returned to its caller.
Connect ==
    /\ connected' = TRUE
    /\ running' = TRUE
    /\ cmdReader' = "run"
    /\ requester' = "run"
    /\ dataReader' = "run"
    /\ UNCHANGED <<responsePending, sender, stalled, unanswered, excused, seqVars>>

\* First half of disconnect(): stop_threads() lowers running_ and shuts the
\* sockets down.
StopThreads ==
    /\ running' = FALSE
    /\ UNCHANGED <<connected, responsePending, sender, cmdReader, requester,
                   dataReader, stalled, unanswered, excused, seqVars>>

\* Second half: the three joins have returned, set_disconnected() runs.
JoinThreads ==
    /\ {cmdReader, requester, dataReader} \subseteq {"none", "ended"}
    /\ connected' = FALSE
    /\ UNCHANGED <<running, responsePending, sender, cmdReader, requester,
                   dataReader, stalled, unanswered, excused, seqVars>>

-----------------------------------------------------------------------------
(* Stream commands: send_servoj_degrees, send_speedj_degrees_per_sec *)

BeginStream(c) ==
    /\ sender[c] = "idle"
    /\ sender' = [sender EXCEPT ![c] = "await"]
    /\ UNCHANGED <<connected, running, responsePending, cmdReader, requester,
                   dataReader, stalled, unanswered, excused, seqVars>>

\* The predicate of the wait holds.  A client that has lost its connection
\* returns false; any other marks an answer as pending, before it has written.
AckPredicateIgnoresPending == TRUE
AckPredicate == ~responsePending \/ ~running \/ ~connected

AckReceived(c) ==
    /\ sender[c] = "await"
    /\ AckPredicate
    /\ IF connected
         THEN /\ responsePending' = TRUE
              /\ sender' = [sender EXCEPT ![c] = "write"]
         ELSE /\ sender' = [sender EXCEPT ![c] = "idle"]
              /\ UNCHANGED responsePending
    /\ UNCHANGED <<connected, running, cmdReader, requester, dataReader,
                   stalled, unanswered, excused, seqVars>>

\* 50 ms have passed: the command is dropped, and so is the wait for the old
\* answer, which may still arrive and acknowledge a later command.
AckTimeout(c) ==
    /\ sender[c] = "await"
    /\ ~AckPredicate
    /\ responsePending' = FALSE
    /\ sender' = [sender EXCEPT ![c] = "idle"]
    /\ excused' = excused + 1
    /\ UNCHANGED <<connected, running, cmdReader, requester, dataReader,
                   stalled, unanswered, seqVars>>

\* send_all() has written the command.
WriteStream(c) ==
    /\ sender[c] = "write"
    /\ connected
    /\ ~stalled
    /\ sender' = [sender EXCEPT ![c] = "idle"]
    /\ unanswered' = unanswered + 1
    /\ UNCHANGED <<connected, running, responsePending, cmdReader, requester,
                   dataReader, stalled, excused, seqVars>>

\* send_all() retries while the robot does not read (stalled), and gives up on
\* a hard error or once another thread has recorded the disconnection;
\* send_text_command() then records it too.
WriteFails(c) ==
    /\ sender[c] = "write"
    /\ connected' = FALSE
    /\ sender' = [sender EXCEPT ![c] = "failed"]
    /\ UNCHANGED <<running, responsePending, cmdReader, requester, dataReader,
                   stalled, unanswered, excused, seqVars>>

AfterFailure(c) ==
    /\ sender[c] = "failed"
    /\ responsePending' = FALSE
    /\ sender' = [sender EXCEPT ![c] = "idle"]
    /\ UNCHANGED <<connected, running, cmdReader, requester, dataReader,
                   stalled, unanswered, excused, seqVars>>

-----------------------------------------------------------------------------
(* Text commands: send_text_command, and move_j, which nobody waits for *)

\* TextSent and TextFails leave seqVars to the action that sends the text.
TextSent ==
    /\ connected
    /\ ~stalled
    /\ unanswered' = unanswered + 1
    /\ excused' = excused + 1
    /\ UNCHANGED <<connected, running, responsePending, sender, cmdReader,
                   requester, dataReader, stalled>>

TextFailsSilently ==
    UNCHANGED <<connected, running, responsePending, sender, cmdReader,
                requester, dataReader, stalled, unanswered, excused>>

\* A failed send records the disconnection.
TextFails ==
    /\ connected' = FALSE
    /\ UNCHANGED <<running, responsePending, sender, cmdReader, requester,
                   dataReader, stalled, unanswered, excused>>

\* send_shutdown_sequence: first, three clears, first again; the other of
\* "task stop" and "task pause" only when neither attempt at the first one was
\* written.
SequenceNeverDone == seqStep = 7
SequenceDone == seqStep = 6 \/ (seqStep = 5 /\ firstOk)

SequenceText ==
    /\ ~SequenceDone
    /\ seqStep' = seqStep + 1
    /\ \/ /\ TextSent
          /\ seqSent' = seqSent + 1
          /\ firstOk' = (firstOk \/ seqStep \in {0, 4})
       \/ /\ TextFails
          /\ UNCHANGED <<seqSent, firstOk>>

-----------------------------------------------------------------------------
(* The client's own threads *)

\* One recv() returns the answers to one or more commands, whichever they
\* were, and clears the pending flag.
ReadReply ==
    /\ cmdReader = "run"
    /\ connected
    /\ \E n \in 1..unanswered : unanswered' = unanswered - n
    /\ responsePending' = FALSE
    /\ UNCHANGED <<connected, running, sender, cmdReader, requester,
                   dataReader, stalled, excused, seqVars>>

\* The peer closes its side, recv() fails, or a flag has been lowered: the
\* thread ends and the session goes on without anyone to clear the flag.
CmdReaderEnds ==
    /\ cmdReader = "run"
    /\ cmdReader' = "ended"
    /\ UNCHANGED <<connected, running, responsePending, sender, requester,
                   dataReader, stalled, unanswered, excused, seqVars>>

\* request_data_loop leaves its loop, or fails to send and records it.
RequesterEnds ==
    /\ requester = "run"
    /\ requester' = "ended"
    /\ connected' \in IF running /\ connected THEN {FALSE} ELSE {connected, FALSE}
    /\ UNCHANGED <<running, responsePending, sender, cmdReader, dataReader,
                   stalled, unanswered, excused, seqVars>>

\* read_data_loop between packets: a flag has been lowered or recv() fails,
\* which it records only while running_ is still set.
DataReaderEnds ==
    /\ dataReader = "run"
    /\ dataReader' = "ended"
    /\ connected' = (connected /\ ~running)
    /\ UNCHANGED <<running, responsePending, sender, cmdReader, requester,
                   stalled, unanswered, excused, seqVars>>

\* External: the robot stops reading its command socket and never resumes.
RobotStalls ==
    /\ CanStall
    /\ ~stalled
    /\ connected
    /\ stalled' = TRUE
    /\ UNCHANGED <<connected, running, responsePending, sender, cmdReader,
                   requester, dataReader, unanswered, excused, seqVars>>

-----------------------------------------------------------------------------
(* What the client promises its owners *)

BusyCount(c) == IF sender[c] \in {"write", "failed"} THEN 1 ELSE 0

\* Flow control: apart from the commands the client did not wait for (texts)
\* or stopped waiting for (timeouts), the robot never owes it more than one
\* answer, however late or coalesced the answers are.
FlowControl == unanswered <= excused + 1

\* The inductive form counts the callers between the wait and the write.
FlowBudget ==
    unanswered + BusyCount("servo") + BusyCount("main")
        <= excused + (IF responsePending THEN 1 ELSE 0)

\* send_shutdown_sequence falls back to its second text only on a connection
\* that its first failure has already recorded as lost: the fallback never
\* reaches the robot, and the clears never do without the first text.
FallbackNeverWritten ==
    /\ seqSent > 0 => firstOk
    /\ seqStep = 6 => seqSent = 0
==============================================================================
