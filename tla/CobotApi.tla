-------------------------------- MODULE CobotApi --------------------------------
(***************************************************************************)
(* scripts/api/cobot.py: the module-wide connection of a Python process to  *)
(* the RB10 control box and its three daemon threads.  The control box is   *)
(* external: it sends any of the Frames, acknowledges commands or not, and  *)
(* the link may go down.  cmd_connect and data_connect fall together, two   *)
(* stores of one thread that nothing here tells apart.                      *)
(***************************************************************************)
EXTENDS Integers, FiniteSets

CONSTANTS Positions     \* joint positions, whole numbers

ASSUME ApiAssumption == Positions \subseteq Nat /\ IsFiniteSet(Positions)

VARIABLES
    link,         \* the TCP connections: "none", "up" or "lost"
    connected,    \* cmd_connect and data_connect
    stat,         \* systemstat_global
    sendFlag,     \* cmd_send_flag
    moveCmd,      \* moveCmdFlag
    acks,         \* acknowledgements unread on the command socket, two at most
    skewed,       \* a read took more than one acknowledgement
    lastSent,     \* history: the last command the control box received
    reported      \* history: what the frames said: <<source, position>>

apiVars == <<link, connected, stat, sendFlag, moveCmd, acks, skewed, lastSent, reported>>

Unknown == -1
SystemStats == [state: {"none", "idle", "running"}, paused: BOOLEAN,
                measured: Positions \cup {Unknown}, reference: Positions \cup {Unknown}]
NoStat == [state |-> "none", paused |-> FALSE, measured |-> Unknown, reference |-> Unknown]
Commands == {"init", "mode", "motion", "zero", "halt", "pause", "clear", "move"}

ApiTypeOK ==
    /\ link \in {"none", "up", "lost"}
    /\ {connected, moveCmd, skewed} \subseteq BOOLEAN
    /\ stat \in SystemStats
    /\ sendFlag \in {0, 1} /\ acks \in 0 .. 2
    /\ lastSent \in Commands \cup {"none"}
    /\ reported \subseteq {"measured", "reference"} \X Positions

ApiInit ==
    /\ link = "none" /\ connected = FALSE /\ stat = NoStat
    /\ sendFlag = 0 /\ moveCmd = FALSE /\ acks = 0 /\ skewed = FALSE
    /\ lastSent = "none" /\ reported = {}

\* ConnectToCB: both sockets or none.  An address that is not one does not connect.
ToCB(answered) ==
    /\ link' = IF answered THEN "up" ELSE "none"
    /\ connected' = answered
    /\ UNCHANGED <<stat, sendFlag, moveCmd, acks, skewed, lastSent, reported>>

DisConnectToCB ==
    /\ link' = "none" /\ connected' = FALSE
    /\ UNCHANGED <<stat, sendFlag, moveCmd, acks, skewed, lastSent, reported>>

-----------------------------------------------------------------------------
(* The threads *)

\* ReqDataStart, ReadCMD and ReadDATA each end on the first error and take the
\* connection with them; so does a frame whose length or type cannot be unpacked.
DropConnection ==
    /\ connected
    /\ connected' = FALSE
    /\ UNCHANGED <<link, stat, sendFlag, moveCmd, acks, skewed, lastSent, reported>>

LinkGoesDown ==
    /\ link = "up"
    /\ link' = "lost"
    /\ UNCHANGED <<connected, stat, sendFlag, moveCmd, acks, skewed, lastSent, reported>>

\* ReadDATA: a whole frame replaces systemstat_global, also the robot_state that
\* SendCOMMAND and ReadCMD wrote into it; a part of a frame is dropped.
ReadDATA(frames) ==
    /\ connected /\ link = "up"
    /\ stat' \in frames
    /\ reported' = reported \cup {<<"measured", stat'.measured>>, <<"reference", stat'.reference>>}
    /\ UNCHANGED <<link, connected, sendFlag, moveCmd, acks, skewed, lastSent>>

\* ReadCMD reads 26 bytes, only while a command is out: two acknowledgements that
\* arrived together are not recognised, nor is any after them.
ReadCMD ==
    /\ connected /\ sendFlag = 1 /\ acks > 0
    /\ skewed' = (skewed \/ acks > 1)
    /\ IF skewed'
         THEN UNCHANGED <<sendFlag, moveCmd, stat>>
         ELSE /\ sendFlag' = 0
              /\ moveCmd' = FALSE
              /\ stat' = IF moveCmd THEN [stat EXCEPT !.state = "running"] ELSE stat
    /\ acks' = 0
    /\ UNCHANGED <<link, connected, lastSent, reported>>

Threads(frames) == DropConnection \/ LinkGoesDown \/ ReadDATA(frames) \/ ReadCMD

-----------------------------------------------------------------------------
(* What the calling thread does *)

\* What a send can end in: refused by SendCOMMAND, on its way, or, on a broken
\* link, an exception or silence.
SendOutcomes ==
    CASE ~connected -> {"refused"}
      [] connected /\ link = "up" -> {"sent"}
      [] connected /\ link # "up" -> {"raised", "sent"}

\* The control box gets it and may acknowledge it.
Received(command) ==
    /\ lastSent' = IF link = "up" THEN command ELSE lastSent
    /\ acks' \in {acks} \cup (IF link = "up" /\ acks < 2 THEN {acks + 1} ELSE {})

\* Streamed joint commands leave the flag alone: their acknowledgements stay unread.
SendStream(command, outcome) ==
    /\ outcome \in SendOutcomes
    /\ IF outcome = "sent" THEN Received(command) ELSE UNCHANGED <<lastSent, acks>>
    /\ UNCHANGED <<link, connected, stat, sendFlag, moveCmd, skewed, reported>>

\* NONMOVE commands.
SendCommand(command, outcome) ==
    /\ outcome \in SendOutcomes
    /\ IF outcome = "sent"
         THEN Received(command) /\ sendFlag' = 1
         ELSE UNCHANGED <<lastSent, acks, sendFlag>>
    /\ UNCHANGED <<link, connected, stat, moveCmd, skewed, reported>>

IsIdle == stat.state = "idle"
IsPause == stat.paused

\* MOVE commands wait for an idle robot, give up when it is paused, and do not look
\* at the connection again.
SendMove(command, outcome) ==
    /\ \/ /\ IsIdle
          /\ outcome \in (IF link = "up" THEN {"sent"} ELSE {"raised", "sent"})
       \/ ~IsIdle /\ IsPause /\ outcome = "refused"
    /\ IF outcome = "sent"
         THEN /\ Received(command)
              /\ sendFlag' = 1 /\ moveCmd' = TRUE
              /\ stat' = [stat EXCEPT !.state = "running"]
         ELSE UNCHANGED <<lastSent, acks, sendFlag, moveCmd, stat>>
    /\ UNCHANGED <<link, connected, skewed, reported>>

\* The getters return nothing before the first frame and after the connection.
Measured == IF connected THEN stat.measured ELSE Unknown
Reference == IF connected THEN stat.reference ELSE Unknown

================================================================================
