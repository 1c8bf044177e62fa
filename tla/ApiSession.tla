------------------------------ MODULE ApiSession ------------------------------
(***************************************************************************)
(* One process that uses scripts/api: the bridge node, or the script that   *)
(* moves the robot to its saved start pose, with the daemon threads of the  *)
(* API, the control box and the signals of the process.                     *)
(***************************************************************************)
EXTENDS Rb10ApiBridge, MoveToStartPose

CONSTANTS
    BridgeFrames,    \* frames the control box sends: [state, paused, measured, reference]
    MoverFrames

ASSUME FramesAssumption == BridgeFrames \cup MoverFrames \subseteq SystemStats

VARIABLES
    seen             \* history: what the API held during the script's last look

vars == <<apiVars, bridgeVars, moverVars, seen>>

TypeOK == ApiTypeOK /\ BridgeTypeOK /\ MoverTypeOK

Init ==
    /\ ApiInit /\ BridgeInit /\ MoverInit
    /\ (pc = "off") = (mover # "off")
    /\ seen = {}

Running == pc \notin {"off", "gone", "failed"} \/ mover \in MoverRuns

Held(of) == {<<"measured", of.measured>>, <<"reference", of.reference>>}

Daemons ==
    /\ Running
    /\ Threads(IF pc = "off" THEN MoverFrames ELSE BridgeFrames)
    /\ seen' = IF mover = "compare" THEN seen \cup Held(stat') ELSE seen
    /\ UNCHANGED <<bridgeVars, moverVars>>

BridgeStep == Bridge /\ UNCHANGED <<moverVars, seen>>
Signal == (HandleSignal \/ ShutDownElsewhere) /\ UNCHANGED <<moverVars, seen>>
Clock(deadline) == DeadlinePasses(deadline) /\ UNCHANGED <<bridgeVars, seen>>

MoverStep ==
    /\ Mover
    /\ seen' = IF mover = "look" THEN Held(stat)
               ELSE IF mover' \in {"finally", "reached"} THEN seen ELSE {}
    /\ UNCHANGED bridgeVars

Next ==
    \/ Daemons \/ BridgeStep \/ Signal \/ MoverStep
    \/ \E deadline \in {"snapshot", "settle"} : Clock(deadline)

Spec ==
    /\ Init /\ [][Next]_vars
    /\ WF_vars(BridgeStep) /\ WF_vars(MoverStep)
    /\ WF_vars(Clock("snapshot")) /\ WF_vars(Clock("settle"))

-----------------------------------------------------------------------------
(* Properties *)

\* When the stop sequence is over and both sockets still stand, the last command
\* the control box got is the configured stop, behind the clearing of its buffers;
\* only the one command whose callback the signal handler interrupted may follow it,
\* and none follows that.
HaltedLast ==
    stopRequested /\ pc \notin Stopping /\ link = "up" /\ connected =>
        \/ strays = 0 /\ lastSent = bridge.action
        \/ strays = 1 /\ lastSent = "motion" /\ resume \in Commanding

\* A servo target is, joint by joint, within one step of a position that the robot
\* reported for the source in use, also when the joints come from several frames.
SentNearReported ==
    \A i \in 1 .. Len(target) :
        \E near \in reported :
            near[1] = bridge.source /\ target[i] - near[2] \in -MaxStep .. MaxStep

\* The script says it has reached the pose only if measured and reference joints were
\* both there in its last look, which it took after the move: in the frame the API held
\* when that look began or in one that came during it, not in what an earlier look saw.
\* The two may be from different frames, and the first frame from before the move.
ReachedWasSeen ==
    mover = "reached" =>
        /\ {<<"measured", Target>>, <<"reference", Target>>} \subseteq seen
        /\ phase = "settle"

\* A node that is told to stop ends, whatever becomes of the link; the script ends
\* too, or waits for good in MoveJ, which never looks at the connection again.
ClientEnds ==
    /\ (handled \/ ~ok) ~> pc = "gone"
    /\ mover # "off" ~> [](mover \in MoverEnded \cup {"move"})
================================================================================
