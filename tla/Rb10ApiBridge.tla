----------------------------- MODULE Rb10ApiBridge -----------------------------
(***************************************************************************)
(* rb10_api_bridge.py: one thread runs the callbacks of the node; a signal  *)
(* handler may run between any two steps of a callback, stops the robot,    *)
(* shuts rclpy down and lets the callback go on.  A position read stands    *)
(* for six, one joint at a time: here the first joint and the others.       *)
(***************************************************************************)
EXTENDS CobotApi, FiniteSetsExt, Sequences

CONSTANTS
    Bridges,      \* [velocity, stopOnShutdown, action, source]; "off" action: no bridge
    MaxStep       \* servo step per cycle, the larger of the two limits

ASSUME ApiBridgeAssumption ==
    /\ MaxStep \in Nat
    /\ Bridges \subseteq [velocity: BOOLEAN, stopOnShutdown: BOOLEAN,
                          action: {"halt", "pause", "off"}, source: {"measured", "reference"}]

VARIABLES
    bridge,        \* the parameters the node was started with
    pc,            \* where its thread is
    resume,        \* where the interrupted callback goes on after the handler
    handled,       \* _signal_handled
    stopRequested, \* _stop_requested
    attached,      \* self.connected
    ok,            \* rclpy.ok()
    desired,       \* the joint command being handled; the least position between two
    current,       \* the joint source as read so far
    target,        \* history: the last servo target sent
    strays         \* history: commands callbacks sent after the handler ran

bridgeVars == <<bridge, pc, resume, handled, stopRequested, attached, ok,
                desired, current, target, strays>>

Commanding == {"paused", "sockets", "first", "others", "send"}
Callback == Commanding \cup {"read", "readOthers"}
Stopping == {"zero", "stop1", "clear", "stop2", "other", "stopped"}
Places == {"off", "tocb", "init", "mode", "spin", "gone", "leave", "disconnect", "failed"}
              \cup Callback \cup Stopping

BridgeTypeOK ==
    /\ bridge \in Bridges
    /\ pc \in Places /\ resume \in Callback \cup {"none", "spin", "destroy"}
    /\ {handled, stopRequested, attached, ok} \subseteq BOOLEAN
    /\ strays \in Nat
    /\ desired \in Positions
    /\ current \in Seq(Positions) /\ Len(current) <= 2
    /\ target \in Seq(Positions) /\ Len(target) \in {0, 2}

BridgeInit ==
    /\ bridge \in Bridges
    /\ pc = IF bridge.action = "off" THEN "off" ELSE "tocb"
    /\ resume = "none" /\ handled = FALSE /\ stopRequested = FALSE
    /\ attached = FALSE /\ ok = TRUE
    /\ desired \in {Min(Positions)} /\ current = <<>> /\ target = <<>>
    /\ strays = 0

Goto(place) == pc' = place /\ UNCHANGED <<bridge, resume, handled, stopRequested, attached,
                                          ok, desired, current, target, strays>>

\* A callback goes on at a place of its own, or ends and its locals with it.
Forget(place) ==
    /\ pc' = place
    /\ IF place = "spin" THEN desired' = Min(Positions) /\ current' = <<>>
                        ELSE UNCHANGED <<desired, current>>
    /\ UNCHANGED <<bridge, resume, handled, stopRequested, attached, ok>>

-----------------------------------------------------------------------------
(* Start: ToCB's answer is not looked at *)

Connect ==
    /\ pc = "tocb"
    /\ \E answered \in BOOLEAN : ToCB(answered)
    /\ Goto("init")

\* CobotInit and SetProgramMode: an exception ends the process.
Initialise(here, command, next) ==
    /\ pc = here
    /\ \E outcome \in SendOutcomes :
          /\ SendCommand(command, outcome)
          /\ pc' = IF outcome = "raised" THEN "failed" ELSE next
          /\ attached' = (outcome # "raised" /\ next = "spin")
    /\ UNCHANGED <<bridge, resume, handled, stopRequested, ok, desired, current,
                   target, strays>>

-----------------------------------------------------------------------------
(* The callbacks; each step may be followed by the signal handler *)

CommandArrives ==
    /\ pc = "spin" /\ ok /\ attached
    /\ desired' \in Positions
    /\ pc' = "paused"
    /\ target' = <<>>
    /\ UNCHANGED <<bridge, resume, handled, stopRequested, attached, ok, current, strays>>
    /\ UNCHANGED apiVars

PauseCheck ==
    /\ pc = "paused"
    /\ Forget(IF IsPause THEN "spin" ELSE "sockets")
    /\ UNCHANGED <<target, strays>> /\ UNCHANGED apiVars

SocketCheck ==
    /\ pc = "sockets"
    /\ Forget(IF ~connected THEN "spin" ELSE IF bridge.velocity THEN "send" ELSE "first")
    /\ UNCHANGED <<target, strays>> /\ UNCHANGED apiVars

\* _get_current_joint_source: each joint is read from systemstat_global anew.
Source == IF bridge.source = "measured" THEN Measured ELSE Reference

ReadJoint(here, next) ==
    /\ pc = here
    /\ IF Source # Unknown /\ next # "spin"
         THEN /\ pc' = next
              /\ current' = Append(current, Source)
              /\ UNCHANGED <<bridge, resume, handled, stopRequested, attached, ok, desired>>
         ELSE Forget("spin")
    /\ UNCHANGED <<target, strays>> /\ UNCHANGED apiVars

\* The servo guard left out.
ClampTotal(position) == desired

\* The servo guard: one step from where that joint was read.
Clamp(position) ==
    Max({position - MaxStep, Min({position + MaxStep, desired})})

\* move_speed_j or move_servo_j; an exception is logged and swallowed.
SendMotion ==
    /\ pc = "send"
    /\ \E outcome \in SendOutcomes :
          /\ SendStream("motion", outcome)
          /\ target' = IF outcome = "sent" /\ ~bridge.velocity
                         THEN [i \in 1 .. 2 |-> Clamp(current[i])] ELSE target
          /\ strays' = IF outcome = "sent" /\ handled THEN strays + 1 ELSE strays
    /\ Forget("spin")

\* _publish_joint_states: what is read goes out with the time of now.
StateTimer ==
    /\ pc = "spin" /\ ok /\ attached /\ connected
    /\ pc' = "read"
    /\ UNCHANGED <<bridge, resume, handled, stopRequested, attached, ok, desired, current,
                   target, strays>>
    /\ UNCHANGED apiVars

Callbacks ==
    \/ CommandArrives \/ PauseCheck \/ SocketCheck
    \/ ReadJoint("first", "others") \/ ReadJoint("others", "send")
    \/ SendMotion \/ StateTimer
    \/ ReadJoint("read", "readOthers") \/ ReadJoint("readOthers", "spin")

-----------------------------------------------------------------------------
(* Stopping *)

StopSteps == IF bridge.velocity THEN "zero" ELSE "stop1"
Stops == ~stopRequested /\ attached /\ bridge.stopOnShutdown

\* _handle_signal, once, between two steps of whatever runs.
HandleSignal ==
    /\ pc \in Callback \cup {"spin"} /\ ~handled
    /\ handled' = TRUE
    /\ resume' = pc
    /\ stopRequested' = (stopRequested \/ Stops)
    /\ pc' = IF Stops THEN StopSteps ELSE "stopped"
    /\ UNCHANGED <<bridge, attached, ok, desired, current, target, strays>>
    /\ UNCHANGED apiVars

\* One call of the stop sequence, whose exception is caught: "next" follows, or
\* "failed" after an exception.
StopCall(here, command, next, onError) ==
    /\ pc = here
    /\ \E outcome \in SendOutcomes :
          /\ IF command = "zero" THEN SendStream(command, outcome)
                                 ELSE SendCommand(command, outcome)
          /\ Goto(IF outcome = "raised" THEN onError ELSE next)

Opposite == IF bridge.action = "halt" THEN "pause" ELSE "halt"

\* The second stop, behind the clearing, left out.
StopWithoutRetry ==
    \/ StopCall("zero", "zero", "stop1", "stop1")
    \/ StopCall("stop1", bridge.action, "clear", "clear")
    \/ StopCall("clear", "clear", "stopped", "stopped")

StopSequence ==
    \/ StopCall("zero", "zero", "stop1", "stop1")
    \/ StopCall("stop1", bridge.action, "clear", "clear")
    \/ StopCall("clear", "clear", "stop2", "stop2")
    \/ StopCall("stop2", bridge.action, "stopped", "other")
    \/ StopCall("other", Opposite, "stopped", "stopped")

\* The handler would leave rclpy running.
StopDoneSpinsOn ==
    /\ pc = "stopped"
    /\ pc' = IF resume = "destroy" THEN "disconnect" ELSE resume
    /\ attached' = FALSE
    /\ UNCHANGED <<bridge, resume, handled, stopRequested, ok, desired, current, target, strays>>
    /\ UNCHANGED apiVars

\* The handler shuts rclpy down and returns into the callback; destroy_node goes on.
StopDone ==
    /\ pc = "stopped"
    /\ pc' = IF resume = "destroy" THEN "disconnect" ELSE resume
    /\ attached' = FALSE
    /\ ok' = FALSE
    /\ UNCHANGED <<bridge, resume, handled, stopRequested, desired, current, target, strays>>
    /\ UNCHANGED apiVars

\* rclpy is shut down by others: the launch's own handler.
ShutDownElsewhere ==
    /\ pc = "spin" /\ ok
    /\ ok' = FALSE
    /\ UNCHANGED <<bridge, pc, resume, handled, stopRequested, attached, desired, current,
                   target, strays>>
    /\ UNCHANGED apiVars

\* spin returns; destroy_node stops and disconnects only a node that is attached.
DestroyNode ==
    /\ pc = "spin" /\ ~ok
    /\ handled' = TRUE
    /\ resume' = IF attached THEN "destroy" ELSE resume
    /\ stopRequested' = (stopRequested \/ Stops)
    /\ pc' = IF ~attached THEN "gone" ELSE IF Stops THEN StopSteps ELSE "disconnect"
    /\ UNCHANGED <<bridge, attached, ok, desired, current, target, strays>>
    /\ UNCHANGED apiVars

Disconnect ==
    /\ pc = "disconnect"
    /\ DisConnectToCB
    /\ Goto("gone")

Bridge ==
    \/ Connect \/ Initialise("init", "init", "mode") \/ Initialise("mode", "mode", "spin")
    \/ Callbacks \/ StopSequence \/ StopDone \/ DestroyNode \/ Disconnect

================================================================================
