---------------------------- MODULE ApiSessionProofs ----------------------------
(***************************************************************************)
(* Proofs about the Python clients of the control box: what the stop        *)
(* sequence leaves behind, how far a servo target may be from the robot,    *)
(* and what the start pose script has seen.  The vendor API keeps no type   *)
(* that these results need but the one of systemstat_global.                *)
(***************************************************************************)
EXTENDS ApiSession, TLAPS

\* One process runs: where there is a script there is no bridge.
OneClient == mover # "off" => pc = "off"

\* What the bridge's thread and its signal handler do is done in a bridge.
LEMMA BridgeRuns == BridgeStep \/ Signal => pc # "off"
  <1>1. BridgeStep => pc # "off"
    BY DEF BridgeStep, Bridge, Connect, Initialise, Callbacks, CommandArrives,
       PauseCheck, SocketCheck, ReadJoint, SendMotion, StateTimer, StopSequence,
       StopCall, StopDone, DestroyNode, Disconnect
  <1>2. Signal => pc # "off"
    BY DEF Signal, HandleSignal, ShutDownElsewhere, Callback, Commanding
  <1> QED
    BY <1>1, <1>2

\* No step starts the other client.
LEMMA OneClientStep == OneClient /\ [Next]_vars => OneClient'
  <1> SUFFICES ASSUME OneClient, [Next]_vars PROVE OneClient'
    OBVIOUS
  <1> USE DEF OneClient
  <1>1. CASE Daemons
    BY <1>1 DEF Daemons, bridgeVars, moverVars
  <1>2. CASE BridgeStep \/ Signal
    BY <1>2, BridgeRuns DEF BridgeStep, Signal, moverVars
  <1>3. CASE MoverStep
    <2>1. mover # "off"
      BY <1>3 DEF MoverStep, Mover, MoverConnect, MoverInitialise, ReadMeasured,
         ReadReference, MoveJ, MoverLeaves
    <2> QED
      BY <1>3, <2>1 DEF MoverStep, bridgeVars
  <1>4. CASE \E deadline \in {"snapshot", "settle"} : Clock(deadline)
    BY <1>4 DEF Clock, DeadlinePasses, bridgeVars
  <1>5. CASE UNCHANGED vars
    BY <1>5 DEF vars, bridgeVars, moverVars
  <1> QED
    BY <1>1, <1>2, <1>3, <1>4, <1>5 DEF Next

-----------------------------------------------------------------------------
(* What the stop sequence leaves behind *)

Standing == link = "up" /\ connected

\* A connection that stands cannot refuse a send or raise from it: the second stop
\* is followed by the other kind only without a connection.  After the handler the
\* node is no longer attached, so that no callback begins: what is sent later is the
\* command of the callback the handler interrupted.
HaltInv ==
    /\ stopRequested => handled
    /\ handled => pc \notin {"off", "tocb", "init", "mode"}
    /\ pc \in Stopping => resume \in Callback \cup {"spin", "destroy"} /\ handled /\ strays = 0
    /\ pc = "other" => ~Standing
    /\ handled /\ pc \in Callback \cup {"spin"} => ~attached
    /\ handled /\ pc \in Commanding => resume \in Commanding /\ strays = 0
    /\ ~handled => strays = 0
    /\ strays # 0 => strays = 1 /\ resume \in Commanding
    /\ Standing /\ stopRequested /\ pc \notin {"zero", "stop1", "clear", "stop2", "other"}
       => lastSent = IF strays = 0 THEN bridge.action ELSE "motion"

\* The daemon threads and the control box send nothing and never restore a
\* connection.
LEMMA DaemonsHalt == HaltInv /\ Daemons => HaltInv'
  BY DEF HaltInv, Standing, Daemons, Threads, DropConnection, LinkGoesDown, ReadDATA,
     ReadCMD, bridgeVars, Stopping, Callback

\* A call of the stop sequence on a standing connection is sent.
LEMMA StopCallHalts ==
  ASSUME HaltInv, NEW here, NEW command, NEW next, NEW onError,
         StopCall(here, command, next, onError),
         <<here, command, next, onError>> \in
             {<<"zero", "zero", "stop1", "stop1">>,
              <<"stop1", bridge.action, "clear", "clear">>,
              <<"clear", "clear", "stop2", "stop2">>,
              <<"stop2", bridge.action, "stopped", "other">>,
              <<"other", Opposite, "stopped", "stopped">>}
  PROVE  HaltInv'
  <1>1. PICK outcome \in SendOutcomes :
            /\ IF command = "zero" THEN SendStream(command, outcome)
                                   ELSE SendCommand(command, outcome)
            /\ Goto(IF outcome = "raised" THEN onError ELSE next)
    BY DEF StopCall
  <1>2. /\ Standing' <=> Standing
        /\ Standing => outcome = "sent" /\ lastSent' = command
        /\ UNCHANGED <<bridge, resume, handled, stopRequested, strays>>
        /\ pc = here /\ pc' = IF outcome = "raised" THEN onError ELSE next
    BY <1>1 DEF StopCall, SendStream, SendCommand, SendOutcomes, Received, Standing, Goto
  <1>3. <<here, next>> \in {<<"zero", "stop1">>, <<"stop1", "clear">>, <<"clear", "stop2">>,
                            <<"stop2", "stopped">>, <<"other", "stopped">>}
        /\ (here = "stop2" => command = bridge.action /\ onError = "other")
        /\ (here # "stop2" => onError = next)
    OBVIOUS
  <1> QED
    BY <1>2, <1>3 DEF HaltInv, Stopping, Callback, Commanding

\* The callbacks send nothing but the motion command, which is stray after a signal.
LEMMA CallbacksHalt == HaltInv /\ Callbacks => HaltInv'
  <1> SUFFICES ASSUME HaltInv, Callbacks PROVE HaltInv'
    OBVIOUS
  <1>1. CASE SendMotion
    <2>1. PICK outcome \in SendOutcomes :
              SendStream("motion", outcome)
              /\ strays' = IF outcome = "sent" /\ handled THEN strays + 1 ELSE strays
      BY <1>1 DEF SendMotion
    <2>2. /\ Standing' <=> Standing
          /\ Standing => outcome = "sent" /\ lastSent' = "motion"
      BY <2>1 DEF SendStream, SendOutcomes, Received, Standing
    <2>3. /\ pc = "send" /\ pc' = "spin"
          /\ UNCHANGED <<bridge, resume, handled, stopRequested, attached>>
      BY <1>1 DEF SendMotion, Forget
    <2>4. handled => ~attached /\ resume \in Commanding /\ strays = 0
      BY <2>3 DEF HaltInv, Callback, Commanding
    <2>5. /\ ~handled => strays = 0 /\ strays' = 0 /\ ~stopRequested
          /\ strays' # 0 => strays' = 1 /\ resume \in Commanding
          /\ Standing /\ stopRequested => strays' = 1
      BY <2>1, <2>2, <2>3, <2>4 DEF HaltInv
    <2> QED
      BY <2>2, <2>3, <2>4, <2>5 DEF HaltInv, Stopping, Callback, Commanding
  <1>2. ASSUME NEW here \in Callback \cup {"spin"}, NEW there \in Callback \cup {"spin"},
               pc = here, pc' = there, there \in Commanding => here \in Commanding \/ ~handled,
               handled => here # "spin", UNCHANGED <<apiVars, attached>>,
               UNCHANGED <<bridge, resume, handled, stopRequested, strays>>
        PROVE  HaltInv'
    BY <1>2 DEF HaltInv, Standing, apiVars, Callback, Commanding, Stopping
  <1>3. CASE CommandArrives \/ PauseCheck \/ SocketCheck \/ StateTimer
    BY <1>2, <1>3 DEF CommandArrives, PauseCheck, SocketCheck, StateTimer, Forget, Callback,
       Commanding, HaltInv
  <1>4. ASSUME NEW here \in Callback, NEW next \in Callback \cup {"spin"},
               next \in Commanding => here \in Commanding, ReadJoint(here, next)
        PROVE  HaltInv'
    BY <1>2, <1>4 DEF ReadJoint, Forget, Callback, Commanding
  <1> QED
    BY <1>1, <1>3, <1>4 DEF Callbacks, Callback, Commanding

\* The other steps of the bridge's thread.
LEMMA BridgeHalts == HaltInv /\ Bridge => HaltInv'
  <1> SUFFICES ASSUME HaltInv, Bridge PROVE HaltInv'
    OBVIOUS
  <1>1. CASE Connect
    BY <1>1 DEF Connect, ToCB, Goto, HaltInv, Standing, Stopping, Callback, Commanding
  <1>2. CASE Initialise("init", "init", "mode") \/ Initialise("mode", "mode", "spin")
    BY <1>2 DEF Initialise, SendCommand, HaltInv, Standing, Stopping, Callback, Commanding
  <1>3. CASE StopSequence
    BY <1>3, StopCallHalts DEF StopSequence
  <1>4. CASE StopDone
    BY <1>4 DEF StopDone, HaltInv, Standing, apiVars, Stopping, Callback, Commanding
  <1>5. CASE DestroyNode
    BY <1>5 DEF DestroyNode, Stops, StopSteps, HaltInv, Standing, apiVars, Stopping, Callback,
       Commanding
  <1>6. CASE Disconnect
    BY <1>6 DEF Disconnect, DisConnectToCB, Goto, HaltInv, Standing, Stopping, Callback, Commanding
  <1> QED
    BY <1>1, <1>2, <1>3, <1>4, <1>5, <1>6, CallbacksHalt DEF Bridge

\* Every step keeps the halt invariant: the script's process has no stop sequence.
LEMMA HaltStep == HaltInv /\ OneClient /\ [Next]_vars => HaltInv'
  <1> SUFFICES ASSUME HaltInv, OneClient, [Next]_vars PROVE HaltInv'
    OBVIOUS
  <1>1. CASE HandleSignal
    <2>1. /\ handled' /\ ~stopRequested
          /\ resume' \in Callback \cup {"spin"}
      BY <1>1 DEF HandleSignal, HaltInv
    <2>2. /\ pc' = "stopped" => ~stopRequested'
          /\ pc' \in {"zero", "stop1", "stopped"}
      BY <1>1, <2>1 DEF HandleSignal, StopSteps
    <2> QED
      BY <1>1, <2>1, <2>2 DEF HaltInv, HandleSignal, Stopping, Callback, Commanding
  <1>5. CASE ShutDownElsewhere
    BY <1>5 DEF ShutDownElsewhere, HaltInv, Standing, apiVars, Stopping, Callback, Commanding
  <1>2. CASE MoverStep
    <2>1. mover # "off"
      BY <1>2 DEF MoverStep, Mover, MoverConnect, MoverInitialise, ReadMeasured,
         ReadReference, MoveJ, MoverLeaves
    <2> QED
      BY <1>2, <2>1 DEF MoverStep, bridgeVars, OneClient, HaltInv, Stopping
  <1>3. CASE \E deadline \in {"snapshot", "settle"} : Clock(deadline)
    BY <1>3 DEF Clock, DeadlinePasses, bridgeVars, apiVars, HaltInv, Standing
  <1>4. CASE UNCHANGED vars
    BY <1>4 DEF vars, bridgeVars, apiVars, HaltInv, Standing
  <1> QED
    BY <1>1, <1>2, <1>3, <1>4, <1>5, DaemonsHalt, BridgeHalts
    DEF Next, BridgeStep, Signal

\* When the stop sequence is over and the connection still stands, the configured
\* stop was the last command, or the last but the one command of the callback the
\* handler interrupted: for every set of positions, frames and bridges.
THEOREM StopIsLast == Spec => []HaltedLast
  <1>1. Init => HaltInv /\ OneClient
    BY DEF Init, BridgeInit, HaltInv, OneClient, Stopping
  <1>2. HaltInv => HaltedLast
    BY DEF HaltInv, HaltedLast, Standing, Stopping
  <1> QED
    BY <1>1, <1>2, HaltStep, OneClientStep, PTL DEF Spec

-----------------------------------------------------------------------------
(* What the frames have said *)

\* systemstat_global keeps its type, and the positions in it have been reported.
StatInv ==
    /\ stat \in SystemStats
    /\ stat.measured # Unknown => <<"measured", stat.measured>> \in reported
    /\ stat.reference # Unknown => <<"reference", stat.reference>> \in reported

\* A step of the API itself is a frame, or keeps all of the frame but its state.
StatKept ==
    /\ stat' = stat \/ \E state \in {"none", "idle", "running"} :
                            stat' = [stat EXCEPT !.state = state]
    /\ reported' = reported

\* With what was in systemstat_global kept, so is what it has reported.
LEMMA StatKeptStep == StatInv /\ StatKept => StatInv'
  BY DEF StatInv, StatKept, SystemStats

\* The daemon threads replace systemstat_global only by what they report.
LEMMA DaemonsReport ==
  StatInv /\ Daemons => StatInv' /\ reported \subseteq reported'
  <1> SUFFICES ASSUME StatInv, Daemons PROVE StatInv' /\ reported \subseteq reported'
    OBVIOUS
  <1>1. ASSUME NEW frames \in {BridgeFrames, MoverFrames}, ReadDATA(frames)
        PROVE  StatInv' /\ reported \subseteq reported'
    BY <1>1, FramesAssumption DEF ReadDATA, StatInv
  <1>2. CASE DropConnection \/ LinkGoesDown \/ ReadCMD
    BY <1>2, StatKeptStep DEF DropConnection, LinkGoesDown, ReadCMD, StatKept
  <1> QED
    BY <1>1, <1>2 DEF Daemons, Threads

\* What the bridge or the script does keeps the frame.
LEMMA ClientsReport ==
  Bridge \/ Mover => StatKept
  <1>1. ASSUME NEW command, NEW outcome,
               SendStream(command, outcome) \/ SendCommand(command, outcome)
                   \/ SendMove(command, outcome)
        PROVE  StatKept
    BY <1>1 DEF SendStream, SendCommand, SendMove, StatKept
  <1>2. CASE Callbacks
    BY <1>1, <1>2 DEF Callbacks, CommandArrives, PauseCheck, SocketCheck, ReadJoint,
       SendMotion, StateTimer, apiVars, StatKept
  <1>3. CASE StopSequence
    BY <1>1, <1>3 DEF StopSequence, StopCall
  <1>4. CASE Bridge /\ ~Callbacks /\ ~StopSequence
    BY <1>1, <1>4 DEF Bridge, Connect, ToCB, Initialise, StopDone, DestroyNode,
       Disconnect, DisConnectToCB, apiVars, StatKept
  <1>5. CASE Mover
    BY <1>1, <1>5 DEF Mover, MoverConnect, ToCB, MoverInitialise, ReadMeasured,
       ReadReference, MoveJ, MoverLeaves, DisConnectToCB, apiVars, StatKept
  <1> QED
    BY <1>2, <1>3, <1>4, <1>5

\* Every step keeps the invariant, and a report is never taken back.
LEMMA StatStep ==
  StatInv /\ [Next]_vars => StatInv' /\ reported \subseteq reported'
  <1>1. StatKept => reported \subseteq reported'
    BY DEF StatKept
  <1>2. Signal \/ (\E deadline \in {"snapshot", "settle"} : Clock(deadline))
            \/ UNCHANGED vars => StatKept
    BY DEF Signal, HandleSignal, ShutDownElsewhere, Clock, DeadlinePasses, vars, apiVars,
       StatKept
  <1> QED
    BY <1>1, <1>2, DaemonsReport, ClientsReport, StatKeptStep
    DEF Next, BridgeStep, MoverStep

-----------------------------------------------------------------------------
(* How far a servo target is from the robot *)

\* Where the callback is, also while the signal handler interrupts it.
Doing == IF pc \in Stopping THEN resume ELSE pc

\* The joints read so far were reported for the source in use; a callback between
\* two reads holds one, at its send both.
Gathered ==
    /\ bridge \in Bridges
    /\ Doing \in {"tocb", "init", "mode", "spin", "paused", "sockets", "first", "read"}
          => current = <<>>
    /\ Doing \in {"others", "readOthers"} => Len(current) = 1
    /\ Doing = "send" /\ ~bridge.velocity => Len(current) = 2
    /\ Doing \in {"paused", "sockets", "first", "others", "send"} => desired \in Positions
    /\ current \in Seq(Positions)
    /\ \A i \in 1 .. Len(current) : <<bridge.source, current[i]>> \in reported

\* The clamp's two folds over pairs of whole numbers.
LEMMA ClampNear ==
  ASSUME NEW position \in Nat, desired \in Nat
  PROVE  Clamp(position) - position \in -MaxStep .. MaxStep
  <1> DEFINE upper == Min({position + MaxStep, desired})
  <1>1. MaxStep \in Nat
    BY ApiBridgeAssumption
  <1>2. upper = IF position + MaxStep <= desired THEN position + MaxStep ELSE desired
    BY <1>1 DEF Min
  <1>3. upper \in Int
    BY <1>1, <1>2
  <1> HIDE DEF upper
  <1>4. Max({position - MaxStep, upper}) =
            IF position - MaxStep >= upper THEN position - MaxStep ELSE upper
    BY <1>1, <1>3 DEF Max
  <1>5. Clamp(position) = Max({position - MaxStep, upper})
    BY DEF Clamp, upper
  <1> QED
    BY <1>1, <1>2, <1>4, <1>5

\* What a getter answers has been reported.
LEMMA SourceReported ==
  ASSUME StatInv, Gathered, Source # Unknown
  PROVE  Source \in Positions /\ <<bridge.source, Source>> \in reported
  <1>1. bridge.source \in {"measured", "reference"}
    BY ApiBridgeAssumption DEF Gathered
  <1> QED
    BY <1>1 DEF Source, Measured, Reference, StatInv, SystemStats

\* A step that reads no joint and leaves the callback where it is, or ends it.
LEMMA GatheredKept ==
  ASSUME Gathered, reported \subseteq reported', UNCHANGED <<bridge, desired, current>>,
         Doing' \in {Doing, "off", "destroy", "disconnect", "gone", "failed"}
  PROVE  Gathered'
  BY DEF Gathered

\* A step from one place of the callback to another that needs no more than it has.
LEMMA CallbacksGather ==
  StatInv /\ Gathered /\ Callbacks /\ reported \subseteq reported' => Gathered'
  <1> SUFFICES ASSUME StatInv, Gathered, Callbacks, reported \subseteq reported'
               PROVE  Gathered'
    OBVIOUS
  <1> USE DEF Gathered, Doing, Stopping
  <1>1. ASSUME pc \notin Stopping, pc' = "spin", current' = <<>>, UNCHANGED bridge
        PROVE  Gathered'
    BY <1>1
  <1>2. CASE SendMotion
    BY <1>1, <1>2 DEF SendMotion, Forget
  <1>3. CASE CommandArrives
    BY <1>3 DEF CommandArrives
  <1>4. CASE StateTimer
    BY <1>4 DEF StateTimer
  <1>5. CASE PauseCheck
    BY <1>5, <1>1 DEF PauseCheck, Forget
  <1>6. CASE SocketCheck
    BY <1>6, <1>1 DEF SocketCheck, Forget
  <1>7. ASSUME NEW here, NEW next, ReadJoint(here, next),
               <<here, next>> \in {<<"first", "others">>, <<"others", "send">>,
                                  <<"read", "readOthers">>, <<"readOthers", "spin">>}
        PROVE  Gathered'
    <2>1. CASE Source # Unknown /\ next # "spin"
      <3>1. /\ pc = here /\ pc' = next
            /\ current' = Append(current, Source)
            /\ UNCHANGED <<bridge, desired>>
        BY <1>7, <2>1 DEF ReadJoint
      <3>2. Source \in Positions /\ <<bridge.source, Source>> \in reported
        BY <2>1, SourceReported
      <3>3. <<here, next>> \in {<<"first", "others">>, <<"others", "send">>,
                               <<"read", "readOthers">>}
        BY <1>7, <2>1
      <3>4. Len(current) = (IF here = "others" THEN 1 ELSE 0)
        BY <3>1, <3>3
      <3>5. /\ current' \in Seq(Positions)
            /\ Len(current') = Len(current) + 1
            /\ \A i \in 1 .. Len(current') :
                   current'[i] = IF i = Len(current) + 1 THEN Source ELSE current[i]
        BY <3>1, <3>2
      <3>6. \A i \in 1 .. Len(current') : <<bridge.source, current'[i]>> \in reported'
        <4>1. \A i \in 1 .. Len(current') :
                  i = Len(current) + 1 \/ i \in 1 .. Len(current)
          BY <3>5
        <4> QED
          BY <4>1, <3>2, <3>5
      <3>7. UNCHANGED Stopping
        OBVIOUS
      <3> QED
        BY <3>1, <3>3, <3>4, <3>5, <3>6
    <2>2. CASE ~(Source # Unknown /\ next # "spin")
      BY <1>7, <1>1, <2>2 DEF ReadJoint, Forget
    <2> QED
      BY <2>1, <2>2
  <1> QED
    BY <1>2, <1>3, <1>4, <1>5, <1>6, <1>7 DEF Callbacks

\* Every step keeps what the callback has gathered: the handler comes between two
\* of its steps and changes none of it.
LEMMA GatheredStep ==
  StatInv /\ HaltInv /\ OneClient /\ Gathered /\ [Next]_vars => Gathered'
  <1> SUFFICES ASSUME StatInv, HaltInv, OneClient, Gathered, [Next]_vars
               PROVE  Gathered'
    OBVIOUS
  <1>1. reported \subseteq reported'
    BY StatStep
  <1>2. CASE UNCHANGED bridgeVars
    BY <1>1, <1>2, GatheredKept DEF bridgeVars, Doing, Stopping
  <1>3. CASE Callbacks
    BY <1>1, <1>3, CallbacksGather
  <1>4. CASE Connect
    BY <1>1, <1>4 DEF Connect, Goto, Gathered, Doing, Stopping
  <1>5. CASE Initialise("init", "init", "mode") \/ Initialise("mode", "mode", "spin")
    BY <1>1, <1>5 DEF Initialise, Gathered, Doing, Stopping
  <1>6. CASE StopSequence
    <2>1. /\ pc \in Stopping /\ pc' \in Stopping
          /\ UNCHANGED <<bridge, desired, current, resume>>
      BY <1>6 DEF StopSequence, StopCall, Goto, Stopping
    <2>2. Doing' = Doing
      BY <2>1 DEF Doing, Stopping
    <2> QED
      BY <1>1, <2>1, <2>2, GatheredKept
  <1>7. CASE StopDone
    <2>1. /\ pc = "stopped" /\ pc' = (IF resume = "destroy" THEN "disconnect" ELSE resume)
          /\ UNCHANGED <<bridge, desired, current, resume>>
      BY <1>7 DEF StopDone
    <2>2. Doing = resume /\ resume \in Callback \cup {"spin", "destroy"}
      BY <2>1 DEF Doing, HaltInv, Stopping
    <2>3. Doing' = pc'
      BY <2>1, <2>2 DEF Doing, Callback, Commanding, Stopping
    <2> QED
      BY <1>1, <2>1, <2>2, <2>3, GatheredKept
  <1>8. CASE DestroyNode
    <2>1. /\ UNCHANGED <<bridge, desired, current>>
          /\ Doing' \in {"gone", "destroy", "disconnect"}
      BY <1>8 DEF DestroyNode, StopSteps, Doing, Stopping
    <2> QED
      BY <1>1, <2>1, GatheredKept
  <1>9. CASE Disconnect
    BY <1>1, <1>9, GatheredKept DEF Disconnect, Goto, Doing, Stopping
  <1>10. CASE HandleSignal
    <2>1. /\ UNCHANGED <<bridge, desired, current>>
          /\ pc \in Callback \cup {"spin"} /\ resume' = pc /\ pc' \in Stopping
      BY <1>10 DEF HandleSignal, StopSteps, Stopping
    <2>2. Doing' = Doing
      BY <2>1 DEF Doing, Callback, Commanding, Stopping
    <2> QED
      BY <1>1, <2>1, <2>2, GatheredKept
  <1>11. CASE ShutDownElsewhere
    BY <1>1, <1>11, GatheredKept DEF ShutDownElsewhere, Doing, Stopping
  <1> QED
    BY <1>2, <1>3, <1>4, <1>5, <1>6, <1>7, <1>8, <1>9, <1>10, <1>11
    DEF Next, Daemons, BridgeStep, Bridge, Signal, MoverStep, Clock, vars

\* A target is sent from two joints that were read, each clamped to where it was.
LEMMA SentStep ==
  ASSUME StatInv, Gathered, SentNearReported, [Next]_vars
  PROVE  SentNearReported'
  <1>1. reported \subseteq reported'
    BY StatStep
  <1>2. ASSUME UNCHANGED <<bridge, target>> PROVE SentNearReported'
    BY <1>1, <1>2 DEF SentNearReported
  <1>3. CASE SendMotion
    <2>1. UNCHANGED bridge
          /\ (target' = target
                \/ /\ target' = [i \in 1 .. 2 |-> Clamp(current[i])]
                   /\ pc = "send" /\ ~bridge.velocity)
      BY <1>3 DEF SendMotion, Forget
    <2>2. CASE target' # target
      <3>1. pc = "send" /\ ~bridge.velocity
            /\ target' = [i \in 1 .. 2 |-> Clamp(current[i])]
        BY <2>1, <2>2
      <3>2. /\ current \in Seq(Positions) /\ Len(current) = 2
            /\ desired \in Positions
            /\ \A i \in 1 .. 2 : <<bridge.source, current[i]>> \in reported
        BY <3>1 DEF Gathered, Doing, Stopping
      <3>3. Len(target') = 2
        BY <3>1
      <3>4. ASSUME NEW i \in 1 .. 2
            PROVE  \E near \in reported' :
                     near[1] = bridge.source /\ target'[i] - near[2] \in -MaxStep .. MaxStep
        <4>1. current[i] \in Nat /\ desired \in Nat
          <5>1. current[i] \in Positions /\ desired \in Positions
            BY <3>2
          <5> QED
            BY <5>1, ApiAssumption
        <4>2. target'[i] - current[i] \in -MaxStep .. MaxStep
          BY <3>1, <4>1, ClampNear
        <4> QED
          BY <1>1, <3>2, <4>2
      <3> QED
        BY <2>1, <3>3, <3>4 DEF SentNearReported
    <2> QED
      BY <1>2, <2>1, <2>2
  <1>4. CASE CommandArrives
    BY <1>4 DEF CommandArrives, SentNearReported
  <1>5. CASE [Next]_vars /\ ~SendMotion /\ ~CommandArrives
    BY <1>2, <1>5 DEF Next, Daemons, BridgeStep, Bridge, Connect, Initialise, Callbacks,
       PauseCheck, SocketCheck, ReadJoint, StateTimer, StopSequence, StopCall, StopDone,
       DestroyNode, Disconnect, Goto, Forget, Signal, HandleSignal, ShutDownElsewhere,
       MoverStep, Clock, bridgeVars, vars
  <1> QED
    BY <1>3, <1>4, <1>5

\* Every servo target is within a step of positions the robot has reported, joint by
\* joint, for every set of positions and frames, and wherever the handler comes.
THEOREM TargetsNear == Spec => []SentNearReported
  <1>1. Init => StatInv /\ HaltInv /\ OneClient /\ Gathered /\ SentNearReported
    <2> SUFFICES ASSUME Init
                 PROVE  StatInv /\ HaltInv /\ OneClient /\ Gathered /\ SentNearReported
      OBVIOUS
    <2>1. StatInv
      BY DEF Init, ApiInit, StatInv, NoStat, SystemStats, Unknown
    <2>2. HaltInv /\ OneClient
      BY DEF Init, BridgeInit, HaltInv, OneClient, Stopping
    <2>3. Gathered /\ SentNearReported
      BY DEF Init, BridgeInit, Gathered, Doing, Stopping, SentNearReported
    <2> QED
      BY <2>1, <2>2, <2>3
  <1>2. StatInv /\ HaltInv /\ OneClient /\ Gathered /\ SentNearReported /\ [Next]_vars
          => (StatInv /\ HaltInv /\ OneClient /\ Gathered /\ SentNearReported)'
    BY StatStep, HaltStep, OneClientStep, GatheredStep, SentStep
  <1> QED
    BY <1>1, <1>2, PTL DEF Spec

-----------------------------------------------------------------------------
(* What the start pose script has seen *)

\* A script that is about to report the pose has seen both kinds of joints there in this
\* look, and what it is about to compare it has seen in this look.
SeenInv ==
    /\ phase \in {"before", "settle"}
    /\ mover \in {"finally", "reached"} =>
          /\ {<<"measured", Target>>, <<"reference", Target>>} \subseteq seen
          /\ phase = "settle"
    /\ mover = "compare" =>
          /\ measured # Unknown => <<"measured", measured>> \in seen
          /\ Held(stat) \subseteq seen

\* Each getter reports what the frame of its moment says; the script compares both.
LEMMA SeenStep == OneClient /\ SeenInv /\ [Next]_vars => SeenInv'
  <1> SUFFICES ASSUME OneClient, SeenInv, [Next]_vars PROVE SeenInv'
    OBVIOUS
  <1>1. CASE UNCHANGED <<mover, phase, measured, stat, seen>>
    BY <1>1 DEF SeenInv
  <1>2. CASE Daemons
    <2>1. seen \subseteq seen' /\ (mover = "compare" => Held(stat') \subseteq seen')
      BY <1>2 DEF Daemons
    <2> QED
      BY <1>2, <2>1 DEF Daemons, moverVars, SeenInv, Held
  <1>3. CASE BridgeStep \/ Signal
    BY <1>3, BridgeRuns DEF BridgeStep, Signal, OneClient, moverVars, SeenInv
  <1>4. CASE MoverStep /\ ReadMeasured
    BY <1>4 DEF MoverStep, ReadMeasured, Measured, Held, apiVars, SeenInv
  <1>5. CASE MoverStep /\ ReadReference
    <2>1. mover = "compare" /\ phase' = phase /\ (mover' = "finally" => seen' = seen)
      BY <1>5 DEF MoverStep, ReadReference
    <2>2. CASE mover' = "finally"
      <3>1. /\ measured = Target /\ Reference = Target
            /\ Unknown \notin {measured, Reference}
            /\ phase # "before"
        BY <1>5, <2>2 DEF ReadReference, Settled
      <3>2. <<"measured", Target>> \in seen
        BY <2>1, <3>1 DEF SeenInv
      <3>3. <<"reference", Target>> \in seen
        BY <2>1, <3>1 DEF SeenInv, Held, Reference
      <3>4. phase = "settle"
        BY <3>1 DEF SeenInv
      <3> QED
        BY <2>1, <2>2, <3>2, <3>3, <3>4 DEF SeenInv
    <2>3. CASE mover' # "finally"
      BY <1>5, <2>1, <2>3 DEF ReadReference, SeenInv
    <2> QED
      BY <2>2, <2>3
  <1>6. CASE MoverStep /\ MoverLeaves
    BY <1>6 DEF MoverStep, MoverLeaves, SeenInv
  <1>7. CASE MoverStep /\ ~ReadMeasured /\ ~ReadReference /\ ~MoverLeaves
    BY <1>7 DEF MoverStep, Mover, MoverConnect, MoverInitialise, MoveJ, SeenInv
  <1>8. CASE \E deadline \in {"snapshot", "settle"} : Clock(deadline)
    BY <1>1, <1>8 DEF Clock, DeadlinePasses, apiVars
  <1>9. CASE UNCHANGED vars
    BY <1>1, <1>9 DEF vars, moverVars, apiVars
  <1> QED
    BY <1>2, <1>3, <1>4, <1>5, <1>6, <1>7, <1>8, <1>9 DEF Next, MoverStep

\* The script says it has reached the pose only if both kinds of joints were there in its
\* last look, taken after its move: for every set of positions and every target.
THEOREM ReachedSeen == Spec => []ReachedWasSeen
  <1>1. Init => OneClient /\ SeenInv
    BY DEF Init, BridgeInit, MoverInit, OneClient, SeenInv
  <1>2. SeenInv => ReachedWasSeen
    BY DEF SeenInv, ReachedWasSeen
  <1> QED
    BY <1>1, <1>2, OneClientStep, SeenStep, PTL DEF Spec
================================================================================
