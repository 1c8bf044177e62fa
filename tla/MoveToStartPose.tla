---------------------------- MODULE MoveToStartPose ----------------------------
(***************************************************************************)
(* move_to_saved_start_pose.py: one move to the saved pose, then a look at  *)
(* the measured and the reference joints until both are there.  A position  *)
(* stands for six joints, and Target for every one within the tolerance.    *)
(***************************************************************************)
EXTENDS CobotApi

CONSTANTS Target

ASSUME TargetAssumption == Target \in Positions

VARIABLES
    mover,        \* where the script is
    phase,        \* wait_for_joint_snapshot is called "before" the move or to "settle"
    measured,     \* measured_joint_fn's answer, until it is compared
    late          \* deadlines that have passed

moverVars == <<mover, phase, measured, late>>

MoverRuns == {"tocb", "init", "mode", "look", "compare", "move", "finally", "gaveUp"}
MoverEnded == {"failed", "reached", "error"}

MoverTypeOK ==
    /\ mover \in MoverRuns \cup MoverEnded \cup {"off"}
    /\ phase \in {"before", "settle"}
    /\ measured \in Positions \cup {Unknown}
    /\ late \subseteq {"snapshot", "settle"}

MoverInit ==
    /\ mover \in {"off", "tocb"}
    /\ phase = "before" /\ measured = Unknown /\ late = {}

\* Nothing that goes wrong before the try is followed by DisConnectToCB.
MoverConnect ==
    /\ mover = "tocb"
    /\ \E answered \in BOOLEAN :
          /\ ToCB(answered)
          /\ mover' = IF answered THEN "init" ELSE "failed"
    /\ UNCHANGED <<phase, measured, late>>

MoverInitialise(here, command, next) ==
    /\ mover = here
    /\ \E outcome \in SendOutcomes :
          /\ SendCommand(command, outcome)
          /\ mover' = IF outcome = "raised" THEN "failed" ELSE next
    /\ UNCHANGED <<phase, measured, late>>

\* wait_for_joint_snapshot: the two getters, one after the other, until both answer.
ReadMeasured ==
    /\ mover = "look"
    /\ IF "snapshot" \in late
         THEN mover' = "gaveUp" /\ UNCHANGED measured
         ELSE mover' = "compare" /\ measured' = Measured
    /\ UNCHANGED <<phase, late>>
    /\ UNCHANGED apiVars

\* The reference joints not looked at.
SettledMeasured(reference) == measured = Target

Settled(reference) == measured = Target /\ reference = Target

\* The second getter, and what is done with the two answers; the loop looks at the
\* settle time before it asks again.
ReadReference ==
    /\ mover = "compare"
    /\ mover' = IF Unknown \in {measured, Reference} THEN "look"
                ELSE IF phase = "before" THEN "move"
                ELSE IF Settled(Reference) THEN "finally"
                ELSE IF "settle" \in late THEN "gaveUp"
                ELSE "look"
    /\ late' = IF Unknown \in {measured, Reference} THEN late ELSE late \ {"snapshot"}
    /\ measured' = Unknown
    /\ UNCHANGED phase
    /\ UNCHANGED apiVars

\* MoveJ's answer is not looked at: a paused robot refuses it.
MoveJ ==
    /\ mover = "move"
    /\ \E outcome \in {"sent", "refused", "raised"} :
          /\ SendMove("move", outcome)
          /\ mover' = IF outcome = "raised" THEN "gaveUp" ELSE "look"
    /\ phase' = "settle"
    /\ UNCHANGED <<measured, late>>

\* finally: DisConnectToCB, then the return value or the exception.
MoverLeaves ==
    /\ mover \in {"finally", "gaveUp"}
    /\ DisConnectToCB
    /\ mover' = IF mover = "finally" THEN "reached" ELSE "error"
    /\ UNCHANGED <<phase, measured, late>>

DeadlinePasses(deadline) ==
    /\ mover \in {"look", "compare"} /\ deadline \notin late
    /\ deadline = "settle" => phase = "settle"
    /\ late' = late \cup {deadline}
    /\ UNCHANGED <<mover, phase, measured>>
    /\ UNCHANGED apiVars

Mover ==
    \/ MoverConnect
    \/ MoverInitialise("init", "init", "mode") \/ MoverInitialise("mode", "mode", "look")
    \/ ReadMeasured \/ ReadReference \/ MoveJ \/ MoverLeaves

================================================================================
