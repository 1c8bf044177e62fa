---------------------------- MODULE ExperimentBench ----------------------------
(***************************************************************************)
(* What every goal script stands on: the arm behind the controller, the     *)
(* topics /goal_pose and /RMP_flag into it, and /rmp_ee_pose out of it with *)
(* the subscription queue (KEEP_LAST) that a script empties one message per *)
(* spin_once.  The arm and its controller are external to the scripts: here *)
(* an active controller may move the arm anywhere, an inactive one keeps it.*)
(***************************************************************************)
EXTENDS Naturals, Sequences, SequencesExt

CONSTANTS
    Positions,    \* places of the TCP that the tolerances tell apart
    Depth         \* history depth of the pose subscription (10 in the scripts)

ASSUME BenchAssumption == Depth \in Nat \ {0} /\ "none" \notin Positions

VARIABLES
    arm,        \* where the TCP is
    goalSeen,   \* last goal the controller received
    flagSeen,   \* last /RMP_flag value the controller received
    matched,    \* topics the controller's subscriptions are matched on
    poses,      \* pose messages waiting in the script's subscription
    recent,     \* history: the last Depth + 1 positions published
    cached      \* latest_ee_pose of the script

benchVars == <<arm, goalSeen, flagSeen, matched, poses, recent, cached>>

Topics == {"goal", "flag"}
OrNone(S) == S \cup {"none"}

BenchTypeOK ==
    /\ arm \in Positions
    /\ goalSeen \in OrNone(Positions)
    /\ flagSeen \in {0, 1}
    /\ matched \subseteq Topics
    /\ poses \in Seq(Positions) /\ Len(poses) <= Depth
    /\ recent \in Seq(Positions) /\ Len(recent) <= Depth + 1
    /\ cached \in OrNone(Positions)

BenchInit ==
    /\ arm \in Positions
    /\ goalSeen = "none"
    /\ flagSeen \in {0, 1}
    /\ matched \in SUBSET Topics
    /\ poses = <<>>
    /\ recent = <<>>
    /\ cached = "none"

\* KEEP_LAST: a full queue loses its oldest message.
Push(queue, value, bound) ==
    Append(IF Len(queue) < bound THEN queue ELSE Tail(queue), value)

\* The controller publishes the pose of the arm, which it moves when active.
ArmPublishes ==
    /\ arm' \in IF flagSeen = 1 /\ goalSeen # "none" THEN Positions ELSE {arm}
    /\ poses' = Push(poses, arm', Depth)
    /\ recent' = Push(recent, arm', Depth + 1)
    /\ UNCHANGED <<goalSeen, flagSeen, matched, cached>>

SubscriptionMatches ==
    /\ \E topic \in Topics \ matched : matched' = matched \cup {topic}
    /\ UNCHANGED <<arm, goalSeen, flagSeen, poses, recent, cached>>

-----------------------------------------------------------------------------
(* What a script does: publish and spin *)

\* A volatile topic loses what is published before its subscription matches.
PublishFlag(value) == flagSeen' = IF "flag" \in matched THEN value ELSE flagSeen
PublishGoal(position) == goalSeen' = IF "goal" \in matched THEN position ELSE goalSeen

SpinForFirstOnly ==
    /\ cached' = IF poses = <<>> \/ cached # "none" THEN cached ELSE Head(poses)
    /\ poses' = IF poses = <<>> THEN poses ELSE Tail(poses)

\* spin_once runs at most one ready callback: here on_ee_pose.
SpinOnce ==
    /\ cached' = IF poses = <<>> THEN cached ELSE Head(poses)
    /\ poses' = IF poses = <<>> THEN poses ELSE Tail(poses)

================================================================================
