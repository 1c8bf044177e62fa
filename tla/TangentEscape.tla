---------------------------- MODULE TangentEscape ----------------------------
(***************************************************************************)
(* The escape supervisor of the solver (tangent_escape_canonical.cpp): it  *)
(* latches one control point/obstacle pair and one direction to slide      *)
(* along, fades the direction's metric in and out, and hands over to       *)
(* another pair or direction.  One SolveEscape is one call of              *)
(* accumulate_tangent_escape_impl, made by a tick of the control loop that *)
(* gets to the solver; a tick that does not is a stuttering step.  Angles, *)
(* scores and speeds are seen through the tests made of them: a test's     *)
(* outcome is any, unless what the solve has done before decides it.       *)
(***************************************************************************)
EXTENDS Integers, FiniteSets

CONSTANTS
    Models,          \* acceleration_model: "canonical_velocity", "risk_damped"
    Pairs,           \* control point/obstacle pairs that may be sensed
    Axes,            \* tangent directions, told apart by kCandidateDuplicateDot
    None,
    MaxBlockage,     \* blockage B of a pair, in steps; 0 is none
    MinActivation,   \* min_activation, release_blockage_threshold and
    ReleaseBlockage, \* pair_switch_margin, in the same steps
    SwitchMargin,
    HandoffTicks,    \* handoff_duration, drive_ramp_duration,
    DriveRampTicks,  \* reselect_brake_timeout and minimum_drive_duration,
    BrakeTicks,      \* in solves
    MinDriveTicks

ASSUME EscapeAssumption ==
    /\ Models \subseteq {"canonical_velocity", "risk_damped"}
    /\ None \notin Pairs \cup Axes
    /\ Cardinality(Axes) <= 4    \* tangent_escape_failure_memory_count_
    /\ {MaxBlockage, MinActivation, ReleaseBlockage, SwitchMargin} \subseteq Nat
    /\ 0 < ReleaseBlockage /\ ReleaseBlockage <= MinActivation
    /\ MinActivation <= MaxBlockage
    /\ HandoffTicks \in Nat \ {0, 1}
    /\ {DriveRampTicks, BrakeTicks, MinDriveTicks} \subseteq Nat \ {0}

VARIABLES
    model,         \* acceleration_model, fixed at the start
    escape,        \* TangentEscapeCanonicalState
    calm,          \* history: nothing is sensed, the arm and the goal rest
    reselecting,   \* history: solves that have ended in a reselect phase
    learntOn       \* history: the pair whose directions are remembered

escapeVars == <<model, escape, calm, reselecting, learntOn>>

Release == {"ReleaseDriveDown", "ReleaseBrake", "ReleaseLambdaDown"}
Reselect == {"ReselectDriveDown", "ReselectBrake", "ReselectLambdaDown"}
Phases == {"Off", "Engage", "Drive"} \cup Release \cup Reselect

\* lambda: out, on a ramp, full.
Out == 0
Partial == 1
Full == 2

Least(a, b) == IF a <= b THEN a ELSE b
LongestTicks ==
    CHOOSE n \in {HandoffTicks, DriveRampTicks, BrakeTicks, MinDriveTicks} :
        \A m \in {HandoffTicks, DriveRampTicks, BrakeTicks, MinDriveTicks} : m <= n

Escapes ==
    [phase: Phases, elapsed: 0..LongestTicks,
     active: Pairs \cup {None}, pending: Pairs \cup {None}, axis: Axes \cup {None},
     lambda: Out..Full, age: 0..MinDriveTicks, reason: 0..6, failing: BOOLEAN,
     memory: SUBSET Axes, blockage: 0..MaxBlockage]

EscapeTypeOK ==
    /\ model \in Models
    /\ escape \in Escapes
    /\ escape.phase = "Off" <=> escape.active = None
    /\ calm \in BOOLEAN
    /\ reselecting \in Nat
    /\ learntOn \in Pairs \cup {None}

EscapeInit ==
    /\ model \in Models
    /\ escape = [phase |-> "Off", elapsed |-> 0, active |-> None, pending |-> None,
                 axis |-> None, lambda |-> Out, age |-> 0, reason |-> 0,
                 failing |-> FALSE, memory |-> {}, blockage |-> 0]
    /\ calm = FALSE
    /\ reselecting = 0
    /\ learntOn = None

RiskDamped == model = "risk_damped"

-----------------------------------------------------------------------------
(* What a solve senses *)

\* The blockage of each pair, -1 for a pair that is not sensed.
Absent == -1
Readings ==
    IF calm THEN [Pairs -> {Absent}] ELSE [Pairs -> Absent..MaxBlockage]

\* best_pair: the first of the most blocked, in the order of the obstacle list.
BestPairs(b) == {p \in Pairs : b[p] > Absent /\ \A q \in Pairs : b[q] <= b[p]}

\* minimum_pair_activation; B > 0 in the risk-damped model.
EntryBlockage == IF RiskDamped THEN 1 ELSE MinActivation

Enterable(b) == {p \in BestPairs(b) : b[p] >= EntryBlockage}

-----------------------------------------------------------------------------
(* start_phase, clear_active_episode, activate_pair *)

StartPhase(s, phase) == [s EXCEPT !.phase = phase, !.elapsed = 0]

ClearedButMemory(s) ==
    [s EXCEPT !.phase = "Off", !.elapsed = 0, !.active = None, !.pending = None,
              !.lambda = Out, !.age = 0, !.failing = FALSE]

\* Direction and reason of the last handoff outlive the episode, its memory does not.
Cleared(s) ==
    [s EXCEPT !.phase = "Off", !.elapsed = 0, !.active = None, !.pending = None,
              !.lambda = Out, !.age = 0, !.failing = FALSE, !.memory = {}]

Activated(s, pair, axis) ==
    [s EXCEPT !.phase = "Engage", !.elapsed = 0, !.active = pair, !.pending = None,
              !.axis = axis, !.lambda = Out, !.age = 0, !.reason = 0]

\* The best direction that passes the hard gates is any; if none does, each
\* caller ends the episode.
Activations(s, pair, sameEpisode) ==
    LET t == IF sameEpisode THEN s ELSE [s EXCEPT !.memory = {}]
    IN {Activated(t, pair, axis) : axis \in Axes} \cup {Cleared(t)}

-----------------------------------------------------------------------------
(* The stages of a solve: each gives the states it may leave *)

Rested(s) == s.reason # 6 \/ s.elapsed >= MinDriveTicks

\* Entry from Off.  The risk-damped model drives at once.
AtFull(s) ==
    IF RiskDamped /\ s.active # None
      THEN [StartPhase(s, "Drive") EXCEPT !.lambda = Full] ELSE s

Entered(s, b) ==
    IF s.phase = "Off" /\ Rested(s) /\ Enterable(b) # {}
      THEN {AtFull(t) : t \in UNION {Activations(s, p, FALSE) : p \in Enterable(b)}}
      ELSE {s}

\* The risk-damped model lets go of a pair that no longer blocks, and takes
\* another one, at no effect, in the same solve.
LostFromSight(s, b) == RiskDamped /\ s.active # None /\ b[s.active] = Absent
Lost(s, b) == RiskDamped /\ s.active # None /\ b[s.active] <= 0

KeptAtFull(s, b) ==
    IF ~Lost(s, b) THEN {s} ELSE {Cleared(s)} \cup
       {AtFull(t) : t \in UNION {Activations(Cleared(s), p, FALSE) : p \in Enterable(b)}}

Kept(s, b) ==
    CASE ~Lost(s, b) -> {s}
      [] Lost(s, b) /\ Enterable(b) = {} -> {Cleared(s)}
      [] OTHER -> UNION {Activations(Cleared(s), p, FALSE) : p \in Enterable(b)}

FirstReselectPhase == IF RiskDamped THEN "ReselectLambdaDown" ELSE "ReselectDriveDown"

ReselectFor(s, pair, reason) ==
    [StartPhase(s, FirstReselectPhase) EXCEPT !.pending = pair, !.reason = reason]

ReleaseFor(s, reason) ==
    [StartPhase(s, "ReleaseDriveDown") EXCEPT !.reason = reason]

\* A direction chosen in this very solve is still tangent and still clear of the
\* other sectors; an older one may be neither.
Unfit(s, b) == IF b[s.active] > Absent /\ s.age > 0 THEN BOOLEAN ELSE {FALSE}

Rivals(s, b) == {p \in BestPairs(b) : b[s.active] > Absent /\ p # s.active
                                      /\ b[p] > b[s.active] + SwitchMargin}

\* A pair out of sight does not block either.
UnblockedInSight(s, b) == b[s.active] > Absent /\ b[s.active] < ReleaseBlockage
Unblocked(s, b) == b[s.active] < ReleaseBlockage

\* Whether the goal comes closer again; at rest it does not.
MayRecover(s) == s.age >= MinDriveTicks /\ ~calm

\* A new goal with the pair out of sight asks for nothing, and keeps the release
\* from being asked for.
AskedOf(s, b, changed, unfit) ==
    CASE Rivals(s, b) # {} -> {ReselectFor(s, p, 2) : p \in Rivals(s, b)}
      [] Rivals(s, b) = {} /\ (changed \/ unfit) ->
            {IF b[s.active] = Absent THEN s
             ELSE ReselectFor(s, s.active, IF changed THEN 3 ELSE 4)}
      [] OTHER ->
            IF RiskDamped THEN {s}
            ELSE IF Unblocked(s, b) THEN {ReleaseFor(s, 1)}
            ELSE {s} \cup (IF MayRecover(s) THEN {ReleaseFor(s, 6)} ELSE {})

Asked(s, b, changed) ==
    IF s.active = None THEN {s}
    ELSE UNION {AskedOf(s, b, changed, unfit) : unfit \in Unfit(s, b)}

-----------------------------------------------------------------------------
(* The phase's clock and what it brings about *)

Later(s, ticks) == Least(s.elapsed + ticks, LongestTicks)
Timed(s, ticks) == [s EXCEPT !.elapsed = Later(s, ticks)]

EngageTicks ==
    IF RiskDamped \/ HandoffTicks >= DriveRampTicks THEN HandoffTicks ELSE DriveRampTicks

Engaging(s) ==
    IF s.elapsed >= EngageTicks
      THEN {[StartPhase(s, "Drive") EXCEPT !.lambda = Full]}
      ELSE {[s EXCEPT !.lambda = IF s.elapsed >= HandoffTicks THEN Full
                                 ELSE IF s.elapsed > 0 THEN Partial ELSE Out]}

DrivingDown(s, brake) ==
    {IF s.elapsed >= DriveRampTicks THEN StartPhase(s, brake) ELSE s}

NoTimeout(s) == FALSE
\* Braking waits for the tangent speed and the speed reference to come down, as
\* both have when all is calm; only a reselect gives up waiting.
BrakeTimedOut(s) == s.phase = "ReselectBrake" /\ s.elapsed >= BrakeTicks

Braking(s, lambdaDown) ==
    IF BrakeTimedOut(s) \/ calm THEN {StartPhase(s, lambdaDown)}
    ELSE {s, StartPhase(s, lambdaDown)}

Faded(s) == s.elapsed >= HandoffTicks

\* remember_failed_direction, if the pair stays; else the memory is cleared.
Remembering(s) ==
    [s EXCEPT !.failing = FALSE,
              !.memory = IF s.pending # s.active THEN {}
                         ELSE IF s.failing THEN s.memory \cup {s.axis} ELSE s.memory]

\* The next direction of the same pair may be the old one again.
HandedOver(s, b) ==
    IF b[s.pending] < EntryBlockage THEN {Cleared(s)}
    ELSE Activations(Remembering(s), s.pending, s.pending = s.active)

FadingDown(s, b) ==
    LET t == [s EXCEPT !.lambda = Least(s.lambda, Partial)]
        out == [s EXCEPT !.lambda = Out]
    IN IF ~Faded(s) THEN {t}
       ELSE IF s.phase = "ReleaseLambdaDown" THEN {Cleared(out)}
       ELSE HandedOver(out, b)

Advanced(s, b) ==
    CASE s.phase \in {"Off", "Drive"} -> {s}
      [] s.phase = "Engage" -> Engaging(s)
      [] s.phase = "ReleaseDriveDown" -> DrivingDown(s, "ReleaseBrake")
      [] s.phase = "ReselectDriveDown" -> DrivingDown(s, "ReselectBrake")
      [] s.phase = "ReleaseBrake" -> Braking(s, "ReleaseLambdaDown")
      [] s.phase = "ReselectBrake" -> Braking(s, "ReselectLambdaDown")
      [] s.phase \in {"ReleaseLambdaDown", "ReselectLambdaDown"} -> FadingDown(s, b)

\* A driven direction that hardly moves, with the sectors' risk up or a joint
\* near saturation, has failed.
Monitored(s, b) ==
    LET t == [s EXCEPT !.age = IF s.active = None THEN s.age
                               ELSE Least(s.age + 1, MinDriveTicks),
                       !.blockage = IF s.active = None \/ b[s.active] = Absent THEN 0
                                    ELSE b[s.active]]
    IN {t} \cup
       (IF t.phase = "Drive" /\ b[t.active] > Absent /\ t.age >= MinDriveTicks
          THEN {[ReselectFor(t, t.active, 5) EXCEPT !.failing = TRUE]} ELSE {})

-----------------------------------------------------------------------------

\* What is asked of a pair is asked in the phase the solve began or entered it with.
AskedIn(entered, kept, b, changed) ==
    IF entered.phase \in {"Engage", "Drive"} THEN Asked(kept, b, changed) ELSE {kept}

\* Only a replaced pair's clock does not start in the same solve.
Ticked(entered, kept, b) == IF Lost(entered, b) /\ kept.active # None THEN 0 ELSE 1

\* One call.
SolveEscape ==
    /\ \E b \in Readings, changed \in (IF calm THEN {FALSE} ELSE BOOLEAN) :
       \E entered \in Entered(escape, b) :
       \E kept \in Kept(entered, b) :
       \E asked \in AskedIn(entered, kept, b, changed) :
       \E moved \in Advanced(Timed(asked, Ticked(entered, kept, b)), b) :
          escape' \in Monitored(moved, b)
    /\ reselecting' = IF escape'.phase \in Reselect THEN reselecting + 1 ELSE 0
    /\ learntOn' = IF escape'.memory = {} THEN None
                   ELSE IF escape'.memory = escape.memory THEN learntOn
                   ELSE escape.active
    /\ UNCHANGED <<model, calm>>

\* Everything the solver could react to goes away for good.
Calms ==
    /\ ~calm
    /\ calm' = TRUE
    /\ UNCHANGED <<model, escape, reselecting, learntOn>>

EscapeNext == SolveEscape \/ Calms

EscapeSpec == EscapeInit /\ [][EscapeNext]_escapeVars

\* The control loop solves again and again.
EscapeFairSpec == EscapeSpec /\ WF_escapeVars(SolveEscape)

-----------------------------------------------------------------------------
(* Properties *)

\* A latched pair or direction is exchanged only at zero effect, in whichever
\* phase the exchange is decided, and the metric never appears or vanishes at
\* once, but when the risk-damped model enters from Off or loses its pair.
SwapsAtZeroEffect ==
    [][/\ (escape.phase # "Off" /\ escape'.phase # "Off"
           /\ <<escape.active, escape.axis>> # <<escape'.active, escape'.axis>>)
            => escape'.lambda = Out
       /\ (escape.lambda = Out /\ escape'.lambda = Full)
            => RiskDamped /\ escape.phase = "Off"
       /\ (escape.lambda = Full /\ escape'.lambda = Out)
            => RiskDamped /\ escape'.active # escape.active]_escapeVars

\* In the risk-damped model "B=0 removes its metric and force in this same solve": no
\* solve, from whichever phase, ends with a pair that does not block.  In the other one
\* none ends engaging or driving with a pair in sight that blocks less than the release
\* threshold: the release has begun, or another pair or direction has been asked for.
UnblockedIsReleased ==
    IF RiskDamped THEN escape.active # None => escape.blockage > 0
    ELSE escape.phase \in {"Engage", "Drive"} => escape.blockage \notin 1..ReleaseBlockage - 1

\* "Memory persists for the current Escape episode": directions that failed on
\* one pair never weigh on another one, or on a later episode of the same pair.
MemoryOfEpisode ==
    escape.memory # {} => escape.active # None /\ escape.active = learntOn

\* A reselect "cannot wait forever for a base leaf that keeps driving the old
\* scalar axis": it hands over, or ends, within the three ramps.
ReselectBounded == reselecting <= DriveRampTicks + BrakeTicks + HandoffTicks

\* With nothing sensed, the arm at rest and the goal unchanged, every episode
\* ends, whatever phase it was in.
EscapeEnds == calm ~> escape.phase = "Off"

==============================================================================
