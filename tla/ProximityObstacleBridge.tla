------------------------ MODULE ProximityObstacleBridge ------------------------
(***************************************************************************)
(* proximity_obstacle_bridge.cpp: the latest range of every sensor becomes  *)
(* a marker of each cycle's message, under the /RMP_flag gate.  The surface *)
(* patch memory and the visualization topics are left out.                  *)
(***************************************************************************)
EXTENDS MarkerConsumers, FiniteSets

CONSTANT Sensors      \* 1 .. n: the order of latest_ranges_

ASSUME ProximityAssumption == IsFiniteSet(Sensors) /\ Sensors \subseteq Nat

VARIABLES
    ranges,           \* latest_ranges_: "near", "far", or "unusable", as if none had come
    enabled,          \* sensors whose range topic is enabled
    rmpActive,        \* rmp_active_
    cleared           \* obstacles_cleared_for_inactive_

proximityVars == <<ranges, enabled, rmpActive, cleared>>

Readings == {"unusable", "near", "far"}

ProximityTypeOK ==
    /\ ranges \in [Sensors -> Readings]
    /\ enabled \subseteq Sensors
    /\ rmpActive \in BOOLEAN /\ cleared \in BOOLEAN

ProximityInit ==
    /\ ranges = [s \in Sensors |-> "unusable"]
    /\ enabled = Sensors
    /\ rmpActive = FALSE
    /\ cleared = FALSE

\* The last range is kept for ever: its age is not looked at.
OnRange ==
    /\ \E s \in enabled, reading \in Readings :
           ranges' = [ranges EXCEPT ![s] = reading]
    /\ UNCHANGED <<enabled, rmpActive, cleared>>

\* Every inactive flag message makes the next cycle clear again.
OnRmpFlag(active) ==
    /\ rmpActive' = active
    /\ cleared' = (cleared /\ active)
    /\ UNCHANGED <<ranges, enabled>>

\* A sensor switched off loses its subscription and its last range.
OnSetParameters ==
    /\ enabled' \in SUBSET Sensors
    /\ ranges' = [s \in Sensors |-> IF s \in enabled' THEN ranges[s] ELSE "unusable"]
    /\ UNCHANGED <<rmpActive, cleared>>

Gone(s, ignored) == s \in ignored \/ s \notin enabled \/ ranges[s] = "unusable"

SensorMarker(s, ignored) ==
    IF ~Gone(s, ignored) /\ ranges[s] = "near"
      THEN Add(<<"prox", s>>, 0) ELSE Delete(<<"prox", s>>)

\* The sensors of a message, and their order in it.
Sending(ignored, lost) == {s \in Sensors : Gone(s, ignored) \/ s \notin lost}
Nth(sensors, i) == CHOOSE s \in sensors : Cardinality({t \in sensors : t <= s}) = i

\* What publish_obstacles sends: one message, or with the gate on and the flag
\* down one DELETEALL and then nothing; "ignored" are the sensors the elbow
\* switches off, "lost" those without a transform, skipped without a DELETE.
ObstacleMessages(gate, ignored, lost) ==
    IF gate /\ ~rmpActive
      THEN IF cleared THEN <<>> ELSE << <<DeleteAll>> >>
      ELSE LET sending == Sending(ignored, lost)
           IN << [i \in 1 .. Cardinality(sending) |-> SensorMarker(Nth(sending, i), ignored)] >>

Clear(gate) == cleared' = (gate /\ ~rmpActive)

================================================================================
