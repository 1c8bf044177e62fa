------------------------- MODULE FakeProximityScenario -------------------------
(***************************************************************************)
(* fake_proximity_scenario.py: ranges of a scenario that starts with the    *)
(* node, published for every sensor by a timer, together with the active    *)
(* flag.  Random scenarios draw their events in the constructor, from the   *)
(* list of names as it was given, in which a name may stand more than once: *)
(* without repeats the entries come out of a shuffled bag, which is filled  *)
(* again when it is empty, with repeats each event is a sample of its own.  *)
(* Times are timer periods and ranges whole units; all sensors not named    *)
(* in a scenario are like the ones that are not active.                     *)
(***************************************************************************)
EXTENDS Integers, Sequences, SequencesExt, FiniteSets, FiniteSetsExt

CONSTANTS
    SensorNames,     \* SENSOR_TOPIC_MAP
    Range_m, Inactive_m, ApproachStart_m, ApproachEnd_m

ASSUME RangesAssumption ==
    /\ {Range_m, Inactive_m, ApproachStart_m, ApproachEnd_m} \subseteq Nat
    /\ Range_m <= ApproachStart_m /\ Range_m <= ApproachEnd_m

VARIABLES
    scenario,        \* its parameters: [kind, names, start, duration, period, hold, count, together, repeats]
    bag,             \* bag: entries of the list left in the shuffled bag
    selected,        \* selected_names of the event being drawn, as entries
    events,          \* random_events: [start, end, entries]
    shown            \* sensor -> range of the last messages

scenarioVars == <<scenario, bag, selected, events, shown>>

\* The parameters a scenario is constructed with; some sensor is always named.
Scenarios ==
    [kind : STRING, names : Seq(SensorNames) \ {<<>>}, start : Nat, duration : Int,
     period : Nat \ {0}, hold : Nat, count : Nat, together : Nat \ {0}, repeats : BOOLEAN]

RandomKinds == {"random", "random_pulse"}
Nearest_m == Range_m
Farthest_m == Max({Inactive_m, ApproachStart_m, ApproachEnd_m})

ScenarioTypeOK ==
    /\ bag \subseteq DOMAIN scenario.names
    /\ selected \in Seq(DOMAIN scenario.names) /\ Len(selected) <= Len(scenario.names)
    /\ \A i \in DOMAIN events : events[i].entries \in Seq(DOMAIN scenario.names)
    /\ shown \in [SensorNames -> Nearest_m .. Farthest_m]

ScenarioInit(started) ==
    /\ scenario = started
    /\ bag = {} /\ selected = <<>> /\ events = <<>>
    /\ shown = [name \in SensorNames |-> Inactive_m]

-----------------------------------------------------------------------------
(* _make_random_events, one entry of the list at a time *)

IsRandom == scenario.kind \in RandomKinds
Entries == DOMAIN scenario.names
Together == Min({scenario.together, Len(scenario.names)})
Drawing == IsRandom /\ Len(events) < scenario.count

EventOf(entries) ==
    LET start == scenario.start + Len(events) * scenario.period
    IN [start |-> start, end |-> start + Max({scenario.hold, 1}), entries |-> entries]

RefillEarly == IF Cardinality(bag) < Together THEN Entries ELSE bag
Refill == IF bag = {} THEN Entries ELSE bag

DrawName ==
    /\ Drawing /\ ~scenario.repeats /\ Len(selected) < Together
    /\ \E entry \in Refill :
          /\ bag' = Refill \ {entry}
          /\ selected' = Append(selected, entry)
    /\ UNCHANGED <<scenario, events, shown>>

AddEvent ==
    /\ Drawing /\ ~scenario.repeats /\ Len(selected) = Together
    /\ events' = Append(events, EventOf(selected))
    /\ selected' = <<>>
    /\ UNCHANGED <<scenario, bag, shown>>

SampleEvent ==
    /\ Drawing /\ scenario.repeats
    /\ \E entries \in kSubset(Together, Entries) :
          events' = Append(events, EventOf(SetToSeq(entries)))
    /\ UNCHANGED <<scenario, bag, selected, shown>>

-----------------------------------------------------------------------------
(* What the timer publishes *)

InsideWindow(now) ==
    /\ now >= scenario.start
    /\ scenario.duration <= 0 \/ now <= scenario.start + scenario.duration

Phase(now) == (now - scenario.start) % scenario.period
CycleIndex(now) == ((now - scenario.start) \div scenario.period) % Len(scenario.names)

\* Down to range_m, held there, and back.
ApproachHoldRetreat(phase, total) ==
    LET hold == Min({scenario.hold, total})
        ramp == (total - hold) \div 2
    IN IF ramp = 0 THEN Range_m
       ELSE IF phase <= ramp
         THEN ApproachStart_m + (phase * (Range_m - ApproachStart_m)) \div ramp
       ELSE IF phase <= ramp + hold THEN Range_m
       ELSE Range_m + (Min({phase - ramp - hold, ramp}) * (ApproachEnd_m - Range_m)) \div ramp

Running(now) == {i \in DOMAIN events : events[i].start <= now /\ now <= events[i].end}

SensorsOf(event) == {scenario.names[entry] : entry \in ToSet(event.entries)}

CurrentActiveSet(now) ==
    CASE scenario.kind \in {"off", "none"} -> {}
      [] IsRandom -> UNION {SensorsOf(events[i]) : i \in Running(now)}
      [] scenario.kind = "pulse" ->
           IF now >= scenario.start /\ Phase(now) <= scenario.hold THEN ToSet(scenario.names) ELSE {}
      [] scenario.kind = "cycle" ->
           IF now >= scenario.start /\ Phase(now) <= scenario.hold
             THEN {scenario.names[CycleIndex(now) + 1]} ELSE {}
      [] OTHER -> IF InsideWindow(now) THEN ToSet(scenario.names) ELSE {}

ActiveRange(now) ==
    CASE scenario.duration > 0 /\ scenario.kind = "approach_retreat" ->
           ApproachHoldRetreat(now - scenario.start, scenario.duration)
      [] scenario.duration > 0 /\ scenario.kind = "approach" ->
           ApproachStart_m
             + ((now - scenario.start) * (Range_m - ApproachStart_m)) \div scenario.duration
      [] OTHER -> Range_m

EventRange(event, now) ==
    IF scenario.kind = "random_pulse" THEN Range_m
    ELSE ApproachHoldRetreat(now - event.start, event.end - event.start)

\* The nearest of the events a sensor is in.
SensorRange(name, now) ==
    IF name \notin CurrentActiveSet(now) THEN Inactive_m
    ELSE IF ~IsRandom THEN ActiveRange(now)
    ELSE Min({EventRange(events[i], now) :
                i \in {j \in Running(now) : name \in SensorsOf(events[j])}})

PublishScenario(now) ==
    /\ ~Drawing
    /\ shown' = [name \in SensorNames |-> SensorRange(name, now)]
    /\ UNCHANGED <<scenario, bag, selected, events>>

================================================================================
