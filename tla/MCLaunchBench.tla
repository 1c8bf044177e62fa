---------------------------- MODULE MCLaunchBench ----------------------------
(***************************************************************************)
(* Instance of the launch bench for TLC: every launch file with the         *)
(* arguments its conditions read, scenarios of up to three sensors, and     *)
(* recordings of up to six rows.                                            *)
(***************************************************************************)
EXTENDS LaunchBench

Switch == {"true", "false"}
Topics == {"/joint_states", "/rb10/joint_states"}

Off == [kind |-> "off", names |-> SetToSeq(SensorNames), start |-> 0, duration |-> 0, period |-> 1,
        hold |-> 0, count |-> 0, together |-> 1, repeats |-> FALSE]
Window(kind, duration) ==
    [Off EXCEPT !.kind = kind, !.start = 1, !.duration = duration, !.hold = 1, !.period = 2]
Random(kind, together, repeats) ==
    [Off EXCEPT !.kind = kind, !.hold = 3, !.period = 2, !.count = 3,
                !.together = together, !.repeats = repeats]

\* Two sensors, one of which is listed twice.
Twice(started) == [started EXCEPT !.names = <<Head(@), Last(@), Last(@)>>]

Row(time, range) == [time |-> time, range |-> range]
Source(rows, duration, delay, trigger, loop, interpolate) ==
    [rows |-> rows, offset |-> 0, duration |-> duration, delay |-> delay,
     trigger |-> trigger, loop |-> loop, interpolate |-> interpolate, rate |-> 1]
NoSource == Source(<<>>, 0, 0, FALSE, FALSE, FALSE)
Recording == <<Row(5, 4), Row(NoTime, 3), Row(3, 2), Row(4, 99), Row(4, 3), Row(6, 0)>>

Arguments(file, direct, obstacles, proximity) ==
    [file |-> file, direct |-> direct, api |-> "true", obstacles |-> obstacles,
     proximity |-> proximity, surface |-> "true", record |-> "true",
     camera |-> "true", fake |-> "false", runner |-> "true",
     raw |-> "/joint_states", normalized |-> "/joint_states"]
Plain(file) == Arguments(file, "true", "true", "true")

Bench(args1, started, given) == [args |-> args1, scenario |-> started, source |-> given]

\* Argument sets: every word where conditions compare it, each topic the other's name.
ArgumentBenches ==
    LET base == {Arguments(file, direct, obstacles, proximity) :
                    file \in {"rmpflow", "test", "position", "camera", "record", "fake", "canonical"},
                    direct \in {"true", "truthy", "false"}, obstacles \in Switch, proximity \in Words}
        real == {[one EXCEPT !.api = api, !.raw = raw, !.normalized = normalized] :
                    one \in {two \in base : two.file \in {"rmpflow", "record"}},
                    api \in Switch, raw \in Topics, normalized \in Topics}
        odd == {[Plain(file) EXCEPT !.record = "neither", !.camera = "truthy"] :
                    file \in {"rmpflow", "test", "camera", "record"}}
    IN {Bench([one EXCEPT !.surface = surface], Off, NoSource) :
            one \in base \cup real \cup odd, surface \in Switch}
       \cup {Bench(Plain("model"), Off, NoSource)}

ScenarioBenches ==
    {Bench([Plain("gds") EXCEPT !.fake = "true"], started, NoSource) :
        started \in {Window("single", 3), Window("approach", 3), Window("approach_retreat", 4),
                     Window("approach_retreat", 1), Window("wall", 0), Window("pulse", 0),
                     Window("cycle", 0)}}
    \cup {Bench([Plain("gds") EXCEPT !.obstacles = obstacles, !.proximity = "truthy", !.fake = fake,
                                     !.runner = runner1], Off, NoSource) :
            obstacles \in Switch, fake \in {"truthy", "neither"}, runner1 \in Words}
    \cup {Bench([Plain("canonical") EXCEPT !.fake = "true"], started, NoSource) :
            started \in {Random("random", 2, FALSE), Random("random_pulse", 1, FALSE),
                         Random("random", 2, TRUE), Twice(Random("random", 2, FALSE))}}
    \cup {Bench(Plain("scenario"), Window("single", 3), NoSource)}

ReplayBenches ==
    {Bench(Plain("leaf"), Off, given) :
        given \in {Source(Recording, 0, 0, TRUE, TRUE, TRUE),
                   Source(Recording, 0, 1, TRUE, TRUE, FALSE),
                   Source(Recording, 2, 0, TRUE, FALSE, FALSE),
                   Source(Recording, 0, 1, FALSE, FALSE, FALSE),
                   Source(<<Row(1, 2), Row(1, 3)>>, 0, 0, TRUE, TRUE, TRUE),
                   Source(<<Row(1, 0), Row(2, 99)>>, 0, 0, TRUE, TRUE, TRUE)}}
    \cup {Bench(Plain("replay"), Off, Source(Recording, 0, 1, FALSE, TRUE, TRUE))}

MCBenches == ArgumentBenches \cup ScenarioBenches \cup ReplayBenches
================================================================================
