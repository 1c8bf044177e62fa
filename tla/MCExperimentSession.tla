-------------------------- MODULE MCExperimentSession --------------------------
(***************************************************************************)
(* Instance of the experiment session for TLC: the menu, a streamed single  *)
(* run, a trajectory of fixed durations, a --stop process, and the three    *)
(* smaller scripts.                                                         *)
(***************************************************************************)
EXTENDS ExperimentSession

MCPositions == {"home", "away"}

Line(mode, what, stream, fixed, timeout) ==
    [mode |-> mode, kind |-> what[1], name |-> what[2], record |-> TRUE,
     stream |-> stream, fixed |-> fixed, timeout |-> timeout, activate |-> TRUE,
     post |-> 1, zeroOnExit |-> mode # "off"]

MCPoseFile ==
    [poses |-> [a |-> "home"],
     trajectories |-> [tour |-> [poses |-> <<"a">>, repeat |-> 2]]]

MCConfigs ==
    {Line("menu", <<"pose", "a">>, FALSE, 0, 1),
     Line("once", <<"pose", "a">>, TRUE, 0, 0),
     Line("once", <<"trajectory", "tour">>, FALSE, 1, 0),
     Line("once", <<"trajectory", "a">>, FALSE, 1, 0),
     Line("stop", <<"pose", "a">>, FALSE, 0, 0),
     Line("off", <<"pose", "a">>, FALSE, 0, 0)}

StepTo(target, completion, settle) ==
    [target |-> target, position |-> "away", completion |-> completion,
     settle |-> settle]

MCScripts ==
    {[kind |-> "off", steps |-> <<StepTo("startup", "time", FALSE)>>, loops |-> 1],
     [kind |-> "tuning", loops |-> 2,
      steps |-> <<StepTo("startup", "reach", TRUE), StepTo("offset", "reach", FALSE),
                  StepTo("absolute", "time", FALSE)>>],
     [kind |-> "tuning", steps |-> <<StepTo("unsupported", "time", FALSE)>>, loops |-> 1],
     [kind |-> "cli", steps |-> <<StepTo("absolute", "time", FALSE)>>, loops |-> 1],
     [kind |-> "capture", steps |-> <<StepTo("absolute", "time", FALSE)>>, loops |-> 1]}
================================================================================
