CONSTANTS
    SensorNames = {a, b, c}
    Range_m = 1
    Inactive_m = 9
    ApproachStart_m = 5
    ApproachEnd_m = 6
    InactiveRange = 9
    MinimumValid = 1
    MaximumValid = 8
    Benches <- MCBenches
    RunnerDelay = 1
    MaxGoals = 3
    Horizon = 7
SPECIFICATION Spec
INVARIANTS RivalsKnown DrawsAreEven ReplayFollowsGoal
PROPERTIES FixedRunEnds
CHECK_DEADLOCK FALSE
