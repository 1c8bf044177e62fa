SPECIFICATION EscapeFairSpec
CONSTANTS
    Models <- BothModels
    Pairs = {p, q}
    Axes = {u, v}
    None = None
    MaxBlockage = 4
    MinActivation = 3
    ReleaseBlockage = 2
    SwitchMargin = 1
    HandoffTicks = 2
    DriveRampTicks = 2
    BrakeTicks = 3
    MinDriveTicks = 4
INVARIANTS
    UnblockedIsReleased
    MemoryOfEpisode
    ReselectBounded
PROPERTIES
    SwapsAtZeroEffect
    EscapeEnds
