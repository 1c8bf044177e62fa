SPECIFICATION Spec
CONSTANTS
    CanStall = FALSE
    Configs <- LaunchConfigs
INVARIANT
    StartupGateHolds
