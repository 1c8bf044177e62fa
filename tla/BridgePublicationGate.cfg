SPECIFICATION Spec
CONSTANTS
    MaxCommands = 1
    CanStall = FALSE
    Configs <- LaunchConfigs
INVARIANT
    PublicationGateHolds
