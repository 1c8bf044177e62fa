SPECIFICATION Spec
CONSTANTS
    MaxCommands = 2
    CanStall = FALSE
    Configs <- BridgeConfigs
INVARIANTS
    TypeOK
PROPERTIES
    ImplementsGate
