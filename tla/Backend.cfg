SPECIFICATION FairSpec
CONSTANTS
    CanStall = TRUE
    Configs <- BackendConfigs
INVARIANTS
    TypeOK
    FallbackNeverWritten
    StopBudget
    FlowControl
PROPERTIES
    SendsInOrder
    NoMotionAfterHalt
    ImplementsGate
    DestructorEnds
