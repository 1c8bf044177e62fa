SPECIFICATION FairSpec
CONSTANTS
    MaxGoals = 2
    MaxFlags = 4
    Configs <- LoopConfigs
INVARIANTS
    TypeOK
    StandbyBudget
    SolvesExternalGoal
    UngatedHoldSafe
PROPERTIES
    HoldFollowsStandby
