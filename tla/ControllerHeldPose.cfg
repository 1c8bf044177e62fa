SPECIFICATION Spec
CONSTANTS
    MaxGoals = 0
    MaxFlags = 0
    Configs <- HoldConfigs
INVARIANT
    HeldPoseSafe
