SPECIFICATION Spec
CONSTANTS
    MaxGoals = 1
    MaxFlags = 0
    Configs <- UngatedConfigs
INVARIANT
    GoalKept
