CONSTANTS
    MaxRequests = 2
    Positions <- MCPositions
    Depth = 1
    Configs <- MCConfigs
    MaxRuns = 2
    PoseFile <- MCPoseFile
    MaxPeriods = 1
    HoldPeriods = 1
    Settle = 1
    Waypoints = 2
    Scripts <- MCScripts
    Duration = 2
SPECIFICATION Spec
INVARIANTS RecordedWhileRunning DatasetsArePure StoppedIsDown
PROPERTIES ReachedIsRecent SessionEnds
CHECK_DEADLOCK FALSE
