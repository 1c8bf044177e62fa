CONSTANTS
    Positions = {0, 1, 2}
    MaxStep = 1
    Target = 2
    Bridges <- MCBridges
    BridgeFrames <- MCBridgeFrames
    MoverFrames <- MCMoverFrames
SPECIFICATION Spec
INVARIANTS HaltedLast SentNearReported ReachedWasSeen
PROPERTIES ClientEnds
CHECK_DEADLOCK FALSE
