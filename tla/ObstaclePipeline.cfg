CONSTANTS
    Sensors = {1}
    Stale = 1
    Stride = 2
    MaxSpheres = 1
    MinCluster = 2
    Images <- MCImages
    Landmarks <- MCLandmarks
    Core <- MCCore
    Limbs <- MCLimbs
    MinJoints = 0
    MinCore = 1
    BodyMinJoints = 1
    ProcessEveryN = 2
    Groups <- MCGroups
    Arrays <- MCArrays
    MaxTopics = 3
    SensorCount = 20
    Setups <- MCSetups
    Clouds <- MCClouds
    Depths <- MCDepths
    Colors <- MCColors
    Lifetime = 1
SPECIFICATION Spec
INVARIANTS ControllerFresh CameraSurvivesClear GateClears NoGhosts LogCoversController LoggerSurvives
PROPERTIES ObstaclesExpire
CHECK_DEADLOCK FALSE
