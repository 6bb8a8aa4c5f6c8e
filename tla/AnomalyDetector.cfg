SPECIFICATION Spec
CONSTANTS
    BaselineWindows = 2
    Smoothing = 4
    Grid = 1
    Threshold = 2
    Precision = 10
    DdosPps = 3
    ScanPorts = 2
    ExfilBytes = 10
    MaxWindows = 7
    MCWindow <- MCTraffic
INVARIANTS
    ForestIsRecent
    ScoresBounded
CHECK_DEADLOCK FALSE
