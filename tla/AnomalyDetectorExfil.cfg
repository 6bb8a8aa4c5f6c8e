SPECIFICATION Spec
CONSTANTS
    BaselineWindows = 1
    Smoothing = 10
    Grid = 1
    Threshold = 3
    Precision = 10
    DdosPps = 3
    ScanPorts = 2
    ExfilBytes = 10
    MaxWindows = 2
    MCWindow <- MCSpike
INVARIANT SpikeIsExfiltration
CHECK_DEADLOCK FALSE
