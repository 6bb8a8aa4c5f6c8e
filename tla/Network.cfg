SPECIFICATION FairSpec
CONSTANTS
    BaselineWindows = 1
    Smoothing = 2
    Grid = 1
    Threshold = 0
    Precision = 10
    DdosPps = 0
    ScanPorts = 1
    ExfilBytes = 256
    WindowTicks = 2
    QueueSize = 1
    MaxYield = 2
    PacketSizes <- MCSizes
    CommonPorts <- MCPorts
    FloodSize = 1
    StartTime = 2
    MaxRuns = 2
    MaxBatch = 1
    MaxPackets = 3
    MaxTime = 6
INVARIANTS
    NetworkInv
    OneGenerator
    PacketsInTheirWindow
PROPERTY
    Halts
CHECK_DEADLOCK FALSE
