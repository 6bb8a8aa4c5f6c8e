SPECIFICATION Spec
CONSTANTS
    Zone = {zoneA}
    Region <- MCRegion
    Frame <- MCFrame
    MaxDisappeared = 1
    IouNum = 3
    IouDen = 10
    CrowdThreshold = 2
    LoiterSeconds = 1
    HistoryLen = 3
    MinHistory = 2
    SpeedNum = 1
    SpeedDen = 3
    MaxFrames = 5
    MaxTracks = 5
    MaxTime = 2
INVARIANTS
    VisualInv
    FrameAccounted
    IsolatedKeepsIdentity
    ZoneStints
CHECK_DEADLOCK FALSE
