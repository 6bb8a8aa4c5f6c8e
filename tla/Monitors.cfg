SPECIFICATION MCSpec
CONSTANTS
    Monitor <- MCMonitor
    HistorySize = 1
    MaxLines = 3
    MaxPolls = 3
    WindowSize = 2
    BaselineTicks = 1
    Drift = 1
    CusumThreshold = 4
    Deviation <- MCDeviation
    MaxTicks = 6
INVARIANTS
    LogInv
    FinanceInv
CHECK_DEADLOCK FALSE
