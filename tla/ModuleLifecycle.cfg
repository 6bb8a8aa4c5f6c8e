SPECIFICATION FairSpec
CONSTANTS
    Caller = {k1, k2}
    Worker = {w1, w2}
    NoWorker = NoWorker
    SlowLoops = TRUE
INVARIANTS
    LifecycleInv
    CleanUse
PROPERTIES
    Quiesces
    CleanSettles
    CallsReturn
