SPECIFICATION Spec
CONSTANTS
    Caller = {k1}
    Worker = {w1, w2}
    NoWorker = NoWorker
    SlowLoops = FALSE
INVARIANT
    OneLoop
