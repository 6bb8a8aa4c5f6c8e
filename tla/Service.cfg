\* One client request against another, a process that ends once, two modules.
SPECIFICATION FairSpec
CONSTANTS
    Client = {c1, c2}
    Thread <- MCThread
    Packages <- MCPackages
    MaxSessions = 2
    MaxEvents = 1
    MaxEnds = 1
INVARIANTS
    ServiceInv
    TaggedTruly
PROPERTY
    ShutsDown
\* A process that is down, and is not started again, stops.
CHECK_DEADLOCK FALSE
