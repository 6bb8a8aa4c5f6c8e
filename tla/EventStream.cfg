SPECIFICATION FairStream
CONSTANTS
    p1 = p1
    p2 = p2
    visual = visual
    network = network
    Any = Any
    Publisher = {p1, p2}
    Subscription = {1, 2}
    Event <- MCEvent
    Filter <- MCFilter
    Query <- MCQuery
    MaxHistory = 1
    MaxEvents = 2
    MaxShown = 2
INVARIANTS
    StreamInv
    ShownInOrder
PROPERTY
    GoneEnds
    ImplementsDelivery
CHECK_DEADLOCK FALSE
