SPECIFICATION FairSpec
CONSTANTS
    alerts = alerts
    socket = socket
    Publisher = {p1, p2}
    Subscription <- MCSubscription
    Event <- MCEvent
    Filter <- MCFilter
    Any = "any"
    MaxHistory = 2
    MaxEvents = 3
INVARIANTS
    BusInv
    CalledAsOwed
    PublisherOrder
PROPERTY
    AllDelivered
CHECK_DEADLOCK FALSE
