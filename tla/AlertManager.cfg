SPECIFICATION FairSpec
CONSTANTS
    visual = visual
    network = network
    Thread = {t1, t2}
    t1 = t1
    t2 = t2
    Source <- OneThreadEach
    Event <- MCEvent
    NoObject = ""
    Cooldown = 2
    Window = 2
    Count = 2
    MaxAlerts = 2
    StartTime = 2
    MaxTime = 5
    MaxEvents = 3
INVARIANTS
    AlertInv
    MarksStandForAlerts
    CooldownHeld
    EscalationExact
PROPERTY
    PassedFires
CHECK_DEADLOCK FALSE
