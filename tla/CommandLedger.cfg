SPECIFICATION FairSpec
CONSTANTS
    Command = {c1, c2}
    NoCommand = NoCommand
    Poller = {p1, p2}
    MaxFaults = 1
INVARIANTS
    LedgerInv
    ClaimsBounded
    AnnouncementsAccounted
    ExecutingIsHeld
PROPERTIES
    ImplementsLifecycle
    ApprovedIsTaken
    StopDrains
