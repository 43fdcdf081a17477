SPECIFICATION SysFairSpec
CONSTANTS
    None = None
    Sessions = {s1}
    Grants = {}
    Sockets = {}
    MaxLinks = 2
    SessionCapacity = 1
    SessionTtl = 1
    GrantTtl = 1
    ReapEvery = 2
    RetainFor = 0
    Horizon = 3
    QueueBound = 1
    MaxSessions = 1
    WireBound = 2
INVARIANTS
    OrphansAreStopped
    ReadyMeansHeld
PROPERTIES
    OrphansGoAway
