SPECIFICATION SysSpec
CONSTANTS
    None = None
    Sessions = {s1, s2}
    Grants = {}
    Sockets = {}
    MaxLinks = 1
    SessionCapacity = 1
    SessionTtl = 1
    GrantTtl = 1
    ReapEvery = 2
    RetainFor = 0
    Horizon = 3
    QueueBound = 1
    MaxSessions = 1
    WireBound = 2
SYMMETRY Interchangeable
INVARIANTS
    BridgeNeverRejects
    QuietAfterClosed
