SPECIFICATION Spec
CONSTANTS
    None = None
    Sessions = {s1}
    Grants = {}
    Sockets = {}
    MaxLinks = 2
    SessionCapacity = 1
    SessionTtl = 1
    GrantTtl = 1
    ReapEvery = 1
    RetainFor = 1
    Horizon = 3
    QueueBound = 1
INVARIANTS
    DisconnectReleases
CHECK_DEADLOCK FALSE
