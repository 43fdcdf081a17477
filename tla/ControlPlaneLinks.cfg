SPECIFICATION FairSpec
CONSTANTS
    None = None
    Sessions = {s1}
    Grants = {}
    Sockets = {k1, k2}
    MaxLinks = 2
    SessionCapacity = 1
    SessionTtl = 1
    GrantTtl = 1
    ReapEvery = 1
    RetainFor = 0
    Horizon = 2
    QueueBound = 1
INVARIANTS
    LatestBridgeRegistered
    OfflineReleasesAll
    RegisteredLinksLive
PROPERTIES
    ClientToldWhenCut
    SessionsForgotten
    ReplacedLinksEnd
CHECK_DEADLOCK FALSE
