SPECIFICATION Spec
CONSTANTS
    None = None
    Sessions = {s1, s2}
    Grants = {g1}
    Sockets = {k1}
    MaxLinks = 1
    SessionCapacity = 1
    SessionTtl = 1
    GrantTtl = 2
    ReapEvery = 2
    RetainFor = 1
    Horizon = 5
    QueueBound = 1
SYMMETRY Interchangeable
INVARIANTS
    TypeOK
    GrantSpentOnce
    AdmissionBound
    NoOverstay
PROPERTIES
    GrantNotWasted
    ImplementsService
CHECK_DEADLOCK FALSE
