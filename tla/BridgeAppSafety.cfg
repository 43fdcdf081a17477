SPECIFICATION AppFairSpec
CONSTANTS
    None = None
    Sessions = {s1, s2, s3}
    MaxLinks = 2
    MaxSessions = 2
    WireBound = 2
INVARIANTS
    AppTypeOK
    HeldWithinLimit
    EmptyHandedReconnect
PROPERTIES
    LossIsCleared
