SPECIFICATION CredSpec
CONSTANTS
    Sessions = {s1}
    Environments <- Settings
    SecondMs = 2
    Horizon = 90
INVARIANTS
    GrantBuysSession
    TokensCoverSession
CHECK_DEADLOCK FALSE
