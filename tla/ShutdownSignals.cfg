SPECIFICATION FairSpec
CONSTANTS
    Sessions = {s1, s2}
    Signals = {t1, t2}
    Main = Main
    None = None
INVARIANTS
    StoppedOnce
    NothingLeftRunning
    ServiceLast
PROPERTIES
    SignalEnds
CHECK_DEADLOCK FALSE
