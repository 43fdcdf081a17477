SPECIFICATION FairSpec
CONSTANTS
    MaxSpeeches = 2
    MaxSamples = 4
    FrameSamples = 2
    Prebuffer = 2
    PushMax = 3
INVARIANTS
    ReportsAreTrue
    BargeInSilences
    OneAtATime
    StopSilences
PROPERTIES
    SpeechEnds
CHECK_DEADLOCK FALSE
