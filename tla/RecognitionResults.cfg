SPECIFICATION FairSpec
CONSTANTS
    QueueMax = 2
    MaxFrames = 5
    MaxCommits = 2
INVARIANTS
    FinalIsLast
    SequenceInOrder
    FinalsInOrder
    ClosedIsLast
PROPERTIES
    StopEnds
CHECK_DEADLOCK FALSE
