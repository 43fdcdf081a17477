SPECIFICATION Spec
CONSTANTS
    FrameMs = {1, 2}
    PreRoll = 4
    SpeechStart = 3
    SpeechEnd = 3
    PartialInterval = 2
    MaxUtterance = 7
    MaxFrames = 8
INVARIANTS
    InOrderWithoutGaps
    SpeechKept
PROPERTIES
    ImplementsUtterances
CHECK_DEADLOCK FALSE
