SPECIFICATION Spec
CONSTANTS
    BargeSettings = {1, 2}
    PreFrames = 2
    MinFrames = 3
    MaxFrames = 6
    SilenceLimit = 2
    CallLength = 8
INVARIANTS TypeOK MatchesReference InterruptedOnlyBySpeech HearsNoEcho
\* the bounded call is over
CHECK_DEADLOCK FALSE
