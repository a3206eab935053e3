CONSTANTS
    Mode = "mod_audio_stream"
    BargeInEnabled = TRUE
    Reliable = TRUE
    QueueSize = 1
    HistoryCap = 3
    MaxGeneration = 4
    MaxChunks = 2
SPECIFICATION FairSpec
INVARIANT HistoryInOrder
PROPERTIES TakesTurns ResponseEnds
