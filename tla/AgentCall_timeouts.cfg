CONSTANTS
    Mode = "fs_bridge"
    BargeInEnabled = TRUE
    Reliable = FALSE
    QueueSize = 1
    HistoryCap = 3
    MaxGeneration = 3
    MaxChunks = 1
SPECIFICATION FairSpec
INVARIANT NothingLeftBehind
PROPERTIES InterruptEnds HandlerReturns
