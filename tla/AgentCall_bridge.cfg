CONSTANTS
    Mode = "fs_bridge"
    BargeInEnabled = TRUE
    Reliable = TRUE
    QueueSize = 1
    HistoryCap = 3
    MaxGeneration = 5
    MaxChunks = 3
SPECIFICATION Spec
INVARIANTS TypeOK CallerHasFloor NoStaleAudio
PROPERTIES SupersededIsMute
