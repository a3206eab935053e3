SPECIFICATION Spec
CONSTANTS
    MaxLength = 4
    ChunkLimit = 3
    MinSplit = 1
    QueueSize = 1
    MaxWire = 2
INVARIANTS TypeOK SaidAsReceived PausesAreKept
PROPERTIES AnsweredInTheEnd
