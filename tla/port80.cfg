SPECIFICATION Spec
CONSTANTS
    HistorySize = 5
    ChunkMax = 2
    MaxWrites = 12
    MaxPadding = 2
    Padding = Padding
INVARIANTS TypeOK NothingOlderThanWrites LaterPositionsAreLater
PROPERTY EveryReadEnds
