SPECIFICATION Spec
CONSTANTS
    HistorySize = 3
    ChunkMax = 2
    MaxWrites = 5
    MaxPadding = 1
    Padding = Padding
INVARIANT NewestAtWrites
