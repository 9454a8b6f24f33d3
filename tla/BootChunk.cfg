SPECIFICATION Spec
CONSTANTS
    N = 2
    Hart = {0, 1}
    MaxRounds = 1
    ChunkWords = 2
PROPERTY EveryHartStarts
CHECK_DEADLOCK FALSE
